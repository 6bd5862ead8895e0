------------------------------ MODULE Referral ------------------------------
(***************************************************************************)
(* Referral codes of payments-svc: GET /passes/referral-code generates a   *)
(* code for a user without one, POST /passes/claim-referral rewards a new  *)
(* user and, up to a cap, the user whose code was claimed.                 *)
(*                                                                         *)
(* A request loads its own user row when it authenticates.  The SELECT ... *)
(* FOR UPDATE of claim_referral then takes the row lock, but the session's *)
(* identity map hands back the object loaded before, with its old values.  *)
(***************************************************************************)
EXTENDS Naturals, FiniteSets

CONSTANTS
  Users,
  Verified,    \* users with a verified email
  Codes,       \* referral codes; a generated one was never used before
  Claims,      \* slots for concurrent claim requests
  Claimant,    \* Claimant[t]: the user who sends the requests of slot t
  Gets,        \* slots for concurrent requests for a code
  Getter,      \* Getter[g]: the user who sends the requests of slot g
  Cap,         \* REFERRAL_MAX_PER_REFERRER
  Nobody, NoCode

ASSUME ReferralAssumption ==
  /\ Verified \subseteq Users
  /\ Claimant \in [Claims -> Users]
  /\ Getter \in [Gets -> Users]
  /\ IsFiniteSet(Claims)
  /\ Cap \in Nat
  /\ Nobody \notin Users
  /\ NoCode \notin Codes

VARIABLES
  code, referredBy,     \* columns of auth.users
  issued,               \* <<user, code>> pairs handed out by GET referral-code
  used,                 \* codes generated so far
  newRewards,           \* rewards each user got for having been referred
  referrerRewards,      \* rewards each user got for referring
  pc, using,            \* each claim: its next statement, the code in its body
  seen,                 \* the user's columns as the claim's session loaded them
  referrer, eligible,   \* what the claim has read so far
  drawn                 \* the code each request for one is about to store

rows    == <<code, referredBy, newRewards, referrerRewards>>
claim   == <<pc, using, seen, referrer, eligible>>
vars    == <<rows, issued, used, claim, drawn>>

Unloaded == [code |-> NoCode, referredBy |-> Nobody]

Init ==
  /\ code = [u \in Users |-> NoCode]
  /\ referredBy = [u \in Users |-> Nobody]
  /\ issued = {}
  /\ used = {}
  /\ newRewards = [u \in Users |-> 0]
  /\ referrerRewards = [u \in Users |-> 0]
  /\ pc = [t \in Claims |-> "idle"]
  /\ using = [t \in Claims |-> NoCode]
  /\ seen = [t \in Claims |-> Unloaded]
  /\ referrer = [t \in Claims |-> Nobody]
  /\ eligible = [t \in Claims |-> FALSE]
  /\ drawn = [g \in Gets |-> NoCode]

(* Row locks: FOR UPDATE on the claimant from lockUser on, a foreign-key    *)
(* share lock on the referrer from its reward on.                           *)
HoldsRow(t, u)   == Claimant[t] = u /\ pc[t] \in {"check", "reward", "commit"}
HoldsShare(t, u) == referrer[t] = u /\ pc[t] = "commit"

WantsRow(t, u)   == Claimant[t] = u /\ pc[t] = "lockUser"
WantsShare(t, u) == referrer[t] = u /\ pc[t] = "reward"

Blockers(t) ==
  {o \in Claims \ {t} : \E u \in Users :
     \/ WantsRow(t, u) /\ (HoldsRow(o, u) \/ HoldsShare(o, u))
     \/ WantsShare(t, u) /\ HoldsRow(o, u)}

-----------------------------------------------------------------------------
(* ensure_referral_code *)

GetCode(g) ==
  LET u == Getter[g] IN
  /\ drawn[g] = NoCode
  /\ IF code[u] # NoCode
     THEN issued' = issued \cup {<<u, code[u]>>} /\ UNCHANGED <<used, drawn>>
     ELSE \E c \in Codes \ used :
            /\ drawn' = [drawn EXCEPT ![g] = c]
            /\ used' = used \cup {c}
            /\ UNCHANGED issued
  /\ UNCHANGED <<rows, claim>>

(* The UPDATE by primary key waits for claims that have the row locked and  *)
(* replaces whatever code another request has stored meanwhile.             *)
StoreCode(g) ==
  LET u == Getter[g] IN
  /\ drawn[g] # NoCode
  /\ \A t \in Claims : ~HoldsRow(t, u) /\ ~HoldsShare(t, u)
  /\ code' = [code EXCEPT ![u] = drawn[g]]
  /\ issued' = issued \cup {<<u, drawn[g]>>}
  /\ drawn' = [drawn EXCEPT ![g] = NoCode]
  /\ UNCHANGED <<referredBy, used, newRewards, referrerRewards, claim>>

-----------------------------------------------------------------------------
(* claim_referral *)

\* Variant: a request that ends early keeps its transaction open.
Done_Open(t) ==
  /\ referrer' = [referrer EXCEPT ![t] = Nobody]
  /\ eligible' = [eligible EXCEPT ![t] = FALSE]
  /\ UNCHANGED <<pc, using, seen>>

Done(t) ==
  /\ pc' = [pc EXCEPT ![t] = "idle"]
  /\ using' = [using EXCEPT ![t] = NoCode]
  /\ seen' = [seen EXCEPT ![t] = Unloaded]
  /\ referrer' = [referrer EXCEPT ![t] = Nobody]
  /\ eligible' = [eligible EXCEPT ![t] = FALSE]

(* The request names a code that somebody was given, and authenticates.     *)
Claim(t, c) ==
  LET u == Claimant[t] IN
  /\ pc[t] = "idle"
  /\ \E owner \in Users : <<owner, c>> \in issued
  /\ pc' = [pc EXCEPT ![t] = "lockUser"]
  /\ using' = [using EXCEPT ![t] = c]
  /\ seen' = [seen EXCEPT ![t] = [code |-> code[u], referredBy |-> referredBy[u]]]
  /\ UNCHANGED <<rows, issued, used, referrer, eligible, drawn>>

LockUser(t) ==
  /\ pc[t] = "lockUser"
  /\ Blockers(t) = {}
  /\ pc' = [pc EXCEPT ![t] = "check"]
  /\ UNCHANGED <<rows, issued, used, using, seen, referrer, eligible, drawn>>

Referred(r) == {u \in Users : referredBy[u] = r}

\* Variant: without the check for an earlier referral.
Acceptable_AnyNumber(t) == seen[t].code # using[t] /\ Claimant[t] \in Verified

Acceptable(t) ==
  /\ seen[t].referredBy = Nobody
  /\ seen[t].code # using[t]
  /\ Claimant[t] \in Verified

UnderCap(r) == Cardinality(Referred(r)) < Cap

(* The checks on the loaded row, then the referrer and its count are read.  *)
Check(t) ==
  /\ pc[t] = "check"
  /\ IF Acceptable(t) /\ \E r \in Users : code[r] = using[t]
     THEN \E r \in Users :
            /\ code[r] = using[t]
            /\ referrer' = [referrer EXCEPT ![t] = r]
            /\ eligible' = [eligible EXCEPT ![t] = UnderCap(r)]
            /\ pc' = [pc EXCEPT ![t] = "reward"]
            /\ UNCHANGED <<using, seen>>
     ELSE Done(t)
  /\ UNCHANGED <<rows, issued, used, drawn>>

(* The flush of the rewards and of referred_by checks their foreign keys.   *)
Reward(t) ==
  /\ pc[t] = "reward"
  /\ Blockers(t) = {}
  /\ pc' = [pc EXCEPT ![t] = "commit"]
  /\ UNCHANGED <<rows, issued, used, using, seen, referrer, eligible, drawn>>

\* Variant: the rewards are committed before referred_by is set.
Commit_RewardsFirst(t) ==
  LET u == Claimant[t] IN
  /\ pc[t] = "commit"
  /\ newRewards' = [newRewards EXCEPT ![u] = @ + 1]
  /\ referrerRewards' =
       [referrerRewards EXCEPT ![referrer[t]] = IF eligible[t] THEN @ + 1 ELSE @]
  /\ Done(t)
  /\ UNCHANGED <<code, referredBy, issued, used, drawn>>

Commit(t) ==
  LET u == Claimant[t] IN
  /\ pc[t] = "commit"
  /\ newRewards' = [newRewards EXCEPT ![u] = @ + 1]
  /\ referrerRewards' =
       [referrerRewards EXCEPT ![referrer[t]] = IF eligible[t] THEN @ + 1 ELSE @]
  /\ referredBy' = [referredBy EXCEPT ![u] = referrer[t]]
  /\ Done(t)
  /\ UNCHANGED <<code, issued, used, drawn>>

(* Claims that wait for each other, as two users claiming each other's      *)
(* code: PostgreSQL aborts one.                                             *)
Deadlocked(t) ==
  \E S \in SUBSET Claims :
    t \in S /\ \A x \in S : Blockers(x) \cap S # {}

DeadlockAbort(t) ==
  /\ Deadlocked(t)
  /\ Done(t)
  /\ UNCHANGED <<rows, issued, used, drawn>>

Step(t) == LockUser(t) \/ Check(t) \/ Reward(t) \/ Commit(t)

Next ==
  \/ \E g \in Gets : GetCode(g) \/ StoreCode(g)
  \/ \E t \in Claims :
       (\E c \in Codes : Claim(t, c)) \/ Step(t) \/ DeadlockAbort(t)

Spec == Init /\ [][Next]_vars

(* Requests run on; lock queues are FIFO; the deadlock detector runs.       *)
Fairness == \A t \in Claims : SF_vars(Step(t)) /\ WF_vars(DeadlockAbort(t))

FairSpec == Spec /\ Fairness

-----------------------------------------------------------------------------
(* Properties *)

\* A user is rewarded once for having been referred, as long as the user row
\* says by whom, never without it ("locked to prevent concurrent claims"), and
\* never by their own code, though the own-code check sees an old row.
RewardedOnce ==
  \A u \in Users :
    /\ newRewards[u] = IF referredBy[u] = Nobody THEN 0 ELSE 1
    /\ referredBy[u] # u

\* Every reward of a referrer is backed by a user who names them: the
\* rewards, the referral and its referrer are committed together or not at all.
PayoutsBacked ==
  \A r \in Users : referrerRewards[r] <= Cardinality(Referred(r))

\* Every claim ends, although mutual claims deadlock.
ClaimsEnd == \A t \in Claims : pc[t] # "idle" ~> pc[t] = "idle"
=============================================================================
