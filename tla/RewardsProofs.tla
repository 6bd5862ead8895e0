---------------------------- MODULE RewardsProofs ----------------------------
(***************************************************************************)
(* What holds of Referral and of WeeklySpin for every number of users,     *)
(* codes and requests, every cap, and weeks and calendars of any length.   *)
(***************************************************************************)
EXTENDS Rewards, FiniteSetTheorems, TLAPS

-----------------------------------------------------------------------------
(* Referral codes: the invariant *)

Open(t) == pc[t] # "idle"
Columns == [code : Codes \cup {NoCode}, referredBy : Users \cup {Nobody}]
Given(c) == \E u \in Users : <<u, c>> \in issued

ReferralTypeOK ==
  /\ code \in [Users -> Codes \cup {NoCode}]
  /\ referredBy \in [Users -> Users \cup {Nobody}]
  /\ issued \subseteq Users \X Codes
  /\ used \subseteq Codes
  /\ newRewards \in [Users -> Nat]
  /\ referrerRewards \in [Users -> Nat]
  /\ pc \in [Claims -> {"idle", "lockUser", "check", "reward", "commit"}]
  /\ using \in [Claims -> Codes \cup {NoCode}]
  /\ seen \in [Claims -> Columns]
  /\ referrer \in [Claims -> Users \cup {Nobody}]
  /\ eligible \in [Claims -> BOOLEAN]
  /\ drawn \in [Gets -> Codes \cup {NoCode}]

\* A code that is generated but not yet stored is new to everybody.
CodesFresh ==
  /\ \A u \in Users : code[u] # NoCode => code[u] \in used
  /\ \A c \in Codes : Given(c) => c \in used
  /\ \A g \in Gets : drawn[g] # NoCode =>
       /\ drawn[g] \in used
       /\ \A u \in Users : code[u] # drawn[g]
       /\ ~Given(drawn[g])
       /\ \A h \in Gets \ {g} : drawn[h] # drawn[g]

\* An open claim names a code that was given to somebody before its session
\* loaded the user; if that is the user's own code, the session knows.
OwnCodeSeen ==
  \A t \in Claims : Open(t) =>
    /\ using[t] \in Codes
    /\ Given(using[t])
    /\ code[Claimant[t]] = using[t] => seen[t].code = using[t]

\* A claim that has passed its checks is by somebody whom the session knows as
\* not referred yet, and names somebody else.
CheckedClaim ==
  \A t \in Claims : pc[t] \in {"reward", "commit"} =>
    /\ seen[t].referredBy = Nobody
    /\ referrer[t] \in Users \ {Claimant[t]}

\* Nobody is their own referrer.
NotOneself == \A u \in Users : referredBy[u] # u

ReferralInv == ReferralTypeOK /\ CodesFresh /\ OwnCodeSeen /\ CheckedClaim /\ NotOneself

-----------------------------------------------------------------------------
LEMMA ReferralInit == Init => ReferralInv
BY ReferralAssumption DEF Init, Unloaded, ReferralInv, ReferralTypeOK, Columns, CodesFresh,
   Given, OwnCodeSeen, Open, CheckedClaim, NotOneself

LEMMA GetCodeStep ==
  ASSUME ReferralInv, NEW g \in Gets, GetCode(g)
  PROVE  ReferralInv'
<1>1. Getter[g] \in Users /\ drawn[g] = NoCode /\ UNCHANGED <<rows, claim>>
  BY ReferralAssumption DEF GetCode
<1>2. CASE code[Getter[g]] # NoCode
  <2>1. /\ issued' = issued \cup {<<Getter[g], code[Getter[g]]>>}
        /\ UNCHANGED <<used, drawn>>
    BY <1>2 DEF GetCode
  <2>2. code[Getter[g]] \in Codes /\ code[Getter[g]] \in used
    BY <1>1, <1>2 DEF ReferralInv, ReferralTypeOK, CodesFresh
  <2>3. ReferralTypeOK'
    BY <1>1, <2>1, <2>2 DEF ReferralInv, ReferralTypeOK, rows, claim
  <2>4. \A c : Given(c)' <=> Given(c) \/ c = code[Getter[g]]
    BY <1>1, <2>1 DEF Given
  <2>5. CodesFresh'
    BY <1>1, <2>1, <2>2, <2>4 DEF ReferralInv, CodesFresh, rows
  <2>6. OwnCodeSeen' /\ CheckedClaim' /\ NotOneself'
    BY <1>1, <2>4 DEF ReferralInv, OwnCodeSeen, Open, CheckedClaim, NotOneself, rows, claim
  <2>. QED
    BY <2>3, <2>5, <2>6 DEF ReferralInv
<1>3. CASE code[Getter[g]] = NoCode
  <2>1. PICK c \in Codes \ used :
          drawn' = [drawn EXCEPT ![g] = c] /\ used' = used \cup {c} /\ UNCHANGED issued
    BY <1>3 DEF GetCode
  <2>2. ReferralTypeOK'
    BY <1>1, <2>1 DEF ReferralInv, ReferralTypeOK, rows, claim
  <2>3. \A d : Given(d)' <=> Given(d)
    BY <2>1 DEF Given
  <2>4. CodesFresh'
    BY <1>1, <2>1, <2>3 DEF ReferralInv, ReferralTypeOK, CodesFresh, rows
  <2>5. OwnCodeSeen' /\ CheckedClaim' /\ NotOneself'
    BY <1>1, <2>3 DEF ReferralInv, OwnCodeSeen, Open, CheckedClaim, NotOneself, rows, claim
  <2>. QED
    BY <2>2, <2>4, <2>5 DEF ReferralInv
<1>. QED
  BY <1>2, <1>3

\* The code that is stored was given to nobody, so no claim can name it.
LEMMA StoreCodeStep ==
  ASSUME ReferralInv, NEW g \in Gets, StoreCode(g)
  PROVE  ReferralInv'
<1>1. /\ Getter[g] \in Users
      /\ drawn[g] # NoCode
      /\ code' = [code EXCEPT ![Getter[g]] = drawn[g]]
      /\ issued' = issued \cup {<<Getter[g], drawn[g]>>}
      /\ drawn' = [drawn EXCEPT ![g] = NoCode]
      /\ UNCHANGED <<referredBy, used, newRewards, referrerRewards, claim>>
  BY ReferralAssumption DEF StoreCode
<1>2. drawn[g] \in Codes
  BY <1>1 DEF ReferralInv, ReferralTypeOK
<1>3. \A c : Given(c)' <=> Given(c) \/ c = drawn[g]
  BY <1>1 DEF Given
<1>4. ReferralTypeOK'
  BY <1>1, <1>2 DEF ReferralInv, ReferralTypeOK, claim
<1>5. CodesFresh'
  BY <1>1, <1>2, <1>3 DEF ReferralInv, ReferralTypeOK, CodesFresh
<1>6. OwnCodeSeen'
  BY <1>1, <1>3, ReferralAssumption
  DEF ReferralInv, ReferralTypeOK, CodesFresh, OwnCodeSeen, Open, claim
<1>7. CheckedClaim' /\ NotOneself'
  BY <1>1 DEF ReferralInv, CheckedClaim, NotOneself, claim
<1>. QED
  BY <1>4, <1>5, <1>6, <1>7 DEF ReferralInv

\* What a step that writes no row and gives no code leaves to show.
LEMMA SameCodes ==
  ASSUME ReferralInv, UNCHANGED <<code, issued, used, drawn>>
  PROVE  CodesFresh' /\ \A c : Given(c)' <=> Given(c)
BY DEF ReferralInv, CodesFresh, Given

LEMMA ClaimStep ==
  ASSUME ReferralInv, NEW t \in Claims, NEW c \in Codes, Claim(t, c)
  PROVE  ReferralInv'
<1>1. /\ Claimant[t] \in Users
      /\ Given(c)
      /\ pc' = [pc EXCEPT ![t] = "lockUser"]
      /\ using' = [using EXCEPT ![t] = c]
      /\ seen' = [seen EXCEPT ![t] =
                   [code |-> code[Claimant[t]], referredBy |-> referredBy[Claimant[t]]]]
      /\ UNCHANGED <<rows, issued, used, referrer, eligible, drawn>>
  BY ReferralAssumption DEF Claim, Given
<1>2. ReferralTypeOK'
  BY <1>1 DEF ReferralInv, ReferralTypeOK, Columns, rows
<1>3. CodesFresh' /\ \A d : Given(d)' <=> Given(d)
  BY <1>1, SameCodes DEF rows
<1>4. OwnCodeSeen'
  BY <1>1, <1>3 DEF ReferralInv, ReferralTypeOK, OwnCodeSeen, Open, rows
<1>5. CheckedClaim' /\ NotOneself'
  BY <1>1 DEF ReferralInv, ReferralTypeOK, CheckedClaim, NotOneself, rows
<1>. QED
  BY <1>2, <1>3, <1>4, <1>5 DEF ReferralInv

\* A claim that ends, its rows written or not.
LEMMA DoneStep ==
  ASSUME ReferralInv, NEW t \in Claims, Done(t), UNCHANGED <<code, issued, used, drawn>>,
         referredBy' \in [Users -> Users \cup {Nobody}], NotOneself',
         newRewards' \in [Users -> Nat], referrerRewards' \in [Users -> Nat]
  PROVE  ReferralInv'
<1>1. ReferralTypeOK'
  BY DEF ReferralInv, ReferralTypeOK, Columns, Done, Unloaded
<1>2. CodesFresh' /\ \A c : Given(c)' <=> Given(c)
  BY SameCodes
<1>3. OwnCodeSeen' /\ CheckedClaim'
  BY <1>2 DEF ReferralInv, ReferralTypeOK, OwnCodeSeen, Open, CheckedClaim, Done
<1>. QED
  BY <1>1, <1>2, <1>3 DEF ReferralInv

LEMMA WaitStep ==
  ASSUME ReferralInv, NEW t \in Claims, LockUser(t) \/ Reward(t)
  PROVE  ReferralInv'
<1>1. /\ \/ pc[t] = "lockUser" /\ pc' = [pc EXCEPT ![t] = "check"]
         \/ pc[t] = "reward" /\ pc' = [pc EXCEPT ![t] = "commit"]
      /\ UNCHANGED <<rows, issued, used, using, seen, referrer, eligible, drawn>>
  BY DEF LockUser, Reward
<1>2. ReferralTypeOK'
  BY <1>1 DEF ReferralInv, ReferralTypeOK, rows
<1>3. CodesFresh' /\ \A c : Given(c)' <=> Given(c)
  BY <1>1, SameCodes DEF rows
<1>4. OwnCodeSeen' /\ CheckedClaim' /\ NotOneself'
  BY <1>1, <1>3 DEF ReferralInv, ReferralTypeOK, OwnCodeSeen, Open, CheckedClaim, NotOneself, rows
<1>. QED
  BY <1>2, <1>3, <1>4 DEF ReferralInv

\* The own-code check looks at an old row, but the code named is older still.
LEMMA CheckStep ==
  ASSUME ReferralInv, NEW t \in Claims, Check(t)
  PROVE  ReferralInv'
<1>1. CASE Done(t)
  BY <1>1, DoneStep DEF Check, ReferralInv, ReferralTypeOK, NotOneself, rows
<1>2. ASSUME NEW r \in Users,
             Acceptable(t), code[r] = using[t],
             referrer' = [referrer EXCEPT ![t] = r],
             eligible' = [eligible EXCEPT ![t] = UnderCap(r)],
             pc' = [pc EXCEPT ![t] = "reward"],
             UNCHANGED <<using, seen>>
      PROVE  ReferralInv'
  <2>1. pc[t] = "check" /\ UNCHANGED <<rows, issued, used, drawn>>
    BY DEF Check
  <2>2. seen[t].referredBy = Nobody /\ seen[t].code # using[t]
    BY <1>2 DEF Acceptable
  <2>3. r # Claimant[t]
    BY <1>2, <2>1, <2>2 DEF ReferralInv, OwnCodeSeen, Open
  <2>4. UnderCap(r) \in BOOLEAN
    BY DEF UnderCap
  <2>5. ReferralTypeOK'
    BY <1>2, <2>1, <2>4 DEF ReferralInv, ReferralTypeOK, rows
  <2>6. CodesFresh' /\ \A c : Given(c)' <=> Given(c)
    BY <2>1, SameCodes DEF rows
  <2>7. OwnCodeSeen' /\ NotOneself'
    BY <1>2, <2>1, <2>6 DEF ReferralInv, ReferralTypeOK, OwnCodeSeen, Open, NotOneself, rows
  <2>8. CheckedClaim'
    BY <1>2, <2>2, <2>3 DEF ReferralInv, ReferralTypeOK, CheckedClaim
  <2>. QED
    BY <2>5, <2>6, <2>7, <2>8 DEF ReferralInv
<1>. QED
  BY <1>1, <1>2 DEF Check

(* What a commit writes. *)
LEMMA CommitWrites ==
  ASSUME ReferralInv, NEW t \in Claims, Commit(t)
  PROVE  /\ Claimant[t] \in Users
         /\ referrer[t] \in Users \ {Claimant[t]}
         /\ seen[t].referredBy = Nobody
         /\ referredBy' = [referredBy EXCEPT ![Claimant[t]] = referrer[t]]
         /\ newRewards' = [newRewards EXCEPT ![Claimant[t]] = @ + 1]
         /\ referrerRewards' = [referrerRewards EXCEPT ![referrer[t]] =
                                  IF eligible[t] THEN @ + 1 ELSE @]
         /\ Done(t)
         /\ pc[t] = "commit"
         /\ UNCHANGED <<code, issued, used, drawn>>
BY ReferralAssumption DEF Commit, ReferralInv, CheckedClaim

LEMMA CommitStep ==
  ASSUME ReferralInv, NEW t \in Claims, Commit(t)
  PROVE  ReferralInv'
<1>1. /\ referredBy' \in [Users -> Users \cup {Nobody}]
      /\ newRewards' \in [Users -> Nat]
      /\ referrerRewards' \in [Users -> Nat]
  BY CommitWrites DEF ReferralInv, ReferralTypeOK
<1>2. NotOneself'
  BY CommitWrites DEF ReferralInv, ReferralTypeOK, NotOneself
<1>. QED
  BY <1>1, <1>2, CommitWrites, DoneStep

LEMMA AbortStep ==
  ASSUME ReferralInv, NEW t \in Claims, DeadlockAbort(t)
  PROVE  ReferralInv'
BY DoneStep DEF DeadlockAbort, ReferralInv, ReferralTypeOK, NotOneself, rows

LEMMA ReferralStep == ReferralInv /\ [Next]_vars => ReferralInv'
<1>. SUFFICES ASSUME ReferralInv, [Next]_vars PROVE ReferralInv'
  OBVIOUS
<1>1. ASSUME NEW g \in Gets, GetCode(g) \/ StoreCode(g)
      PROVE  ReferralInv'
  BY <1>1, GetCodeStep, StoreCodeStep
<1>2. ASSUME NEW t \in Claims, (\E c \in Codes : Claim(t, c)) \/ Step(t) \/ DeadlockAbort(t)
      PROVE  ReferralInv'
  BY <1>2, ClaimStep, WaitStep, CheckStep, CommitStep, AbortStep DEF Step
<1>3. CASE UNCHANGED vars
  <2>1. CodesFresh' /\ \A c : Given(c)' <=> Given(c)
    BY <1>3, SameCodes DEF vars, rows
  <2>2. ReferralTypeOK'
    BY <1>3 DEF vars, rows, claim, ReferralInv, ReferralTypeOK
  <2>3. OwnCodeSeen' /\ CheckedClaim' /\ NotOneself'
    BY <1>3, <2>1 DEF vars, rows, claim, ReferralInv, OwnCodeSeen, Open, CheckedClaim, NotOneself
  <2>. QED
    BY <2>1, <2>2, <2>3 DEF ReferralInv
<1>. QED
  BY <1>1, <1>2, <1>3 DEF Next

\* Every reachable state is well typed, codes are fresh, and nobody is their own
\* referrer, although the own-code check of claim_referral reads an old row.
THEOREM NoSelfReferral == Spec => [](ReferralTypeOK /\ NotOneself)
<1>1. Init => ReferralInv
  BY ReferralInit
<1>2. ReferralInv /\ [Next]_vars => ReferralInv'
  BY ReferralStep
<1>3. ReferralInv => ReferralTypeOK /\ NotOneself
  BY DEF ReferralInv
<1>. QED
  BY <1>1, <1>2, <1>3, PTL DEF Spec

-----------------------------------------------------------------------------
(* Which claims deadlock *)

\* Of claims that wait for one another for ever, those at their rewards claim
\* the codes of other users, who claim codes themselves: a ring of users none of
\* whom was referred when the claim was loaded.
OnlyMutualClaims ==
  \A S \in SUBSET Claims :
    S # {} /\ (\A t \in S : Blockers(t) \cap S # {}) =>
      LET Rewarding == {t \in S : pc[t] = "reward"} IN
      /\ Rewarding # {}
      /\ \A t \in Rewarding :
           /\ seen[t].referredBy = Nobody
           /\ \E o \in Rewarding :
                Claimant[o] = referrer[t] /\ Claimant[o] # Claimant[t]

\* Claims deadlock only by users who claim each other's codes: two claims of one
\* user, and two claims of one code, wait for each other at most one way.
THEOREM ClaimDeadlocksAreMutual == Spec => []OnlyMutualClaims
<1>1. ReferralInv => OnlyMutualClaims
  <2>. SUFFICES ASSUME ReferralInv,
                       NEW S \in SUBSET Claims, S # {}, \A t \in S : Blockers(t) \cap S # {}
                PROVE  /\ \E t \in S : pc[t] = "reward"
                       /\ \A t \in S : pc[t] = "reward" =>
                            /\ seen[t].referredBy = Nobody
                            /\ \E o \in S : /\ pc[o] = "reward"
                                            /\ Claimant[o] = referrer[t]
                                            /\ Claimant[o] # Claimant[t]
    BY DEF OnlyMutualClaims
  <2>1. \A t \in S : \E o \in S \ {t} :
          /\ Blockers(o) # {}
          /\ \E u \in Users : \/ WantsRow(t, u) /\ (HoldsRow(o, u) \/ HoldsShare(o, u))
                              \/ WantsShare(t, u) /\ HoldsRow(o, u)
    BY DEF Blockers
  <2>2. \A o \in S : pc[o] \in {"lockUser", "reward"}
    BY DEF Blockers, WantsRow, WantsShare
  <2>3. \A t \in S : \E o \in S \ {t} :
          /\ pc[o] = "reward"
          /\ pc[t] = "reward" => Claimant[o] = referrer[t]
    BY <2>1, <2>2 DEF WantsRow, WantsShare, HoldsRow, HoldsShare
  <2>4. \A t \in S : pc[t] = "reward" =>
          seen[t].referredBy = Nobody /\ referrer[t] # Claimant[t]
    BY DEF ReferralInv, CheckedClaim
  <2>. QED  BY <2>3, <2>4
<1>. QED  BY <1>1, ReferralInit, ReferralStep, PTL DEF Spec

-----------------------------------------------------------------------------
(* How often a user is rewarded *)

\* The claims a user may have open at the same time, and those among them whose
\* session has not seen the user's referral.
Slots(u) == {t \in Claims : Claimant[t] = u}
Unaware(u) == {t \in Slots(u) : Open(t) /\ seen[t].referredBy = Nobody}

\* Once a user is referred, only claims that were loaded before can still pass.
RewardsCounted ==
  \A u \in Users :
    /\ referredBy[u] = Nobody => newRewards[u] = 0
    /\ referredBy[u] # Nobody =>
         /\ newRewards[u] >= 1
         /\ newRewards[u] + Cardinality(Unaware(u)) <= Cardinality(Slots(u))

\* No reward without a referral, and with it one at least and one at most for
\* every claim that the user may have open at the same time.
RewardsBounded ==
  \A u \in Users :
    IF referredBy[u] = Nobody THEN newRewards[u] = 0
    ELSE newRewards[u] \in 1 .. Cardinality(Slots(u))

\* Nobody sends a second claim while the first is open.
OneAtATime == \A t, o \in Claims : Claimant[t] = Claimant[o] => t = o

LEMMA SlotsFinite ==
  ASSUME NEW u
  PROVE  /\ IsFiniteSet(Slots(u)) /\ IsFiniteSet(Unaware(u))
         /\ Cardinality(Slots(u)) \in Nat /\ Cardinality(Unaware(u)) \in Nat
         /\ Cardinality(Unaware(u)) <= Cardinality(Slots(u))
<1>1. Slots(u) \in SUBSET Claims /\ Unaware(u) \in SUBSET Slots(u)
  BY DEF Slots, Unaware
<1>2. IsFiniteSet(Slots(u))
  BY <1>1, FS_Subset, ReferralAssumption
<1>3. IsFiniteSet(Unaware(u)) /\ Cardinality(Unaware(u)) <= Cardinality(Slots(u))
  BY <1>1, <1>2, FS_Subset
<1>. QED
  BY <1>2, <1>3, FS_CardinalityType

(* Claims that end, or load a user who is referred, leave fewer of them.     *)
LEMMA FewerUnaware ==
  ASSUME RewardsCounted, UNCHANGED <<referredBy, newRewards>>,
         \A u \in Users : referredBy[u] # Nobody => Unaware(u)' \subseteq Unaware(u),
         newRewards \in [Users -> Nat]
  PROVE  RewardsCounted'
<1>. SUFFICES ASSUME NEW u \in Users, referredBy[u] # Nobody
             PROVE  newRewards[u] + Cardinality(Unaware(u)') <= Cardinality(Slots(u))
  BY DEF RewardsCounted, Slots
<1>1. Unaware(u)' \in SUBSET Unaware(u)
  OBVIOUS
<1>2. /\ Cardinality(Unaware(u)') <= Cardinality(Unaware(u))
      /\ Cardinality(Unaware(u)') \in Nat
  BY <1>1, SlotsFinite, FS_Subset, FS_CardinalityType
<1>3. newRewards[u] + Cardinality(Unaware(u)) <= Cardinality(Slots(u))
  BY DEF RewardsCounted
<1>. QED
  BY <1>2, <1>3, SlotsFinite

LEMMA CommitCounted ==
  ASSUME ReferralInv, RewardsCounted, NEW t \in Claims, Commit(t)
  PROVE  RewardsCounted'
<1>. DEFINE me == Claimant[t]
<1>1. /\ me \in Users /\ pc[t] = "commit" /\ seen[t].referredBy = Nobody
      /\ referredBy' = [referredBy EXCEPT ![me] = referrer[t]]
      /\ referrer[t] \in Users
      /\ newRewards' = [newRewards EXCEPT ![me] = @ + 1]
      /\ pc' = [pc EXCEPT ![t] = "idle"]
      /\ seen' = [seen EXCEPT ![t] = Unloaded]
  BY CommitWrites DEF Done
<1>2. t \in Unaware(me) /\ t \in Slots(me)
  BY <1>1 DEF Unaware, Slots, Open
<1>3. ASSUME NEW u \in Users
      PROVE  Unaware(u)' = Unaware(u) \ {t} /\ Slots(u)' = Slots(u)
  BY <1>1 DEF ReferralInv, ReferralTypeOK, Unaware, Slots, Open
<1>4. ASSUME NEW u \in Users, u # me
      PROVE  Unaware(u)' = Unaware(u)
  BY <1>1, <1>3, <1>4 DEF Unaware, Slots
<1>5. Cardinality(Unaware(me)') = Cardinality(Unaware(me)) - 1
  BY <1>1, <1>2, <1>3, SlotsFinite, FS_RemoveElement
<1>6. newRewards'[me] = newRewards[me] + 1 /\ newRewards[me] \in Nat /\ referredBy'[me] # Nobody
  BY <1>1, ReferralAssumption DEF ReferralInv, ReferralTypeOK
<1>7. newRewards'[me] + Cardinality(Unaware(me)') <= Cardinality(Slots(me))
  BY <1>1, <1>5, <1>6, SlotsFinite DEF RewardsCounted
<1>8. ASSUME NEW u \in Users, u # me
      PROVE  newRewards'[u] = newRewards[u] /\ referredBy'[u] = referredBy[u]
  BY <1>1, <1>8 DEF ReferralInv, ReferralTypeOK
<1>. HIDE DEF me
<1>. QED
  BY <1>1, <1>3, <1>4, <1>6, <1>7, <1>8 DEF RewardsCounted

LEMMA CountedStep == ReferralInv /\ RewardsCounted /\ [Next]_vars => RewardsCounted'
<1>. SUFFICES ASSUME ReferralInv, RewardsCounted, [Next]_vars PROVE RewardsCounted'
  OBVIOUS
<1>. USE DEF ReferralInv, ReferralTypeOK
<1>1. ASSUME NEW t \in Claims, NEW c \in Codes, Claim(t, c)
      PROVE  RewardsCounted'
  <2>1. \A u \in Users : referredBy[u] # Nobody => Unaware(u)' \subseteq Unaware(u)
    BY <1>1 DEF Claim, Unaware, Slots, Open
  <2>. QED
    BY <1>1, <2>1, FewerUnaware DEF Claim, rows
<1>2. ASSUME NEW t \in Claims, LockUser(t) \/ Reward(t) \/ Check(t) \/ DeadlockAbort(t)
      PROVE  RewardsCounted'
  <2>1. UNCHANGED rows
    BY <1>2 DEF LockUser, Reward, Check, DeadlockAbort
  <2>2. \A u \in Users : Unaware(u)' \subseteq Unaware(u)
    BY <1>2, ReferralAssumption
    DEF LockUser, Reward, Check, DeadlockAbort, Done, Unloaded, Unaware, Slots, Open
  <2>. QED
    BY <2>1, <2>2, FewerUnaware DEF rows
<1>3. ASSUME NEW t \in Claims, Commit(t)
      PROVE  RewardsCounted'
  BY <1>3, CommitCounted
<1>4. CASE (\E g \in Gets : GetCode(g) \/ StoreCode(g)) \/ UNCHANGED vars
  <2>1. UNCHANGED <<referredBy, newRewards, claim>>
    BY <1>4 DEF GetCode, StoreCode, vars, rows
  <2>2. \A u \in Users : Unaware(u)' \subseteq Unaware(u)
    BY <2>1 DEF Unaware, Slots, Open, claim
  <2>. QED
    BY <2>1, <2>2, FewerUnaware
<1>. QED
  BY <1>1, <1>2, <1>3, <1>4 DEF Next, Step

LEMMA CountedInit == Init => RewardsCounted
BY DEF Init, RewardsCounted

\* A user who sends several claims at once is rewarded for each of them at most
\* (the row lock of claim_referral does not refresh what a session has loaded).
THEOREM RewardsPerClaim == Spec => []RewardsBounded
<1>1. Init => ReferralInv /\ RewardsCounted
  BY ReferralInit, CountedInit
<1>2. ReferralInv /\ RewardsCounted /\ [Next]_vars => ReferralInv' /\ RewardsCounted'
  BY ReferralStep, CountedStep
<1>3. ReferralInv /\ RewardsCounted => RewardsBounded
  BY SlotsFinite DEF ReferralInv, ReferralTypeOK, RewardsCounted, RewardsBounded
<1>. QED
  BY <1>1, <1>2, <1>3, PTL DEF Spec

(* A user with one claim at a time is rewarded at the first that commits.    *)
LEMMA OneClaim ==
  ASSUME OneAtATime, NEW u
  PROVE  Cardinality(Slots(u)) <= 1
<1>1. CASE Slots(u) = {}
  BY <1>1, FS_EmptySet
<1>2. CASE Slots(u) # {}
  <2>1. PICK t \in Claims : Slots(u) = {t}
    BY <1>2 DEF Slots, OneAtATime
  <2>2. Cardinality({t}) = 1
    BY FS_Singleton
  <2>. QED
    BY <2>1, <2>2
<1>. QED
  BY <1>1, <1>2

LEMMA CountedOnce ==
  ASSUME OneAtATime, ReferralInv, RewardsCounted
  PROVE  RewardedOnce
<1>. SUFFICES ASSUME NEW u \in Users
             PROVE  /\ newRewards[u] = IF referredBy[u] = Nobody THEN 0 ELSE 1
                    /\ referredBy[u] # u
  BY DEF RewardedOnce
<1>1. newRewards[u] \in Nat /\ referredBy[u] # u
  BY DEF ReferralInv, ReferralTypeOK, NotOneself
<1>. QED
  BY <1>1, OneClaim, SlotsFinite DEF RewardsCounted

\* When nobody sends a second claim before the first is answered, a user is
\* rewarded exactly once, with the referral that the row names.
THEOREM RewardedExactlyOnce == OneAtATime /\ Spec => []RewardedOnce
<1>. SUFFICES ASSUME OneAtATime PROVE Spec => []RewardedOnce
  OBVIOUS
<1>1. Init => ReferralInv /\ RewardsCounted
  BY ReferralInit, CountedInit
<1>2. ReferralInv /\ RewardsCounted /\ [Next]_vars => ReferralInv' /\ RewardsCounted'
  BY ReferralStep, CountedStep
<1>3. ReferralInv /\ RewardsCounted => RewardedOnce
  BY CountedOnce
<1>. QED
  BY <1>1, <1>2, <1>3, PTL DEF Spec

-----------------------------------------------------------------------------
(* What referrers are paid *)

\* Claims that have read the count of a referrer and found it below the cap.
Counted(r) ==
  {t \in Claims : pc[t] \in {"reward", "commit"} /\ referrer[t] = r /\ eligible[t]}

ReferralsFinite == \A r \in Users : IsFiniteSet(Referred(r))

\* The count is read without a lock, so claims that run at the same time may
\* all find room below the cap.
CapOverrun ==
  \A r \in Users :
    LET paid == referrerRewards[r] + Cardinality(Counted(r)) IN
    paid > 0 => paid < Cap + Cardinality(Claims)

CapBounded ==
  \A r \in Users : referrerRewards[r] > 0 => referrerRewards[r] < Cap + Cardinality(Claims)

PayoutInv ==
  ReferralInv /\ RewardsCounted /\ ReferralsFinite /\ PayoutsBacked /\ CapOverrun

LEMMA CountsFinite ==
  ASSUME NEW r
  PROVE  /\ IsFiniteSet(Counted(r))
         /\ Cardinality(Counted(r)) \in Nat
         /\ Cardinality(Counted(r)) <= Cardinality(Claims)
         /\ Cardinality(Claims) \in Nat
<1>1. Counted(r) \in SUBSET Claims
  BY DEF Counted
<1>2. IsFiniteSet(Counted(r)) /\ Cardinality(Counted(r)) <= Cardinality(Claims)
  BY <1>1, FS_Subset, ReferralAssumption
<1>. QED
  BY <1>2, FS_CardinalityType, ReferralAssumption

(* The commit of a user's only claim adds the user to those of the referrer. *)
LEMMA CommitRefers ==
  ASSUME OneAtATime, ReferralInv, RewardsCounted, ReferralsFinite,
         NEW t \in Claims, Commit(t), NEW r \in Users
  PROVE  /\ IsFiniteSet(Referred(r)')
         /\ Cardinality(Referred(r)') =
              IF r = referrer[t] THEN Cardinality(Referred(r)) + 1 ELSE Cardinality(Referred(r))
<1>. DEFINE me == Claimant[t]
<1>1. /\ me \in Users /\ pc[t] = "commit" /\ seen[t].referredBy = Nobody
      /\ referredBy' = [referredBy EXCEPT ![me] = referrer[t]]
      /\ referrer[t] \in Users
  BY CommitWrites
<1>2. referredBy[me] = Nobody
  <2>1. t \in Unaware(me)
    BY <1>1 DEF Unaware, Slots, Open
  <2>2. Cardinality(Unaware(me)) > 0
    BY <2>1, SlotsFinite, FS_EmptySet
  <2>. QED
    BY <1>1, <2>2, SlotsFinite, OneClaim DEF RewardsCounted, ReferralInv, ReferralTypeOK
<1>3. me \notin Referred(r)
  BY <1>2, ReferralAssumption DEF Referred
<1>4. CASE r = referrer[t]
  <2>1. Referred(r)' = Referred(r) \cup {me}
    BY <1>1, <1>4 DEF Referred, ReferralInv, ReferralTypeOK
  <2>. QED
    BY <1>3, <1>4, <2>1, FS_AddElement DEF ReferralsFinite
<1>5. CASE r # referrer[t]
  <2>1. Referred(r)' = Referred(r)
    BY <1>1, <1>3, <1>5 DEF Referred, ReferralInv, ReferralTypeOK
  <2>. QED
    BY <1>5, <2>1 DEF ReferralsFinite
<1>. QED
  BY <1>4, <1>5

LEMMA CommitPays ==
  ASSUME OneAtATime, PayoutInv, NEW t \in Claims, Commit(t)
  PROVE  ReferralsFinite' /\ PayoutsBacked' /\ CapOverrun'
<1>. USE DEF PayoutInv
<1>1. /\ referrer[t] \in Users /\ pc[t] = "commit"
      /\ referrerRewards' = [referrerRewards EXCEPT ![referrer[t]] =
                               IF eligible[t] THEN @ + 1 ELSE @]
      /\ pc' = [pc EXCEPT ![t] = "idle"]
      /\ referrer' = [referrer EXCEPT ![t] = Nobody]
      /\ eligible' = [eligible EXCEPT ![t] = FALSE]
  BY CommitWrites DEF Done
<1>2. ReferralsFinite'
  BY CommitRefers DEF ReferralsFinite
<1>3. ASSUME NEW r \in Users
      PROVE  /\ referrerRewards[r] \in Nat
             /\ referrerRewards'[r] =
                  IF r = referrer[t] /\ eligible[t] THEN referrerRewards[r] + 1
                  ELSE referrerRewards[r]
             /\ Cardinality(Referred(r)) \in Nat
  BY <1>1, FS_CardinalityType DEF ReferralInv, ReferralTypeOK, ReferralsFinite
<1>4. PayoutsBacked'
  <2>. SUFFICES ASSUME NEW r \in Users
               PROVE  referrerRewards'[r] <= Cardinality(Referred(r)')
    BY DEF PayoutsBacked
  <2>. QED
    BY <1>3, CommitRefers DEF PayoutsBacked
<1>5. CapOverrun'
  <2>. SUFFICES ASSUME NEW r \in Users
               PROVE  referrerRewards'[r] + Cardinality(Counted(r)') =
                        referrerRewards[r] + Cardinality(Counted(r))
    BY DEF CapOverrun
  <2>1. Counted(r)' = Counted(r) \ {t}
    BY <1>1 DEF Counted, ReferralInv, ReferralTypeOK
  <2>2. t \in Counted(r) <=> r = referrer[t] /\ eligible[t]
    BY <1>1 DEF Counted
  <2>3. Cardinality(Counted(r)') =
          IF t \in Counted(r) THEN Cardinality(Counted(r)) - 1 ELSE Cardinality(Counted(r))
    BY <2>1, CountsFinite, FS_RemoveElement
  <2>. QED
    BY <1>3, <2>2, <2>3, CountsFinite
<1>. QED
  BY <1>2, <1>4, <1>5

\* A claim that finds room below the cap is one of those that are open.
LEMMA CheckPays ==
  ASSUME PayoutInv, NEW t \in Claims, Check(t)
  PROVE  CapOverrun'
<1>. USE DEF PayoutInv
<1>1. UNCHANGED rows /\ pc[t] = "check"
  BY DEF Check
<1>. SUFFICES ASSUME NEW r \in Users,
                    referrerRewards[r] + Cardinality(Counted(r)') > 0
             PROVE  referrerRewards[r] + Cardinality(Counted(r)') < Cap + Cardinality(Claims)
  BY <1>1 DEF CapOverrun, rows
<1>2. /\ Cardinality(Counted(r)') \in Nat
      /\ Cardinality(Counted(r)') <= Cardinality(Claims)
      /\ Cardinality(Claims) \in Nat /\ Cap \in Nat
  <2>1. Counted(r)' \in SUBSET Claims
    BY DEF Counted
  <2>. QED
    BY <2>1, FS_Subset, FS_CardinalityType, ReferralAssumption
<1>3. referrerRewards[r] \in Nat /\ referrerRewards[r] <= Cardinality(Referred(r))
  BY DEF ReferralInv, ReferralTypeOK, PayoutsBacked
<1>4. CASE UnderCap(r)
  <2>1. Cardinality(Referred(r)) \in Nat /\ Cardinality(Referred(r)) < Cap
    BY <1>4, FS_CardinalityType DEF UnderCap, ReferralsFinite
  <2>. QED
    BY <1>2, <1>3, <2>1
<1>5. CASE ~UnderCap(r)
  <2>1. Counted(r)' \subseteq Counted(r)
    BY <1>1, <1>5 DEF Check, Done, Counted, ReferralInv, ReferralTypeOK
  <2>2. Cardinality(Counted(r)') <= Cardinality(Counted(r))
    BY <2>1, CountsFinite, FS_Subset
  <2>. QED
    BY <1>2, <1>3, <2>2, CountsFinite DEF CapOverrun
<1>. QED
  BY <1>4, <1>5

\* Every other step leaves the rewards as they are and counts no claim.
LEMMA NobodyPays ==
  ASSUME PayoutInv, UNCHANGED <<referredBy, referrerRewards>>,
         \A r \in Users : Counted(r)' \subseteq Counted(r)
  PROVE  ReferralsFinite' /\ PayoutsBacked' /\ CapOverrun'
<1>1. \A r : Referred(r)' = Referred(r)
  BY DEF Referred
<1>2. ReferralsFinite' /\ PayoutsBacked'
  BY <1>1 DEF PayoutInv, ReferralsFinite, PayoutsBacked
<1>3. ASSUME NEW r \in Users
      PROVE  /\ Cardinality(Counted(r)') \in Nat
             /\ Cardinality(Counted(r)') <= Cardinality(Counted(r))
  <2>1. Counted(r)' \in SUBSET Counted(r)
    OBVIOUS
  <2>. QED
    BY <2>1, CountsFinite, FS_Subset, FS_CardinalityType
<1>4. CapOverrun'
  BY <1>3, CountsFinite, ReferralAssumption DEF PayoutInv, ReferralInv, ReferralTypeOK, CapOverrun
<1>. QED
  BY <1>2, <1>4

LEMMA PayoutStep == OneAtATime /\ PayoutInv /\ [Next]_vars => PayoutInv'
<1>. SUFFICES ASSUME OneAtATime, PayoutInv, [Next]_vars
             PROVE  ReferralsFinite' /\ PayoutsBacked' /\ CapOverrun'
  BY ReferralStep, CountedStep DEF PayoutInv
<1>1. ASSUME NEW t \in Claims, Commit(t)
      PROVE  ReferralsFinite' /\ PayoutsBacked' /\ CapOverrun'
  BY <1>1, CommitPays
<1>2. ASSUME NEW t \in Claims, Check(t)
      PROVE  ReferralsFinite' /\ PayoutsBacked' /\ CapOverrun'
  <2>1. UNCHANGED <<referredBy, referrerRewards>>
    BY <1>2 DEF Check, rows
  <2>2. \A r : Referred(r)' = Referred(r)
    BY <2>1 DEF Referred
  <2>. QED
    BY <1>2, <2>1, <2>2, CheckPays DEF PayoutInv, ReferralsFinite, PayoutsBacked
<1>3. ASSUME NEW t \in Claims,
             (\E c \in Codes : Claim(t, c)) \/ LockUser(t) \/ Reward(t) \/ DeadlockAbort(t)
      PROVE  ReferralsFinite' /\ PayoutsBacked' /\ CapOverrun'
  <2>1. UNCHANGED <<referredBy, referrerRewards>>
    BY <1>3 DEF Claim, LockUser, Reward, DeadlockAbort, rows
  <2>2. \A r \in Users : Counted(r)' \subseteq Counted(r)
    BY <1>3
    DEF Claim, LockUser, Reward, DeadlockAbort, Done, Counted, PayoutInv, ReferralInv, ReferralTypeOK
  <2>. QED
    BY <2>1, <2>2, NobodyPays
<1>4. CASE (\E g \in Gets : GetCode(g) \/ StoreCode(g)) \/ UNCHANGED vars
  <2>1. UNCHANGED <<referredBy, referrerRewards, claim>>
    BY <1>4 DEF GetCode, StoreCode, vars, rows
  <2>2. \A r \in Users : Counted(r)' \subseteq Counted(r)
    BY <2>1 DEF Counted, claim
  <2>. QED
    BY <2>1, <2>2, NobodyPays
<1>. QED
  BY <1>1, <1>2, <1>3, <1>4 DEF Next, Step

LEMMA PayoutInit == Init => PayoutInv
<1>. SUFFICES ASSUME Init PROVE PayoutInv
  OBVIOUS
<1>1. \A r \in Users : Referred(r) = {} /\ Counted(r) = {} /\ referrerRewards[r] = 0
  BY ReferralAssumption DEF Init, Referred, Counted
<1>2. ReferralsFinite /\ PayoutsBacked /\ CapOverrun
  BY <1>1, FS_EmptySet DEF ReferralsFinite, PayoutsBacked, CapOverrun
<1>. QED
  BY <1>2, ReferralInit, CountedInit DEF PayoutInv

\* Every reward of a referrer is backed by a user who names them, and the cap is
\* passed by fewer than the claims that may be open at the same time: the count
\* in claim_referral is read before the claims of others are committed.
THEOREM ReferrersPaidOnce == OneAtATime /\ Spec => [](PayoutsBacked /\ CapBounded)
<1>. SUFFICES ASSUME OneAtATime PROVE Spec => [](PayoutsBacked /\ CapBounded)
  OBVIOUS
<1>1. Init => PayoutInv
  BY PayoutInit
<1>2. PayoutInv /\ [Next]_vars => PayoutInv'
  BY PayoutStep
<1>3. PayoutInv => PayoutsBacked /\ CapBounded
  <2>. SUFFICES ASSUME PayoutInv, NEW r \in Users, referrerRewards[r] > 0
               PROVE  PayoutsBacked /\ referrerRewards[r] < Cap + Cardinality(Claims)
    BY DEF PayoutInv, CapBounded
  <2>1. /\ referrerRewards[r] \in Nat /\ Cardinality(Counted(r)) \in Nat
        /\ Cap \in Nat /\ Cardinality(Claims) \in Nat
    BY CountsFinite, ReferralAssumption DEF PayoutInv, ReferralInv, ReferralTypeOK
  <2>2. referrerRewards[r] + Cardinality(Counted(r)) < Cap + Cardinality(Claims)
    BY <2>1 DEF PayoutInv, CapOverrun
  <2>. QED
    BY <2>1, <2>2 DEF PayoutInv
<1>. QED
  BY <1>1, <1>2, <1>3, PTL DEF Spec

-----------------------------------------------------------------------------
(* The weekly spin and the daily login: the invariant *)

SpinTypeOK ==
  /\ today \in Wheel!Days
  /\ spun \subseteq Wheel!Weeks
  /\ rewards \in [Wheel!Weeks -> Nat]
  /\ loggedIn \subseteq Wheel!Days
  /\ firsts \in [Wheel!Days -> Nat]
  /\ spinPc \in [Requests -> {"idle", "look", "insert", "grant", "login", "commitLogin"}]
  /\ key \in [Requests -> Nat]

\* A request that has taken its week or its day keeps one of the calendar.
KeysInCalendar ==
  \A r \in Requests :
    /\ spinPc[r] \in {"look", "insert", "grant"} => key[r] \in Wheel!Weeks
    /\ spinPc[r] = "commitLogin" => key[r] \in Wheel!Days

\* The primary key: of one week, or one day, at most one INSERT is open, and
\* only while no row is committed.
Inserts(step, rows_) ==
  \A r \in Requests : spinPc[r] = step =>
    /\ key[r] \notin rows_
    /\ \A o \in Requests \ {r} : spinPc[o] = step => key[o] # key[r]

SpinInv ==
  /\ SpinTypeOK
  /\ KeysInCalendar
  /\ Inserts("grant", spun)
  /\ Inserts("commitLogin", loggedIn)
  /\ Wheel!OneSpinAWeek

-----------------------------------------------------------------------------
\* Every day of the calendar is in one of its weeks.
LEMMA WeekInCalendar ==
  ASSUME Wheel!SpinAssumption, NEW d \in Wheel!Days
  PROVE  Wheel!Week(d) \in Wheel!Weeks
BY DEF Wheel!SpinAssumption, Wheel!Days, Wheel!Weeks, Wheel!Week

LEMMA SpinInit == Wheel!SpinAssumption /\ Wheel!Init => SpinInv
BY DEF Wheel!SpinAssumption, Wheel!Init, SpinInv, SpinTypeOK, KeysInCalendar, Inserts,
       Wheel!OneSpinAWeek, Wheel!Days, Wheel!Weeks

(* What every action but the two COMMITs leaves to show. *)
LEMMA SameRows ==
  ASSUME SpinInv, UNCHANGED <<spun, rewards, loggedIn, firsts>>,
         SpinTypeOK', KeysInCalendar', Inserts("grant", spun)', Inserts("commitLogin", loggedIn)'
  PROVE  SpinInv'
BY DEF SpinInv, Wheel!OneSpinAWeek

LEMMA SpinStep ==
  ASSUME Wheel!SpinAssumption, SpinInv, NEW r \in Requests, Wheel!Spin(r)
  PROVE  SpinInv'
<1>1. /\ spinPc[r] = "idle"
      /\ spinPc' = [spinPc EXCEPT ![r] = "look"]
      /\ key' = [key EXCEPT ![r] = Wheel!Week(today)]
      /\ UNCHANGED <<today, spun, rewards, loggedIn, firsts>>
  BY DEF Wheel!Spin
<1>2. Wheel!Week(today) \in Wheel!Weeks /\ Wheel!Week(today) \in Nat
  BY WeekInCalendar DEF SpinInv, SpinTypeOK, Wheel!Weeks
<1>3. SpinTypeOK'
  BY <1>1, <1>2 DEF SpinInv, SpinTypeOK
<1>4. KeysInCalendar'
  BY <1>1, <1>2 DEF SpinInv, SpinTypeOK, KeysInCalendar
<1>5. Inserts("grant", spun)' /\ Inserts("commitLogin", loggedIn)'
  BY <1>1 DEF SpinInv, SpinTypeOK, Inserts
<1>. QED
  BY <1>1, <1>3, <1>4, <1>5, SameRows

\* Requests that change nothing but where they are: they leave, or go on to a
\* step that inserts nothing.
LEMMA MoveStep ==
  ASSUME SpinInv, NEW r \in Requests,
         UNCHANGED <<today, spun, rewards, loggedIn, firsts>>,
         \/ Wheel!Leave(r)
         \/ Wheel!Go(r, "insert") /\ spinPc[r] = "look"
         \/ Wheel!Go(r, "login")
  PROVE  SpinInv'
<1>1. SpinTypeOK'
  BY DEF SpinInv, SpinTypeOK, Wheel!Leave, Wheel!Go
<1>2. KeysInCalendar'
  BY DEF SpinInv, SpinTypeOK, KeysInCalendar, Wheel!Leave, Wheel!Go
<1>3. Inserts("grant", spun)' /\ Inserts("commitLogin", loggedIn)'
  BY DEF SpinInv, SpinTypeOK, Inserts, Wheel!Leave, Wheel!Go
<1>. QED
  BY <1>1, <1>2, <1>3, SameRows

\* The INSERT of the week: no other is open, and no row is there.
LEMMA InsertSpinStep ==
  ASSUME SpinInv, NEW r \in Requests, Wheel!InsertSpin(r)
  PROVE  SpinInv'
<1>1. CASE key[r] \in spun
  BY <1>1, MoveStep DEF Wheel!InsertSpin
<1>2. CASE key[r] \notin spun
  <2>1. /\ spinPc[r] = "insert"
        /\ spinPc' = [spinPc EXCEPT ![r] = "grant"]
        /\ UNCHANGED <<key, today, spun, rewards, loggedIn, firsts>>
        /\ \A o \in Requests \ {r} : spinPc[o] = "grant" => key[o] # key[r]
    BY <1>2 DEF Wheel!InsertSpin, Wheel!Inserting, Wheel!Go
  <2>2. SpinTypeOK' /\ KeysInCalendar'
    BY <2>1 DEF SpinInv, SpinTypeOK, KeysInCalendar
  <2>3. Inserts("grant", spun)' /\ Inserts("commitLogin", loggedIn)'
    BY <1>2, <2>1 DEF SpinInv, SpinTypeOK, Inserts
  <2>. QED
    BY <2>1, <2>2, <2>3, SameRows
<1>. QED
  BY <1>1, <1>2

LEMMA RecordLoginStep ==
  ASSUME SpinInv, NEW r \in Requests, Wheel!RecordLogin(r)
  PROVE  SpinInv'
<1>1. CASE today \in loggedIn
  BY <1>1, MoveStep DEF Wheel!RecordLogin
<1>2. CASE today \notin loggedIn
  <2>1. /\ spinPc[r] = "login"
        /\ spinPc' = [spinPc EXCEPT ![r] = "commitLogin"]
        /\ key' = [key EXCEPT ![r] = today]
        /\ UNCHANGED <<today, spun, rewards, loggedIn, firsts>>
        /\ \A o \in Requests : ~(spinPc[o] = "commitLogin" /\ key[o] = today)
    BY <1>2 DEF Wheel!RecordLogin
  <2>2. SpinTypeOK' /\ KeysInCalendar'
    BY <2>1 DEF SpinInv, SpinTypeOK, KeysInCalendar, Wheel!Days
  <2>3. Inserts("grant", spun)' /\ Inserts("commitLogin", loggedIn)'
    BY <1>2, <2>1 DEF SpinInv, SpinTypeOK, Inserts
  <2>. QED
    BY <2>1, <2>2, <2>3, SameRows
<1>. QED
  BY <1>1, <1>2

\* The commit of a spin: the row and the reward of a week that had neither.
LEMMA GrantStep ==
  ASSUME SpinInv, NEW r \in Requests, Wheel!Grant(r)
  PROVE  SpinInv'
<1>1. /\ spinPc[r] = "grant"
      /\ spun' = spun \cup {key[r]}
      /\ rewards' = [rewards EXCEPT ![key[r]] = @ + 1]
      /\ spinPc' = [spinPc EXCEPT ![r] = "idle"]
      /\ key' = [key EXCEPT ![r] = 0]
      /\ UNCHANGED <<today, loggedIn, firsts>>
  BY DEF Wheel!Grant, Wheel!Leave
<1>2. key[r] \in Wheel!Weeks /\ key[r] \notin spun
  BY <1>1 DEF SpinInv, KeysInCalendar, Inserts
<1>3. SpinTypeOK' /\ KeysInCalendar'
  BY <1>1, <1>2 DEF SpinInv, SpinTypeOK, KeysInCalendar
<1>4. Inserts("grant", spun)' /\ Inserts("commitLogin", loggedIn)'
  BY <1>1 DEF SpinInv, SpinTypeOK, Inserts
<1>5. Wheel!OneSpinAWeek'
  BY <1>1, <1>2 DEF SpinInv, SpinTypeOK, Wheel!OneSpinAWeek
<1>. QED
  BY <1>3, <1>4, <1>5 DEF SpinInv

LEMMA CommitLoginStep ==
  ASSUME SpinInv, NEW r \in Requests, Wheel!CommitLogin(r)
  PROVE  SpinInv'
<1>1. /\ spinPc[r] = "commitLogin"
      /\ loggedIn' = loggedIn \cup {key[r]}
      /\ firsts' = [firsts EXCEPT ![key[r]] = @ + 1]
      /\ spinPc' = [spinPc EXCEPT ![r] = "idle"]
      /\ key' = [key EXCEPT ![r] = 0]
      /\ UNCHANGED <<today, spun, rewards>>
  BY DEF Wheel!CommitLogin, Wheel!Leave
<1>2. key[r] \in Wheel!Days /\ key[r] \notin loggedIn
  BY <1>1 DEF SpinInv, KeysInCalendar, Inserts
<1>3. SpinTypeOK' /\ KeysInCalendar'
  BY <1>1, <1>2 DEF SpinInv, SpinTypeOK, KeysInCalendar
<1>4. Inserts("grant", spun)' /\ Inserts("commitLogin", loggedIn)'
  BY <1>1 DEF SpinInv, SpinTypeOK, Inserts
<1>5. Wheel!OneSpinAWeek'
  BY <1>1, <1>2 DEF SpinInv, SpinTypeOK, Wheel!OneSpinAWeek
<1>. QED
  BY <1>3, <1>4, <1>5 DEF SpinInv

LEMMA NextDayStep ==
  ASSUME Wheel!SpinAssumption, SpinInv, Wheel!NextDay
  PROVE  SpinInv'
<1>1. today' = today + 1 /\ today < LastDay
      /\ UNCHANGED <<spun, rewards, loggedIn, firsts, spinPc, key>>
  BY DEF Wheel!NextDay
<1>2. SpinTypeOK'
  BY <1>1 DEF Wheel!SpinAssumption, SpinInv, SpinTypeOK, Wheel!Days
<1>. QED
  BY <1>1, <1>2, SameRows DEF SpinInv, KeysInCalendar, Inserts

LEMMA WheelStep ==
  ASSUME Wheel!SpinAssumption, SpinInv, [Wheel!Next]_Wheel!wvars
  PROVE  SpinInv'
<1>1. CASE Wheel!NextDay
  BY <1>1, NextDayStep
<1>2. ASSUME NEW r \in Requests,
             \/ Wheel!Look(r) \/ Wheel!Status(r) \/ Wheel!Fail(r)
      PROVE  SpinInv'
  BY <1>2, MoveStep DEF Wheel!Look, Wheel!Status, Wheel!Fail
<1>3. ASSUME NEW r \in Requests,
             \/ Wheel!Spin(r) \/ Wheel!InsertSpin(r) \/ Wheel!Grant(r)
             \/ Wheel!RecordLogin(r) \/ Wheel!CommitLogin(r)
      PROVE  SpinInv'
  BY <1>3, SpinStep, InsertSpinStep, GrantStep, RecordLoginStep, CommitLoginStep
<1>4. CASE UNCHANGED Wheel!wvars
  BY <1>4, SameRows DEF Wheel!wvars, SpinInv, SpinTypeOK, KeysInCalendar, Inserts
<1>. QED
  BY <1>1, <1>2, <1>3, <1>4 DEF Wheel!Next

\* A week has one reward if its spin is on record and none otherwise, a day one
\* first login (spin_wheel, record_daily_login): for any number of requests and
\* weeks of any length.
THEOREM OneRewardAWeek == Wheel!SpinAssumption /\ Wheel!Spec => []OneSpinAWeek
<1>. SUFFICES ASSUME Wheel!SpinAssumption PROVE Wheel!Spec => []OneSpinAWeek
  OBVIOUS
<1>1. Wheel!Init => SpinInv
  BY SpinInit
<1>2. SpinInv /\ [Wheel!Next]_Wheel!wvars => SpinInv'
  BY WheelStep
<1>3. SpinInv => OneSpinAWeek
  BY DEF SpinInv, OneSpinAWeek
<1>. QED
  BY <1>1, <1>2, <1>3, PTL DEF Wheel!Spec
=============================================================================
