----------------------------- MODULE Entitlement -----------------------------
(***************************************************************************)
(* POST /internal/v1/check-access of payments-svc for a signed-in user:    *)
(* the check-and-consume transaction behind every tool call.  In order: an *)
(* always-free tool, the Pro plan, a pass, a credit, the daily free uses.  *)
(*                                                                         *)
(* A request is one READ COMMITTED transaction of several statements, and  *)
(* the requests of one user run at the same time.  A row that a request    *)
(* has written stays locked and unchanged for the others until it commits. *)
(***************************************************************************)
EXTENDS Integers, FiniteSets

CONSTANTS
  Requests,                    \* slots for requests of one user
  Tools, AlwaysFree,           \* ALWAYS_FREE_TOOL_IDS
  Passes,                      \* rows of billing.user_passes
  Covers, PerDay, Duration,    \* of each pass: its tools, uses_per_day, ticks
  Packs, Credits,              \* rows of billing.user_credits, oldest first
  FreeUses, LoginBonus,        \* FREE_USES_PER_TOOL_PER_DAY, DAILY_LOGIN_BONUS
  ProUntil,                    \* the end of the user's Pro plan
  TicksPerDay, MaxTime,        \* the clock: its grain and its bound
  Nothing

ASSUME EntitlementAssumption ==
  /\ IsFiniteSet(Requests) /\ Requests # {}
  /\ AlwaysFree \subseteq Tools
  /\ Covers \in [Passes -> SUBSET Tools]
  /\ PerDay \in [Passes -> Nat \ {0}]
  /\ Duration \in [Passes -> Nat \ {0}]
  /\ Packs \subseteq Nat
  /\ Credits \in [Packs -> Nat]
  /\ FreeUses \in Nat /\ LoginBonus \in Nat
  /\ ProUntil \in Nat
  /\ TicksPerDay \in Nat \ {0}
  /\ MaxTime \in Nat
  /\ Nothing \notin Tools

VARIABLES
  now,
  expires,            \* expires[p]: expires_at, 0 before the pass is granted
  uses, resetDay,     \* uses_today and uses_reset_date of each pass, -1 if null
  bought, remaining,  \* the credit rows there are, and credits_remaining
  logins,             \* days with a row in user_daily_logins
  counted,            \* counted[t][d]: use_count in user_tool_usage
  passServed,         \* passServed[p][d]: uses of p that requests of day d got
  pc, tool,           \* each request: its next statement and its tool
  at, candidates,     \* the `now` of _check_passes and the passes left to try
  allowance,          \* max_free
  wrote,              \* the row that its open transaction has written
  outcome             \* the last answer of each slot, or "open"

rows == <<expires, uses, resetDay, bought, remaining, logins, counted, passServed>>
work == <<tool, at, candidates, allowance, wrote>>
vars == <<now, rows, pc, work, outcome>>

Day(t) == t \div TicksPerDay
Days   == 0 .. Day(MaxTime)

None == [kind |-> "none", row |-> Nothing, day |-> 0]
Write(k, r, d) == [kind |-> k, row |-> r, day |-> d]

Init ==
  /\ now = 0
  /\ expires = [p \in Passes |-> 0]
  /\ uses = [p \in Passes |-> 0]
  /\ resetDay = [p \in Passes |-> -1]
  /\ bought = {}
  /\ remaining = [k \in Packs |-> 0]
  /\ logins = {}
  /\ counted = [t \in Tools |-> [d \in Days |-> 0]]
  /\ passServed = [p \in Passes |-> [d \in Days |-> 0]]
  /\ pc = [q \in Requests |-> "idle"]
  /\ tool = [q \in Requests |-> Nothing]
  /\ at = [q \in Requests |-> 0]
  /\ candidates = [q \in Requests |-> {}]
  /\ allowance = [q \in Requests |-> 0]
  /\ wrote = [q \in Requests |-> None]
  /\ outcome = [q \in Requests |-> "blocked"]

\* A row is locked by the transaction that has written it.
Locked(k, r, d) == \E o \in Requests : wrote[o] = Write(k, r, d)
PassLocked(p)   == \E o \in Requests : wrote[o].kind = "pass" /\ wrote[o].row = p

Goto(q, label) == pc' = [pc EXCEPT ![q] = label]

\* The request has its answer and goes on to the commit.
Decide(q, w) == wrote' = [wrote EXCEPT ![q] = w] /\ Goto(q, "commit")

-----------------------------------------------------------------------------
(* check_tool_access *)

Start(q, t) ==
  /\ pc[q] = "idle"
  /\ tool' = [tool EXCEPT ![q] = t]
  /\ outcome' = [outcome EXCEPT ![q] = "open"]
  /\ IF t \in AlwaysFree
     THEN Decide(q, Write("always", Nothing, 0))
     ELSE Goto(q, "tier") /\ UNCHANGED wrote
  /\ UNCHANGED <<now, rows, at, candidates, allowance>>

CheckPro(q) ==
  /\ pc[q] = "tier"
  /\ IF now < ProUntil
     THEN Decide(q, Write("pro", Nothing, 0))
     ELSE Goto(q, "passes") /\ UNCHANGED wrote
  /\ UNCHANGED <<now, rows, tool, at, candidates, allowance, outcome>>

(* _check_passes reads the clock once and selects without a lock.           *)
SelectPasses(q) ==
  /\ pc[q] = "passes"
  /\ at' = [at EXCEPT ![q] = now]
  /\ candidates' = [candidates EXCEPT
       ![q] = {p \in Passes : expires[p] > now /\ tool[q] \in Covers[p]}]
  /\ Goto(q, "consume")
  /\ UNCHANGED <<now, rows, tool, allowance, wrote, outcome>>

\* Variant: the cap is not checked again by the UPDATE.
HasRoom_Unguarded(q, p) == expires[p] > at[q]

\* Variant: one use too many.
HasRoom_OffByOne(q, p) == resetDay[p] # Day(at[q]) \/ uses[p] <= PerDay[p]

HasRoom(q, p) ==
  /\ expires[p] > at[q]
  /\ resetDay[p] # Day(at[q]) \/ uses[p] < PerDay[p]

\* Variants: only the first candidate is tried; a pass without room is retried.
ConsumePass_FirstOnly(q) ==
  /\ pc[q] = "consume"
  /\ \E p \in candidates[q] :
       /\ \A o \in candidates[q] : expires[p] <= expires[o]
       /\ ~PassLocked(p)
       /\ IF HasRoom(q, p)
          THEN Decide(q, Write("pass", p, Day(at[q]))) /\ UNCHANGED candidates
          ELSE /\ candidates' = [candidates EXCEPT ![q] = {}]
               /\ UNCHANGED <<pc, wrote>>
  /\ UNCHANGED <<now, rows, tool, at, allowance, outcome>>

ConsumePass_Retries(q) ==
  /\ pc[q] = "consume"
  /\ \E p \in candidates[q] :
       /\ \A o \in candidates[q] : expires[p] <= expires[o]
       /\ ~PassLocked(p)
       /\ HasRoom(q, p)
       /\ Decide(q, Write("pass", p, Day(at[q])))
  /\ UNCHANGED <<now, rows, tool, at, candidates, allowance, outcome>>

(* One guarded UPDATE for each candidate, the soonest to expire first.      *)
ConsumePass(q) ==
  /\ pc[q] = "consume"
  /\ \E p \in candidates[q] :
       /\ \A o \in candidates[q] : expires[p] <= expires[o]
       /\ ~PassLocked(p)
       /\ IF HasRoom(q, p)
          THEN Decide(q, Write("pass", p, Day(at[q]))) /\ UNCHANGED candidates
          ELSE /\ candidates' = [candidates EXCEPT ![q] = @ \ {p}]
               /\ UNCHANGED <<pc, wrote>>
  /\ UNCHANGED <<now, rows, tool, at, allowance, outcome>>

(* The oldest pack with balance, FOR UPDATE SKIP LOCKED.                    *)
OpenPacks == {k \in bought : remaining[k] > 0 /\ ~Locked("credit", k, 0)}

TakeCredit(q) ==
  /\ pc[q] = "consume"
  /\ candidates[q] = {}
  /\ IF OpenPacks # {}
     THEN \E k \in OpenPacks :
            /\ \A o \in OpenPacks : k <= o
            /\ Decide(q, Write("credit", k, 0))
     ELSE Goto(q, "login") /\ UNCHANGED wrote
  /\ UNCHANGED <<now, rows, tool, at, candidates, allowance, outcome>>

CheckLogin(q) ==
  /\ pc[q] = "login"
  /\ allowance' = [allowance EXCEPT
       ![q] = IF Day(now) \in logins THEN FreeUses + LoginBonus ELSE FreeUses]
  /\ Goto(q, "count")
  /\ UNCHANGED <<now, rows, tool, at, candidates, wrote, outcome>>

\* Variant: a limit that is off by one.
ReadCount_OffByOne(q) ==
  /\ pc[q] = "count"
  /\ IF counted[tool[q]][Day(now)] > allowance[q]
     THEN Decide(q, Write("blocked", Nothing, 0))
     ELSE Goto(q, "upsert") /\ UNCHANGED wrote
  /\ UNCHANGED <<now, rows, tool, at, candidates, allowance, outcome>>

(* _check_daily_limit: the count is read, and the UPSERT comes later.       *)
ReadCount(q) ==
  /\ pc[q] = "count"
  /\ IF counted[tool[q]][Day(now)] >= allowance[q]
     THEN Decide(q, Write("blocked", Nothing, 0))
     ELSE Goto(q, "upsert") /\ UNCHANGED wrote
  /\ UNCHANGED <<now, rows, tool, at, candidates, allowance, outcome>>

Upsert(q) ==
  /\ pc[q] = "upsert"
  /\ ~Locked("free", tool[q], Day(now))
  /\ Decide(q, Write("free", tool[q], Day(now)))
  /\ UNCHANGED <<now, rows, tool, at, candidates, allowance, outcome>>

-----------------------------------------------------------------------------
(* The end of the transaction *)

End(q, result) ==
  /\ Goto(q, "idle")
  /\ tool' = [tool EXCEPT ![q] = Nothing]
  /\ at' = [at EXCEPT ![q] = 0]
  /\ candidates' = [candidates EXCEPT ![q] = {}]
  /\ allowance' = [allowance EXCEPT ![q] = 0]
  /\ wrote' = [wrote EXCEPT ![q] = None]
  /\ outcome' = [outcome EXCEPT ![q] = result]

CommitPass(p, d) ==
  /\ uses' = [uses EXCEPT ![p] = IF resetDay[p] # d THEN 1 ELSE @ + 1]
  /\ resetDay' = [resetDay EXCEPT ![p] = d]
  /\ passServed' = [passServed EXCEPT ![p][d] = @ + 1]
  /\ UNCHANGED <<expires, bought, remaining, logins, counted>>

CommitCredit(k) ==
  /\ remaining' = [remaining EXCEPT ![k] = @ - 1]
  /\ UNCHANGED <<expires, uses, resetDay, bought, logins, counted, passServed>>

CommitFree(t, d) ==
  /\ counted' = [counted EXCEPT ![t][d] = @ + 1]
  /\ UNCHANGED <<expires, uses, resetDay, bought, remaining, logins, passServed>>

Commit(q) ==
  /\ pc[q] = "commit"
  /\ \/ wrote[q].kind = "pass" /\ CommitPass(wrote[q].row, wrote[q].day)
     \/ wrote[q].kind = "credit" /\ CommitCredit(wrote[q].row)
     \/ wrote[q].kind = "free" /\ CommitFree(wrote[q].row, wrote[q].day)
     \/ wrote[q].kind \in {"always", "pro", "blocked"} /\ UNCHANGED rows
  /\ End(q, wrote[q].kind)
  /\ UNCHANGED now

\* Variant: the failed request keeps the credit that it has taken.
Fail_NoRollback(q) ==
  /\ pc[q] # "idle"
  /\ IF wrote[q].kind = "credit" THEN CommitCredit(wrote[q].row) ELSE UNCHANGED rows
  /\ End(q, "failed")
  /\ UNCHANGED now

(* A statement or the commit fails: rollback, and 503.                      *)
Fail(q) ==
  /\ pc[q] # "idle"
  /\ End(q, "failed")
  /\ UNCHANGED <<now, rows>>

-----------------------------------------------------------------------------
(* What other requests do meanwhile *)

GrantPass(p) ==
  /\ expires[p] = 0
  /\ expires' = [expires EXCEPT ![p] = now + Duration[p]]
  /\ UNCHANGED <<now, uses, resetDay, bought, remaining, logins, counted>>
  /\ UNCHANGED <<passServed, pc, work, outcome>>

GrantCredits(k) ==
  /\ k \notin bought
  /\ bought' = bought \cup {k}
  /\ remaining' = [remaining EXCEPT ![k] = Credits[k]]
  /\ UNCHANGED <<now, expires, uses, resetDay, logins, counted, passServed>>
  /\ UNCHANGED <<pc, work, outcome>>

RecordDailyLogin ==
  /\ logins' = logins \cup {Day(now)}
  /\ UNCHANGED <<now, expires, uses, resetDay, bought, remaining, counted>>
  /\ UNCHANGED <<passServed, pc, work, outcome>>

Tick == now < MaxTime /\ now' = now + 1 /\ UNCHANGED <<rows, pc, work, outcome>>

Step(q) ==
  \/ CheckPro(q) \/ SelectPasses(q) \/ ConsumePass(q) \/ TakeCredit(q)
  \/ CheckLogin(q) \/ ReadCount(q) \/ Upsert(q) \/ Commit(q)

Next ==
  \/ \E q \in Requests : (\E t \in Tools : Start(q, t)) \/ Step(q) \/ Fail(q)
  \/ \E p \in Passes : GrantPass(p)
  \/ \E k \in Packs : GrantCredits(k)
  \/ RecordDailyLogin
  \/ Tick

Spec == Init /\ [][Next]_vars

(* A transaction runs on, and the queue for a row lock is FIFO.             *)
FairSpec == Spec /\ \A q \in Requests : SF_vars(Step(q))

-----------------------------------------------------------------------------
(* Properties *)

Labels == {"idle", "tier", "passes", "consume", "login", "count", "upsert", "commit"}

Writes ==
  [kind : {"none", "always", "pro", "blocked"}, row : {Nothing}, day : {0}]
    \cup [kind : {"pass"}, row : Passes, day : Days]
    \cup [kind : {"credit"}, row : Packs, day : {0}]
    \cup [kind : {"free"}, row : Tools, day : Days]

Results == {"open", "always", "pro", "pass", "credit", "free", "blocked", "failed"}

\* Every variable has its type; a balance or a counter is never negative.
TypeOK ==
  /\ now \in 0 .. MaxTime
  /\ expires \in [Passes -> Nat]
  /\ uses \in [Passes -> Nat]
  /\ resetDay \in [Passes -> Days \cup {-1}]
  /\ bought \subseteq Packs
  /\ remaining \in [Packs -> Nat]
  /\ logins \subseteq Days
  /\ counted \in [Tools -> [Days -> Nat]]
  /\ passServed \in [Passes -> [Days -> Nat]]
  /\ pc \in [Requests -> Labels]
  /\ tool \in [Requests -> Tools \cup {Nothing}]
  /\ at \in [Requests -> 0 .. MaxTime]
  /\ candidates \in [Requests -> SUBSET Passes]
  /\ allowance \in [Requests -> Nat]
  /\ wrote \in [Requests -> Writes]
  /\ outcome \in [Requests -> Results]

\* "Two concurrent requests can never push uses_today past uses_per_day", not
\* even the update that one of them has not committed yet.
PassCap ==
  \A p \in Passes :
    /\ uses[p] <= PerDay[p]
    /\ \A q \in Requests :
         wrote[q].kind = "pass" /\ wrote[q].row = p /\ resetDay[p] = wrote[q].day
           => uses[p] < PerDay[p]

\* The daily count is read before it is raised: concurrent requests overrun the
\* free uses, but only by the requests that run at the same time.
DailyOverrun ==
  \A t \in Tools : \A d \in Days :
    counted[t][d] <= FreeUses + LoginBonus + Cardinality(Requests) - 1

\* A request counts its use under the date that it read before, and an update of
\* another date sets the counter back: around midnight a pass gives more uses in
\* a day than it was sold with, but each further request that is at work brings
\* at most its own use and one more uses_per_day.
PassOverrun ==
  \A p \in Passes : \A d \in Days :
    passServed[p][d] <= PerDay[p] + (Cardinality(Requests) - 1) * (PerDay[p] + 1)

\* While no request is at work at midnight, no pass gives more uses in a day than
\* it was sold with.
PassUsesPerDay == \A p \in Passes : \A d \in Days : passServed[p][d] <= PerDay[p]

\* A credit or a free use is taken only when no pass that the user had before
\* the request has a use left ("checks access sources in priority order").
PassesFirst ==
  [][\A q \in Requests :
       wrote[q] = None /\ wrote'[q].kind \in {"credit", "free", "blocked"}
         => \A p \in Passes :
              expires[p] > 0 /\ expires[p] - Duration[p] < at[q] /\ tool[q] \in Covers[p]
                => ~HasRoom(q, p)]_vars

\* Every request ends: a transaction that waits for a row holds none.
RequestsEnd == \A q \in Requests : pc[q] # "idle" ~> pc[q] = "idle"

\* The credits that are left and the free uses that are counted, one by one.
CreditsLeft == UNION {{k} \X (1 .. remaining[k]) : k \in bought}
FreeTaken == UNION {{u} \X (1 .. counted[u[1]][u[2]]) : u \in Tools \X Days}

Quota == INSTANCE ToolQuota WITH
  Amounts  <- {Credits[k] : k \in Packs},
  balance  <- Cardinality(CreditsLeft),
  freeUses <- Cardinality(FreeTaken)

\* Whatever runs at the same time or fails, each call spends what its answer
\* says and nothing else.
ImplementsQuota == Quota!QuotaSpec
=============================================================================
