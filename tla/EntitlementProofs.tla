-------------------------- MODULE EntitlementProofs --------------------------
(***************************************************************************)
(* What holds of Entitlement for every set of requests, tools, passes and  *)
(* credit rows, every clock and every limit.                               *)
(***************************************************************************)
EXTENDS Entitlement, FiniteSetTheorems, TLAPS

-----------------------------------------------------------------------------
(* Days and writes *)

\* A later time is on no earlier day.
LEMMA DayMonotone ==
  ASSUME NEW s \in Nat, NEW t \in Nat, s <= t
  PROVE  Day(s) \in Nat /\ Day(s) <= Day(t)
<1>1. TicksPerDay \in Nat /\ TicksPerDay > 0
  BY EntitlementAssumption
<1>. DEFINE a == s \div TicksPerDay
            b == t \div TicksPerDay
<1>2. /\ a \in Nat /\ b \in Nat
      /\ s = TicksPerDay * a + (s % TicksPerDay)
      /\ t = TicksPerDay * b + (t % TicksPerDay)
      /\ 0 <= s % TicksPerDay /\ s % TicksPerDay < TicksPerDay
      /\ 0 <= t % TicksPerDay /\ t % TicksPerDay < TicksPerDay
  BY <1>1
<1>3. a <= b
  BY <1>1, <1>2
<1>. QED  BY <1>2, <1>3 DEF Day

\* The days of the clock are the days of the counters.
LEMMA DayInDays == ASSUME NEW t \in 0 .. MaxTime PROVE Day(t) \in Days
<1>1. MaxTime \in Nat
  BY EntitlementAssumption
<1>2. Day(t) \in Nat /\ Day(MaxTime) \in Nat /\ Day(t) <= Day(MaxTime)
  BY <1>1, DayMonotone
<1>. QED  BY <1>2 DEF Days

\* The rows that a request can write.
LEMMA WriteType ==
  /\ None \in Writes /\ None.kind = "none"
  /\ \A k \in {"always", "pro", "blocked"} : Write(k, Nothing, 0) \in Writes
  /\ \A p \in Passes, d \in Days : Write("pass", p, d) \in Writes
  /\ \A k \in Packs : Write("credit", k, 0) \in Writes
  /\ \A t \in Tools, d \in Days : Write("free", t, d) \in Writes
BY DEF Writes, Write, None

\* What is written is what was given.
LEMMA WriteFields ==
  ASSUME NEW k, NEW r, NEW d
  PROVE  /\ Write(k, r, d).kind = k
         /\ Write(k, r, d).row = r
         /\ Write(k, r, d).day = d
BY DEF Write

\* The kind of a write determines the table of its row.
LEMMA WriteRows ==
  ASSUME NEW w \in Writes
  PROVE  /\ w.kind \in {"none", "always", "pro", "blocked", "pass", "credit", "free"}
         /\ w.kind = "pass" => w.row \in Passes /\ w.day \in Days
         /\ w.kind = "credit" => w.row \in Packs /\ w = Write("credit", w.row, 0)
         /\ w.kind = "free" => w.row \in Tools /\ w.day \in Days
                               /\ w = Write("free", w.row, w.day)
BY DEF Writes, Write

-----------------------------------------------------------------------------
(* Type correctness.  A balance stays positive for the one transaction that *)
(* has taken a credit from it.                                              *)

HasTool == \A q \in Requests : pc[q] # "idle" => tool[q] \in Tools

WritesAtCommit ==
  \A q \in Requests : wrote[q].kind # "none" <=> pc[q] = "commit"

CreditThere ==
  \A q \in Requests : wrote[q].kind = "credit" =>
    wrote[q].row \in bought /\ remaining[wrote[q].row] > 0

OneWriter ==
  \A q, o \in Requests :
    q # o /\ wrote[q].kind = wrote[o].kind /\ wrote[q].kind \in {"pass", "credit"}
      => wrote[q].row # wrote[o].row

Shape == HasTool /\ WritesAtCommit /\ CreditThere /\ OneWriter

TypeInv == TypeOK /\ Shape

\* The type invariant holds initially.
LEMMA TypeInit == ASSUME Init PROVE TypeInv
<1>1. 0 \in 0 .. MaxTime /\ \A d \in Days : d \in Nat
  BY EntitlementAssumption DEF Days
<1>2. None \in Writes /\ None.kind = "none"
  BY WriteType
<1>. QED
  BY <1>1, <1>2 DEF Init, TypeInv, TypeOK, Shape, HasTool, WritesAtCommit, CreditThere,
     OneWriter, Labels, Results

\* A request that decides to write a row that no other request has written.
LEMMA DecideKeepsShape ==
  ASSUME Shape, TypeOK, NEW q \in Requests, NEW w \in Writes,
         Decide(q, w), HasTool', UNCHANGED <<bought, remaining>>,
         w.kind # "none", w.kind = "pass" => ~PassLocked(w.row),
         w.kind = "credit" => w.row \in OpenPacks
  PROVE  Shape'
<1>1. wrote' = [wrote EXCEPT ![q] = w] /\ pc' = [pc EXCEPT ![q] = "commit"]
  BY DEF Decide, Goto
<1>2. WritesAtCommit'
  BY <1>1 DEF Shape, WritesAtCommit, TypeOK
<1>3. CreditThere'
  BY <1>1 DEF Shape, CreditThere, TypeOK, OpenPacks
<1>4. \A o \in Requests \ {q} :
        wrote[o].kind = w.kind /\ w.kind \in {"pass", "credit"} => wrote[o].row # w.row
  <2>. SUFFICES ASSUME NEW o \in Requests \ {q}, wrote[o].kind = w.kind,
                       w.kind \in {"pass", "credit"}, wrote[o].row = w.row
                PROVE  FALSE
    OBVIOUS
  <2>1. CASE w.kind = "pass"
    BY <2>1 DEF PassLocked
  <2>2. CASE w.kind = "credit"
    <3>1. wrote[o] \in Writes
      BY DEF TypeOK
    <3>2. wrote[o] = Write("credit", w.row, 0)
      BY <2>2, <3>1, WriteRows
    <3>. QED  BY <2>2, <3>2 DEF OpenPacks, Locked
  <2>. QED  BY <2>1, <2>2
<1>5. OneWriter'
  BY <1>1, <1>4 DEF Shape, OneWriter, TypeOK
<1>. QED  BY <1>2, <1>3, <1>5 DEF Shape

\* A step that writes nothing and goes on.
LEMMA GotoKeepsShape ==
  ASSUME Shape, TypeOK, NEW q \in Requests, NEW label \in Labels \ {"idle", "commit"},
         pc[q] \notin {"idle", "commit"}, Goto(q, label),
         UNCHANGED <<tool, wrote, bought, remaining>>
  PROVE  Shape'
<1>1. pc' = [pc EXCEPT ![q] = label]
  BY DEF Goto
<1>2. HasTool' /\ WritesAtCommit'
  BY <1>1 DEF Shape, HasTool, WritesAtCommit, TypeOK
<1>3. CreditThere' /\ OneWriter'
  BY DEF Shape, CreditThere, OneWriter
<1>. QED  BY <1>2, <1>3 DEF Shape

\* The end of a transaction that leaves credit rows of the others alone.
LEMMA EndKeepsShape ==
  ASSUME Shape, TypeOK, NEW q \in Requests, NEW r \in Results, End(q, r),
         bought' = bought,
         \A o \in Requests \ {q} : wrote[o].kind = "credit" =>
           remaining'[wrote[o].row] = remaining[wrote[o].row]
  PROVE  Shape'
<1>1. /\ wrote' = [wrote EXCEPT ![q] = None]
      /\ pc' = [pc EXCEPT ![q] = "idle"]
      /\ tool' = [tool EXCEPT ![q] = Nothing]
  BY DEF End, Goto
<1>2. None.kind = "none"
  BY WriteType
<1>3. HasTool' /\ WritesAtCommit'
  BY <1>1, <1>2 DEF Shape, HasTool, WritesAtCommit, TypeOK
<1>4. CreditThere'
  BY <1>1, <1>2 DEF Shape, CreditThere, TypeOK
<1>5. OneWriter'
  BY <1>1, <1>2 DEF Shape, OneWriter, TypeOK
<1>. QED  BY <1>3, <1>4, <1>5 DEF Shape

\* The end of a transaction keeps the types and the shape of the requests.
LEMMA EndType ==
  ASSUME TypeOK, NEW q \in Requests, NEW r \in Results, End(q, r)
  PROVE  /\ pc' \in [Requests -> Labels]
         /\ tool' \in [Requests -> Tools \cup {Nothing}]
         /\ at' \in [Requests -> 0 .. MaxTime]
         /\ candidates' \in [Requests -> SUBSET Passes]
         /\ allowance' \in [Requests -> Nat]
         /\ wrote' \in [Requests -> Writes]
         /\ outcome' \in [Requests -> Results]
BY WriteType, EntitlementAssumption DEF End, Goto, TypeOK, Labels

\* A commit keeps the types: a credit row that is locked has balance.
LEMMA CommitType ==
  ASSUME TypeInv, NEW q \in Requests, Commit(q)
  PROVE  TypeInv'
<1>. USE DEF TypeInv
<1>1. wrote[q] \in Writes
  BY DEF TypeOK
<1>2. now' = now /\ End(q, wrote[q].kind)
  BY DEF Commit
<1>3. CASE wrote[q].kind = "pass"
  <2>1. CommitPass(wrote[q].row, wrote[q].day)
    BY <1>3 DEF Commit
  <2>2. wrote[q].row \in Passes /\ wrote[q].day \in Days /\ wrote[q].kind \in Results
    BY <1>1, <1>3, WriteRows DEF Results
  <2>3. TypeOK'
    BY <1>2, <2>1, <2>2, EndType DEF CommitPass, TypeOK
  <2>4. Shape'
    BY <1>2, <2>1, <2>2, EndKeepsShape DEF CommitPass
  <2>. QED  BY <2>3, <2>4
<1>4. CASE wrote[q].kind = "credit"
  <2>1. CommitCredit(wrote[q].row)
    BY <1>4 DEF Commit
  <2>2. /\ wrote[q].row \in Packs /\ wrote[q].kind \in Results
        /\ remaining[wrote[q].row] > 0
    BY <1>1, <1>4, WriteRows DEF Results, Shape, CreditThere
  <2>3. TypeOK'
    BY <1>2, <2>1, <2>2, EndType DEF CommitCredit, TypeOK
  <2>4. \A o \in Requests \ {q} : wrote[o].kind = "credit" =>
          remaining'[wrote[o].row] = remaining[wrote[o].row]
    <3>1. \A o \in Requests \ {q} : wrote[o].kind = "credit" =>
            wrote[o].row \in Packs /\ wrote[o].row # wrote[q].row
      BY <1>4, WriteRows DEF TypeOK, Shape, OneWriter
    <3>. QED  BY <3>1, <2>1 DEF CommitCredit, TypeOK
  <2>5. Shape'
    BY <1>2, <2>1, <2>2, <2>4, EndKeepsShape DEF CommitCredit
  <2>. QED  BY <2>3, <2>5
<1>5. CASE wrote[q].kind = "free"
  <2>1. CommitFree(wrote[q].row, wrote[q].day)
    BY <1>5 DEF Commit
  <2>2. wrote[q].row \in Tools /\ wrote[q].day \in Days /\ wrote[q].kind \in Results
    BY <1>1, <1>5, WriteRows DEF Results
  <2>3. TypeOK'
    BY <1>2, <2>1, <2>2, EndType DEF CommitFree, TypeOK
  <2>4. Shape'
    BY <1>2, <2>1, <2>2, EndKeepsShape DEF CommitFree
  <2>. QED  BY <2>3, <2>4
<1>6. CASE wrote[q].kind \in {"always", "pro", "blocked"}
  <2>1. UNCHANGED rows
    BY <1>6 DEF Commit
  <2>2. wrote[q].kind \in Results
    BY <1>6 DEF Results
  <2>3. TypeOK'
    BY <1>2, <2>1, <2>2, EndType DEF rows, TypeOK
  <2>4. Shape'
    BY <1>2, <2>1, <2>2, EndKeepsShape DEF rows
  <2>. QED  BY <2>3, <2>4
<1>. QED  BY <1>3, <1>4, <1>5, <1>6 DEF Commit

\* Deciding keeps the types of the program counters and of the writes.
LEMMA DecideType ==
  ASSUME TypeOK, NEW q \in Requests, NEW w \in Writes, Decide(q, w)
  PROVE  pc' \in [Requests -> Labels] /\ wrote' \in [Requests -> Writes]
BY DEF Decide, Goto, TypeOK, Labels

\* A statement either decides, or goes on to another one.
LEMMA RequestType ==
  ASSUME TypeInv, NEW q \in Requests,
         \/ CheckPro(q) \/ SelectPasses(q) \/ ConsumePass(q) \/ TakeCredit(q)
         \/ CheckLogin(q) \/ ReadCount(q) \/ Upsert(q)
  PROVE  TypeInv'
<1>. USE DEF TypeInv
<1>1. UNCHANGED <<now, rows, tool, outcome>> /\ pc[q] \notin {"idle", "commit"}
  BY DEF CheckPro, SelectPasses, ConsumePass, TakeCredit, CheckLogin, ReadCount, Upsert
<1>2. /\ UNCHANGED <<expires, uses, resetDay, bought, remaining, logins, counted>>
      /\ UNCHANGED <<passServed, now, tool, outcome>>
  BY <1>1 DEF rows
<1>3. ASSUME NEW w \in Writes, Decide(q, w), w.kind # "none",
             w.kind = "pass" => ~PassLocked(w.row),
             w.kind = "credit" => w.row \in OpenPacks
      PROVE  Shape' /\ pc' \in [Requests -> Labels] /\ wrote' \in [Requests -> Writes]
  <2>1. HasTool'
    BY <1>1, <1>2, <1>3 DEF Shape, HasTool, Decide, Goto, TypeOK
  <2>. QED  BY <1>2, <1>3, <2>1, DecideKeepsShape, DecideType
<1>4. ASSUME NEW label \in Labels \ {"idle", "commit"}, Goto(q, label), wrote' = wrote
      PROVE  Shape' /\ pc' \in [Requests -> Labels] /\ wrote' \in [Requests -> Writes]
  <2>1. pc' \in [Requests -> Labels]
    BY <1>4 DEF Goto, TypeOK
  <2>. QED  BY <1>1, <1>2, <1>4, <2>1, GotoKeepsShape DEF TypeOK
<1>5. /\ at' \in [Requests -> 0 .. MaxTime]
      /\ candidates' \in [Requests -> SUBSET Passes]
      /\ allowance' \in [Requests -> Nat]
  <2>1. CASE CheckPro(q) \/ TakeCredit(q) \/ ReadCount(q) \/ Upsert(q)
    BY <2>1 DEF CheckPro, TakeCredit, ReadCount, Upsert, TypeOK
  <2>2. CASE SelectPasses(q)
    BY <2>2 DEF SelectPasses, TypeOK
  <2>3. CASE ConsumePass(q)
    <3>1. at' = at /\ allowance' = allowance
      BY <2>3 DEF ConsumePass
    <3>2. candidates' = candidates \/ \E p \in candidates[q] :
            candidates' = [candidates EXCEPT ![q] = @ \ {p}]
      BY <2>3 DEF ConsumePass
    <3>. QED  BY <3>1, <3>2 DEF TypeOK
  <2>4. CASE CheckLogin(q)
    BY <2>4, EntitlementAssumption DEF CheckLogin, TypeOK
  <2>. QED  BY <2>1, <2>2, <2>3, <2>4
<1>6. SUFFICES Shape' /\ pc' \in [Requests -> Labels] /\ wrote' \in [Requests -> Writes]
  BY <1>2, <1>5 DEF TypeOK
<1>7. CASE CheckPro(q)
  <2>1. CASE Decide(q, Write("pro", Nothing, 0))
    BY <1>3, <2>1, WriteType, WriteFields
  <2>2. CASE Goto(q, "passes") /\ wrote' = wrote
    BY <1>4, <2>2 DEF Labels
  <2>. QED  BY <1>7, <2>1, <2>2 DEF CheckPro
<1>8. CASE SelectPasses(q)
  BY <1>4, <1>8 DEF SelectPasses, Labels
<1>9. CASE ConsumePass(q)
  <2>1. PICK p \in candidates[q] :
          /\ ~PassLocked(p)
          /\ \/ Decide(q, Write("pass", p, Day(at[q])))
             \/ UNCHANGED <<pc, wrote>>
    BY <1>9 DEF ConsumePass
  <2>2. p \in Passes /\ Day(at[q]) \in Days
    BY DayInDays DEF TypeOK
  <2>3. CASE Decide(q, Write("pass", p, Day(at[q])))
    BY <1>3, <2>1, <2>2, <2>3, WriteType, WriteFields
  <2>4. CASE UNCHANGED <<pc, wrote>>
    BY <1>2, <2>4 DEF TypeOK, Shape, HasTool, WritesAtCommit, CreditThere, OneWriter
  <2>. QED  BY <2>1, <2>3, <2>4
<1>10. CASE TakeCredit(q)
  <2>1. CASE Goto(q, "login") /\ wrote' = wrote
    BY <1>4, <2>1 DEF Labels
  <2>2. ASSUME NEW k \in OpenPacks, Decide(q, Write("credit", k, 0))
        PROVE  Shape' /\ pc' \in [Requests -> Labels] /\ wrote' \in [Requests -> Writes]
    <3>1. k \in Packs
      BY <2>2 DEF OpenPacks, TypeOK
    <3>. QED  BY <1>3, <2>2, <3>1, WriteType, WriteFields
  <2>. QED  BY <1>10, <2>1, <2>2 DEF TakeCredit
<1>11. CASE CheckLogin(q)
  BY <1>4, <1>11 DEF CheckLogin, Labels
<1>12. CASE ReadCount(q)
  <2>1. CASE Decide(q, Write("blocked", Nothing, 0))
    BY <1>3, <2>1, WriteType, WriteFields
  <2>2. CASE Goto(q, "upsert") /\ wrote' = wrote
    BY <1>4, <2>2 DEF Labels
  <2>. QED  BY <1>12, <2>1, <2>2 DEF ReadCount
<1>13. CASE Upsert(q)
  <2>1. tool[q] \in Tools /\ Day(now) \in Days /\ Decide(q, Write("free", tool[q], Day(now)))
    BY <1>1, <1>13, DayInDays DEF Upsert, Shape, HasTool, TypeOK
  <2>. QED  BY <1>3, <2>1, WriteType, WriteFields
<1>. QED  BY <1>7, <1>8, <1>9, <1>10, <1>11, <1>12, <1>13

\* The first statement of a request keeps the type invariant.
LEMMA StartType ==
  ASSUME TypeInv, NEW q \in Requests, NEW t \in Tools, Start(q, t)
  PROVE  TypeInv'
<1>. USE DEF TypeInv
<1>1. /\ pc[q] = "idle" /\ tool' = [tool EXCEPT ![q] = t]
      /\ outcome' = [outcome EXCEPT ![q] = "open"]
      /\ UNCHANGED <<now, at, candidates, allowance>>
      /\ UNCHANGED <<expires, uses, resetDay, bought, remaining, logins, counted, passServed>>
  BY DEF Start, rows
<1>2. CASE Decide(q, Write("always", Nothing, 0))
  <2>1. HasTool'
    BY <1>1, <1>2 DEF Shape, HasTool, Decide, Goto, TypeOK
  <2>2. Shape' /\ pc' \in [Requests -> Labels] /\ wrote' \in [Requests -> Writes]
    BY <1>1, <1>2, <2>1, DecideKeepsShape, DecideType, WriteType, WriteFields
  <2>. QED  BY <1>1, <2>2 DEF TypeOK, Results
<1>3. CASE Goto(q, "tier") /\ wrote' = wrote
  <2>1. pc' = [pc EXCEPT ![q] = "tier"]
    BY <1>3 DEF Goto
  <2>2. HasTool' /\ WritesAtCommit'
    BY <1>1, <1>3, <2>1 DEF Shape, HasTool, WritesAtCommit, TypeOK
  <2>3. CreditThere' /\ OneWriter'
    BY <1>1, <1>3 DEF Shape, CreditThere, OneWriter
  <2>4. TypeOK'
    BY <1>1, <1>3, <2>1 DEF TypeOK, Results, Labels
  <2>. QED  BY <2>2, <2>3, <2>4 DEF Shape
<1>. QED  BY <1>2, <1>3 DEF Start

\* Grants, logins and the clock touch no transaction.
LEMMA OthersType ==
  ASSUME TypeInv,
         \/ \E p \in Passes : GrantPass(p)
         \/ \E k \in Packs : GrantCredits(k)
         \/ RecordDailyLogin \/ Tick \/ UNCHANGED vars
  PROVE  TypeInv'
<1>. USE EntitlementAssumption DEF TypeInv
<1>1. UNCHANGED <<pc, tool, at, candidates, allowance, wrote, outcome>>
  BY DEF GrantPass, GrantCredits, RecordDailyLogin, Tick, vars, work
<1>2. HasTool' /\ WritesAtCommit' /\ OneWriter'
  BY <1>1 DEF Shape, HasTool, WritesAtCommit, OneWriter
<1>3. CASE \E p \in Passes : GrantPass(p)
  BY <1>1, <1>2, <1>3 DEF GrantPass, TypeOK, Shape, CreditThere
<1>4. ASSUME NEW k \in Packs, GrantCredits(k) PROVE TypeInv'
  <2>1. CreditThere'
    BY <1>1, <1>4, WriteRows DEF GrantCredits, TypeOK, Shape, CreditThere
  <2>. QED  BY <1>1, <1>2, <1>4, <2>1 DEF GrantCredits, TypeOK, Shape
<1>5. CASE RecordDailyLogin
  <2>1. Day(now) \in Days
    BY DayInDays DEF TypeOK
  <2>. QED  BY <1>1, <1>2, <1>5, <2>1 DEF RecordDailyLogin, TypeOK, Shape, CreditThere
<1>6. CASE Tick
  BY <1>1, <1>2, <1>6 DEF Tick, rows, TypeOK, Shape, CreditThere
<1>7. CASE UNCHANGED vars
  BY <1>1, <1>2, <1>7 DEF vars, rows, TypeOK, Shape, CreditThere
<1>. QED  BY <1>3, <1>4, <1>5, <1>6, <1>7

\* Every step keeps the type invariant.
LEMMA TypeStep == ASSUME TypeInv, [Next]_vars PROVE TypeInv'
<1>1. ASSUME NEW q \in Requests, Fail(q) PROVE TypeInv'
  <2>1. End(q, "failed") /\ "failed" \in Results
    BY <1>1 DEF Fail, Results
  <2>2. TypeOK'
    BY <1>1, <2>1, EndType DEF TypeInv, Fail, rows, TypeOK
  <2>. QED  BY <1>1, <2>1, <2>2, EndKeepsShape DEF TypeInv, Fail, rows
<1>. QED
  BY <1>1, StartType, RequestType, CommitType, OthersType DEF Next, Step

\* Every reachable state is well typed; no balance is ever negative.
THEOREM EntitlementTypeCorrect == Spec => []TypeOK
<1>1. Init => TypeInv
  BY TypeInit
<1>2. TypeInv /\ [Next]_vars => TypeInv'
  BY TypeStep
<1>3. TypeInv => TypeOK
  BY DEF TypeInv
<1>. QED  BY <1>1, <1>2, <1>3, PTL DEF Spec

-----------------------------------------------------------------------------
(* Waiting.  The sources are tried in turn, each with a statement that locks *)
(* a row; a transaction that got one takes no other.                         *)

\* The next statement of q waits for a row that o has written.
WaitsFor(q, o) ==
  \/ /\ pc[q] = "consume"
     /\ wrote[o].kind = "pass" /\ wrote[o].row \in candidates[q]
  \/ /\ pc[q] = "upsert"
     /\ wrote[o] = Write("free", tool[q], Day(now))

\* However many requests of a user run, some request of any set of them waits
\* for none of the set, and a row that is waited for is released by a commit.
NoDeadlock ==
  /\ \A S \in SUBSET Requests : S # {} => \E q \in S : \A o \in S : ~WaitsFor(q, o)
  /\ \A q, o \in Requests : WaitsFor(q, o) => pc[o] = "commit"

\* The statements of the gate never deadlock: ranked passes, the credit packs
\* (SKIP LOCKED) and the daily count are locked one at a time.
THEOREM GateNeverDeadlocks == Spec => []NoDeadlock
<1>1. TypeInv => NoDeadlock
  <2>. SUFFICES ASSUME TypeInv PROVE NoDeadlock
    OBVIOUS
  <2>1. ASSUME NEW q \in Requests, NEW o \in Requests, WaitsFor(q, o)
        PROVE  pc[o] = "commit"
    <3>1. wrote[o].kind # "none"
      BY <2>1, WriteFields DEF WaitsFor
    <3>. QED  BY <3>1 DEF TypeInv, Shape, WritesAtCommit
  <2>2. ASSUME NEW S \in SUBSET Requests, S # {}
        PROVE  \E q \in S : \A o \in S : ~WaitsFor(q, o)
    <3>1. CASE \E q \in S : pc[q] = "commit"
      BY <3>1 DEF WaitsFor
    <3>2. CASE \A q \in S : pc[q] # "commit"
      BY <2>1, <2>2, <3>2
    <3>. QED  BY <3>1, <3>2
  <2>. QED  BY <2>1, <2>2 DEF NoDeadlock
<1>. QED  BY <1>1, TypeInit, TypeStep, PTL DEF Spec

-----------------------------------------------------------------------------
(* The cap of a pass: the guard that a request found true stays true until  *)
(* its commit, because nobody else writes the row meanwhile.                *)

PassInv == TypeInv /\ PassCap

\* The cap of the passes holds initially.
LEMMA PassInit == ASSUME Init PROVE PassInv
<1>1. TypeInv
  BY TypeInit
<1>2. None.kind = "none" /\ \A p \in Passes : 0 <= PerDay[p]
  BY WriteType, EntitlementAssumption
<1>. QED  BY <1>1, <1>2 DEF Init, PassInv, PassCap

\* A step that commits no pass keeps the cap if a new write has found room.
LEMMA WriteKeepsCap ==
  ASSUME PassInv, UNCHANGED <<uses, resetDay>>, TypeOK', NEW q \in Requests,
         \A o \in Requests \ {q} : wrote'[o] = wrote[o],
         \/ wrote'[q] = wrote[q]
         \/ wrote'[q].kind # "pass"
         \/ /\ wrote'[q].row \in Passes
            /\ \/ resetDay[wrote'[q].row] # wrote'[q].day
               \/ uses[wrote'[q].row] < PerDay[wrote'[q].row]
  PROVE  PassCap'
BY DEF PassInv, PassCap

\* Every step keeps the cap of the passes.
LEMMA PassStep == ASSUME PassInv, [Next]_vars PROVE PassInv'
<1>. USE DEF PassInv
<1>1. TypeInv' /\ TypeOK'
  BY TypeStep DEF TypeInv
<1>2. ASSUME NEW q \in Requests, NEW w, Decide(q, w), w.kind # "pass",
             UNCHANGED <<uses, resetDay>>
      PROVE  PassCap'
  <2>1. wrote' = [wrote EXCEPT ![q] = w]
    BY <1>2 DEF Decide
  <2>2. \A o \in Requests \ {q} : wrote'[o] = wrote[o]
    BY <2>1 DEF TypeInv, TypeOK
  <2>3. wrote'[q] = w
    BY <2>1 DEF TypeInv, TypeOK
  <2>. QED  BY <1>1, <1>2, <2>2, <2>3, WriteKeepsCap
<1>3. ASSUME uses' = uses, resetDay' = resetDay, wrote' = wrote PROVE PassCap'
  BY <1>3 DEF PassCap
<1>4. ASSUME NEW q \in Requests, NEW t \in Tools, Start(q, t) PROVE PassCap'
  BY <1>2, <1>3, <1>4, WriteFields DEF Start, rows
<1>5. ASSUME NEW q \in Requests, CheckPro(q) PROVE PassCap'
  BY <1>2, <1>3, <1>5, WriteFields DEF CheckPro, rows
<1>6. ASSUME NEW q \in Requests, SelectPasses(q) \/ CheckLogin(q) PROVE PassCap'
  BY <1>3, <1>6 DEF SelectPasses, CheckLogin, rows
<1>7. ASSUME NEW q \in Requests, ConsumePass(q) PROVE PassCap'
  <2>1. UNCHANGED <<uses, resetDay>>
    BY <1>7 DEF ConsumePass, rows
  <2>2. PICK p \in candidates[q] :
          \/ HasRoom(q, p) /\ Decide(q, Write("pass", p, Day(at[q])))
          \/ wrote' = wrote
    BY <1>7 DEF ConsumePass
  <2>3. CASE wrote' = wrote
    BY <1>3, <2>1, <2>3
  <2>4. CASE HasRoom(q, p) /\ Decide(q, Write("pass", p, Day(at[q])))
    <3>1. p \in Passes
      BY DEF TypeInv, TypeOK
    <3>2. wrote' = [wrote EXCEPT ![q] = Write("pass", p, Day(at[q]))]
      BY <2>4 DEF Decide
    <3>3. /\ \A o \in Requests \ {q} : wrote'[o] = wrote[o]
          /\ wrote'[q] = Write("pass", p, Day(at[q]))
      BY <3>2 DEF TypeInv, TypeOK
    <3>4. wrote'[q].row = p /\ wrote'[q].day = Day(at[q])
      BY <3>3, WriteFields
    <3>5. resetDay[p] # Day(at[q]) \/ uses[p] < PerDay[p]
      BY <2>4 DEF HasRoom
    <3>. QED  BY <1>1, <2>1, <3>1, <3>3, <3>4, <3>5, WriteKeepsCap
  <2>. QED  BY <2>2, <2>3, <2>4
<1>8. ASSUME NEW q \in Requests, TakeCredit(q) PROVE PassCap'
  <2>1. UNCHANGED <<uses, resetDay>>
    BY <1>8 DEF TakeCredit, rows
  <2>2. wrote' = wrote \/ \E k \in OpenPacks : Decide(q, Write("credit", k, 0))
    BY <1>8 DEF TakeCredit
  <2>. QED  BY <1>2, <1>3, <2>1, <2>2, WriteFields
<1>9. ASSUME NEW q \in Requests, ReadCount(q) PROVE PassCap'
  BY <1>2, <1>3, <1>9, WriteFields DEF ReadCount, rows
<1>10. ASSUME NEW q \in Requests, Upsert(q) PROVE PassCap'
  BY <1>2, <1>10, WriteFields DEF Upsert, rows
<1>11. ASSUME NEW q \in Requests, Commit(q) \/ Fail(q) PROVE PassCap'
  <2>1. wrote' = [wrote EXCEPT ![q] = None]
    BY <1>11 DEF Commit, Fail, End
  <2>2. /\ \A o \in Requests \ {q} : wrote'[o] = wrote[o]
        /\ wrote'[q].kind # "pass"
    BY <2>1, WriteType DEF TypeInv, TypeOK
  <2>3. CASE UNCHANGED <<uses, resetDay>>
    BY <1>1, <2>2, <2>3, WriteKeepsCap
  <2>4. CASE wrote[q].kind = "pass" /\ CommitPass(wrote[q].row, wrote[q].day)
    <3>. DEFINE p == wrote[q].row
                d == wrote[q].day
    <3>1. p \in Passes /\ d \in Days /\ PerDay[p] \in Nat \ {0}
      BY <2>4, WriteRows, EntitlementAssumption DEF TypeInv, TypeOK
    <3>2. uses' = [uses EXCEPT ![p] = IF resetDay[p] # d THEN 1 ELSE @ + 1]
      BY <2>4 DEF CommitPass
    <3>3. uses'[p] <= PerDay[p]
      BY <2>4, <3>1, <3>2 DEF TypeInv, TypeOK, PassCap
    <3>4. \A r \in Passes \ {p} : uses'[r] = uses[r] /\ resetDay'[r] = resetDay[r]
      BY <2>4, <3>1, <3>2 DEF CommitPass, TypeInv, TypeOK
    <3>5. \A o \in Requests : ~(wrote'[o].kind = "pass" /\ wrote'[o].row = p)
      BY <2>2, <2>4 DEF TypeInv, Shape, OneWriter
    <3>6. \A r \in Passes : uses'[r] <= PerDay[r]
      BY <3>3, <3>4 DEF PassCap
    <3>7. ASSUME NEW r \in Passes, NEW o \in Requests, wrote'[o].kind = "pass",
                 wrote'[o].row = r, resetDay'[r] = wrote'[o].day
          PROVE  uses'[r] < PerDay[r]
      <4>1. r # p /\ o # q
        BY <2>2, <3>5, <3>7
      <4>. QED  BY <2>2, <3>4, <3>7, <4>1 DEF PassCap
    <3>. QED  BY <3>6, <3>7 DEF PassCap
  <2>. QED  BY <1>11, <2>3, <2>4 DEF Commit, Fail, CommitCredit, CommitFree, rows
<1>12. CASE \/ \E p \in Passes : GrantPass(p)
            \/ \E k \in Packs : GrantCredits(k)
            \/ RecordDailyLogin \/ Tick \/ UNCHANGED vars
  <2>1. uses' = uses /\ resetDay' = resetDay /\ wrote' = wrote
    BY <1>12 DEF GrantPass, GrantCredits, RecordDailyLogin, Tick, rows, work, vars
  <2>. QED  BY <1>1, <1>3, <2>1
<1>. QED
  BY <1>1, <1>4, <1>5, <1>6, <1>7, <1>8, <1>9, <1>10, <1>11, <1>12 DEF Next, Step

\* Concurrent requests never push uses_today past uses_per_day.
THEOREM PassCapHolds == Spec => []PassCap
<1>1. Init => PassInv
  BY PassInit
<1>2. PassInv /\ [Next]_vars => PassInv'
  BY PassStep
<1>3. PassInv => PassCap
  BY DEF PassInv
<1>. QED  BY <1>1, <1>2, <1>3, PTL DEF Spec

-----------------------------------------------------------------------------
(* The uses of a day.  uses_today counts the uses of uses_reset_date, which  *)
(* a request of another day resets: it counts all uses of today as long as   *)
(* no request carries yesterday's date into its update.                      *)

\* The statements before which a request has read the clock in _check_passes.
Working == {"consume", "login", "count", "upsert"}

\* No request is between its reading of the clock and its commit when the day
\* changes.
QuietMidnight ==
  Day(now') # Day(now) => \A q \in Requests : pc[q] \notin Working \cup {"commit"}

WorksToday ==
  \A q \in Requests : pc[q] \in Working => at[q] <= now /\ Day(at[q]) = Day(now)

WritesToday == \A q \in Requests : wrote[q].kind = "pass" => wrote[q].day = Day(now)

ServedToday ==
  \A p \in Passes :
    /\ resetDay[p] <= Day(now)
    /\ \A d \in Days : /\ d > resetDay[p] => passServed[p][d] = 0
                       /\ d = resetDay[p] => passServed[p][d] = uses[p]

DayInv == PassInv /\ WorksToday /\ WritesToday /\ ServedToday /\ PassUsesPerDay

\* Nothing is served and no date is set at first.
LEMMA DayInit == ASSUME Init PROVE DayInv
<1>1. Day(0) \in Nat /\ \A d \in Days : d \in Nat
  BY DayMonotone DEF Days
<1>2. None.kind = "none" /\ \A p \in Passes : 0 <= PerDay[p]
  BY WriteType, EntitlementAssumption
<1>. QED
  BY <1>1, <1>2, PassInit
     DEF Init, DayInv, WorksToday, WritesToday, ServedToday, PassUsesPerDay, Working

\* A request is about to consume on the date it read, and writes that date.
LEMMA DateOfWork ==
  ASSUME TypeOK, [Next]_vars, NEW o \in Requests
  PROVE  /\ pc'[o] \in Working => \/ pc[o] \in Working /\ at'[o] = at[o]
                                  \/ at'[o] = now /\ now' = now
         /\ wrote'[o].kind = "pass" => \/ wrote'[o] = wrote[o]
                                       \/ /\ pc[o] = "consume" /\ now' = now
                                          /\ wrote'[o].day = Day(at[o])
<1>1. None.kind # "pass"
  BY WriteType
<1>2. ASSUME NEW q \in Requests, NEW w, Decide(q, w), w.kind # "pass"
      PROVE  /\ q = o => pc'[o] = "commit" /\ wrote'[o].kind # "pass"
             /\ q # o => pc'[o] = pc[o] /\ wrote'[o] = wrote[o]
  BY <1>2 DEF Decide, Goto, TypeOK
<1>3. ASSUME NEW q \in Requests, NEW label, Goto(q, label)
      PROVE  pc'[o] = IF q = o THEN label ELSE pc[o]
  BY <1>3 DEF Goto, TypeOK
<1>4. ASSUME NEW q \in Requests, NEW t \in Tools, Start(q, t)
      PROVE  pc'[o] \notin Working \/ (pc[o] \in Working /\ at' = at)
  BY <1>2, <1>3, <1>4, WriteFields DEF Start, Working
<1>5. ASSUME NEW q \in Requests, NEW t \in Tools, Start(q, t)
      PROVE  wrote'[o].kind # "pass" \/ wrote'[o] = wrote[o]
  BY <1>2, <1>5, WriteFields DEF Start
<1>6. ASSUME NEW q \in Requests, CheckPro(q) \/ TakeCredit(q) \/ ReadCount(q) \/ Upsert(q)
      PROVE  /\ pc'[o] \notin Working \/ (pc[o] \in Working /\ at' = at)
             /\ wrote'[o].kind # "pass" \/ wrote'[o] = wrote[o]
  BY <1>2, <1>3, <1>6, WriteFields DEF CheckPro, TakeCredit, ReadCount, Upsert, Working
<1>7. ASSUME NEW q \in Requests, CheckLogin(q)
      PROVE  /\ pc'[o] \notin Working \/ (pc[o] \in Working /\ at' = at)
             /\ wrote' = wrote
  BY <1>3, <1>7 DEF CheckLogin, Working
<1>8. ASSUME NEW q \in Requests, SelectPasses(q)
      PROVE  /\ wrote' = wrote
             /\ \/ pc'[o] = pc[o] /\ at'[o] = at[o]
                \/ at'[o] = now /\ now' = now
  BY <1>3, <1>8 DEF SelectPasses, TypeOK
<1>9. ASSUME NEW q \in Requests, ConsumePass(q)
      PROVE  /\ pc'[o] \notin Working \/ (pc[o] \in Working /\ at' = at)
             /\ wrote'[o].kind = "pass" => \/ wrote'[o] = wrote[o]
                                           \/ /\ pc[o] = "consume" /\ now' = now
                                              /\ wrote'[o].day = Day(at[o])
  <2>1. pc[q] = "consume" /\ now' = now /\ at' = at
    BY <1>9 DEF ConsumePass
  <2>2. PICK p \in candidates[q] :
          \/ Decide(q, Write("pass", p, Day(at[q])))
          \/ UNCHANGED <<pc, wrote>>
    BY <1>9 DEF ConsumePass
  <2>3. ASSUME Decide(q, Write("pass", p, Day(at[q])))
        PROVE  /\ pc'[o] = IF q = o THEN "commit" ELSE pc[o]
               /\ wrote'[o] = IF q = o THEN Write("pass", p, Day(at[q])) ELSE wrote[o]
    BY <2>3 DEF Decide, Goto, TypeOK
  <2>. QED  BY <2>1, <2>2, <2>3, WriteFields DEF Working
<1>10. ASSUME NEW q \in Requests, Commit(q) \/ Fail(q)
       PROVE  /\ pc'[o] \notin Working \/ (pc[o] \in Working /\ at'[o] = at[o])
              /\ wrote'[o].kind # "pass" \/ wrote'[o] = wrote[o]
  <2>1. /\ pc' = [pc EXCEPT ![q] = "idle"] /\ at' = [at EXCEPT ![q] = 0]
        /\ wrote' = [wrote EXCEPT ![q] = None]
    BY <1>10 DEF Commit, Fail, End, Goto
  <2>. QED  BY <1>1, <2>1 DEF TypeOK, Working
<1>11. CASE \/ \E p \in Passes : GrantPass(p)
            \/ \E k \in Packs : GrantCredits(k)
            \/ RecordDailyLogin \/ Tick \/ UNCHANGED vars
  BY <1>11 DEF GrantPass, GrantCredits, RecordDailyLogin, Tick, work, vars
<1>. QED
  BY <1>4, <1>5, <1>6, <1>7, <1>8, <1>9, <1>10, <1>11 DEF Next, Step

\* The clock does not go back.
LEMMA DayAdvances ==
  ASSUME TypeOK, TypeOK', [Next]_vars
  PROVE  /\ now' = now \/ Tick
         /\ Day(now) \in Nat /\ Day(now') \in Nat /\ Day(now) <= Day(now')
<1>1. now' = now \/ Tick
  BY DEF Next, Step, Start, CheckPro, SelectPasses, ConsumePass, TakeCredit, CheckLogin,
     ReadCount, Upsert, Commit, Fail, GrantPass, GrantCredits, RecordDailyLogin, vars
<1>2. now \in Nat /\ now' \in Nat /\ now <= now'
  BY <1>1, EntitlementAssumption DEF TypeOK, Tick
<1>. QED  BY <1>1, <1>2, DayMonotone

\* Every step keeps the dates, unless the day changes under a request at work.
LEMMA TodayStep ==
  ASSUME DayInv, TypeOK', [Next]_vars, QuietMidnight
  PROVE  WorksToday' /\ WritesToday'
<1>. USE DEF DayInv, PassInv, TypeInv
<1>1. CASE Day(now') = Day(now)
  <2>0. /\ now \in Nat /\ now' \in Nat /\ now <= now' /\ \A o \in Requests : at[o] \in Nat
    BY DayAdvances, EntitlementAssumption DEF TypeOK, Tick
  <2>1. ASSUME NEW o \in Requests, pc'[o] \in Working
        PROVE  at'[o] <= now' /\ Day(at'[o]) = Day(now')
    <3>1. CASE pc[o] \in Working /\ at'[o] = at[o]
      BY <1>1, <2>0, <3>1 DEF WorksToday
    <3>2. CASE at'[o] = now /\ now' = now
      BY <2>0, <3>2
    <3>. QED  BY <2>1, <3>1, <3>2, DateOfWork
  <2>2. ASSUME NEW o \in Requests, wrote'[o].kind = "pass" PROVE wrote'[o].day = Day(now')
    BY <1>1, <2>2, DateOfWork DEF WorksToday, WritesToday, Working
  <2>. QED  BY <2>1, <2>2 DEF WorksToday, WritesToday, Day
<1>2. CASE Day(now') # Day(now)
  <2>1. Tick
    BY <1>2, DayAdvances DEF Day
  <2>2. pc' = pc /\ wrote' = wrote
    BY <2>1 DEF Tick, work
  <2>3. \A q \in Requests : pc[q] \notin Working /\ wrote[q].kind # "pass"
    BY <1>2 DEF QuietMidnight, Shape, WritesAtCommit
  <2>. QED  BY <2>2, <2>3 DEF WorksToday, WritesToday
<1>. QED  BY <1>1, <1>2

\* The counters of the passes change only by the commit of a use.
LEMMA PassCounters ==
  ASSUME TypeOK, [Next]_vars
  PROVE  \/ UNCHANGED <<uses, resetDay, passServed>>
         \/ \E q \in Requests : /\ wrote[q].kind = "pass" /\ now' = now
                                /\ CommitPass(wrote[q].row, wrote[q].day)
                                /\ End(q, wrote[q].kind)
BY DEF Next, Step, Start, CheckPro, SelectPasses, ConsumePass, TakeCredit, CheckLogin,
   ReadCount, Upsert, Commit, CommitCredit, CommitFree, Fail, GrantPass, GrantCredits,
   RecordDailyLogin, Tick, rows, vars

\* Every step keeps the counts of today.
LEMMA ServedStep ==
  ASSUME DayInv, TypeOK', [Next]_vars
  PROVE  ServedToday' /\ PassUsesPerDay'
<1>. USE DEF DayInv, PassInv, TypeInv
<1>1. CASE UNCHANGED <<uses, resetDay, passServed>>
  <2>1. PassUsesPerDay'
    BY <1>1 DEF PassUsesPerDay
  <2>2. ASSUME NEW p \in Passes PROVE resetDay[p] <= Day(now')
    <3>1. resetDay[p] \in Int
      BY DEF TypeOK, Days
    <3>2. resetDay[p] <= Day(now)
      BY DEF ServedToday
    <3>. QED  BY <3>1, <3>2, DayAdvances
  <2>. QED  BY <1>1, <2>1, <2>2 DEF ServedToday, Day
<1>2. ASSUME NEW q \in Requests, wrote[q].kind = "pass", now' = now,
             CommitPass(wrote[q].row, wrote[q].day)
      PROVE  ServedToday' /\ PassUsesPerDay'
  <2>. DEFINE r == wrote[q].row
              e == wrote[q].day
  <2>1. r \in Passes /\ e \in Days /\ e = Day(now) /\ PerDay[r] \in Nat \ {0}
    BY <1>2, WriteRows, EntitlementAssumption DEF TypeOK, WritesToday
  <2>2. /\ \A d \in Days : d \in Int
        /\ \A p \in Passes : /\ uses[p] \in Nat /\ resetDay[p] \in Int
                             /\ \A d \in Days : passServed[p][d] \in Nat
    <3>1. \A d \in Days : d \in Int
      BY DEF Days
    <3>2. \A p \in Passes : uses[p] \in Nat /\ \A d \in Days : passServed[p][d] \in Nat
      BY DEF TypeOK
    <3>3. \A p \in Passes : resetDay[p] \in Days \cup {-1}
      BY DEF TypeOK
    <3>4. \A p \in Passes : resetDay[p] \in Int
      BY <3>1, <3>3
    <3>. QED  BY <3>1, <3>2, <3>4
  <2>3. /\ uses' = [uses EXCEPT ![r] = IF resetDay[r] # e THEN 1 ELSE @ + 1]
        /\ resetDay' = [resetDay EXCEPT ![r] = e]
        /\ passServed' = [passServed EXCEPT ![r][e] = @ + 1]
    BY <1>2 DEF CommitPass
  <2>4. /\ uses'[r] = IF resetDay[r] # e THEN 1 ELSE uses[r] + 1
        /\ resetDay'[r] = e
        /\ passServed'[r][e] = passServed[r][e] + 1
        /\ \A d \in Days \ {e} : passServed'[r][d] = passServed[r][d]
        /\ \A p \in Passes \ {r} : /\ uses'[p] = uses[p] /\ resetDay'[p] = resetDay[p]
                                   /\ passServed'[p] = passServed[p]
    BY <2>1, <2>3 DEF TypeOK
  <2>5. resetDay[r] <= e /\ (resetDay[r] = e => uses[r] < PerDay[r])
    BY <1>2, <2>1 DEF ServedToday, PassCap
  <2>6. /\ resetDay[r] # e => passServed[r][e] = 0
        /\ resetDay[r] = e => passServed[r][e] = uses[r]
    BY <2>1, <2>2, <2>5 DEF ServedToday
  <2>7. passServed'[r][e] = uses'[r] /\ uses'[r] <= PerDay[r]
    BY <2>1, <2>2, <2>4, <2>5, <2>6
  <2>8. \A d \in Days : d > e => passServed'[r][d] = 0
    BY <2>1, <2>2, <2>4, <2>5 DEF ServedToday
  <2>9. Day(now') = Day(now)
    BY <1>2
  <2>. HIDE DEF r, e
  <2>10. ServedToday'
    <3>1. \A p \in Passes :
            /\ resetDay'[p] <= Day(now')
            /\ \A d \in Days : /\ d > resetDay'[p] => passServed'[p][d] = 0
                               /\ d = resetDay'[p] => passServed'[p][d] = uses'[p]
      <4>. SUFFICES ASSUME NEW p \in Passes
                    PROVE  /\ resetDay'[p] <= Day(now')
                           /\ \A d \in Days : /\ d > resetDay'[p] => passServed'[p][d] = 0
                                              /\ d = resetDay'[p] => passServed'[p][d] = uses'[p]
        OBVIOUS
      <4>1. CASE p = r
        BY <2>1, <2>2, <2>4, <2>7, <2>8, <2>9, <4>1
      <4>2. CASE p # r
        BY <2>4, <2>9, <4>2 DEF ServedToday
      <4>. QED  BY <4>1, <4>2
    <3>. QED  BY <3>1 DEF ServedToday, Day
  <2>11. PassUsesPerDay'
    BY <2>1, <2>2, <2>4, <2>7 DEF PassUsesPerDay
  <2>. QED  BY <2>10, <2>11
<1>. QED  BY <1>1, <1>2, PassCounters

\* Every step keeps the dates and the counts.
LEMMA DayStep ==
  ASSUME DayInv, [Next]_vars, [QuietMidnight]_vars
  PROVE  DayInv'
<1>1. PassInv' /\ TypeOK'
  BY PassStep DEF DayInv, PassInv, TypeInv
<1>2. QuietMidnight
  BY DEF QuietMidnight, vars, Day
<1>. QED  BY <1>1, <1>2, TodayStep, ServedStep DEF DayInv

\* If no request is at work at midnight, no pass gives more uses in a
\* day than it was sold with.  (A request that reads the date before midnight
\* and updates the pass after a request of the new day resets its count.)
THEOREM PassUsesInADay == Spec /\ [][QuietMidnight]_vars => []PassUsesPerDay
<1>1. Init => DayInv
  BY DayInit
<1>2. DayInv /\ [Next]_vars /\ [QuietMidnight]_vars => DayInv'
  BY DayStep
<1>3. DayInv => PassUsesPerDay
  BY DEF DayInv
<1>. QED  BY <1>1, <1>2, <1>3, PTL DEF Spec

-----------------------------------------------------------------------------
(* The uses of a day, with requests at work at midnight.  The count of a    *)
(* pass is set back on a day by the requests that carry an earlier date, as  *)
(* many times as there are such requests; those that carry the date of a day *)
(* that is over bring one use of that day each.                              *)

AtWork(q) == pc[q] \in Working \/ wrote[q].kind = "pass"
DateOf(q) == IF wrote[q].kind = "pass" THEN wrote[q].day ELSE Day(at[q])

Early(d) == {q \in Requests : AtWork(q) /\ DateOf(q) < d}
Late(d)  == {q \in Requests : AtWork(q) /\ DateOf(q) = d}

DatesPast == \A q \in Requests : AtWork(q) => DateOf(q) <= Day(now)

\* The uses before, on and after the day: a full count for each request that has
\* set it back, and at the end one more for each that is still to come.
ServedOn(p, d) ==
  LET n == Cardinality(Requests)
      k == PerDay[p]
      s == passServed[p][d] IN
  /\ Day(now) < d => s = 0
  /\ Day(now) = d =>
       s = 0 \/ s <= k * (n - 1 - Cardinality(Early(d)))
                       + (IF resetDay[p] = d THEN uses[p] ELSE 0)
  /\ Day(now) > d =>
       \/ resetDay[p] = d /\ s <= k * (n - 1) + uses[p]
       \/ s + Cardinality(Late(d)) <= k * n + n - 1

MidnightInv == PassInv /\ DatesPast /\ \A p \in Passes, d \in Days : ServedOn(p, d)

\* The requests are finitely many, and so are some of them.
LEMMA SomeRequests ==
  ASSUME NEW T \in SUBSET Requests, NEW S \in SUBSET T
  PROVE  /\ Cardinality(Requests) \in Nat /\ Cardinality(Requests) >= 1
         /\ Cardinality(S) \in Nat /\ Cardinality(T) \in Nat
         /\ Cardinality(S) <= Cardinality(T) /\ Cardinality(T) <= Cardinality(Requests)
         /\ S # T => Cardinality(S) <= Cardinality(T) - 1
<1>1. IsFiniteSet(Requests) /\ Requests # {}
  BY EntitlementAssumption
<1>2. Cardinality(Requests) \in Nat /\ Cardinality(Requests) # 0
  BY <1>1, FS_CardinalityType, FS_EmptySet
<1>3. IsFiniteSet(T) /\ Cardinality(T) <= Cardinality(Requests)
  BY <1>1, FS_Subset
<1>4. /\ IsFiniteSet(S) /\ Cardinality(S) <= Cardinality(T)
      /\ Cardinality(T) = Cardinality(S) => T = S
  BY <1>3, FS_Subset
<1>5. Cardinality(T) \in Nat /\ Cardinality(S) \in Nat
  BY <1>3, <1>4, FS_CardinalityType
<1>. QED  BY <1>2, <1>3, <1>4, <1>5

\* Products of the cap of a pass.
LEMMA Products ==
  ASSUME NEW k \in Nat \ {0}, NEW a \in Int, NEW b \in Int
  PROVE  /\ k * a \in Int
         /\ a <= b => k * a <= k * b
         /\ a < b => k * a + k <= k * b
<1>1. k * a \in Int /\ k * b \in Int
  OBVIOUS
<1>2. ASSUME a <= b PROVE k * a <= k * b
  <2>. DEFINE c == b - a
  <2>1. c \in Nat /\ b = a + c
    BY <1>2
  <2>. HIDE DEF c
  <2>2. k * b = k * a + k * c /\ k * c \in Nat
    BY <2>1
  <2>. QED  BY <1>1, <2>2
<1>3. ASSUME a < b PROVE k * a + k <= k * b
  <2>. DEFINE c == b - a - 1
  <2>1. c \in Nat /\ b = a + 1 + c
    BY <1>3
  <2>. HIDE DEF c
  <2>2. k * b = k * a + k + k * c /\ k * c \in Nat
    BY <2>1
  <2>. QED  BY <1>1, <2>2
<1>. QED  BY <1>1, <1>2, <1>3

LEMMA MidnightInit == ASSUME Init PROVE MidnightInv
<1>1. \A q \in Requests : ~AtWork(q)
  BY WriteType DEF Init, AtWork, Working
<1>2. DatesPast
  BY <1>1 DEF DatesPast
<1>3. Day(0) \in Nat /\ \A d \in Days : d \in Nat
  BY DayMonotone DEF Days
<1>4. Day(0) = 0
  BY EntitlementAssumption DEF Day
<1>5. \A p \in Passes, d \in Days : ServedOn(p, d)
  BY <1>3, <1>4 DEF Init, ServedOn
<1>. QED  BY <1>2, <1>5, PassInit DEF MidnightInv

\* A request carries the date that it had, or has just read today's.
LEMMA WorkDates ==
  ASSUME TypeInv, [Next]_vars, NEW o \in Requests, AtWork(o)'
  PROVE  \/ AtWork(o) /\ DateOf(o)' = DateOf(o)
         \/ now' = now /\ DateOf(o)' = Day(now)
<1>. USE DEF TypeInv
<1>1. pc[o] \in Working => wrote[o].kind # "pass"
  BY DEF Shape, WritesAtCommit, Working
<1>2. CASE wrote'[o].kind = "pass"
  <2>1. DateOf(o)' = wrote'[o].day
    BY <1>2 DEF DateOf
  <2>2. CASE wrote'[o] = wrote[o]
    BY <1>2, <2>1, <2>2 DEF AtWork, DateOf
  <2>3. CASE pc[o] = "consume" /\ wrote'[o].day = Day(at[o])
    BY <1>1, <2>1, <2>3 DEF AtWork, DateOf, Working
  <2>. QED  BY <1>2, <2>2, <2>3, DateOfWork
<1>3. CASE wrote'[o].kind # "pass"
  <2>1. pc'[o] \in Working /\ DateOf(o)' = Day(at'[o])
    BY <1>3 DEF AtWork, DateOf, Day
  <2>2. CASE pc[o] \in Working /\ at'[o] = at[o]
    BY <1>1, <2>1, <2>2 DEF AtWork, DateOf
  <2>3. CASE at'[o] = now /\ now' = now
    BY <2>1, <2>3
  <2>. QED  BY <2>1, <2>2, <2>3, DateOfWork
<1>. QED  BY <1>2, <1>3

\* So no date is of a day to come, no early request is new on its day and no late
\* one after it.
LEMMA WorkSets ==
  ASSUME TypeInv, TypeOK', DatesPast, [Next]_vars
  PROVE  /\ DatesPast'
         /\ \A d \in Days : /\ Day(now) = d => Early(d)' \subseteq Early(d)
                            /\ Day(now) > d => Late(d)' \subseteq Late(d)
<1>1. Day(now) \in Nat /\ Day(now') \in Nat /\ Day(now) <= Day(now') /\ \A d \in Days : d \in Nat
  BY DayAdvances DEF TypeInv, Days
<1>2. ASSUME NEW q \in Requests, AtWork(q) PROVE DateOf(q) \in Nat
  <2>1. wrote[q].kind = "pass" => wrote[q].day \in Days
    BY WriteRows DEF TypeInv, TypeOK
  <2>2. at[q] \in Nat
    BY EntitlementAssumption DEF TypeInv, TypeOK
  <2>3. Day(at[q]) \in Nat
    BY <2>2, DayMonotone
  <2>. QED  BY <1>1, <2>1, <2>3 DEF DateOf
<1>3. DatesPast'
  <2>1. ASSUME NEW q \in Requests, AtWork(q)' PROVE DateOf(q)' <= Day(now')
    BY <1>1, <1>2, <2>1, WorkDates DEF DatesPast
  <2>. QED  BY <2>1 DEF DatesPast, Day
<1>4. ASSUME NEW d \in Days, Day(now) = d PROVE Early(d)' \subseteq Early(d)
  <2>1. ASSUME NEW q \in Requests, AtWork(q)', DateOf(q)' < d PROVE q \in Early(d)
    BY <1>1, <1>4, <2>1, WorkDates DEF Early
  <2>. QED  BY <2>1 DEF Early
<1>5. ASSUME NEW d \in Days, Day(now) > d PROVE Late(d)' \subseteq Late(d)
  <2>1. ASSUME NEW q \in Requests, AtWork(q)', DateOf(q)' = d PROVE q \in Late(d)
    BY <1>1, <1>5, <2>1, WorkDates DEF Late
  <2>. QED  BY <2>1 DEF Late
<1>. QED  BY <1>3, <1>4, <1>5

\* The parts of a bound are numbers, and a full count for each request but one is
\* within it, with a use for each of the others.
LEMMA ServedTypes ==
  ASSUME PassInv, NEW p \in Passes, NEW d \in Days
  PROVE  /\ Cardinality(Requests) \in Nat /\ Cardinality(Requests) >= 1
         /\ PerDay[p] \in Nat \ {0} /\ PerDay[p] * Cardinality(Requests) \in Nat
         /\ PerDay[p] * (Cardinality(Requests) - 1) + PerDay[p]
              <= PerDay[p] * Cardinality(Requests)
         /\ passServed[p][d] \in Nat /\ uses[p] \in Nat /\ uses[p] <= PerDay[p]
         /\ Cardinality(Early(d)) \in Nat /\ Cardinality(Late(d)) \in Nat
         /\ Cardinality(Early(d)) <= Cardinality(Requests)
         /\ Cardinality(Late(d)) <= Cardinality(Requests)
         /\ d \in Nat /\ Day(now) \in Nat
<1>. DEFINE n == Cardinality(Requests)
            k == PerDay[p]
<1>1. n \in Nat /\ n >= 1
  BY SomeRequests
<1>2. Early(d) \subseteq Requests /\ Late(d) \subseteq Requests
  BY DEF Early, Late
<1>3. /\ Cardinality(Early(d)) \in Nat /\ Cardinality(Early(d)) <= n
      /\ Cardinality(Late(d)) \in Nat /\ Cardinality(Late(d)) <= n
  BY <1>2, SomeRequests
<1>4. k \in Nat \ {0}
  BY EntitlementAssumption
<1>5. k * (n - 1) + k <= k * n /\ k * n \in Nat
  <2>. HIDE DEF k, n
  <2>1. n - 1 \in Int /\ n \in Int /\ n - 1 < n
    BY <1>1
  <2>2. k * (n - 1) + k <= k * n
    BY <1>4, <2>1, Products
  <2>3. k * n \in Nat
    BY <1>1, <1>4
  <2>. QED  BY <2>2, <2>3
<1>6. passServed[p][d] \in Nat /\ uses[p] \in Nat /\ uses[p] <= k
  BY DEF PassInv, PassCap, TypeInv, TypeOK
<1>7. d \in Nat
  BY DEF Days
<1>8. Day(now) \in Nat
  BY DayMonotone, EntitlementAssumption DEF PassInv, TypeInv, TypeOK
<1>. QED  BY <1>1, <1>3, <1>4, <1>5, <1>6, <1>7, <1>8

\* A step that leaves the counters of the pass alone.
LEMMA CountsKept ==
  ASSUME MidnightInv, PassInv', [Next]_vars, NEW p \in Passes, NEW d \in Days,
         uses'[p] = uses[p], resetDay'[p] = resetDay[p], passServed'[p] = passServed[p]
  PROVE  ServedOn(p, d)'
<1>. DEFINE n == Cardinality(Requests)
            k == PerDay[p]
            s == passServed[p][d]
            e == Cardinality(Early(d))
            f == Cardinality(Early(d)')
            l == Cardinality(Late(d))
            m == Cardinality(Late(d)')
            u == IF resetDay[p] = d THEN uses[p] ELSE 0
<1>1. /\ Day(now) \in Nat /\ Day(now') \in Nat /\ Day(now) <= Day(now')
      /\ Day(now) = d => Early(d)' \subseteq Early(d)
      /\ Day(now) > d => Late(d)' \subseteq Late(d)
  BY DayAdvances, WorkSets DEF MidnightInv, PassInv, TypeInv
<1>2. /\ n \in Nat /\ n >= 1 /\ k \in Nat \ {0} /\ k * n \in Nat /\ k * (n - 1) + k <= k * n
      /\ s \in Nat /\ uses[p] \in Nat /\ uses[p] <= k /\ d \in Nat
      /\ e \in Nat /\ e <= n /\ l \in Nat /\ l <= n
  BY ServedTypes DEF MidnightInv
<1>3. Early(d) \subseteq Requests /\ Late(d) \subseteq Requests
      /\ Early(d)' \subseteq Requests /\ Late(d)' \subseteq Requests
  BY DEF Early, Late
<1>4. /\ f \in Nat /\ f <= n /\ m \in Nat /\ m <= n
      /\ Day(now) = d => f <= e
      /\ Day(now) > d => m <= l
  BY <1>1, <1>3, SomeRequests
<1>5. /\ Day(now) < d => s = 0
      /\ Day(now) = d => s = 0 \/ s <= k * (n - 1 - e) + u
      /\ Day(now) > d => (resetDay[p] = d /\ s <= k * (n - 1) + uses[p]) \/ s + l <= k * n + n - 1
  BY DEF MidnightInv, ServedOn
<1>6. s' = s /\ u' = u
  OBVIOUS
<1>7. SUFFICES /\ Day(now') < d => s = 0
               /\ Day(now') = d => s = 0 \/ s <= k * (n - 1 - f) + u
               /\ Day(now') > d =>
                    (resetDay[p] = d /\ s <= k * (n - 1) + uses[p]) \/ s + m <= k * n + n - 1
  BY <1>6 DEF ServedOn, Day
<1>12. u \in Nat /\ (resetDay[p] = d => u = uses[p]) /\ (resetDay[p] # d => u = 0)
  BY <1>2
<1>. HIDE DEF n, k, s, e, f, l, m, u
<1>8. ASSUME NEW a \in Nat, NEW b \in Nat, a <= b
      PROVE  /\ k * (n - 1 - b) \in Int /\ k * (n - 1 - a) \in Int
             /\ k * (n - 1 - b) <= k * (n - 1 - a)
  <2>1. n - 1 - b \in Int /\ n - 1 - a \in Int /\ n - 1 - b <= n - 1 - a
    BY <1>2, <1>8
  <2>. QED  BY <1>2, <2>1, Products
<1>9. CASE Day(now') <= d /\ Day(now) < d
  BY <1>1, <1>2, <1>5, <1>9
<1>10. CASE Day(now') = d /\ Day(now) = d
  <2>1. k * (n - 1 - e) <= k * (n - 1 - f) /\ k * (n - 1 - e) \in Int /\ k * (n - 1 - f) \in Int
    BY <1>2, <1>4, <1>8, <1>10
  <2>. QED  BY <1>1, <1>2, <1>5, <1>10, <1>12, <2>1
<1>11. CASE Day(now') > d
  <2>1. k * n >= n
    <3>1. n * 1 \in Int /\ 1 <= k /\ 1 \in Int /\ k \in Int /\ n \in Nat \ {0}
      BY <1>2
    <3>2. n * 1 <= n * k
      BY <3>1, Products
    <3>. QED  BY <1>2, <3>2
  <2>2. CASE s = 0
    BY <1>2, <1>4, <1>11, <2>1, <2>2
  <2>3. CASE Day(now) = d /\ s # 0
    <3>1. k * (n - 1 - e) <= k * (n - 1) /\ k * (n - 1 - e) \in Int /\ k * (n - 1) \in Int
      <4>1. 0 \in Nat /\ 0 <= e /\ n - 1 - 0 = n - 1
        BY <1>2
      <4>. QED  BY <1>2, <1>8, <4>1
    <3>2. s <= k * (n - 1 - e) + u
      BY <1>5, <2>3
    <3>3. CASE resetDay[p] = d
      <4>1. u = uses[p]
        BY <1>12, <3>3
      <4>2. s <= k * (n - 1) + uses[p]
        BY <1>2, <3>1, <3>2, <4>1
      <4>. QED  BY <1>1, <1>2, <1>11, <3>3, <4>2
    <3>4. CASE resetDay[p] # d
      <4>1. s <= k * (n - 1)
        BY <1>2, <1>12, <3>1, <3>2, <3>4
      <4>2. k >= 1 /\ s + m <= k * n + n - 1
        BY <1>2, <1>4, <3>1, <4>1
      <4>. QED  BY <1>1, <1>2, <1>11, <4>2
    <3>. QED  BY <3>3, <3>4
  <2>4. CASE Day(now) > d
    <3>1. CASE resetDay[p] = d /\ s <= k * (n - 1) + uses[p]
      BY <1>1, <1>2, <1>11, <3>1
    <3>2. CASE s + l <= k * n + n - 1
      <4>1. s + m <= k * n + n - 1
        BY <1>2, <1>4, <2>4, <3>2
      <4>. QED  BY <1>1, <1>2, <1>11, <4>1
    <3>. QED  BY <1>5, <2>4, <3>1, <3>2
  <2>5. s = 0 \/ (Day(now) = d /\ s # 0) \/ Day(now) > d
    BY <1>1, <1>2, <1>5
  <2>. QED  BY <2>2, <2>3, <2>4, <2>5
<1>. QED  BY <1>1, <1>2, <1>9, <1>10, <1>11

\* A request that commits a use of the pass is at work no longer.
LEMMA CommitLeavesWork ==
  ASSUME MidnightInv, PassInv', [Next]_vars, NEW q \in Requests, wrote[q].kind = "pass",
         now' = now, End(q, wrote[q].kind), NEW d \in Days
  PROVE  /\ wrote[q].day <= Day(now)
         /\ Cardinality(Early(d)') \in Nat /\ Cardinality(Late(d)') \in Nat
         /\ Cardinality(Late(d)') <= Cardinality(Requests) - 1
         /\ Cardinality(Early(d)') <= Cardinality(Requests) - 1
         /\ Day(now) = d => Cardinality(Early(d)') <= Cardinality(Early(d))
         /\ Day(now) > d => Cardinality(Late(d)') <= Cardinality(Late(d))
         /\ Day(now) = d /\ wrote[q].day < d =>
              Cardinality(Early(d)') <= Cardinality(Early(d)) - 1
         /\ Day(now) > d /\ wrote[q].day = d =>
              Cardinality(Late(d)') <= Cardinality(Late(d)) - 1
<1>1. AtWork(q) /\ DateOf(q) = wrote[q].day
  BY DEF AtWork, DateOf
<1>2. pc'[q] = "idle" /\ wrote'[q] = None
  BY DEF End, Goto, MidnightInv, PassInv, TypeInv, TypeOK
<1>3. ~AtWork(q)'
  BY <1>2, WriteType DEF AtWork, Working
<1>4. q \notin Early(d)' /\ q \notin Late(d)'
  BY <1>3 DEF Early, Late
<1>5. /\ Early(d) \subseteq Requests /\ Late(d) \subseteq Requests
      /\ Early(d)' \subseteq Requests \ {q} /\ Late(d)' \subseteq Requests \ {q}
  BY <1>4 DEF Early, Late
<1>6. /\ Day(now) = d => Early(d)' \subseteq Early(d)
      /\ Day(now) > d => Late(d)' \subseteq Late(d)
  BY WorkSets DEF MidnightInv, PassInv, TypeInv
<1>7. /\ wrote[q].day < d => q \in Early(d)
      /\ wrote[q].day = d => q \in Late(d)
  BY <1>1 DEF Early, Late
<1>8. wrote[q].day <= Day(now)
  BY <1>1 DEF MidnightInv, DatesPast
<1>9. /\ Cardinality(Early(d)') \in Nat /\ Cardinality(Late(d)') \in Nat
      /\ Cardinality(Early(d)') <= Cardinality(Requests) - 1
      /\ Cardinality(Late(d)') <= Cardinality(Requests) - 1
  BY <1>5, SomeRequests
<1>10. ASSUME Day(now) = d
       PROVE  /\ Cardinality(Early(d)') <= Cardinality(Early(d))
              /\ wrote[q].day < d => Cardinality(Early(d)') <= Cardinality(Early(d)) - 1
  BY <1>4, <1>5, <1>6, <1>7, <1>10, SomeRequests
<1>11. ASSUME Day(now) > d
       PROVE  /\ Cardinality(Late(d)') <= Cardinality(Late(d))
              /\ wrote[q].day = d => Cardinality(Late(d)') <= Cardinality(Late(d)) - 1
  BY <1>4, <1>5, <1>6, <1>7, <1>11, SomeRequests
<1>. QED  BY <1>8, <1>9, <1>10, <1>11

\* A step that commits a use of the pass.
LEMMA UseCounted ==
  ASSUME MidnightInv, PassInv', [Next]_vars, NEW q \in Requests, wrote[q].kind = "pass",
         now' = now, CommitPass(wrote[q].row, wrote[q].day), End(q, wrote[q].kind),
         NEW p \in Passes, wrote[q].row = p, NEW d \in Days
  PROVE  ServedOn(p, d)'
<1>. DEFINE c == wrote[q].day
            n == Cardinality(Requests)
            k == PerDay[p]
            s == passServed[p][d]
            e == Cardinality(Early(d))
            f == Cardinality(Early(d)')
            l == Cardinality(Late(d))
            m == Cardinality(Late(d)')
            u == IF resetDay[p] = d THEN uses[p] ELSE 0
            v == IF resetDay'[p] = d THEN uses'[p] ELSE 0
<1>1. c \in Days
  BY WriteRows DEF MidnightInv, PassInv, TypeInv, TypeOK
<1>2. /\ n \in Nat /\ n >= 1 /\ k \in Nat \ {0} /\ k * n \in Nat /\ k * (n - 1) + k <= k * n
      /\ s \in Nat /\ uses[p] \in Nat /\ uses[p] <= k /\ d \in Nat /\ Day(now) \in Nat
      /\ e \in Nat /\ l \in Nat
  BY ServedTypes DEF MidnightInv
<1>3. /\ c <= Day(now) /\ f \in Nat /\ m \in Nat /\ m <= n - 1 /\ f <= n - 1
      /\ Day(now) = d => f <= e
      /\ Day(now) > d => m <= l
      /\ Day(now) = d /\ c < d => f <= e - 1
      /\ Day(now) > d /\ c = d => m <= l - 1
  BY CommitLeavesWork
<1>4. /\ Day(now) < d => s = 0
      /\ Day(now) = d => s = 0 \/ s <= k * (n - 1 - e) + u
      /\ Day(now) > d => (resetDay[p] = d /\ s <= k * (n - 1) + uses[p]) \/ s + l <= k * n + n - 1
  BY DEF MidnightInv, ServedOn
<1>5. /\ uses'[p] = IF resetDay[p] # c THEN 1 ELSE uses[p] + 1
      /\ resetDay'[p] = c
      /\ passServed'[p][d] = IF c = d THEN s + 1 ELSE s
  BY <1>1 DEF CommitPass, MidnightInv, PassInv, TypeInv, TypeOK
<1>6. SUFFICES /\ Day(now) < d => passServed'[p][d] = 0
               /\ Day(now) = d => passServed'[p][d] = 0 \/ passServed'[p][d] <= k * (n - 1 - f) + v
               /\ Day(now) > d => \/ resetDay'[p] = d /\ passServed'[p][d] <= k * (n - 1) + uses'[p]
                                  \/ passServed'[p][d] + m <= k * n + n - 1
  BY DEF ServedOn, Day
<1>7. /\ u \in Nat /\ u <= k
      /\ c = d => v = u + 1 /\ (resetDay[p] = d => uses'[p] = uses[p] + 1)
      /\ c # d => v = 0
  BY <1>2, <1>5
<1>8. c \in Nat
  BY <1>1 DEF Days
<1>. HIDE DEF c, n, k, s, e, f, l, m, u, v
<1>9. CASE Day(now) < d
  BY <1>2, <1>3, <1>4, <1>5, <1>8, <1>9
<1>10. CASE Day(now) = d
  <2>1. n - 1 - e \in Int /\ n - 1 - f \in Int /\ n - 1 - f >= 0
    BY <1>2, <1>3
  <2>2. k * (n - 1 - e) \in Int /\ k * (n - 1 - f) \in Int /\ k * (n - 1 - f) >= 0
    <3>1. k * 0 = 0 /\ 0 \in Int
      BY <1>2
    <3>. QED  BY <1>2, <2>1, <3>1, Products
  <2>3. CASE c = d
    <3>1. k * (n - 1 - e) <= k * (n - 1 - f)
      <4>1. n - 1 - e <= n - 1 - f
        BY <1>2, <1>3, <1>10
      <4>. QED  BY <1>2, <2>1, <4>1, Products
    <3>2. s <= k * (n - 1 - f) + u
      BY <1>2, <1>4, <1>7, <1>10, <2>2, <3>1
    <3>. QED  BY <1>2, <1>5, <1>7, <1>10, <2>2, <2>3, <3>2
  <2>4. CASE c # d
    <3>1. k * (n - 1 - e) + k <= k * (n - 1 - f)
      <4>1. n - 1 - e < n - 1 - f
        BY <1>2, <1>3, <1>8, <1>10, <2>4
      <4>. QED  BY <1>2, <2>1, <4>1, Products
    <3>2. s = 0 \/ s <= k * (n - 1 - f)
      BY <1>2, <1>4, <1>7, <1>10, <2>2, <3>1
    <3>. QED  BY <1>2, <1>5, <1>7, <1>10, <2>2, <2>4, <3>2
  <2>. QED  BY <2>3, <2>4
<1>11. CASE Day(now) > d
  <2>0. k * (n - 1) \in Int
    BY <1>2, Products
  <2>1. CASE c = d /\ resetDay[p] = d /\ s <= k * (n - 1) + uses[p]
    BY <1>2, <1>5, <1>7, <1>11, <2>0, <2>1
  <2>2. CASE c = d /\ s + l <= k * n + n - 1
    <3>1. s + 1 + m <= k * n + n - 1
      BY <1>2, <1>3, <1>11, <2>2
    <3>. QED  BY <1>2, <1>5, <1>11, <2>2, <3>1
  <2>3. CASE c # d /\ s <= k * (n - 1) + uses[p]
    <3>1. s + m <= k * n + n - 1
      BY <1>2, <1>3, <2>0, <2>3
    <3>. QED  BY <1>2, <1>5, <1>11, <2>3, <3>1
  <2>4. CASE c # d /\ s + l <= k * n + n - 1
    <3>1. s + m <= k * n + n - 1
      BY <1>2, <1>3, <1>11, <2>4
    <3>. QED  BY <1>2, <1>5, <1>11, <2>4, <3>1
  <2>5. /\ c = d \/ c # d
        /\ (resetDay[p] = d /\ s <= k * (n - 1) + uses[p]) \/ s + l <= k * n + n - 1
    BY <1>4, <1>11
  <2>. QED  BY <2>1, <2>2, <2>3, <2>4, <2>5
<1>12. Day(now) < d \/ Day(now) = d \/ Day(now) > d
  BY <1>2
<1>. QED  BY <1>9, <1>10, <1>11, <1>12

\* Every step keeps the counts of the passes, on every day.
LEMMA MidnightStep == ASSUME MidnightInv, [Next]_vars PROVE MidnightInv'
<1>1. PassInv'
  BY PassStep DEF MidnightInv
<1>2. DatesPast'
  BY <1>1, WorkSets DEF MidnightInv, PassInv, TypeInv
<1>3. ASSUME NEW p \in Passes, NEW d \in Days PROVE ServedOn(p, d)'
  <2>1. CASE uses'[p] = uses[p] /\ resetDay'[p] = resetDay[p] /\ passServed'[p] = passServed[p]
    BY <1>1, <2>1, CountsKept
  <2>2. ASSUME NEW q \in Requests, wrote[q].kind = "pass", now' = now,
               CommitPass(wrote[q].row, wrote[q].day), End(q, wrote[q].kind)
        PROVE  ServedOn(p, d)'
    <3>1. CASE wrote[q].row = p
      BY <1>1, <2>2, <3>1, UseCounted
    <3>2. CASE wrote[q].row # p
      <4>1. uses'[p] = uses[p] /\ resetDay'[p] = resetDay[p] /\ passServed'[p] = passServed[p]
        BY <2>2, <3>2 DEF CommitPass, MidnightInv, PassInv, TypeInv, TypeOK
      <4>. QED  BY <2>1, <4>1
    <3>. QED  BY <3>1, <3>2
  <2>. QED  BY <2>1, <2>2, PassCounters DEF MidnightInv, PassInv, TypeInv
<1>. QED  BY <1>1, <1>2, <1>3 DEF MidnightInv, Days, Day

\* Requests at work at midnight make a pass give more uses in a day than it was
\* sold with, but at most one use and one full count more for each of them
\* beyond the first.
THEOREM PassOverrunBounded == Spec => []PassOverrun
<1>1. Init => MidnightInv
  BY MidnightInit
<1>2. MidnightInv /\ [Next]_vars => MidnightInv'
  BY MidnightStep
<1>3. ASSUME MidnightInv PROVE PassOverrun
  <2>1. ASSUME NEW p \in Passes, NEW d \in Days
        PROVE  passServed[p][d] <= PerDay[p] + (Cardinality(Requests) - 1) * (PerDay[p] + 1)
    <3>. DEFINE n == Cardinality(Requests)
                k == PerDay[p]
                s == passServed[p][d]
                e == Cardinality(Early(d))
                l == Cardinality(Late(d))
                u == IF resetDay[p] = d THEN uses[p] ELSE 0
    <3>1. /\ n \in Nat /\ n >= 1 /\ k \in Nat \ {0} /\ k * n \in Nat
          /\ k * (n - 1) + k <= k * n /\ s \in Nat /\ uses[p] \in Nat /\ uses[p] <= k
          /\ e \in Nat /\ l \in Nat /\ d \in Nat /\ Day(now) \in Nat
      BY <1>3, ServedTypes DEF MidnightInv
    <3>2. /\ Day(now) < d => s = 0
          /\ Day(now) = d => s = 0 \/ s <= k * (n - 1 - e) + u
          /\ Day(now) > d => \/ resetDay[p] = d /\ s <= k * (n - 1) + uses[p]
                             \/ s + l <= k * n + n - 1
      BY <1>3 DEF MidnightInv, ServedOn
    <3>3. u \in Nat /\ u <= k
      BY <3>1
    <3>. HIDE DEF n, k, s, e, l, u
    <3>4. k + (n - 1) * (k + 1) = k * n + n - 1
      BY <3>1
    <3>5. k * (n - 1 - e) <= k * (n - 1) /\ k * (n - 1 - e) \in Int /\ k * (n - 1) \in Int
      <4>1. n - 1 - e \in Int /\ n - 1 \in Int /\ n - 1 - e <= n - 1
        BY <3>1
      <4>. QED  BY <3>1, <4>1, Products
    <3>6. s = 0 \/ s <= k * (n - 1) + k \/ s <= k * n + n - 1
      BY <3>1, <3>2, <3>3, <3>5
    <3>7. s <= k * n + n - 1
      BY <3>1, <3>5, <3>6
    <3>8. s <= k + (n - 1) * (k + 1)
      BY <3>4, <3>7
    <3>. QED  BY <3>8 DEF n, k, s
  <2>. QED  BY <2>1 DEF PassOverrun
<1>. QED  BY <1>1, <1>2, <1>3, PTL DEF Spec

-----------------------------------------------------------------------------
(* The order of the sources.  A pass that was there when the request read   *)
(* the clock is tried before a credit or a free use is taken, and one that   *)
(* had no room keeps none for that date.                                     *)

\* p was granted before q read the clock and is for its tool.
Had(q, p) ==
  expires[p] > 0 /\ expires[p] - Duration[p] < at[q] /\ tool[q] \in Covers[p]

\* What q has not tried yet is among its candidates.
Tried ==
  \A q \in Requests :
    /\ pc[q] \in Working => \A p \in Passes : Had(q, p) => p \in candidates[q] \/ ~HasRoom(q, p)
    /\ pc[q] \in Working \ {"consume"} => candidates[q] = {}

\* A pass without room for the date of q stays without room for it.
LEMMA FullStays ==
  ASSUME DayInv, TypeOK', [Next]_vars, NEW q \in Requests, NEW p \in Passes,
         pc[q] \in Working, at'[q] = at[q], expires'[p] = expires[p], ~HasRoom(q, p)
  PROVE  ~HasRoom(q, p)'
<1>. USE DEF DayInv, PassInv, TypeInv
<1>1. CASE ~(expires[p] > at[q])
  BY <1>1 DEF HasRoom
<1>2. CASE resetDay[p] = Day(at[q]) /\ ~(uses[p] < PerDay[p])
  <2>1. uses[p] \in Nat /\ PerDay[p] \in Nat
    BY EntitlementAssumption DEF TypeOK
  <2>2. CASE UNCHANGED <<uses, resetDay, passServed>>
    BY <1>2, <2>2 DEF HasRoom, Day
  <2>3. ASSUME NEW o \in Requests, wrote[o].kind = "pass",
               CommitPass(wrote[o].row, wrote[o].day)
        PROVE  ~HasRoom(q, p)'
    <3>1. wrote[o].row \in Passes /\ wrote[o].day = Day(at[q])
      BY <2>3, WriteRows DEF TypeOK, WorksToday, WritesToday
    <3>2. /\ uses' = [uses EXCEPT ![wrote[o].row] = IF resetDay[wrote[o].row] # wrote[o].day
                                                     THEN 1 ELSE @ + 1]
          /\ resetDay' = [resetDay EXCEPT ![wrote[o].row] = wrote[o].day]
      BY <2>3 DEF CommitPass
    <3>3. resetDay'[p] = Day(at[q]) /\ uses'[p] \in {uses[p], uses[p] + 1}
      BY <1>2, <3>1, <3>2 DEF TypeOK
    <3>4. ~(uses'[p] < PerDay[p])
      BY <1>2, <2>1, <3>3
    <3>. QED  BY <3>3, <3>4 DEF HasRoom, Day
  <2>. QED  BY <2>2, <2>3, PassCounters
<1>. QED  BY <1>1, <1>2 DEF HasRoom

\* A pass is granted once, for the time after.
LEMMA GrantTime ==
  ASSUME TypeOK, [Next]_vars, NEW p \in Passes
  PROVE  expires'[p] = expires[p] \/ (expires'[p] - Duration[p] = now /\ now' = now)
<1>1. ASSUME NEW r \in Passes, GrantPass(r)
      PROVE  expires'[p] = expires[p] \/ (expires'[p] - Duration[p] = now /\ now' = now)
  <2>1. expires' = [expires EXCEPT ![r] = now + Duration[r]] /\ now' = now
    BY <1>1 DEF GrantPass
  <2>2. now \in Nat /\ Duration[p] \in Nat
    BY EntitlementAssumption DEF TypeOK
  <2>. QED  BY <2>1, <2>2 DEF TypeOK
<1>2. CASE \A r \in Passes : ~GrantPass(r)
  BY <1>2 DEF Next, Step, Start, CheckPro, SelectPasses, ConsumePass, TakeCredit, CheckLogin,
     ReadCount, Upsert, Commit, CommitPass, CommitCredit, CommitFree, Fail, GrantCredits,
     RecordDailyLogin, Tick, rows, vars
<1>. QED  BY <1>1, <1>2

\* What a request at work does to its own list.
LEMMA Trying ==
  ASSUME TypeOK, [Next]_vars, NEW q \in Requests, pc'[q] \in Working
  PROVE  /\ tool'[q] = tool[q]
         /\ \/ SelectPasses(q)
            \/ /\ pc[q] \in Working /\ at'[q] = at[q]
               /\ \/ /\ candidates'[q] = candidates[q]
                     /\ pc'[q] = pc[q] \/ pc[q] # "consume" \/ candidates[q] = {}
                  \/ \E p \in candidates[q] :
                       ~HasRoom(q, p) /\ candidates'[q] = candidates[q] \ {p} /\ pc'[q] = pc[q]
<1>. DEFINE Same(o) == pc'[o] = pc[o] /\ at'[o] = at[o] /\ tool'[o] = tool[o]
                       /\ candidates'[o] = candidates[o]
<1>1. ASSUME NEW o \in Requests, NEW w, Decide(o, w)
      PROVE  pc'[o] = "commit" /\ (o # q => pc'[q] = pc[q])
  BY <1>1 DEF Decide, Goto, TypeOK
<1>2. ASSUME NEW o \in Requests, NEW label, Goto(o, label)
      PROVE  pc'[o] = label /\ (o # q => pc'[q] = pc[q])
  BY <1>2 DEF Goto, TypeOK
<1>3. ASSUME NEW o \in Requests, NEW t \in Tools, Start(o, t)
      PROVE  Same(q)
  <2>1. o # q
    BY <1>1, <1>2, <1>3 DEF Start, Working
  <2>. QED  BY <1>1, <1>2, <1>3, <2>1 DEF Start, TypeOK
<1>4. ASSUME NEW o \in Requests, CheckPro(o) \/ Upsert(o)
      PROVE  Same(q)
  <2>1. o # q
    BY <1>1, <1>2, <1>4 DEF CheckPro, Upsert, Working
  <2>. QED  BY <1>1, <1>2, <1>4, <2>1 DEF CheckPro, Upsert
<1>5. ASSUME NEW o \in Requests, SelectPasses(o)
      PROVE  (o # q => Same(q)) /\ tool' = tool
  BY <1>2, <1>5 DEF SelectPasses, TypeOK
<1>6. ASSUME NEW o \in Requests, o # q, ConsumePass(o) \/ TakeCredit(o) \/ CheckLogin(o) \/ ReadCount(o)
      PROVE  Same(q)
  BY <1>1, <1>2, <1>6 DEF ConsumePass, TakeCredit, CheckLogin, ReadCount, TypeOK
<1>7. CASE ConsumePass(q)
  <2>1. pc[q] = "consume" /\ tool' = tool /\ at' = at
    BY <1>7 DEF ConsumePass
  <2>2. PICK p \in candidates[q] :
          \/ Decide(q, Write("pass", p, Day(at[q])))
          \/ /\ ~HasRoom(q, p)
             /\ candidates' = [candidates EXCEPT ![q] = @ \ {p}] /\ pc' = pc
    BY <1>7 DEF ConsumePass
  <2>3. ~Decide(q, Write("pass", p, Day(at[q])))
    BY <1>1 DEF Working
  <2>. QED  BY <2>1, <2>2, <2>3 DEF TypeOK, Working
<1>8. CASE TakeCredit(q)
  <2>1. pc[q] = "consume" /\ candidates[q] = {} /\ UNCHANGED <<tool, at, candidates>>
    BY <1>8 DEF TakeCredit
  <2>. QED  BY <2>1 DEF Working
<1>9. CASE CheckLogin(q) \/ ReadCount(q)
  BY <1>9 DEF CheckLogin, ReadCount, Working
<1>10. ASSUME NEW o \in Requests, Commit(o) \/ Fail(o)
       PROVE  Same(q)
  <2>1. /\ pc' = [pc EXCEPT ![o] = "idle"] /\ at' = [at EXCEPT ![o] = 0]
        /\ tool' = [tool EXCEPT ![o] = Nothing] /\ candidates' = [candidates EXCEPT ![o] = {}]
    BY <1>10 DEF Commit, Fail, End, Goto
  <2>2. o # q
    BY <2>1 DEF TypeOK, Working
  <2>. QED  BY <2>1, <2>2 DEF TypeOK
<1>11. CASE \/ \E p \in Passes : GrantPass(p)
            \/ \E k \in Packs : GrantCredits(k)
            \/ RecordDailyLogin \/ Tick \/ UNCHANGED vars
  BY <1>11 DEF GrantPass, GrantCredits, RecordDailyLogin, Tick, work, vars
<1>. QED
  BY <1>3, <1>4, <1>5, <1>6, <1>7, <1>8, <1>9, <1>10, <1>11 DEF Next, Step

\* Every step keeps account of the passes that were tried.
LEMMA TriedStep ==
  ASSUME DayInv, TypeOK', Tried, [Next]_vars
  PROVE  Tried'
<1>. USE DEF DayInv, PassInv, TypeInv
<1>1. ASSUME NEW q \in Requests, pc'[q] \in Working \ {"consume"}
      PROVE  candidates'[q] = {}
  <2>1. pc'[q] \in Working /\ ~SelectPasses(q)
    BY <1>1 DEF SelectPasses, Goto, TypeOK
  <2>2. /\ pc[q] \in Working
        /\ pc[q] # "consume" => candidates[q] = {}
    BY <2>1, Trying DEF Tried
  <2>. QED  BY <1>1, <2>1, <2>2, Trying
<1>2. ASSUME NEW q \in Requests, pc'[q] \in Working, NEW p \in Passes, Had(q, p)'
      PROVE  p \in candidates'[q] \/ ~HasRoom(q, p)'
  <2>1. CASE SelectPasses(q)
    <3>1. /\ at'[q] = now /\ tool' = tool /\ expires' = expires
          /\ candidates'[q] = {r \in Passes : expires[r] > now /\ tool[q] \in Covers[r]}
      BY <2>1 DEF SelectPasses, rows, TypeOK
    <3>. QED  BY <1>2, <3>1 DEF Had, HasRoom
  <2>2. CASE ~SelectPasses(q)
    <3>1. pc[q] \in Working /\ at'[q] = at[q] /\ tool'[q] = tool[q] /\ at[q] <= now
      BY <1>2, <2>2, Trying DEF WorksToday
    <3>2. expires'[p] = expires[p]
      <4>1. at[q] \in Nat /\ now \in Nat
        BY EntitlementAssumption DEF TypeOK
      <4>2. expires'[p] - Duration[p] # now
        BY <1>2, <3>1, <4>1 DEF Had
      <4>. QED  BY <4>2, GrantTime
    <3>3. p \in candidates[q] \/ ~HasRoom(q, p)
      BY <1>2, <3>1, <3>2 DEF Tried, Had
    <3>4. p \in candidates'[q] \/ ~HasRoom(q, p)
      BY <1>2, <2>2, <3>3, Trying
    <3>. QED  BY <3>1, <3>2, <3>4, FullStays
  <2>. QED  BY <2>1, <2>2
<1>. QED  BY <1>1, <1>2 DEF Tried

\* The sources that come after the passes are reached with none left to try.
LEMMA LaterSources ==
  ASSUME TypeOK, [Next]_vars, NEW q \in Requests, wrote[q] = None,
         wrote'[q].kind \in {"credit", "free", "blocked"}
  PROVE  pc[q] \in Working /\ (pc[q] = "consume" => candidates[q] = {})
<1>0. None.kind = "none"
  BY WriteType
<1>1. ASSUME NEW o \in Requests, NEW w, Decide(o, w), w.kind \notin {"credit", "free", "blocked"}
      PROVE  FALSE
  BY <1>0, <1>1 DEF Decide, TypeOK
<1>2. ASSUME NEW o \in Requests, NEW w, Decide(o, w)
      PROVE  o = q
  BY <1>0, <1>2 DEF Decide, TypeOK
<1>3. wrote' # wrote
  BY <1>0
<1>4. ASSUME NEW o \in Requests, NEW t \in Tools, Start(o, t) PROVE FALSE
  BY <1>1, <1>3, <1>4, WriteFields DEF Start
<1>5. ASSUME NEW o \in Requests, CheckPro(o) \/ SelectPasses(o) \/ CheckLogin(o) PROVE FALSE
  BY <1>1, <1>3, <1>5, WriteFields DEF CheckPro, SelectPasses, CheckLogin
<1>6. ASSUME NEW o \in Requests, ConsumePass(o) PROVE FALSE
  <2>1. \/ \E p \in candidates[o] : Decide(o, Write("pass", p, Day(at[o])))
        \/ wrote' = wrote
    BY <1>6 DEF ConsumePass
  <2>. QED  BY <1>1, <1>3, <2>1, WriteFields
<1>7. ASSUME NEW o \in Requests, Commit(o) \/ Fail(o) PROVE FALSE
  <2>1. wrote' = [wrote EXCEPT ![o] = None]
    BY <1>7 DEF Commit, Fail, End
  <2>. QED  BY <1>0, <2>1 DEF TypeOK
<1>8. ASSUME NEW o \in Requests, TakeCredit(o) \/ ReadCount(o) \/ Upsert(o)
      PROVE  pc[q] \in Working /\ (pc[q] = "consume" => candidates[q] = {})
  <2>1. o = q
    BY <1>2, <1>3, <1>8 DEF TakeCredit, ReadCount, Upsert
  <2>. QED  BY <1>8, <2>1 DEF TakeCredit, ReadCount, Upsert, Working
<1>9. CASE \/ \E p \in Passes : GrantPass(p)
           \/ \E k \in Packs : GrantCredits(k)
           \/ RecordDailyLogin \/ Tick \/ UNCHANGED vars
  BY <1>3, <1>9 DEF GrantPass, GrantCredits, RecordDailyLogin, Tick, work, vars
<1>. QED  BY <1>4, <1>5, <1>6, <1>7, <1>8, <1>9 DEF Next, Step

\* If no request is at work at midnight, a credit or a free use is taken only
\* when no pass that was there before the request has a use left, although the
\* passes are tried one after the other while others consume them.
THEOREM PassesComeFirst == Spec /\ [][QuietMidnight]_vars => PassesFirst
<1>1. Init => DayInv /\ Tried
  BY DayInit DEF Init, Tried, Working
<1>2. DayInv /\ Tried /\ [Next]_vars /\ [QuietMidnight]_vars => DayInv' /\ Tried'
  <2>. SUFFICES ASSUME DayInv, Tried, [Next]_vars, [QuietMidnight]_vars
                PROVE  DayInv' /\ Tried'
    OBVIOUS
  <2>1. DayInv' /\ TypeOK'
    BY DayStep DEF DayInv, PassInv, TypeInv
  <2>. QED  BY <2>1, TriedStep
<1>. DEFINE Ordered ==
       \A q \in Requests :
         wrote[q] = None /\ wrote'[q].kind \in {"credit", "free", "blocked"}
           => \A p \in Passes :
                expires[p] > 0 /\ expires[p] - Duration[p] < at[q] /\ tool[q] \in Covers[p]
                  => ~HasRoom(q, p)
<1>3. DayInv /\ Tried /\ [Next]_vars => [Ordered]_vars
  <2>. SUFFICES ASSUME DayInv, Tried, [Next]_vars, NEW q \in Requests, wrote[q] = None,
                       wrote'[q].kind \in {"credit", "free", "blocked"},
                       NEW p \in Passes, Had(q, p)
                PROVE  ~HasRoom(q, p)
    BY DEF Had
  <2>1. pc[q] \in Working /\ (pc[q] = "consume" => candidates[q] = {})
    BY LaterSources DEF DayInv, PassInv, TypeInv
  <2>2. candidates[q] = {}
    BY <2>1 DEF Tried
  <2>. QED  BY <2>1, <2>2 DEF Tried
<1>. QED  BY <1>1, <1>2, <1>3, PTL DEF Spec, PassesFirst

-----------------------------------------------------------------------------
(* The overrun of the daily limit.  A use that is counted, or still on its  *)
(* way to the counter, was let in when the count was under the limit: by    *)
(* then at most all requests were on the way.                               *)

Limit == FreeUses + LoginBonus

InFlight(t, d) ==
  {q \in Requests :
     \/ pc[q] = "upsert" /\ tool[q] = t /\ d >= Day(now)
     \/ wrote[q].kind = "free" /\ wrote[q].row = t /\ wrote[q].day = d}

AllowanceBounded == \A q \in Requests : allowance[q] <= Limit

FutureUncounted ==
  \A t \in Tools, d \in Days : d > Day(now) => counted[t][d] = 0

WrittenByNow ==
  \A q \in Requests : wrote[q].kind = "free" => wrote[q].day <= Day(now)

Admitted ==
  \A t \in Tools, d \in Days :
    counted[t][d] + Cardinality(InFlight(t, d)) <= Limit + Cardinality(Requests) - 1

OverrunInv == AllowanceBounded /\ FutureUncounted /\ WrittenByNow /\ Admitted

\* The requests in flight for a tool and a day are some of the finitely many.
LEMMA FlightSize ==
  /\ Cardinality(Requests) \in Nat /\ Cardinality(Requests) >= 1
  /\ Limit \in Nat
  /\ \A t, d : /\ IsFiniteSet(InFlight(t, d))
              /\ Cardinality(InFlight(t, d)) \in Nat
              /\ Cardinality(InFlight(t, d)) <= Cardinality(Requests)
<1>1. IsFiniteSet(Requests) /\ Requests # {}
  BY EntitlementAssumption
<1>2. Cardinality(Requests) \in Nat /\ Cardinality(Requests) # 0
  BY <1>1, FS_CardinalityType, FS_EmptySet
<1>3. Limit \in Nat
  BY EntitlementAssumption DEF Limit
<1>4. ASSUME NEW t, NEW d
      PROVE  /\ IsFiniteSet(InFlight(t, d))
             /\ Cardinality(InFlight(t, d)) \in Nat
             /\ Cardinality(InFlight(t, d)) <= Cardinality(Requests)
  <2>1. InFlight(t, d) \in SUBSET Requests
    BY DEF InFlight
  <2>2. /\ IsFiniteSet(InFlight(t, d))
        /\ Cardinality(InFlight(t, d)) <= Cardinality(Requests)
    BY <1>1, <2>1, FS_Subset
  <2>. QED  BY <2>2, FS_CardinalityType
<1>. QED  BY <1>2, <1>3, <1>4

\* The bound on the overrun holds initially: nothing is counted or in flight.
LEMMA OverrunInit == ASSUME Init PROVE OverrunInv
<1>1. \A t, d : InFlight(t, d) = {}
  BY WriteType DEF Init, InFlight
<1>2. \A t, d : Cardinality(InFlight(t, d)) = 0
  BY <1>1, FS_EmptySet
<1>3. AllowanceBounded
  BY FlightSize DEF Init, AllowanceBounded
<1>4. FutureUncounted /\ WrittenByNow
  BY WriteType DEF Init, FutureUncounted, WrittenByNow
<1>5. Admitted
  BY <1>2, FlightSize DEF Init, Admitted
<1>. QED  BY <1>3, <1>4, <1>5 DEF OverrunInv

\* A step that lets no request in and counts nothing.
LEMMA NoneLetIn ==
  ASSUME TypeOK, TypeOK', OverrunInv, AllowanceBounded', counted' = counted,
         now' \in {now, now + 1},
         NEW q \in Requests,
         \A o \in Requests \ {q} :
           pc'[o] = pc[o] /\ wrote'[o] = wrote[o] /\ tool'[o] = tool[o],
         pc'[q] = "upsert" => pc[q] = "upsert" /\ tool'[q] = tool[q],
         \/ wrote'[q] = wrote[q]
         \/ wrote'[q].kind # "free"
         \/ /\ pc[q] = "upsert" /\ wrote'[q].row = tool[q]
            /\ wrote'[q].day = Day(now) /\ now' = now
  PROVE  OverrunInv'
<1>. USE DEF OverrunInv
<1>1. Day(now) \in Nat /\ Day(now') \in Nat /\ Day(now) <= Day(now')
  BY DayMonotone, EntitlementAssumption DEF TypeOK
<1>2. FutureUncounted'
  BY <1>1 DEF FutureUncounted, Days
<1>3. WrittenByNow'
  <2>. SUFFICES ASSUME NEW o \in Requests, wrote'[o].kind = "free"
                PROVE  wrote'[o].day <= Day(now')
    BY DEF WrittenByNow, Day
  <2>1. CASE wrote'[o] = wrote[o]
    <3>1. wrote[o].day \in Days
      BY <2>1, WriteRows DEF TypeOK
    <3>. QED  BY <1>1, <2>1, <3>1 DEF WrittenByNow, Days
  <2>2. CASE o = q /\ wrote'[q].day = Day(now)
    BY <1>1, <2>2
  <2>. QED  BY <2>1, <2>2
<1>4. ASSUME NEW t \in Tools, NEW d \in Days
      PROVE  /\ Cardinality(InFlight(t, d)') \in Nat
             /\ Cardinality(InFlight(t, d)') <= Cardinality(InFlight(t, d))
  <2>1. InFlight(t, d)' \subseteq InFlight(t, d)
    <3>. SUFFICES ASSUME NEW o \in InFlight(t, d)' PROVE o \in InFlight(t, d)
      OBVIOUS
    <3>1. o \in Requests
      BY DEF InFlight
    <3>2. CASE pc'[o] = "upsert" /\ tool'[o] = t /\ d >= Day(now')
      <4>1. pc[o] = "upsert" /\ tool[o] = t /\ d >= Day(now)
        BY <1>1, <3>1, <3>2 DEF Days
      <4>. QED  BY <3>1, <4>1 DEF InFlight
    <3>3. CASE wrote'[o].kind = "free" /\ wrote'[o].row = t /\ wrote'[o].day = d
      <4>1. CASE wrote'[o] = wrote[o]
        BY <3>1, <3>3, <4>1 DEF InFlight
      <4>2. CASE /\ pc[o] = "upsert" /\ wrote'[o].row = tool[o]
                 /\ wrote'[o].day = Day(now)
        BY <1>1, <3>1, <3>3, <4>2 DEF InFlight
      <4>. QED  BY <3>1, <3>3, <4>1, <4>2
    <3>. QED  BY <3>2, <3>3 DEF InFlight, Day
  <2>2. /\ IsFiniteSet(InFlight(t, d)')
        /\ Cardinality(InFlight(t, d)') <= Cardinality(InFlight(t, d))
    BY <2>1, FlightSize, FS_Subset
  <2>. QED  BY <2>2, FS_CardinalityType
<1>5. Admitted'
  <2>. SUFFICES ASSUME NEW t \in Tools, NEW d \in Days
                PROVE  counted[t][d] + Cardinality(InFlight(t, d)')
                         <= Limit + Cardinality(Requests) - 1
    BY DEF Admitted, Limit
  <2>1. counted[t][d] \in Nat
    BY DEF TypeOK
  <2>. QED  BY <1>4, <2>1, FlightSize DEF Admitted
<1>. QED  BY <1>2, <1>3, <1>5

\* A request is let in when the count of its tool today is under its limit.
LEMMA LetIn ==
  ASSUME TypeInv, TypeOK', OverrunInv, NEW q \in Requests, ReadCount(q),
         Goto(q, "upsert"), wrote' = wrote, counted[tool[q]][Day(now)] < allowance[q]
  PROVE  OverrunInv'
<1>. USE DEF OverrunInv, TypeInv
<1>1. /\ UNCHANGED <<now, counted, allowance, tool>>
      /\ pc[q] = "count" /\ pc' = [pc EXCEPT ![q] = "upsert"]
  BY DEF ReadCount, rows, Goto
<1>2. tool[q] \in Tools /\ Day(now) \in Days /\ Day(now) \in Nat
  BY <1>1, DayInDays DEF Shape, HasTool, TypeOK, Days
<1>3. AllowanceBounded' /\ FutureUncounted' /\ WrittenByNow'
  BY <1>1 DEF AllowanceBounded, FutureUncounted, WrittenByNow, Day, Limit
<1>4. ASSUME NEW t \in Tools, NEW d \in Days
      PROVE  counted[t][d] + Cardinality(InFlight(t, d)') <= Limit + Cardinality(Requests) - 1
  <2>1. counted[t][d] \in Nat /\ d \in Int
    <3>1. counted[t][d] \in Nat
      BY DEF TypeOK
    <3>. QED  BY <3>1 DEF Days
  <2>2. InFlight(t, d)' \in SUBSET Requests
    BY DEF InFlight
  <2>3. /\ Cardinality(InFlight(t, d)') \in Nat
        /\ Cardinality(InFlight(t, d)') <= Cardinality(Requests)
    BY <2>2, EntitlementAssumption, FS_Subset, FS_CardinalityType
  <2>4. counted[tool[q]][Day(now)] < Limit /\ Limit >= 1
    <3>1. counted[tool[q]][Day(now)] \in Nat /\ allowance[q] \in Nat /\ allowance[q] <= Limit
      BY <1>2 DEF AllowanceBounded, TypeOK
    <3>. QED  BY <3>1, FlightSize
  <2>5. CASE t # tool[q] \/ d < Day(now)
    <3>1. InFlight(t, d)' = InFlight(t, d)
      BY <1>1, <1>2, <2>1, <2>5 DEF InFlight, Day, TypeOK
    <3>. QED  BY <3>1 DEF Admitted
  <2>6. CASE t = tool[q] /\ d = Day(now)
    BY <2>1, <2>3, <2>4, <2>6, FlightSize
  <2>7. CASE t = tool[q] /\ d > Day(now)
    <3>1. counted[t][d] = 0
      BY <2>7 DEF FutureUncounted
    <3>. QED  BY <2>3, <2>4, <3>1, FlightSize
  <2>. QED  BY <1>2, <2>1, <2>5, <2>6, <2>7
<1>5. Admitted'
  BY <1>1, <1>4 DEF Admitted, Limit
<1>. QED  BY <1>3, <1>5

\* A committed free use moves from the flight to the count.
LEMMA Landed ==
  ASSUME TypeInv, TypeOK', OverrunInv, NEW q \in Requests, wrote[q].kind = "free",
         CommitFree(wrote[q].row, wrote[q].day), End(q, "free"), now' = now
  PROVE  OverrunInv'
<1>. USE DEF OverrunInv, TypeInv
<1>. DEFINE s == wrote[q].row
            e == wrote[q].day
<1>1. s \in Tools /\ e \in Days /\ e <= Day(now)
  BY WriteRows DEF TypeOK, WrittenByNow
<1>2. /\ counted' = [counted EXCEPT ![s][e] = @ + 1]
      /\ pc' = [pc EXCEPT ![q] = "idle"]
      /\ wrote' = [wrote EXCEPT ![q] = None]
      /\ tool' = [tool EXCEPT ![q] = Nothing]
      /\ allowance' = [allowance EXCEPT ![q] = 0]
  BY DEF CommitFree, End, Goto
<1>3. pc[q] = "commit" /\ None.kind = "none"
  BY WriteType DEF Shape, WritesAtCommit
<1>4. AllowanceBounded' /\ WrittenByNow'
  BY <1>2, <1>3, FlightSize DEF AllowanceBounded, WrittenByNow, TypeOK, Day, Limit
<1>5. FutureUncounted'
  <2>1. Day(now') = Day(now) /\ Day(now) \in Nat
    BY DayMonotone, EntitlementAssumption DEF TypeOK
  <2>. QED  BY <1>1, <1>2, <2>1 DEF FutureUncounted, TypeOK, Day, Days
<1>6. ASSUME NEW t \in Tools, NEW d \in Days
      PROVE  counted'[t][d] + Cardinality(InFlight(t, d)') <= Limit + Cardinality(Requests) - 1
  <2>1. counted[t][d] \in Nat
    BY DEF TypeOK
  <2>2. CASE t = s /\ d = e
    <3>1. InFlight(t, d)' = InFlight(t, d) \ {q}
      BY <1>2, <1>3 DEF InFlight, Day, TypeOK
    <3>2. q \in InFlight(t, d)
      BY <2>2 DEF InFlight
    <3>3. Cardinality(InFlight(t, d)') = Cardinality(InFlight(t, d)) - 1
      BY <3>1, <3>2, FlightSize, FS_RemoveElement
    <3>4. counted'[t][d] = counted[t][d] + 1
      BY <1>1, <1>2, <2>2 DEF TypeOK
    <3>. QED  BY <2>1, <3>3, <3>4, FlightSize DEF Admitted
  <2>3. CASE ~(t = s /\ d = e)
    <3>1. InFlight(t, d)' = InFlight(t, d)
      BY <1>2, <1>3, <2>3 DEF InFlight, Day, TypeOK
    <3>2. counted'[t][d] = counted[t][d]
      BY <1>1, <1>2, <2>3 DEF TypeOK
    <3>. QED  BY <3>1, <3>2 DEF Admitted
  <2>. QED  BY <2>2, <2>3
<1>7. Admitted'
  BY <1>6 DEF Admitted, Limit
<1>. QED  BY <1>4, <1>5, <1>7

\* Every step keeps the bound on the overrun, one action at a time.
LEMMA OverrunStep ==
  ASSUME TypeInv, OverrunInv, [Next]_vars
  PROVE  OverrunInv'
<1>1. TypeOK /\ TypeOK'
  BY TypeStep DEF TypeInv
<1>2. ASSUME NEW q \in Requests, NEW w \in Writes, Decide(q, w), w.kind # "free",
             UNCHANGED <<now, counted, allowance>>,
             \A o \in Requests \ {q} : tool'[o] = tool[o]
      PROVE  OverrunInv'
  <2>1. /\ wrote' = [wrote EXCEPT ![q] = w] /\ pc' = [pc EXCEPT ![q] = "commit"]
        /\ now' = now /\ counted' = counted /\ allowance' = allowance
    BY <1>2 DEF Decide, Goto
  <2>2. /\ pc'[q] # "upsert" /\ wrote'[q].kind # "free"
        /\ \A o \in Requests \ {q} : pc'[o] = pc[o] /\ wrote'[o] = wrote[o]
    BY <1>1, <1>2, <2>1 DEF TypeOK
  <2>3. AllowanceBounded'
    BY <2>1 DEF OverrunInv, AllowanceBounded, Limit
  <2>. QED  BY <1>1, <1>2, <2>1, <2>2, <2>3, NoneLetIn
<1>3. ASSUME NEW q \in Requests, NEW label, Goto(q, label), label # "upsert",
             UNCHANGED <<now, counted, wrote>>, AllowanceBounded',
             \A o \in Requests \ {q} : tool'[o] = tool[o]
      PROVE  OverrunInv'
  <2>1. /\ pc' = [pc EXCEPT ![q] = label]
        /\ now' = now /\ counted' = counted /\ wrote' = wrote
    BY <1>3 DEF Goto
  <2>2. pc'[q] # "upsert" /\ \A o \in Requests \ {q} : pc'[o] = pc[o]
    BY <1>1, <1>3, <2>1 DEF TypeOK
  <2>. QED  BY <1>1, <1>3, <2>1, <2>2, NoneLetIn
<1>4. ASSUME now' \in {now, now + 1}, counted' = counted, pc' = pc, wrote' = wrote,
             tool' = tool, allowance' = allowance
      PROVE  OverrunInv'
  <2>1. PICK q \in Requests : TRUE
    BY EntitlementAssumption
  <2>2. AllowanceBounded'
    BY <1>4 DEF OverrunInv, AllowanceBounded, Limit
  <2>. QED  BY <1>1, <1>4, <2>1, <2>2, NoneLetIn
<1>5. ASSUME allowance' = allowance PROVE AllowanceBounded'
  BY <1>5 DEF OverrunInv, AllowanceBounded, Limit
<1>6. ASSUME NEW q \in Requests, NEW t \in Tools, Start(q, t) PROVE OverrunInv'
  <2>1. /\ UNCHANGED <<now, counted, allowance>>
        /\ \A o \in Requests \ {q} : tool'[o] = tool[o]
    BY <1>1, <1>6 DEF Start, rows, TypeOK
  <2>2. \/ Decide(q, Write("always", Nothing, 0))
        \/ Goto(q, "tier") /\ wrote' = wrote
    BY <1>6 DEF Start
  <2>. QED  BY <1>2, <1>3, <1>5, <2>1, <2>2, WriteType, WriteFields
<1>7. ASSUME NEW q \in Requests, CheckPro(q) PROVE OverrunInv'
  <2>1. UNCHANGED <<now, counted, allowance, tool>>
    BY <1>7 DEF CheckPro, rows
  <2>2. \/ Decide(q, Write("pro", Nothing, 0))
        \/ Goto(q, "passes") /\ wrote' = wrote
    BY <1>7 DEF CheckPro
  <2>. QED  BY <1>2, <1>3, <1>5, <2>1, <2>2, WriteType, WriteFields
<1>8. ASSUME NEW q \in Requests, SelectPasses(q) PROVE OverrunInv'
  <2>1. UNCHANGED <<now, counted, allowance, tool, wrote>> /\ Goto(q, "consume")
    BY <1>8 DEF SelectPasses, rows
  <2>. QED  BY <1>3, <1>5, <2>1
<1>9. ASSUME NEW q \in Requests, ConsumePass(q) PROVE OverrunInv'
  <2>1. /\ now' = now /\ counted' = counted /\ allowance' = allowance /\ tool' = tool
    BY <1>9 DEF ConsumePass, rows
  <2>2. PICK p \in candidates[q] :
          Decide(q, Write("pass", p, Day(at[q]))) \/ UNCHANGED <<pc, wrote>>
    BY <1>9 DEF ConsumePass
  <2>3. p \in Passes /\ Day(at[q]) \in Days
    BY <1>1, DayInDays DEF TypeOK
  <2>. QED  BY <1>2, <1>4, <2>1, <2>2, <2>3, WriteType, WriteFields
<1>10. ASSUME NEW q \in Requests, TakeCredit(q) PROVE OverrunInv'
  <2>1. UNCHANGED <<now, counted, allowance, tool>>
    BY <1>10 DEF TakeCredit, rows
  <2>2. \/ Goto(q, "login") /\ wrote' = wrote
        \/ \E k \in OpenPacks : Decide(q, Write("credit", k, 0))
    BY <1>10 DEF TakeCredit
  <2>3. OpenPacks \subseteq Packs
    BY <1>1 DEF OpenPacks, TypeOK
  <2>. QED  BY <1>2, <1>3, <1>5, <2>1, <2>2, <2>3, WriteType, WriteFields
<1>11. ASSUME NEW q \in Requests, CheckLogin(q) PROVE OverrunInv'
  <2>1. UNCHANGED <<now, counted, tool, wrote>> /\ Goto(q, "count")
    BY <1>11 DEF CheckLogin, rows
  <2>2. AllowanceBounded'
    <3>1. allowance' = [allowance EXCEPT
            ![q] = IF Day(now) \in logins THEN FreeUses + LoginBonus ELSE FreeUses]
      BY <1>11 DEF CheckLogin
    <3>. QED  BY <1>1, <3>1, EntitlementAssumption
         DEF OverrunInv, AllowanceBounded, Limit, TypeOK
  <2>. QED  BY <1>3, <2>1, <2>2
<1>12. ASSUME NEW q \in Requests, ReadCount(q) PROVE OverrunInv'
  <2>1. UNCHANGED <<now, counted, allowance, tool>> /\ pc[q] = "count"
    BY <1>12 DEF ReadCount, rows
  <2>2. tool[q] \in Tools /\ Day(now) \in Days
    BY <1>1, <2>1, DayInDays DEF TypeInv, Shape, HasTool, TypeOK
  <2>3. counted[tool[q]][Day(now)] \in Nat /\ allowance[q] \in Nat
    BY <1>1, <2>2 DEF TypeOK
  <2>4. \/ Decide(q, Write("blocked", Nothing, 0))
        \/ /\ Goto(q, "upsert") /\ wrote' = wrote
           /\ counted[tool[q]][Day(now)] < allowance[q]
    BY <1>12, <2>3 DEF ReadCount
  <2>. QED  BY <1>1, <1>2, <1>12, <2>1, <2>4, LetIn, WriteType, WriteFields
<1>13. ASSUME NEW q \in Requests, Upsert(q) PROVE OverrunInv'
  <2>1. /\ UNCHANGED <<now, counted, allowance, tool>> /\ pc[q] = "upsert"
        /\ pc' = [pc EXCEPT ![q] = "commit"]
        /\ wrote' = [wrote EXCEPT ![q] = Write("free", tool[q], Day(now))]
    BY <1>13 DEF Upsert, rows, Decide, Goto
  <2>2. /\ \A o \in Requests \ {q} : pc'[o] = pc[o] /\ wrote'[o] = wrote[o]
        /\ pc'[q] = "commit" /\ wrote'[q] = Write("free", tool[q], Day(now))
    BY <1>1, <2>1 DEF TypeOK
  <2>3. wrote'[q].row = tool[q] /\ wrote'[q].day = Day(now)
    BY <2>2, WriteFields
  <2>. QED  BY <1>1, <1>5, <2>1, <2>2, <2>3, NoneLetIn
<1>14. ASSUME NEW q \in Requests, Commit(q) \/ Fail(q) PROVE OverrunInv'
  <2>1. /\ now' = now /\ wrote' = [wrote EXCEPT ![q] = None]
        /\ pc' = [pc EXCEPT ![q] = "idle"] /\ tool' = [tool EXCEPT ![q] = Nothing]
        /\ allowance' = [allowance EXCEPT ![q] = 0]
    BY <1>14 DEF Commit, Fail, End, Goto
  <2>2. CASE counted' = counted
    <3>1. /\ pc'[q] = "idle" /\ wrote'[q].kind # "free"
          /\ \A o \in Requests \ {q} :
               pc'[o] = pc[o] /\ wrote'[o] = wrote[o] /\ tool'[o] = tool[o]
      BY <1>1, <2>1, WriteType DEF TypeOK
    <3>2. AllowanceBounded'
      BY <1>1, <2>1, FlightSize DEF OverrunInv, AllowanceBounded, Limit, TypeOK
    <3>. QED  BY <1>1, <2>1, <2>2, <3>1, <3>2, NoneLetIn
  <2>3. CASE wrote[q].kind = "free" /\ CommitFree(wrote[q].row, wrote[q].day)
    <3>1. counted' # counted
      BY <1>1, <2>3, WriteRows DEF TypeOK, CommitFree
    <3>2. Commit(q)
      BY <1>14, <3>1 DEF Fail, rows
    <3>3. End(q, "free")
      BY <2>3, <3>2 DEF Commit
    <3>. QED  BY <1>1, <2>1, <2>3, <3>3, Landed
  <2>. QED  BY <1>14, <2>2, <2>3 DEF Commit, Fail, CommitPass, CommitCredit, rows
<1>15. CASE \/ \E p \in Passes : GrantPass(p)
            \/ \E k \in Packs : GrantCredits(k)
            \/ RecordDailyLogin \/ Tick \/ UNCHANGED vars
  <2>1. /\ now' \in {now, now + 1} /\ counted' = counted /\ pc' = pc /\ wrote' = wrote
        /\ tool' = tool /\ allowance' = allowance
    BY <1>15 DEF GrantPass, GrantCredits, RecordDailyLogin, Tick, rows, work, vars
  <2>. QED  BY <1>4, <2>1
<1>. QED
  BY <1>6, <1>7, <1>8, <1>9, <1>10, <1>11, <1>12, <1>13, <1>14, <1>15 DEF Next, Step

\* Concurrent requests overrun the daily limit by at most the number of
\* requests that run at the same time, less one.
THEOREM DailyOverrunBounded == Spec => []DailyOverrun
<1>1. Init => TypeInv /\ OverrunInv
  BY TypeInit, OverrunInit
<1>2. TypeInv /\ OverrunInv /\ [Next]_vars => TypeInv' /\ OverrunInv'
  BY TypeStep, OverrunStep
<1>3. TypeInv /\ OverrunInv => DailyOverrun
  <2>. SUFFICES ASSUME TypeInv, OverrunInv, NEW t \in Tools, NEW d \in Days
                PROVE  counted[t][d] <= FreeUses + LoginBonus + Cardinality(Requests) - 1
    BY DEF DailyOverrun
  <2>1. counted[t][d] \in Nat
    BY DEF TypeInv, TypeOK
  <2>2. counted[t][d] + Cardinality(InFlight(t, d)) <= Limit + Cardinality(Requests) - 1
    BY DEF OverrunInv, Admitted
  <2>. QED  BY <2>1, <2>2, FlightSize DEF Limit
<1>. QED  BY <1>1, <1>2, <1>3, PTL DEF Spec

-----------------------------------------------------------------------------
(* The quota: each credit that is left and each free use that is counted is  *)
(* an element of a finite set, and a request is open from its start to its   *)
(* end.                                                                      *)

QuotaInv ==
  /\ TypeInv
  /\ \A q \in Requests : outcome[q] = "open" <=> pc[q] # "idle"
  /\ IsFiniteSet(CreditsLeft)
  /\ IsFiniteSet(FreeTaken)

LeftOf(b, left) == UNION {{k} \X (1 .. left[k]) : k \in b}
TakenOf(c) == UNION {{p} \X (1 .. c[p[1]][p[2]]) : p \in Tools \X Days}

LEMMA CreditUnits ==
  ASSUME NEW b, NEW left, NEW u
  PROVE  u \in LeftOf(b, left) <=> \E k \in b : \E n \in 1 .. left[k] : u = <<k, n>>
<1>1. ASSUME u \in LeftOf(b, left) PROVE \E k \in b : \E n \in 1 .. left[k] : u = <<k, n>>
  <2>1. PICK k \in b : u \in {k} \X (1 .. left[k])
    BY <1>1 DEF LeftOf
  <2>. QED  BY <2>1
<1>2. ASSUME NEW k \in b, NEW n \in 1 .. left[k], u = <<k, n>> PROVE u \in LeftOf(b, left)
  <2>1. u \in {k} \X (1 .. left[k])
    BY <1>2
  <2>. QED  BY <2>1 DEF LeftOf
<1>. QED  BY <1>1, <1>2

LEMMA FreeUnits ==
  ASSUME NEW c, NEW u
  PROVE  u \in TakenOf(c) <=>
           \E t \in Tools : \E d \in Days : \E n \in 1 .. c[t][d] : u = <<<<t, d>>, n>>
<1>1. ASSUME u \in TakenOf(c)
      PROVE  \E t \in Tools : \E d \in Days : \E n \in 1 .. c[t][d] : u = <<<<t, d>>, n>>
  <2>1. PICK p \in Tools \X Days : u \in {p} \X (1 .. c[p[1]][p[2]])
    BY <1>1 DEF TakenOf
  <2>2. PICK t \in Tools, d \in Days : p = <<t, d>>
    OBVIOUS
  <2>. QED  BY <2>1, <2>2
<1>2. ASSUME NEW t \in Tools, NEW d \in Days, NEW n \in 1 .. c[t][d], u = <<<<t, d>>, n>>
      PROVE  u \in TakenOf(c)
  <2>1. PICK p \in Tools \X Days : p = <<t, d>>
    OBVIOUS
  <2>2. u \in {p} \X (1 .. c[p[1]][p[2]])
    BY <1>2, <2>1
  <2>. QED  BY <2>2 DEF TakenOf
<1>. QED  BY <1>1, <1>2

LEMMA Units ==
  /\ CreditsLeft = LeftOf(bought, remaining) /\ CreditsLeft' = LeftOf(bought', remaining')
  /\ FreeTaken = TakenOf(counted) /\ FreeTaken' = TakenOf(counted')
BY DEF CreditsLeft, LeftOf, FreeTaken, TakenOf

\* A credit that a request has locked is one that is left.
LEMMA CreditSpent ==
  ASSUME QuotaInv, NEW k \in bought, remaining[k] > 0, CommitCredit(k)
  PROVE  /\ IsFiniteSet(CreditsLeft') /\ Cardinality(CreditsLeft) \in Nat
         /\ Cardinality(CreditsLeft) > 0
         /\ Cardinality(CreditsLeft') = Cardinality(CreditsLeft) - 1
         /\ FreeTaken' = FreeTaken
<1>1. k \in Packs /\ remaining \in [Packs -> Nat] /\ bought \subseteq Packs
  BY DEF QuotaInv, TypeInv, TypeOK
<1>2. <<k, remaining[k]>> \in CreditsLeft
  BY <1>1, Units, CreditUnits
<1>3. /\ bought' = bought /\ remaining'[k] = remaining[k] - 1
      /\ \A j \in bought : j # k => remaining'[j] = remaining[j]
  BY <1>1 DEF CommitCredit
<1>4. CreditsLeft' = CreditsLeft \ {<<k, remaining[k]>>}
  <2>1. ASSUME NEW u PROVE u \in CreditsLeft' <=> u \in CreditsLeft /\ u # <<k, remaining[k]>>
    <3>1. u \in CreditsLeft' <=> \E j \in bought : \E n \in 1 .. remaining'[j] : u = <<j, n>>
      BY <1>3, Units, CreditUnits
    <3>2. u \in CreditsLeft <=> \E j \in bought : \E n \in 1 .. remaining[j] : u = <<j, n>>
      BY Units, CreditUnits
    <3>3. \A j \in bought : \A n : n \in 1 .. remaining'[j] <=>
            n \in 1 .. remaining[j] /\ <<j, n>> # <<k, remaining[k]>>
      BY <1>1, <1>3
    <3>. QED  BY <3>1, <3>2, <3>3
  <2>. QED  BY <2>1
<1>5. FreeTaken' = FreeTaken
  BY DEF CommitCredit, FreeTaken
<1>6. IsFiniteSet(CreditsLeft) /\ CreditsLeft # {}
  BY <1>2 DEF QuotaInv
<1>7. Cardinality(CreditsLeft) \in Nat /\ Cardinality(CreditsLeft) # 0
  BY <1>6, FS_CardinalityType, FS_EmptySet
<1>8. /\ IsFiniteSet(CreditsLeft \ {<<k, remaining[k]>>})
      /\ Cardinality(CreditsLeft \ {<<k, remaining[k]>>}) = Cardinality(CreditsLeft) - 1
  BY <1>2, <1>6, FS_RemoveElement
<1>. QED
  BY <1>4, <1>5, <1>7, <1>8

LEMMA FreeUseCounted ==
  ASSUME QuotaInv, NEW t \in Tools, NEW d \in Days, CommitFree(t, d)
  PROVE  /\ IsFiniteSet(FreeTaken') /\ Cardinality(FreeTaken) \in Nat
         /\ Cardinality(FreeTaken') = Cardinality(FreeTaken) + 1
         /\ CreditsLeft' = CreditsLeft
<1>. DEFINE new == <<<<t, d>>, counted[t][d] + 1>>
<1>1. counted \in [Tools -> [Days -> Nat]]
  BY DEF QuotaInv, TypeInv, TypeOK
<1>2. /\ counted'[t][d] = counted[t][d] + 1
      /\ \A s \in Tools : \A e \in Days : <<s, e>> # <<t, d>> => counted'[s][e] = counted[s][e]
  BY <1>1 DEF CommitFree
<1>3. new \notin FreeTaken
  BY <1>1, Units, FreeUnits
<1>4. FreeTaken' = FreeTaken \cup {new}
  <2>1. ASSUME NEW u PROVE u \in FreeTaken' <=> u \in FreeTaken \/ u = new
    <3>1. u \in FreeTaken' <=>
            \E s \in Tools : \E e \in Days : \E n \in 1 .. counted'[s][e] : u = <<<<s, e>>, n>>
      BY Units, FreeUnits
    <3>2. u \in FreeTaken <=>
            \E s \in Tools : \E e \in Days : \E n \in 1 .. counted[s][e] : u = <<<<s, e>>, n>>
      BY Units, FreeUnits
    <3>3. \A s \in Tools : \A e \in Days : \A n : n \in 1 .. counted'[s][e] <=>
            n \in 1 .. counted[s][e] \/ <<<<s, e>>, n>> = new
      BY <1>1, <1>2
    <3>4. new = <<<<t, d>>, counted[t][d] + 1>> /\ counted[t][d] + 1 \in 1 .. counted'[t][d]
      BY <1>1, <1>2
    <3>. QED  BY <3>1, <3>2, <3>3, <3>4
  <2>. QED  BY <2>1
<1>5. CreditsLeft' = CreditsLeft
  BY DEF CommitFree, CreditsLeft
<1>. QED
  BY <1>3, <1>4, <1>5, FS_AddElement, FS_CardinalityType DEF QuotaInv

LEMMA CreditsBought ==
  ASSUME QuotaInv, NEW k \in Packs, GrantCredits(k)
  PROVE  /\ IsFiniteSet(CreditsLeft')
         /\ Cardinality(CreditsLeft') = Cardinality(CreditsLeft) + Credits[k]
         /\ FreeTaken' = FreeTaken
<1>. DEFINE new == {k} \X (1 .. Credits[k])
<1>1. remaining \in [Packs -> Nat] /\ bought \subseteq Packs /\ Credits[k] \in Nat
  BY EntitlementAssumption DEF QuotaInv, TypeInv, TypeOK
<1>2. /\ bought' = bought \cup {k} /\ k \notin bought /\ remaining'[k] = Credits[k]
      /\ \A j \in bought : remaining'[j] = remaining[j]
  BY <1>1 DEF GrantCredits
<1>3. CreditsLeft' = CreditsLeft \cup new
  <2>1. ASSUME NEW u PROVE u \in CreditsLeft' <=> u \in CreditsLeft \/ u \in new
    <3>1. u \in CreditsLeft' <=> \E j \in bought' : \E n \in 1 .. remaining'[j] : u = <<j, n>>
      BY Units, CreditUnits
    <3>2. u \in CreditsLeft <=> \E j \in bought : \E n \in 1 .. remaining[j] : u = <<j, n>>
      BY Units, CreditUnits
    <3>3. u \in new <=> \E n \in 1 .. Credits[k] : u = <<k, n>>
      OBVIOUS
    <3>. QED  BY <1>2, <3>1, <3>2, <3>3
  <2>. QED  BY <2>1
<1>4. CreditsLeft \cap new = {}
  <2>1. ASSUME NEW u \in CreditsLeft, u \in new PROVE FALSE
    BY <1>2, <2>1, Units, CreditUnits
  <2>. QED  BY <2>1
<1>5. IsFiniteSet(new) /\ Cardinality(new) = Credits[k]
  <2>1. IsFiniteSet(1 .. Credits[k]) /\ Cardinality(1 .. Credits[k]) = Credits[k]
    <3>1. \A n \in Nat : IsFiniteSet(1 .. n) /\ Cardinality(1 .. n) = n
      <4>1. ASSUME NEW n \in Nat PROVE IsFiniteSet(1 .. n) /\ Cardinality(1 .. n) = n
        <5>1. 1 \in Int /\ n \in Int
          OBVIOUS
        <5>. QED  BY <5>1, FS_Interval
      <4>. QED  BY <4>1
    <3>. QED  BY <1>1, <3>1
  <2>2. IsFiniteSet({k}) /\ Cardinality({k}) = 1
    BY FS_Singleton
  <2>3. IsFiniteSet(new) /\ Cardinality(new) = Cardinality({k}) * Cardinality(1 .. Credits[k])
    BY <2>1, <2>2, FS_Product
  <2>. QED  BY <1>1, <2>1, <2>2, <2>3
<1>6. FreeTaken' = FreeTaken
  BY DEF GrantCredits, FreeTaken
<1>7. Cardinality({}) = 0 /\ Cardinality(CreditsLeft) \in Nat
  BY FS_EmptySet, FS_CardinalityType DEF QuotaInv
<1>. HIDE DEF new
<1>8. /\ IsFiniteSet(CreditsLeft \cup new)
      /\ Cardinality(CreditsLeft \cup new) = Cardinality(CreditsLeft) + Cardinality(new) - Cardinality({})
  BY <1>4, <1>5, FS_Union DEF QuotaInv
<1>. QED
  BY <1>1, <1>3, <1>5, <1>6, <1>7, <1>8

-----------------------------------------------------------------------------
\* At the start there is nothing, and no request is open.
LEMMA QuotaStart == ASSUME Init PROVE QuotaInv /\ Quota!QuotaInit
<1>1. CreditsLeft = {}
  BY Units, CreditUnits DEF Init
<1>2. FreeTaken = {}
  BY Units, FreeUnits DEF Init
<1>3. QuotaInv
  BY <1>1, <1>2, TypeInit, FS_EmptySet DEF Init, QuotaInv
<1>4. outcome \in [Requests -> Quota!Unmetered \cup {"free", "credit"}]
  BY DEF Init, Quota!Unmetered
<1>. QED
  BY <1>1, <1>2, <1>3, <1>4, FS_EmptySet DEF Quota!QuotaInit

\* A statement before the commit moves no balance and gives no answer.
LEMMA QuotaSilent ==
  ASSUME QuotaInv, NEW q \in Requests,
         \/ CheckPro(q) \/ SelectPasses(q) \/ ConsumePass(q) \/ TakeCredit(q)
         \/ CheckLogin(q) \/ ReadCount(q) \/ Upsert(q)
  PROVE  QuotaInv' /\ UNCHANGED Quota!quotaVars
<1>1. UNCHANGED <<rows, outcome>>
  BY DEF CheckPro, SelectPasses, ConsumePass, TakeCredit, CheckLogin, ReadCount, Upsert
<1>2. pc[q] # "idle"
  BY DEF CheckPro, SelectPasses, ConsumePass, TakeCredit, CheckLogin, ReadCount, Upsert
<1>3. \/ pc' = pc
      \/ \E label \in {"passes", "consume", "login", "count", "upsert", "commit"} :
           pc' = [pc EXCEPT ![q] = label]
  BY DEF CheckPro, SelectPasses, ConsumePass, TakeCredit, CheckLogin, ReadCount, Upsert, Decide, Goto
<1>4. \A o \in Requests : pc'[o] # "idle" <=> pc[o] # "idle"
  BY <1>2, <1>3 DEF QuotaInv, TypeInv, TypeOK
<1>5. CreditsLeft' = CreditsLeft /\ FreeTaken' = FreeTaken
  BY <1>1 DEF rows, CreditsLeft, FreeTaken
<1>6. TypeInv'
  BY RequestType DEF QuotaInv
<1>7. QuotaInv'
  BY <1>1, <1>4, <1>5, <1>6 DEF QuotaInv
<1>. QED
  BY <1>1, <1>5, <1>7 DEF Quota!quotaVars

\* The end of a request gives its answer.
LEMMA Answers ==
  ASSUME QuotaInv, NEW q \in Requests, NEW r \in Results \ {"open"}, pc[q] # "idle", End(q, r)
  PROVE  /\ Quota!Answer(q, r)
         /\ \A o \in Requests : outcome'[o] = "open" <=> pc'[o] # "idle"
<1>1. outcome[q] = "open" /\ outcome \in [Requests -> Results] /\ pc \in [Requests -> Labels]
  BY DEF QuotaInv, TypeInv, TypeOK
<1>2. outcome' = [outcome EXCEPT ![q] = r] /\ pc' = [pc EXCEPT ![q] = "idle"]
  BY DEF End, Goto
<1>. QED
  BY <1>1, <1>2 DEF Quota!Answer, QuotaInv

LEMMA QuotaCommit ==
  ASSUME QuotaInv, NEW q \in Requests, Commit(q)
  PROVE  QuotaInv' /\ Quota!QuotaNext
<1>. DEFINE w == wrote[q]
<1>1. w \in Writes /\ TypeInv'
  BY CommitType DEF QuotaInv, TypeInv, TypeOK
<1>2. pc[q] # "idle" /\ End(q, w.kind)
  BY DEF Commit
<1>3. CASE w.kind = "credit"
  <2>1. w.row \in bought /\ remaining[w.row] > 0 /\ CommitCredit(w.row)
    BY <1>3 DEF Commit, QuotaInv, TypeInv, Shape, CreditThere
  <2>2. /\ Quota!Answer(q, "credit")
        /\ \A o \in Requests : outcome'[o] = "open" <=> pc'[o] # "idle"
    BY <1>2, <1>3, Answers DEF Results
  <2>3. /\ IsFiniteSet(CreditsLeft') /\ Cardinality(CreditsLeft) > 0
        /\ Cardinality(CreditsLeft') = Cardinality(CreditsLeft) - 1
        /\ FreeTaken' = FreeTaken
    BY <2>1, CreditSpent
  <2>4. Quota!AnswerCredit(q)
    BY <2>2, <2>3 DEF Quota!AnswerCredit
  <2>. QED
    BY <1>1, <2>2, <2>3, <2>4 DEF QuotaInv, Quota!QuotaNext
<1>4. CASE w.kind = "free"
  <2>1. w.row \in Tools /\ w.day \in Days /\ CommitFree(w.row, w.day)
    BY <1>1, <1>4, WriteRows DEF Commit
  <2>2. /\ Quota!Answer(q, "free")
        /\ \A o \in Requests : outcome'[o] = "open" <=> pc'[o] # "idle"
    BY <1>2, <1>4, Answers DEF Results
  <2>3. /\ IsFiniteSet(FreeTaken')
        /\ Cardinality(FreeTaken') = Cardinality(FreeTaken) + 1
        /\ CreditsLeft' = CreditsLeft
    BY <2>1, FreeUseCounted
  <2>4. Quota!AnswerFree(q)
    BY <2>2, <2>3 DEF Quota!AnswerFree
  <2>. QED
    BY <1>1, <2>2, <2>3, <2>4 DEF QuotaInv, Quota!QuotaNext
<1>5. CASE w.kind \in {"pass", "always", "pro", "blocked"}
  <2>1. CreditsLeft' = CreditsLeft /\ FreeTaken' = FreeTaken
    BY <1>5 DEF Commit, CommitPass, rows, CreditsLeft, FreeTaken
  <2>2. /\ Quota!Answer(q, w.kind)
        /\ \A o \in Requests : outcome'[o] = "open" <=> pc'[o] # "idle"
    BY <1>2, <1>5, Answers DEF Results
  <2>3. Quota!AnswerUnmetered(q)
    BY <1>5, <2>1, <2>2 DEF Quota!AnswerUnmetered, Quota!Unmetered
  <2>. QED
    BY <1>1, <2>1, <2>2, <2>3 DEF QuotaInv, Quota!QuotaNext
<1>. QED
  BY <1>3, <1>4, <1>5 DEF Commit

\* A start opens a slot, a failure answers it, and what other requests do adds
\* credits at most.
LEMMA QuotaOthers ==
  ASSUME QuotaInv, NEW q \in Requests,
         (\E t \in Tools : Start(q, t)) \/ Fail(q)
  PROVE  QuotaInv' /\ Quota!QuotaNext
<1>1. CreditsLeft' = CreditsLeft /\ FreeTaken' = FreeTaken
  BY DEF Start, Fail, rows, CreditsLeft, FreeTaken
<1>2. TypeInv'
  BY TypeStep DEF QuotaInv, Next
<1>3. CASE \E t \in Tools : Start(q, t)
  <2>1. /\ outcome' = [outcome EXCEPT ![q] = "open"] /\ pc[q] = "idle"
        /\ \E label \in {"commit", "tier"} : pc' = [pc EXCEPT ![q] = label]
    BY <1>3 DEF Start, Decide, Goto
  <2>2. /\ outcome[q] # "open"
        /\ \A o \in Requests : outcome'[o] = "open" <=> pc'[o] # "idle"
    BY <2>1 DEF QuotaInv, TypeInv, TypeOK
  <2>3. Quota!Ask(q)
    BY <1>1, <2>1, <2>2 DEF Quota!Ask
  <2>. QED
    BY <1>1, <1>2, <2>2, <2>3 DEF QuotaInv, Quota!QuotaNext
<1>4. CASE Fail(q)
  <2>1. /\ Quota!Answer(q, "failed")
        /\ \A o \in Requests : outcome'[o] = "open" <=> pc'[o] # "idle"
    BY <1>4, Answers DEF Fail, Results
  <2>2. Quota!AnswerUnmetered(q)
    BY <1>1, <2>1 DEF Quota!AnswerUnmetered, Quota!Unmetered
  <2>. QED
    BY <1>1, <1>2, <2>1, <2>2 DEF QuotaInv, Quota!QuotaNext
<1>. QED
  BY <1>3, <1>4

LEMMA QuotaStep == ASSUME QuotaInv, [Next]_vars PROVE QuotaInv' /\ [Quota!QuotaNext]_Quota!quotaVars
<1>1. TypeInv'
  BY TypeStep DEF QuotaInv
<1>2. ASSUME NEW k \in Packs, GrantCredits(k) PROVE QuotaInv' /\ Quota!QuotaNext
  <2>1. UNCHANGED <<pc, outcome>>
    BY <1>2 DEF GrantCredits
  <2>2. /\ IsFiniteSet(CreditsLeft') /\ FreeTaken' = FreeTaken
        /\ Cardinality(CreditsLeft') = Cardinality(CreditsLeft) + Credits[k]
    BY <1>2, CreditsBought
  <2>3. Quota!AddCredits
    BY <2>1, <2>2 DEF Quota!AddCredits
  <2>. QED
    BY <1>1, <2>1, <2>2, <2>3 DEF QuotaInv, Quota!QuotaNext
<1>3. ASSUME UNCHANGED <<pc, outcome, bought, remaining, counted>>
      PROVE  QuotaInv' /\ UNCHANGED Quota!quotaVars
  BY <1>1, <1>3 DEF QuotaInv, CreditsLeft, FreeTaken, Quota!quotaVars
<1>4. ASSUME \/ \E p \in Passes : GrantPass(p)
             \/ RecordDailyLogin \/ Tick \/ UNCHANGED vars
      PROVE  UNCHANGED <<pc, outcome, bought, remaining, counted>>
  BY <1>4 DEF GrantPass, RecordDailyLogin, Tick, vars, rows
<1>. QED
  BY <1>2, <1>3, <1>4, QuotaSilent, QuotaCommit, QuotaOthers DEF Next, Step

(* Each call spends what its answer says and nothing else, whatever runs at  *)
(* the same time, fails or is bought: the gate implements the quota that     *)
(* counts credits and free uses.  (check_tool_access and its transaction)    *)
THEOREM GateKeepsQuota == Spec => ImplementsQuota
<1>1. Init => QuotaInv /\ Quota!QuotaInit
  BY QuotaStart
<1>2. QuotaInv /\ [Next]_vars => QuotaInv' /\ [Quota!QuotaNext]_Quota!quotaVars
  BY QuotaStep
<1>. QED
  BY <1>1, <1>2, PTL DEF Spec, ImplementsQuota, Quota!QuotaSpec
=============================================================================
