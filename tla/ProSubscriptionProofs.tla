----------------------- MODULE ProSubscriptionProofs -----------------------
(***************************************************************************)
(* Proofs about ProSubscription for every number of orders, rows, cancel   *)
(* requests and webhook events, halts included, and for every period and   *)
(* window.  PlanInv is inductive; everything else follows from it.         *)
(***************************************************************************)
EXTENDS ProSubscription, FiniteSetTheorems, TLAPS

\* A bounded set of naturals with 0 has a largest element: the shortest of the
\* intervals that contain the set ends with it.
LEMMA LargestExists ==
  ASSUME NEW S \in SUBSET Nat, 0 \in S, NEW b \in Nat, \A v \in S : v <= b
  PROVE  \E u \in S : \A v \in S : v <= u
<1>. DEFINE Bounds == {n \in Nat : \A v \in S : v <= n}
            T == {0..n : n \in Bounds}
<1>1. T \subseteq FiniteSubsetsOf(Nat) /\ T # {}
  <2>1. \A n \in Nat : IsFiniteSet(0..n) /\ 0..n \subseteq Nat
    BY FS_Interval
  <2>. QED  BY <2>1 DEF FiniteSubsetsOf
<1>2. PICK x \in T : \A y \in T : ~(<<y, x>> \in StrictSubsetOrdering(Nat))
  <2>. HIDE DEF T
  <2>1. IsWellFoundedOn(StrictSubsetOrdering(Nat), FiniteSubsetsOf(Nat))
    BY FS_StrictSubsetOrderingWellFounded
  <2>. QED  BY <1>1, <2>1, WFMin
<1>3. PICK m \in Bounds : x = 0..m
  OBVIOUS
<1>4. m \in S
  <2>1. SUFFICES ASSUME m \notin S PROVE FALSE
    OBVIOUS
  <2>2. m # 0 /\ m - 1 \in Bounds
    BY <2>1
  <2>3. 0..(m - 1) \in T /\ 0..(m - 1) \subseteq 0..m /\ m \in 0..m /\ m \notin 0..(m - 1)
    BY <2>2
  <2>. QED  BY <1>1, <1>2, <1>3, <2>3 DEF StrictSubsetOrdering, FiniteSubsetsOf
<1>. QED  BY <1>4

\* The end of the access is a day on which a live row ends, and none ends later.
LEMMA EndProperties ==
  ASSUME expires \in [Rows -> Nat], NEW b \in Nat, \A r \in Rows : expires[r] <= b
  PROVE  /\ AccessEnd \in Ends
         /\ AccessEnd \in Nat
         /\ \A v \in Ends : v <= AccessEnd
         /\ \A r \in Live : expires[r] <= AccessEnd
<1>1. Ends \in SUBSET Nat /\ 0 \in Ends /\ \A v \in Ends : v <= b
  BY DEF Ends, Live
<1>2. \E u \in Ends : \A v \in Ends : v <= u
  BY <1>1, LargestExists
<1>3. AccessEnd \in Ends /\ \A v \in Ends : v <= AccessEnd
  BY <1>2 DEF AccessEnd
<1>. QED  BY <1>1, <1>3 DEF Ends

\* The same of the state after a step.
LEMMA NextEndProperties ==
  ASSUME expires' \in [Rows -> Nat], NEW b \in Nat, \A r \in Rows : expires'[r] <= b
  PROVE  /\ AccessEnd' \in Ends'
         /\ AccessEnd' \in Nat
         /\ \A v \in Ends' : v <= AccessEnd'
         /\ \A r \in Live' : expires'[r] <= AccessEnd'
<1>1. Ends' \in SUBSET Nat /\ 0 \in Ends' /\ \A v \in Ends' : v <= b
  BY DEF Ends, Live
<1>2. \E u \in Ends' : \A v \in Ends' : v <= u
  <2>. DEFINE E == Ends'
  <2>1. E \in SUBSET Nat /\ 0 \in E /\ \A v \in E : v <= b
    BY <1>1
  <2>. HIDE DEF E
  <2>2. \E u \in E : \A v \in E : v <= u
    BY <2>1, LargestExists
  <2>. QED  BY <2>2 DEF E
<1>3. AccessEnd' \in Ends' /\ \A v \in Ends' : v <= AccessEnd'
  BY <1>2 DEF AccessEnd
<1>. QED  BY <1>1, <1>3 DEF Ends

\* The rows end some day.
Bounded == \E b \in Nat : \A r \in Rows : expires[r] <= b

\* What Bounded says of the end of the access.
LEMMA EndIsKnown ==
  ASSUME TypeOK, Bounded
  PROVE  /\ AccessEnd \in Ends
         /\ AccessEnd \in Nat
         /\ \A v \in Ends : v <= AccessEnd
         /\ \A r \in Live : expires[r] <= AccessEnd
<1>1. PICK b \in Nat : \A r \in Rows : expires[r] <= b
  BY DEF Bounded
<1>. QED  BY <1>1, EndProperties DEF TypeOK

\* Statements that move no row's period and no row's status.
LEMMA SamePlan ==
  ASSUME UNCHANGED plan
  PROVE  /\ UNCHANGED <<status, expires, revived>>
         /\ Live' = Live
         /\ Ends' = Ends
         /\ AccessEnd' = AccessEnd
         /\ Halted' = Halted
         /\ EndIsLatest' <=> EndIsLatest
         /\ Bounded' <=> Bounded
<1>1. UNCHANGED <<status, expires, revived>>
  BY DEF plan
<1>2. Live' = Live
  BY <1>1 DEF Live
<1>3. Ends' = Ends
  BY <1>1, <1>2 DEF Ends
<1>4. AccessEnd' = AccessEnd
  BY <1>3 DEF AccessEnd
<1>5. Halted' = Halted
  BY <1>1 DEF Halted
<1>. QED  BY <1>1, <1>2, <1>3, <1>4, <1>5 DEF EndIsLatest, Bounded

-----------------------------------------------------------------------------
(* Type correctness. *)

PayingIsSet == step # "free" => paying \in Payments

TypeInv == TypeOK /\ PayingIsSet

\* Initially every variable has its type.
LEMMA TypeInit == ASSUME Init PROVE TypeInv
BY PeriodAssumption DEF Init, TypeInv, TypeOK, PayingIsSet, Closed

\* Every step keeps the types.
LEMMA TypeStep == ASSUME TypeInv, [Next]_vars PROVE TypeInv'
<1>. USE PeriodAssumption DEF TypeInv, TypeOK, PayingIsSet
<1>1. CASE Tick
  BY <1>1 DEF Tick, plan, fulfilment, others
<1>2. ASSUME NEW p \in Payments, Checkout(p) PROVE TypeInv'
  BY <1>2 DEF Checkout, plan, fulfilment, others
<1>3. ASSUME NEW p \in Payments, Pay(p) PROVE TypeInv'
  BY <1>3 DEF Pay, plan, fulfilment, others
<1>4. ASSUME NEW p \in Payments, LockUser(p) PROVE TypeInv'
  BY <1>4 DEF LockUser, plan, others
<1>5. CASE SelectRow
  BY <1>5 DEF SelectRow, plan, others, Latest, InPeriod, Live
<1>6. CASE Extend
  BY <1>6 DEF Extend, Grant, Refuse, EndFulfilment, others, plan, Later
<1>7. CASE Insert
  BY <1>7 DEF Insert, Grant, Refuse, EndFulfilment, others, plan
<1>8. CASE Abort
  BY <1>8 DEF Abort, EndFulfilment, others, plan
<1>9. ASSUME NEW c \in Cancels, CancelRead(c) PROVE TypeInv'
  BY <1>9 DEF CancelRead, plan, fulfilment, Latest, InPeriod, Live
<1>10. ASSUME NEW c \in Cancels, CancelWrite(c) PROVE TypeInv'
  BY <1>10 DEF CancelWrite, Overwrite, fulfilment
<1>11. ASSUME NEW h \in Hooks, HookWrite(h) PROVE TypeInv'
  <2>1. hook[h].row \in Rows /\ hook[h].to \in {"cancelled", "halted"}
    BY <1>11 DEF HookWrite
  <2>. QED  BY <1>11, <2>1 DEF HookWrite, Overwrite, fulfilment, Closed
<1>12. ASSUME NEW h \in Hooks, NEW to \in HookEdits, HookRead(h, to) PROVE TypeInv'
  BY <1>12 DEF HookRead, plan, fulfilment, Closed
<1>13. CASE UNCHANGED vars
  BY <1>13 DEF vars, plan, fulfilment, others
<1>. QED
  BY <1>1, <1>2, <1>3, <1>4, <1>5, <1>6, <1>7, <1>8, <1>9, <1>10, <1>11, <1>12, <1>13
  DEF Next

\* Every reachable state is well typed (halts included).
THEOREM PlanTypeCorrect == Spec => []TypeOK
<1>1. Init => TypeInv
  BY TypeInit
<1>2. TypeInv /\ [Next]_vars => TypeInv'
  BY TypeStep
<1>3. TypeInv => TypeOK
  BY DEF TypeInv
<1>. QED  BY <1>1, <1>2, <1>3, PTL DEF Spec

-----------------------------------------------------------------------------
(* The inductive invariant: PlanInv, and that the rows end some day (so the *)
(* end of the access is well defined, however many rows there are).  One    *)
(* lemma per step that writes rows or moves the fulfilment; the others      *)
(* leave the plan alone.                                                    *)

PlanIInv == PlanInv /\ Bounded

\* The inductive invariant of the plan holds initially.
LEMMA PlanInit == ASSUME Init PROVE PlanIInv
<1>1. TypeOK
  BY TypeInit DEF TypeInv
<1>2. EndIsLatest /\ Bounded
  BY DEF Init, EndIsLatest, Bounded
<1>. QED
  BY <1>1, <1>2, PeriodAssumption DEF Init, PlanIInv, PlanInv, OneWriter, SelectedIsLatest,
     ActiveIsLatest, OneInPeriod, InPeriod, Live, FlippedIsOver, CancelKeepsAccess,
     Ends, AccessEnd, Closed

\* Steps that move neither the plan nor the fulfilment.
LEMMA QuietStep ==
  ASSUME PlanIInv, TypeOK', UNCHANGED <<plan, settled, fulfilment>>, now' >= now,
         step # "free" => hook' = hook,
         \A c \in Cancels : cancelling'[c] # Nothing =>
           cancelling'[c] = cancelling[c] \/ cancelling'[c] \in Live,
         Halted = {} => \A c \in Cancels : accessUntil'[c] <= AccessEnd,
         \A h \in Hooks : hook'[h] # Closed => hook'[h] = hook[h] \/ hook'[h].row \in Live
  PROVE  PlanIInv'
<1>. USE DEF PlanIInv, PlanInv
<1>1. /\ settled' = settled /\ step' = step /\ paying' = paying /\ at' = at
      /\ target' = target
  BY DEF fulfilment
<1>2. /\ status' = status /\ expires' = expires /\ revived' = revived
      /\ Live' = Live /\ AccessEnd' = AccessEnd /\ Halted' = Halted /\ EndIsLatest' /\ Bounded'
  BY SamePlan
<1>3. OneWriter'
  BY <1>1 DEF OneWriter
<1>4. SelectedIsLatest'
  BY <1>1, <1>2 DEF SelectedIsLatest
<1>5. ActiveIsLatest'
  BY <1>2 DEF ActiveIsLatest
<1>6. OneInPeriod'
  <2>1. \A r \in InPeriod' : r \in InPeriod
    BY <1>2 DEF InPeriod, TypeOK, Live
  <2>. QED  BY <1>2, <2>1 DEF OneInPeriod
<1>7. FlippedIsOver'
  <2>1. \A r \in Rows : status[r] = "expired" => expires[r] <= now'
    BY DEF FlippedIsOver, TypeOK
  <2>2. \A r \in Live : status[r] \in {"active", "cancelled"}
    BY DEF Live
  <2>3. \A c \in Cancels : cancelling'[c] # Nothing => status'[cancelling'[c]] # "none"
    BY <1>2, <2>2 DEF FlippedIsOver
  <2>4. \A h \in Hooks : hook'[h] # Closed =>
          status'[hook'[h].row] \in {"active", "cancelled", "halted"}
    BY <1>2, <2>2 DEF FlippedIsOver
  <2>5. \A r \in Rows : status'[r] = "expired" /\ step' = "selected" => expires'[r] <= at'
    BY <1>1, <1>2 DEF FlippedIsOver
  <2>. QED  BY <1>2, <2>1, <2>3, <2>4, <2>5 DEF FlippedIsOver, Closed
<1>8. CancelKeepsAccess'
  BY <1>2 DEF CancelKeepsAccess
<1>. QED  BY <1>2, <1>3, <1>4, <1>5, <1>6, <1>7, <1>8

\* Taking the lock of the user row keeps the invariant.
LEMMA LockUserStep ==
  ASSUME PlanIInv, TypeOK', NEW p \in Payments, LockUser(p)
  PROVE  PlanIInv'
<1>. USE DEF PlanIInv, PlanInv
<1>1. /\ settled' = settled /\ step = "free" /\ step' = "locked" /\ paying' = p
      /\ p \notin settled /\ now' = now /\ at' = at /\ target' = target /\ hook' = hook
      /\ cancelling' = cancelling /\ accessUntil' = accessUntil
      /\ \A h \in Hooks : hook[h] = Closed
  BY DEF LockUser, others
<1>2. /\ status' = status /\ expires' = expires /\ revived' = revived
      /\ Live' = Live /\ AccessEnd' = AccessEnd /\ Halted' = Halted /\ EndIsLatest' /\ Bounded'
  BY SamePlan DEF LockUser
<1>. QED
  BY <1>1, <1>2 DEF OneWriter, SelectedIsLatest, ActiveIsLatest, OneInPeriod, InPeriod,
     FlippedIsOver, CancelKeepsAccess, Closed

\* Selecting the row in its period keeps the invariant.
LEMMA SelectRowStep ==
  ASSUME PlanIInv, TypeOK', SelectRow
  PROVE  PlanIInv'
<1>. USE DEF PlanIInv, PlanInv
<1>1. /\ settled' = settled /\ step = "locked" /\ step' = "selected" /\ paying' = paying
      /\ now' = now /\ at' = now /\ hook' = hook
      /\ cancelling' = cancelling /\ accessUntil' = accessUntil
  BY DEF SelectRow, others
<1>2. /\ status' = status /\ expires' = expires /\ revived' = revived
      /\ Live' = Live /\ AccessEnd' = AccessEnd /\ Halted' = Halted /\ EndIsLatest' /\ Bounded'
  BY SamePlan DEF SelectRow
<1>3. SelectedIsLatest'
  <2>1. CASE InPeriod # {}
    <3>1. target' \in InPeriod /\ \A q \in InPeriod : expires[q] <= expires[target']
      BY <2>1 DEF SelectRow, Latest
    <3>2. target' \in Live /\ expires[target'] > now
      BY <3>1 DEF InPeriod
    <3>3. ASSUME NEW r \in Live PROVE expires[r] <= expires[target']
      BY <3>1, <3>2 DEF InPeriod, TypeOK, Live
    <3>4. target' # Nothing
      BY <3>2, PeriodAssumption DEF Live
    <3>. QED  BY <1>1, <1>2, <3>2, <3>3, <3>4 DEF SelectedIsLatest
  <2>2. CASE InPeriod = {}
    <3>1. \A r \in Live : expires[r] <= now
      BY <2>2 DEF InPeriod, TypeOK, Live
    <3>2. target' = Nothing
      BY <2>2 DEF SelectRow
    <3>. QED  BY <1>1, <1>2, <3>1, <3>2 DEF SelectedIsLatest
  <2>. QED  BY <2>1, <2>2
<1>. QED
  BY <1>1, <1>2, <1>3 DEF OneWriter, ActiveIsLatest, OneInPeriod, InPeriod,
     FlippedIsOver, CancelKeepsAccess, Closed

\* A fulfilment that is rolled back, or refused, keeps the invariant.
LEMMA RollbackStep ==
  ASSUME PlanIInv, TypeOK', EndFulfilment, UNCHANGED <<plan, settled>>
  PROVE  PlanIInv'
<1>. USE DEF PlanIInv, PlanInv
<1>1. /\ settled' = settled /\ step' = "free" /\ target' = Nothing /\ now' = now
      /\ hook' = hook /\ cancelling' = cancelling /\ accessUntil' = accessUntil
  BY DEF EndFulfilment, others
<1>2. /\ status' = status /\ expires' = expires /\ revived' = revived
      /\ Live' = Live /\ AccessEnd' = AccessEnd /\ Halted' = Halted /\ EndIsLatest' /\ Bounded'
  BY SamePlan
<1>. QED
  BY <1>1, <1>2 DEF OneWriter, SelectedIsLatest, ActiveIsLatest, OneInPeriod, InPeriod,
     FlippedIsOver, CancelKeepsAccess, Closed

\* An extension is refused only for a row that was brought back: the active
\* row that stands in its way would end later than any other row.
LEMMA ExtendRefused ==
  ASSUME PlanIInv, Extend, NEW r \in Rows \ {target}, status[r] = "active"
  PROVE  target \in revived
<1>. USE DEF PlanIInv, PlanInv
<1>1. /\ target \in Live /\ \A q \in Live : q \notin revived \/ status[q] = "active"
                                           => expires[q] <= expires[target]
  BY DEF Extend, SelectedIsLatest
<1>2. r \in Live /\ expires[r] <= expires[target]
  BY <1>1 DEF Live
<1>3. target \notin revived => expires[target] < expires[r]
  BY <1>1 DEF ActiveIsLatest, Live
<1>. QED  BY <1>2, <1>3, <1>1 DEF Live, TypeOK

\* What a granted purchase does to the end of the access.
Gain ==
  /\ paying \in Payments \ settled
  /\ settled' = settled \cup {paying}
  /\ now' = now /\ dropped' = dropped /\ Halted' = Halted
  /\ AccessEnd \in Nat /\ AccessEnd' \in Nat
  /\ Halted = {} => AccessEnd' = Later(at, AccessEnd) + Duration
  /\ AccessEnd' >= Later(at + Duration, AccessEnd)

\* An extension ends one period after the later of now and the current end.
LEMMA ExtendStep ==
  ASSUME PlanIInv, TypeOK', Extend, \A r \in Rows \ {target} : status[r] # "active"
  PROVE  PlanIInv' /\ Gain
<1>. USE PeriodAssumption DEF PlanIInv, PlanInv
<1>. DEFINE e == expires[target] + Duration
<1>1. /\ step = "selected" /\ target \in Live /\ expires[target] > at
      /\ \A r \in Live : r \notin revived \/ status[r] = "active"
                        => expires[r] <= expires[target]
      /\ paying \in Payments \ settled
      /\ \A h \in Hooks : hook[h] = Closed
  BY DEF Extend, OneWriter, SelectedIsLatest
<1>2. /\ target \in Rows /\ e \in Nat /\ e > expires[target] /\ expires[target] \in Nat
      /\ at \in Nat /\ now \in Nat /\ e >= at + Duration
  BY <1>1 DEF TypeOK, Live
<1>3. Later(at, expires[target]) = expires[target]
  BY <1>1, <1>2 DEF Later, TypeOK
<1>4. /\ status' = [status EXCEPT ![target] = "active"]
      /\ expires' = [expires EXCEPT ![target] = e]
      /\ step' = "free" /\ target' = Nothing /\ dropped' = dropped /\ revived' = revived
      /\ settled' = settled \cup {paying} /\ now' = now
      /\ hook' = hook /\ cancelling' = cancelling /\ accessUntil' = accessUntil
  BY <1>2, <1>3 DEF Extend, Grant, EndFulfilment, others
<1>5. /\ \A r \in Rows : r # target => status'[r] = status[r] /\ expires'[r] = expires[r]
      /\ status'[target] = "active" /\ expires'[target] = e
  BY <1>2, <1>4 DEF TypeOK
<1>6. Live' = Live /\ Halted' = Halted
  BY <1>1, <1>4, <1>5 DEF Live, Halted
<1>7. /\ AccessEnd \in Ends /\ AccessEnd \in Nat
      /\ \A r \in Live : expires[r] <= AccessEnd
  BY EndIsKnown
<1>8. PICK u \in Nat : \A r \in Rows : expires[r] <= u
  BY DEF Bounded
<1>9. PICK w \in {e, u} : w \in Nat /\ e <= w /\ u <= w
  BY <1>2, <1>8
<1>10. \A r \in Rows : expires'[r] <= w
  BY <1>2, <1>5, <1>8, <1>9 DEF TypeOK
<1>12. /\ AccessEnd' \in Ends' /\ AccessEnd' \in Nat
       /\ \A v \in Ends' : v <= AccessEnd'
       /\ \A r \in Live' : expires'[r] <= AccessEnd'
  BY <1>9, <1>10, NextEndProperties DEF TypeOK
<1>13. e <= AccessEnd' /\ AccessEnd <= AccessEnd'
  <2>1. e <= AccessEnd'
    BY <1>1, <1>5, <1>6, <1>12
  <2>2. \A r \in Live : expires[r] <= AccessEnd'
    BY <1>2, <1>5, <1>6, <1>12, <2>1 DEF Live, TypeOK
  <2>. QED  BY <1>7, <1>12, <2>1, <2>2 DEF Ends
<1>14. ASSUME Halted = {}
       PROVE  AccessEnd = expires[target] /\ AccessEnd' = e
  <2>1. \A r \in Live : expires[r] <= expires[target]
    BY <1>1, <1>14 DEF Halted
  <2>2. AccessEnd <= expires[target]
    BY <1>2, <1>7, <2>1 DEF Ends
  <2>3. \A r \in Live' : expires'[r] <= e
    BY <1>2, <1>5, <1>6, <2>1 DEF Live, TypeOK
  <2>4. AccessEnd' <= e
    BY <1>2, <1>12, <2>3 DEF Ends
  <2>. QED  BY <1>1, <1>2, <1>7, <1>12, <1>13, <2>2, <2>4
<1>15. EndIsLatest'
  <2>1. ASSUME Halted = {}, NEW r \in Rows, status'[r] # "none"
        PROVE  expires'[r] <= AccessEnd'
    <3>1. CASE r = target
      BY <1>5, <1>13, <3>1
    <3>2. CASE r # target
      BY <1>5, <1>7, <1>12, <1>13, <2>1, <3>2 DEF EndIsLatest, TypeOK
    <3>. QED  BY <3>1, <3>2
  <2>. QED  BY <1>6, <2>1 DEF EndIsLatest
<1>16. ActiveIsLatest'
  <2>1. ASSUME NEW q \in Rows \ revived, q # target,
               status[q] \in {"active", "cancelled", "expired"}
        PROVE  expires[q] < e
    <3>1. CASE status[q] = "expired"
      BY <1>1, <1>2, <3>1 DEF FlippedIsOver, TypeOK
    <3>2. CASE status[q] # "expired"
      BY <1>1, <1>2, <2>1, <3>2 DEF Live, TypeOK
    <3>. QED  BY <3>1, <3>2
  <2>2. \A r \in Rows : status'[r] = "active" => r = target
    BY <1>5
  <2>. QED  BY <1>4, <1>5, <2>1, <2>2 DEF ActiveIsLatest
<1>17. OneInPeriod'
  <2>1. ASSUME NEW r \in InPeriod' \ revived, r # target PROVE r \in InPeriod
    BY <1>4, <1>5, <1>6, <2>1 DEF InPeriod
  <2>2. ASSUME NEW r \in InPeriod \ revived, target \notin revived PROVE r = target
    <3>1. expires[target] > now
      BY <1>1, <1>2, <2>2 DEF InPeriod, Live, TypeOK
    <3>. QED  BY <1>1, <2>2, <3>1 DEF InPeriod, OneInPeriod
  <2>. QED  BY <1>4, <2>1, <2>2 DEF OneInPeriod
<1>18. FlippedIsOver'
  <2>1. status[target] # "expired"
    BY <1>1 DEF Live
  <2>2. \A r \in Rows : status'[r] = "expired" =>
          status[r] = "expired" /\ expires'[r] = expires[r]
    BY <1>5
  <2>3. \A c \in Cancels : cancelling[c] # Nothing => status'[cancelling[c]] # "none"
    BY <1>5 DEF FlippedIsOver, TypeOK
  <2>. QED  BY <1>1, <1>4, <2>2, <2>3 DEF FlippedIsOver, Closed
<1>19. CancelKeepsAccess'
  BY <1>4, <1>6, <1>7, <1>12, <1>13 DEF CancelKeepsAccess, TypeOK
<1>20. OneWriter' /\ SelectedIsLatest'
  BY <1>4 DEF OneWriter, SelectedIsLatest
<1>21. Gain
  <2>1. Halted = {} => AccessEnd' = Later(at, AccessEnd) + Duration
    BY <1>3, <1>14
  <2>2. AccessEnd' >= Later(at + Duration, AccessEnd)
    BY <1>2, <1>7, <1>12, <1>13 DEF Later
  <2>. QED  BY <1>1, <1>4, <1>6, <1>7, <1>12, <2>1, <2>2 DEF Gain
<1>22. Bounded'
  BY <1>9, <1>10 DEF Bounded
<1>. QED
  BY <1>15, <1>16, <1>17, <1>18, <1>19, <1>20, <1>21, <1>22

\* The insert is never refused: a row that is still active at its flush was
\* active when none was found in its period, and has been flipped.
LEMMA InsertNotRefused ==
  ASSUME PlanIInv, Insert
  PROVE  \A r \in Rows \ Stale : status[r] # "active"
BY DEF PlanIInv, PlanInv, Insert, SelectedIsLatest, Stale, Live

\* A fresh row ends one period after now, and all that was bought before is
\* over, but for a row brought back in the meantime.
LEMMA InsertStep ==
  ASSUME PlanIInv, TypeOK', Insert
  PROVE  PlanIInv' /\ Gain
<1>. USE PeriodAssumption DEF PlanIInv, PlanInv
<1>. DEFINE e == at + Duration
<1>1. /\ step = "selected"
      /\ \A r \in Live : r \notin revived \/ status[r] = "active" => expires[r] <= at
      /\ paying \in Payments \ settled
      /\ \A h \in Hooks : hook[h] = Closed
  BY DEF Insert, OneWriter, SelectedIsLatest
<1>2. at \in Nat /\ now \in Nat /\ e \in Nat /\ e > at /\ at <= now
  BY DEF TypeOK
<1>3. \A r \in Rows \ Stale : status[r] # "active"
  BY InsertNotRefused
<1>4. PICK fresh \in Rows :
        /\ status[fresh] = "none"
        /\ status' = [r \in Rows |-> IF r = fresh THEN "active"
                                     ELSE IF r \in Stale THEN "expired" ELSE status[r]]
        /\ expires' = [expires EXCEPT ![fresh] = e]
        /\ settled' = settled \cup {paying}
        /\ dropped' = dropped /\ revived' = revived
  BY <1>3 DEF Insert, Grant
<1>5. /\ step' = "free" /\ target' = Nothing /\ now' = now
      /\ hook' = hook /\ cancelling' = cancelling /\ accessUntil' = accessUntil
  BY DEF Insert, EndFulfilment, others
<1>6. status'[fresh] = "active" /\ expires'[fresh] = e
  BY <1>4 DEF TypeOK
<1>7. \A r \in Rows : r # fresh =>
        /\ expires'[r] = expires[r]
        /\ status'[r] = IF status[r] = "active" THEN "expired" ELSE status[r]
  BY <1>3, <1>4 DEF TypeOK, Stale
<1>8. Live' \subseteq (Live \cup {fresh}) /\ fresh \in Live' /\ fresh \notin Live
  BY <1>4, <1>6, <1>7 DEF Live
<1>9. Halted' = Halted
  BY <1>4, <1>6, <1>7 DEF Halted
<1>10. \A r \in Live' \ revived : r # fresh => expires'[r] <= at
  BY <1>1, <1>7, <1>8 DEF Live
<1>11. PICK u \in Nat : \A r \in Rows : expires[r] <= u
  BY DEF Bounded
<1>12. PICK w \in {e, u} : w \in Nat /\ e <= w /\ u <= w
  BY <1>2, <1>11
<1>13. \A r \in Rows : expires'[r] <= w
  BY <1>2, <1>6, <1>7, <1>11, <1>12 DEF TypeOK
<1>14. /\ AccessEnd \in Ends /\ AccessEnd \in Nat
       /\ \A r \in Live : expires[r] <= AccessEnd
  BY EndIsKnown
<1>15. /\ AccessEnd' \in Ends' /\ AccessEnd' \in Nat
       /\ \A v \in Ends' : v <= AccessEnd'
       /\ \A r \in Live' : expires'[r] <= AccessEnd'
  BY <1>12, <1>13, NextEndProperties DEF TypeOK
<1>16. e <= AccessEnd' /\ AccessEnd <= AccessEnd'
  <2>1. e <= AccessEnd'
    BY <1>6, <1>8, <1>15
  <2>2. ASSUME NEW r \in Live PROVE expires[r] <= AccessEnd'
    <3>1. CASE status[r] = "active"
      BY <1>1, <1>2, <1>15, <2>1, <3>1 DEF Live, TypeOK
    <3>2. CASE status[r] = "cancelled"
      <4>1. r \in Live' /\ expires'[r] = expires[r]
        BY <1>4, <1>7, <3>2 DEF Live
      <4>. QED  BY <1>15, <4>1
    <3>. QED  BY <3>1, <3>2 DEF Live
  <2>3. AccessEnd = 0 \/ \E r \in Live : AccessEnd = expires[r]
    BY <1>14 DEF Ends
  <2>. QED  BY <1>15, <2>1, <2>2, <2>3
<1>17. ASSUME Halted = {}
       PROVE  AccessEnd <= at /\ AccessEnd' = e
  <2>1. AccessEnd <= at
    BY <1>1, <1>2, <1>14, <1>17 DEF Ends, Halted
  <2>2. \A r \in Live' : expires'[r] <= e
    BY <1>2, <1>6, <1>10, <1>15, <1>17 DEF Live, Halted, TypeOK
  <2>3. AccessEnd' <= e
    BY <1>2, <1>15, <2>2 DEF Ends
  <2>. QED  BY <1>2, <1>15, <1>16, <2>1, <2>3
<1>18. EndIsLatest'
  <2>1. ASSUME Halted = {}, NEW r \in Rows, status'[r] # "none"
        PROVE  expires'[r] <= AccessEnd'
    <3>1. CASE r = fresh
      BY <1>6, <1>16, <3>1
    <3>2. CASE r # fresh
      <4>1. status[r] # "none"
        BY <1>7, <2>1, <3>2
      <4>. QED  BY <1>7, <1>14, <1>15, <1>16, <2>1, <3>2, <4>1 DEF EndIsLatest, TypeOK
    <3>. QED  BY <3>1, <3>2
  <2>. QED  BY <1>9, <2>1 DEF EndIsLatest
<1>19. ActiveIsLatest'
  <2>1. \A q \in Rows \ revived : status[q] \in {"active", "cancelled", "expired"}
                                   => expires[q] < e
    BY <1>1, <1>2 DEF FlippedIsOver, Live, TypeOK
  <2>2. \A q \in Rows \ revived :
          q # fresh /\ status'[q] \in {"active", "cancelled", "expired"} => expires'[q] < e
    BY <1>7, <2>1
  <2>3. \A r \in Rows : status'[r] = "active" => r = fresh
    BY <1>7
  <2>. QED  BY <1>4, <1>6, <2>2, <2>3 DEF ActiveIsLatest
<1>20. OneInPeriod'
  <2>1. \A r \in Live' \ revived : r # fresh => ~(expires'[r] > now)
    BY <1>2, <1>10 DEF Live, TypeOK
  <2>. QED  BY <1>4, <1>5, <2>1 DEF OneInPeriod, InPeriod
<1>21. FlippedIsOver'
  <2>1. \A r \in Rows : status'[r] = "expired" => expires'[r] <= at
    <3>1. \A r \in Rows : status[r] \in {"active", "expired"} => expires[r] <= at
      BY <1>1 DEF FlippedIsOver, Live
    <3>. QED  BY <1>6, <1>7, <3>1
  <2>2. \A r \in Rows : status'[r] = "expired" => expires'[r] <= now'
    BY <1>2, <1>5, <2>1 DEF TypeOK
  <2>3. \A c \in Cancels : cancelling[c] # Nothing => status'[cancelling[c]] # "none"
    BY <1>4, <1>7 DEF FlippedIsOver, TypeOK
  <2>. QED  BY <1>1, <1>5, <2>2, <2>3 DEF FlippedIsOver, Closed
<1>22. CancelKeepsAccess'
  BY <1>5, <1>9, <1>14, <1>15, <1>16 DEF CancelKeepsAccess, TypeOK
<1>23. OneWriter' /\ SelectedIsLatest'
  BY <1>4, <1>5 DEF OneWriter, SelectedIsLatest
<1>24. Gain
  <2>1. Halted = {} => AccessEnd' = Later(at, AccessEnd) + Duration
    BY <1>2, <1>14, <1>17 DEF Later
  <2>2. AccessEnd' >= Later(at + Duration, AccessEnd)
    BY <1>2, <1>14, <1>15, <1>16 DEF Later
  <2>. QED  BY <1>1, <1>4, <1>5, <1>9, <1>14, <1>15, <2>1, <2>2 DEF Gain
<1>25. Bounded'
  BY <1>12, <1>13 DEF Bounded
<1>. QED
  BY <1>18, <1>19, <1>20, <1>21, <1>22, <1>23, <1>24, <1>25

-----------------------------------------------------------------------------
(* Cancellations and halts: updates of one row by primary key. *)

\* Setting one row to 'cancelled' keeps the invariant, whether the row is active
\* or already cancelled, or was flipped or halted meanwhile.  It leaves the end
\* of the access where it is as long as no row was halted.
LEMMA CancelRow ==
  ASSUME PlanIInv, TypeOK', NEW r0 \in Rows, r0 # target, status[r0] # "none",
         Overwrite(r0, "cancelled"),
         UNCHANGED <<now, expires, settled, fulfilment, accessUntil>>,
         step # "free" => hook' = hook,
         \A c \in Cancels : cancelling'[c] \in {cancelling[c], Nothing},
         \A h \in Hooks : hook'[h] \in {hook[h], Closed}
  PROVE  /\ PlanIInv'
         /\ Halted' = Halted
         /\ AccessEnd' \in Nat
         /\ Halted = {} => AccessEnd' = AccessEnd
<1>. USE PeriodAssumption DEF PlanIInv, PlanInv
<1>1. /\ expires' = expires /\ now' = now /\ step' = step /\ at' = at /\ target' = target
      /\ paying' = paying /\ settled' = settled /\ accessUntil' = accessUntil
  BY DEF fulfilment
<1>2. /\ status'[r0] = "cancelled" /\ \A r \in Rows : r # r0 => status'[r] = status[r]
      /\ revived' = IF status[r0] = "halted" THEN revived \cup {r0} ELSE revived
  BY DEF Overwrite, TypeOK
<1>3. Live' = Live \cup {r0}
  BY <1>2 DEF Live
<1>4. Halted' = Halted
  BY <1>2 DEF Halted
<1>5. Bounded'
  BY <1>1 DEF Bounded
<1>6. /\ AccessEnd' \in Ends' /\ AccessEnd' \in Nat
      /\ \A v \in Ends' : v <= AccessEnd'
      /\ \A r \in Live' : expires'[r] <= AccessEnd'
  <2>1. PICK b \in Nat : \A r \in Rows : expires'[r] <= b
    BY <1>5 DEF Bounded
  <2>. QED  BY <2>1, NextEndProperties DEF TypeOK
<1>7. /\ AccessEnd \in Ends /\ AccessEnd \in Nat
      /\ \A r \in Live : expires[r] <= AccessEnd
  BY EndIsKnown
<1>8. ASSUME Halted = {} PROVE AccessEnd' = AccessEnd
  <2>1. Ends' = Ends \cup {expires[r0]}
    BY <1>1, <1>3 DEF Ends
  <2>2. expires[r0] <= AccessEnd
    BY <1>8 DEF EndIsLatest
  <2>3. AccessEnd <= AccessEnd'
    BY <1>6, <1>7, <2>1
  <2>4. \A v \in Ends' : v <= AccessEnd
    BY <1>7, <2>1, <2>2 DEF Ends
  <2>. QED  BY <1>6, <1>7, <2>3, <2>4
<1>9. EndIsLatest'
  <2>1. \A r \in Rows : status'[r] # "none" => status[r] # "none"
    BY <1>2
  <2>. QED  BY <1>1, <1>4, <1>8, <2>1 DEF EndIsLatest
<1>10. SelectedIsLatest'
  <2>1. ASSUME NEW r \in Live', r \notin revived' \/ status'[r] = "active", step = "selected"
        PROVE  \/ r \in Live /\ (r \notin revived \/ status[r] = "active")
               \/ expires[r] <= at
    <3>1. CASE r = r0
      <4>1. r0 \notin revived' /\ status[r0] # "halted" /\ r0 \notin revived
        BY <1>2, <2>1, <3>1
      <4>2. status[r0] = "expired" => expires[r0] <= at
        BY <2>1 DEF FlippedIsOver
      <4>3. status[r0] \in {"active", "cancelled", "expired"}
        BY <4>1 DEF TypeOK
      <4>. QED  BY <3>1, <4>1, <4>2, <4>3 DEF Live
    <3>2. CASE r # r0
      <4>1. r \in Live /\ status'[r] = status[r]
        BY <1>2, <1>3, <2>1, <3>2 DEF Live
      <4>2. r \in revived => r \in revived'
        BY <1>2
      <4>. QED  BY <2>1, <4>1, <4>2
    <3>. QED  BY <3>1, <3>2
  <2>2. ASSUME step = "selected", target = Nothing,
               NEW r \in Live', r \notin revived' \/ status'[r] = "active"
        PROVE  expires[r] <= at
    BY <2>1, <2>2 DEF SelectedIsLatest
  <2>3. ASSUME step = "selected", target # Nothing
        PROVE  /\ target \in Live' /\ expires[target] > at
               /\ \A r \in Live' : r \notin revived' \/ status'[r] = "active"
                                  => expires[r] <= expires[target]
    <3>1. /\ target \in Live /\ expires[target] > at
          /\ \A r \in Live : r \notin revived \/ status[r] = "active"
                            => expires[r] <= expires[target]
      BY <2>3 DEF SelectedIsLatest
    <3>2. ASSUME NEW r \in Live', r \notin revived' \/ status'[r] = "active"
          PROVE  expires[r] <= expires[target]
      <4>1. CASE expires[r] <= at
        <5>1. r \in Rows /\ target \in Rows
          BY <3>1 DEF Live
        <5>. QED  BY <3>1, <4>1, <5>1 DEF TypeOK
      <4>2. CASE r \in Live /\ (r \notin revived \/ status[r] = "active")
        BY <3>1, <4>2
      <4>. QED  BY <2>1, <2>3, <3>2, <4>1, <4>2
    <3>. QED  BY <1>3, <3>1, <3>2
  <2>. QED  BY <1>1, <2>2, <2>3 DEF SelectedIsLatest
<1>11. ActiveIsLatest'
  <2>1. \A r \in Rows : status'[r] = "active" => status[r] = "active"
    BY <1>2
  <2>2. ASSUME NEW q \in Rows \ revived', status'[q] \in {"active", "cancelled", "expired"}
        PROVE  q \notin revived /\ status[q] \in {"active", "cancelled", "expired"}
    BY <1>2, <2>2 DEF TypeOK
  <2>. QED  BY <1>1, <2>1, <2>2 DEF ActiveIsLatest
<1>12. OneInPeriod'
  <2>1. ASSUME NEW r \in InPeriod' \ revived' PROVE r \in InPeriod \ revived
    <3>1. r \in Live' /\ expires[r] > now /\ r \notin revived
      BY <1>1, <1>2, <2>1 DEF InPeriod
    <3>2. r = r0 => status[r0] \in {"active", "cancelled"}
      BY <1>2, <2>1, <3>1 DEF FlippedIsOver, TypeOK
    <3>3. r \in Live
      BY <1>3, <3>1, <3>2 DEF Live
    <3>. QED  BY <3>1, <3>3 DEF InPeriod
  <2>. QED  BY <2>1 DEF OneInPeriod
<1>13. FlippedIsOver'
  <2>1. \A r \in Rows : status'[r] = "expired" => status[r] = "expired"
    BY <1>2
  <2>2. \A c \in Cancels : cancelling'[c] # Nothing => status'[cancelling'[c]] # "none"
    BY <1>2 DEF FlippedIsOver, TypeOK
  <2>3. ASSUME NEW h \in Hooks, hook'[h] # Closed
        PROVE  status'[hook'[h].row] \in {"active", "cancelled", "halted"}
    <3>1. hook'[h] = hook[h] /\ hook[h].row \in Rows
      BY <2>3 DEF TypeOK
    <3>. QED  BY <1>2, <2>3, <3>1 DEF FlippedIsOver, Closed
  <2>. QED  BY <1>1, <2>1, <2>2, <2>3 DEF FlippedIsOver, Closed
<1>14. CancelKeepsAccess' /\ OneWriter'
  BY <1>1, <1>4, <1>8 DEF CancelKeepsAccess, OneWriter, Closed
<1>. QED  BY <1>4, <1>5, <1>6, <1>8, <1>9, <1>10, <1>11, <1>12, <1>13, <1>14

\* A halt keeps the invariant: no fulfilment is open next to its event.
LEMMA HaltRow ==
  ASSUME PlanIInv, TypeOK', NEW h0 \in Hooks, HookWrite(h0), hook[h0].to = "halted"
  PROVE  PlanIInv' /\ Halted' # {} /\ AccessEnd' \in Nat
<1>. USE PeriodAssumption DEF PlanIInv, PlanInv
<1>. DEFINE r0 == hook[h0].row
<1>1. /\ expires' = expires /\ now' = now /\ step' = step /\ at' = at /\ target' = target
      /\ paying' = paying /\ settled' = settled /\ cancelling' = cancelling
      /\ hook' = [hook EXCEPT ![h0] = Closed] /\ step = "free" /\ r0 \in Rows
  BY DEF HookWrite, OneWriter, fulfilment, TypeOK
<1>2. /\ status'[r0] = "halted" /\ \A r \in Rows : r # r0 => status'[r] = status[r]
      /\ revived' = revived
  BY <1>1 DEF HookWrite, Overwrite, TypeOK
<1>3. Live' \subseteq Live /\ Halted' # {}
  BY <1>1, <1>2 DEF Live, Halted
<1>4. Bounded'
  BY <1>1 DEF Bounded
<1>5. AccessEnd' \in Nat
  <2>1. PICK b \in Nat : \A r \in Rows : expires'[r] <= b
    BY <1>4 DEF Bounded
  <2>. QED  BY <2>1, NextEndProperties DEF TypeOK
<1>6. ActiveIsLatest'
  BY <1>1, <1>2 DEF ActiveIsLatest
<1>7. OneInPeriod'
  BY <1>1, <1>2, <1>3 DEF OneInPeriod, InPeriod
<1>8. FlippedIsOver'
  <2>1. \A r \in Rows : status'[r] = "expired" => status[r] = "expired"
    BY <1>2
  <2>2. \A c \in Cancels : cancelling[c] # Nothing => status'[cancelling[c]] # "none"
    BY <1>2 DEF FlippedIsOver, TypeOK
  <2>3. ASSUME NEW h \in Hooks, hook'[h] # Closed
        PROVE  status'[hook'[h].row] \in {"active", "cancelled", "halted"}
    <3>1. hook'[h] = hook[h] /\ hook[h].row \in Rows
      BY <1>1, <2>3 DEF TypeOK
    <3>. QED  BY <1>2, <2>3, <3>1 DEF FlippedIsOver, Closed
  <2>. QED  BY <1>1, <2>1, <2>2, <2>3 DEF FlippedIsOver, Closed
<1>9. EndIsLatest' /\ CancelKeepsAccess' /\ SelectedIsLatest' /\ OneWriter'
  BY <1>1, <1>3 DEF EndIsLatest, CancelKeepsAccess, SelectedIsLatest, OneWriter
<1>. QED  BY <1>3, <1>4, <1>5, <1>6, <1>7, <1>8, <1>9

-----------------------------------------------------------------------------
(* One step of the program: the invariant, and what it means for the        *)
(* promise of ProAccess and for the paid orders.                            *)

Promise ==
  /\ [Access!Next]_(Access!vars)
  /\ dropped' # dropped => target \in revived

\* Every step keeps the invariant of the plan and the promise.
LEMMA PlanStep ==
  ASSUME PlanIInv, [Next]_vars
  PROVE  PlanIInv' /\ Promise
<1>. USE PeriodAssumption
<1>t. TypeOK'
  BY TypeStep DEF PlanIInv, PlanInv, OneWriter, TypeInv, PayingIsSet
<1>e. /\ AccessEnd \in Nat
      /\ \A r \in Live : expires[r] <= AccessEnd
  BY EndIsKnown DEF PlanIInv, PlanInv
<1>. DEFINE Goal == PlanIInv' /\ Promise
<1>a. ASSUME PlanIInv', UNCHANGED <<now, plan, settled>>,
             dropped' # dropped => target \in revived
      PROVE  Goal
  BY <1>a, SamePlan DEF Promise, Access!vars
<1>b. ASSUME PlanIInv', Gain PROVE Goal
  <2>1. at \in 0..now
    BY DEF PlanIInv, PlanInv, TypeOK
  <2>2. CASE Halted = {}
    <3>1. Access!Purchase(paying)
      BY <1>b, <2>1, <2>2 DEF Gain, Access!Purchase, Access!Later, Later
    <3>. QED  BY <1>b, <3>1 DEF Gain, Promise, Access!Next
  <2>3. CASE Halted # {}
    <3>1. Access!PurchaseAfterHalt(paying)
      BY <1>b, <2>1, <2>3 DEF Gain, Access!PurchaseAfterHalt, Access!Later, Later
    <3>. QED  BY <1>b, <3>1 DEF Gain, Promise, Access!Next
  <2>. QED  BY <2>2, <2>3
<1>c. ASSUME PlanIInv', Halted' # {}, AccessEnd' \in Nat, UNCHANGED <<now, settled, dropped>>
      PROVE  Goal
  <2>1. Access!Halt
    BY <1>c DEF Access!Halt
  <2>. QED  BY <1>c, <2>1 DEF Promise, Access!Next
<1>d. ASSUME PlanIInv', UNCHANGED <<now, settled, dropped, Halted, AccessEnd>>
      PROVE  Goal
  BY <1>d DEF Promise, Access!vars
<1>1. CASE Tick
  <2>1. /\ UNCHANGED <<plan, settled, fulfilment>> /\ now' = now + 1 /\ dropped' = dropped
        /\ cancelling' = cancelling /\ accessUntil' = accessUntil /\ hook' = hook
    BY <1>1 DEF Tick, others
  <2>2. PlanIInv'
    BY <1>t, <2>1, QuietStep DEF PlanIInv, PlanInv, TypeOK, CancelKeepsAccess
  <2>3. AccessEnd' = AccessEnd /\ Halted' = Halted
    BY <2>1, SamePlan
  <2>. QED  BY <2>1, <2>2, <2>3 DEF Promise, Access!Next, Access!Tick
<1>2. ASSUME NEW p \in Payments, Checkout(p) \/ Pay(p) PROVE Goal
  <2>1. /\ UNCHANGED <<plan, settled, fulfilment>> /\ now' = now /\ dropped' = dropped
        /\ cancelling' = cancelling /\ accessUntil' = accessUntil /\ hook' = hook
    BY <1>2 DEF Checkout, Pay, others
  <2>2. PlanIInv'
    BY <1>t, <2>1, QuietStep DEF PlanIInv, PlanInv, TypeOK, CancelKeepsAccess
  <2>. QED  BY <1>a, <2>1, <2>2
<1>3. ASSUME NEW p \in Payments, LockUser(p) PROVE Goal
  BY <1>t, <1>a, <1>3, LockUserStep DEF LockUser
<1>4. CASE SelectRow
  BY <1>t, <1>a, <1>4, SelectRowStep DEF SelectRow
<1>5. CASE Extend
  <2>1. CASE \A r \in Rows \ {target} : status[r] # "active"
    BY <1>t, <1>b, <1>5, <2>1, ExtendStep
  <2>2. CASE \E r \in Rows \ {target} : status[r] = "active"
    <3>1. target \in revived
      BY <1>5, <2>2, ExtendRefused
    <3>2. EndFulfilment /\ UNCHANGED <<plan, settled, now>>
      BY <1>5, <2>2 DEF Extend, Refuse, EndFulfilment, others
    <3>. QED  BY <1>t, <1>a, <3>1, <3>2, RollbackStep
  <2>. QED  BY <2>1, <2>2
<1>6. CASE Insert
  BY <1>t, <1>b, <1>6, InsertStep
<1>7. CASE Abort
  <2>1. EndFulfilment /\ UNCHANGED <<plan, settled, dropped, now>>
    BY <1>7 DEF Abort, EndFulfilment
  <2>. QED  BY <1>t, <1>a, <2>1, RollbackStep
<1>8. ASSUME NEW c \in Cancels, CancelRead(c) PROVE Goal
  <2>1. PICK r \in Latest(InPeriod) :
          /\ accessUntil' = [accessUntil EXCEPT ![c] = expires[r]]
          /\ cancelling' = IF status[r] = "active" THEN [cancelling EXCEPT ![c] = r]
                                                   ELSE cancelling
    BY <1>8 DEF CancelRead
  <2>2. /\ UNCHANGED <<plan, settled, fulfilment>> /\ now' = now /\ hook' = hook
        /\ dropped' = dropped
    BY <1>8 DEF CancelRead
  <2>3. r \in Live
    BY <2>1 DEF Latest, InPeriod
  <2>4. Halted = {} => \A d \in Cancels : accessUntil'[d] <= AccessEnd
    BY <1>e, <2>1, <2>3 DEF PlanIInv, PlanInv, TypeOK, CancelKeepsAccess
  <2>5. \A d \in Cancels : cancelling'[d] = cancelling[d] \/ cancelling'[d] \in Live
    BY <2>1, <2>3 DEF PlanIInv, PlanInv, TypeOK
  <2>6. PlanIInv'
    BY <1>t, <2>2, <2>4, <2>5, QuietStep DEF PlanIInv, PlanInv, TypeOK
  <2>. QED  BY <1>a, <2>2, <2>6
<1>9. ASSUME NEW c \in Cancels, CancelWrite(c) PROVE Goal
  <2>1. /\ cancelling[c] \in Rows /\ cancelling[c] # target
        /\ status[cancelling[c]] # "none"
    BY <1>9 DEF CancelWrite, PlanIInv, PlanInv, TypeOK, FlippedIsOver
  <2>2. \A d \in Cancels : cancelling'[d] \in {cancelling[d], Nothing}
    BY <1>9 DEF CancelWrite, PlanIInv, PlanInv, TypeOK
  <2>3. UNCHANGED <<now, expires, settled, dropped, fulfilment, accessUntil, hook>>
    BY <1>9 DEF CancelWrite
  <2>4. Overwrite(cancelling[c], "cancelled")
    BY <1>9 DEF CancelWrite
  <2>5. /\ PlanIInv' /\ Halted' = Halted /\ AccessEnd' \in Nat
        /\ Halted = {} => AccessEnd' = AccessEnd
    BY <1>t, <2>1, <2>2, <2>3, <2>4, CancelRow
  <2>. QED  BY <1>c, <1>d, <2>3, <2>5
<1>10. ASSUME NEW h \in Hooks, HookWrite(h) PROVE Goal
  <2>1. /\ hook[h].row \in Rows /\ status[hook[h].row] # "none"
        /\ hook[h].to \in {"cancelled", "halted"}
        /\ step = "free" /\ target = Nothing
    BY <1>10 DEF HookWrite, PlanIInv, PlanInv, TypeOK, FlippedIsOver, OneWriter
  <2>2. \A g \in Hooks : hook'[g] \in {hook[g], Closed}
    BY <1>10 DEF HookWrite, PlanIInv, PlanInv, TypeOK
  <2>3. UNCHANGED <<now, expires, settled, dropped, fulfilment, accessUntil, cancelling>>
    BY <1>10 DEF HookWrite
  <2>4. CASE hook[h].to = "halted"
    <3>1. PlanIInv' /\ Halted' # {} /\ AccessEnd' \in Nat
      BY <1>10, <1>t, <2>4, HaltRow
    <3>. QED  BY <1>c, <2>3, <3>1
  <2>5. CASE hook[h].to = "cancelled"
    <3>1. Overwrite(hook[h].row, "cancelled") /\ hook[h].row # target
      BY <1>10, <2>1, <2>5 DEF HookWrite
    <3>2. /\ PlanIInv' /\ Halted' = Halted /\ AccessEnd' \in Nat
          /\ Halted = {} => AccessEnd' = AccessEnd
      BY <1>t, <2>1, <2>2, <2>3, <3>1, CancelRow
    <3>. QED  BY <1>c, <1>d, <2>3, <3>2
  <2>. QED  BY <2>1, <2>4, <2>5
<1>11. ASSUME NEW h \in Hooks, NEW to \in HookEdits, HookRead(h, to) PROVE Goal
  <2>1. PICK r \in Rows : status[r] = "active" /\ hook' = [hook EXCEPT ![h] = [row |-> r, to |-> to]]
    BY <1>11 DEF HookRead
  <2>2. /\ UNCHANGED <<plan, settled, fulfilment>> /\ now' = now /\ step = "free"
        /\ cancelling' = cancelling /\ accessUntil' = accessUntil /\ dropped' = dropped
    BY <1>11 DEF HookRead
  <2>3. \A g \in Hooks : hook'[g] = hook[g] \/ hook'[g].row \in Live
    BY <2>1 DEF PlanIInv, PlanInv, TypeOK, Live
  <2>4. PlanIInv'
    BY <1>t, <2>2, <2>3, QuietStep DEF PlanIInv, PlanInv, TypeOK, CancelKeepsAccess
  <2>. QED  BY <1>a, <2>2, <2>4
<1>12. CASE UNCHANGED vars
  <2>1. /\ UNCHANGED <<plan, settled, fulfilment>> /\ now' = now /\ dropped' = dropped
        /\ cancelling' = cancelling /\ accessUntil' = accessUntil /\ hook' = hook
    BY <1>12 DEF vars, others
  <2>2. PlanIInv'
    BY <1>t, <2>1, QuietStep DEF PlanIInv, PlanInv, TypeOK, CancelKeepsAccess
  <2>. QED  BY <1>a, <2>1, <2>2
<1>. QED
  BY <1>1, <1>2, <1>3, <1>4, <1>5, <1>6, <1>7, <1>8, <1>9, <1>10, <1>11, <1>12 DEF Next

\* The inductive invariant holds in every reachable state.
LEMMA PlanInvariant == Spec => []PlanIInv
<1>1. Init => PlanIInv
  BY PlanInit
<1>2. PlanIInv /\ [Next]_vars => PlanIInv'
  BY PlanStep
<1>. QED  BY <1>1, <1>2, PTL DEF Spec

\* A paid order is reported as already fulfilled without a grant only if it was
\* to renew a row that a stale cancellation had brought back after a halt: in
\* every other order of events the lazy flip and the choice of the row to extend
\* keep the one-active index of billing.subscriptions from tripping.
THEOREM NoPaymentDropped == Spec => PaidIsGranted
<1>1. PlanIInv /\ [Next]_vars => [dropped' # dropped => target \in revived]_vars
  BY PlanStep DEF Promise
<1>2. Spec => [][Next]_vars
  BY DEF Spec
<1>. QED  BY <1>1, <1>2, PlanInvariant, PTL DEF PaidIsGranted

\* At most one row of a user grants access, cancelled rows included and rows
\* brought back after a halt excepted.
THEOREM OnePlan == Spec => []OneInPeriod
<1>1. PlanIInv => OneInPeriod
  BY DEF PlanIInv, PlanInv
<1>. QED  BY <1>1, PlanInvariant, PTL

\* Until the plan is halted, access does not end before the date that a cancel
\* request was answered.
THEOREM CancelAnswerKept == Spec => []CancelKeepsAccess
<1>1. PlanIInv => CancelKeepsAccess
  BY DEF PlanIInv, PlanInv
<1>. QED  BY <1>1, PlanInvariant, PTL

\* Renewals, cancellations, halts and their races implement ProAccess: every
\* payment adds a full period and nothing moves the end of the access until a
\* halt; after one a payment still gives a period from the day it is handled.
THEOREM NoPaidDaysLost == Spec => ImplementsProAccess
<1>1. Init => Access!Init
  <2>1. ASSUME Init PROVE Access!Init
    <3>1. Ends = {0} /\ Halted = {}
      BY <2>1 DEF Init, Ends, Live, Halted
    <3>. QED  BY <2>1, <3>1 DEF Init, Access!Init, AccessEnd
  <2>. QED  BY <2>1
<1>2. PlanIInv /\ [Next]_vars => [Access!Next]_(Access!vars)
  BY PlanStep DEF Promise
<1>. QED  BY <1>1, <1>2, PlanInvariant, PTL DEF Spec, ImplementsProAccess, Access!Spec
=============================================================================
