------------------------- MODULE FulfillmentProofs -------------------------
(***************************************************************************)
(* What holds of Fulfillment for every set of users, payments, events,     *)
(* concurrent requests, and every bound on crashes and rejected refunds.   *)
(***************************************************************************)
EXTENDS Fulfillment, FiniteSetTheorems, TLAPS

-----------------------------------------------------------------------------
(* Types: what moving on, finishing and rolling back do to each variable. *)

\* A step to the next statement keeps the types.
LEMMA GotoType ==
  ASSUME TypeOK, NEW t \in Tx, NEW s \in Statements, Goto(t, s)
  PROVE  TypeOK'
BY DEF TypeOK, Goto, Wanted, database, faults

\* The end of a delivery or of a verify keeps the types.
LEMMA FinishType ==
  ASSUME TypeOK, NEW t \in Tx, NEW r \in Replies, Finish(t, r)
  PROVE  /\ pc' \in [Tx -> Statements]
         /\ pay' \in [Tx -> Payments \cup {Nothing}]
         /\ ev' \in [Tx -> Events \cup {Nothing}]
         /\ gift' \in [Tx -> BOOLEAN]
         /\ held' \in [Tx -> SUBSET Locks]
         /\ reply' \in [Tx -> Replies]
BY DEF TypeOK, Finish, Statements

\* A rollback keeps the types.
LEMMA RollbackType ==
  ASSUME TypeOK, NEW t \in Tx, NEW r \in Replies, Rollback(t, r)
  PROVE  TypeOK'
BY FinishType DEF TypeOK, Rollback, database, faults

\* A rollback that is acknowledged keeps the types.
LEMMA RollbackAckType ==
  ASSUME TypeOK, NEW t \in Tx, NEW r \in Replies, RollbackAck(t, r), ev[t] \in Events
  PROVE  TypeOK'
BY FinishType DEF TypeOK, RollbackAck, database, faults

\* An actor at work has a payment, and a delivery at work has an event.
LEMMA BusyType ==
  ASSUME TypeOK, WorksOnItsEvent, NEW t \in Tx, pc[t] # "idle"
  PROVE  /\ pay[t] \in Payments
         /\ t \in WebhookTx => ev[t] \in Events /\ Key(t) \in EventKeys
         /\ pc[t] \in {"insertEvent", "eventUserFk", "commitEvent", "commitFailed",
                       "auditDuplicate"} => t \in WebhookTx
BY PaymentAssumption DEF WorksOnItsEvent, Key, Tx

\* Inserting the event row keeps the types.
LEMMA RecordType ==
  ASSUME TypeOK, WorksOnItsEvent, NEW t \in Tx, pc[t] # "idle",
         NEW status \in {"processed", "failed", "duplicate"}
  PROVE  /\ RecordEvent(t, status) =>
              event' \in [EventKeys -> {"none", "processed", "failed", "duplicate"}]
         /\ AckIfWebhook(t) => acked' \subseteq Events
BY BusyType DEF TypeOK, RecordEvent, AckIfWebhook

\* Initially every variable has its type.
LEMMA TypeInit == Init => TypeOK
BY BoundAssumption DEF Init, TypeOK, Statements, Replies

\* Every step keeps the types.
LEMMA TypeStep ==
  ASSUME TypeOK, WorksOnItsEvent, OwnsUserRow, [Next]_vars
  PROVE  TypeOK'
<1>1. ASSUME NEW t \in VerifyTx, NEW p \in Payments, NEW matches \in BOOLEAN,
             VerifyPayment(t, p, matches)
      PROVE  TypeOK'
  BY <1>1 DEF TypeOK, VerifyPayment, Begin, Tx, Statements, Replies, database, faults
<1>2. ASSUME NEW t \in WebhookTx, NEW e \in Events, Webhook(t, e)
      PROVE  TypeOK'
  BY <1>2, PaymentAssumption
     DEF TypeOK, Webhook, Begin, Tx, Statements, Replies, database, faults
<1>3. ASSUME NEW t \in Tx, Step(t)
      PROVE  TypeOK'
  <2>0. pc[t] # "idle"
    BY <1>3 DEF Step, InsertEvent, EventUserFk, CommitEvent, CommitFailed, LockUser,
       InsertLedger, GrantEntitlement, CommitGrant, AuditDuplicate, InsertRefund,
       RefundUserFk, RefundAccepted, RefundRejected, CommitRefund
  <2>1. CASE InsertEvent(t)
    BY <2>1, GotoType, RollbackType, RollbackAckType, BusyType
       DEF InsertEvent, Statements, Replies
  <2>2. CASE EventUserFk(t)
    BY <2>2, GotoType, RollbackAckType, BusyType DEF EventUserFk, Statements, Replies
  <2>3. CASE CommitEvent(t)
    BY <2>0, <2>3, FinishType, RecordType DEF CommitEvent, TypeOK, Replies, faults
  <2>4. CASE CommitFailed(t)
    BY <2>0, <2>4, FinishType, RecordType DEF CommitFailed, TypeOK, Replies, faults
  <2>5. CASE LockUser(t)
    BY <2>5, GotoType DEF LockUser, Statements
  <2>6. CASE InsertLedger(t)
    <3>1. CASE Goto(t, "grant")
      BY <3>1, GotoType DEF Statements
    <3>2. CASE Rollback(t, "already_fulfilled")
      BY <3>2, RollbackType DEF Replies
    <3>3. CASE t \in WebhookTx /\ pc' = [pc EXCEPT ![t] = "auditDuplicate"]
               /\ held' = [held EXCEPT ![t] = {}]
               /\ UNCHANGED <<pay, ev, gift, reply, database, refunded, acked, faults>>
      BY <3>3 DEF TypeOK, Statements, database, faults
    <3> QED  BY <2>6, <3>1, <3>2, <3>3 DEF InsertLedger
  <2>7. CASE GrantEntitlement(t)
    BY <2>7 DEF GrantEntitlement, TypeOK, Statements, database, faults
  <2>8. CASE CommitGrant(t)
    <3>1. granted' \in [Payments -> Nat] /\ welcome' \in [KnownUsers -> Nat]
      BY <2>8, <2>0, BusyType DEF CommitGrant, TypeOK, OwnsUserRow, Granting
    <3> QED
      BY <3>1, <2>0, <2>8, FinishType, RecordType DEF CommitGrant, TypeOK, Replies, faults
  <2>9. CASE AuditDuplicate(t)
    BY <2>9, <2>0, FinishType, BusyType DEF AuditDuplicate, TypeOK, Replies, faults
  <2>10. CASE InsertRefund(t)
    <3>1. CASE Goto(t, "refundUserFk")
      BY <3>1, GotoType DEF Statements
    <3>2. CASE Rollback(t, "already_fulfilled")
      BY <3>2, RollbackType DEF Replies
    <3>3. CASE pc' = [pc EXCEPT ![t] = "commitEvent"]
               /\ UNCHANGED <<pay, ev, gift, held, reply, database, refunded, acked, faults>>
      BY <3>3 DEF TypeOK, Statements, database, faults
    <3> QED  BY <2>10, <3>1, <3>2, <3>3 DEF InsertRefund
  <2>11. CASE RefundUserFk(t)
    BY <2>11, GotoType DEF RefundUserFk, Statements
  <2>12. CASE RefundAccepted(t)
    <3>1. CASE pc' = [pc EXCEPT ![t] = "commitRefund"]
               /\ UNCHANGED <<pay, ev, gift, held, reply, faults>>
      BY <2>0, <2>12, <3>1, BusyType DEF RefundAccepted, TypeOK, Statements, database, faults
    <3>2. CASE Finish(t, "500") /\ crashes < MaxCrashes /\ crashes' = crashes + 1
               /\ UNCHANGED rejects
      BY <2>0, <2>12, <3>2, BusyType, FinishType, BoundAssumption
         DEF RefundAccepted, TypeOK, Replies, database
    <3> QED  BY <2>12, <3>1, <3>2 DEF RefundAccepted
  <2>13. CASE RefundRejected(t)
    BY <2>13, FinishType, BoundAssumption DEF RefundRejected, TypeOK, Replies, database
  <2>14. CASE CommitRefund(t)
    BY <2>0, <2>14, FinishType, RecordType DEF CommitRefund, TypeOK, Replies, faults
  <2> QED
    BY <1>3, <2>1, <2>2, <2>3, <2>4, <2>5, <2>6, <2>7, <2>8, <2>9, <2>10, <2>11,
       <2>12, <2>13, <2>14 DEF Step
<1>4. ASSUME NEW t \in Tx, DeadlockAbort(t)
      PROVE  TypeOK'
  BY <1>4, RollbackType DEF DeadlockAbort, Replies
<1>5. ASSUME NEW t \in Tx, Crash(t)
      PROVE  TypeOK'
  BY <1>5, FinishType, BoundAssumption DEF Crash, TypeOK, Replies, database
<1>6. CASE UNCHANGED vars
  BY <1>6 DEF TypeOK, vars, request, database, faults
<1> QED  BY <1>1, <1>2, <1>3, <1>4, <1>5, <1>6 DEF Next

-----------------------------------------------------------------------------
(* Locks: who finishes gives everything up, who moves on got what it wanted. *)

Settled == <<ledger, granted, welcome>>

Ownership == WorksOnItsEvent /\ OneOwner /\ OwnsLedgerKey /\ OwnsUserRow

\* A lock granted to one actor that another one holds can only be a shared one.
LEMMA WantedExclusive ==
  ASSUME NEW t \in Tx, NEW o \in Tx \ {t}, Blockers(t) = {},
         NEW l \in Wanted(t), l \in held[o]
  PROVE  l[1] = "share"
BY DEF Blockers, Conflict

\* An actor that finishes gives up what it owns and disturbs nobody.
LEMMA FinishOwnership ==
  ASSUME TypeOK, Ownership, NEW t \in Tx, NEW r, Finish(t, r), UNCHANGED Settled
  PROVE  Ownership'
<1>1. \A o \in Tx : /\ pc'[o] = IF o = t THEN "idle" ELSE pc[o]
                    /\ held'[o] = IF o = t THEN {} ELSE held[o]
                    /\ o # t => gift'[o] = gift[o]
                    /\ pay'[o] = pay[o] /\ ev'[o] = ev[o]
  BY DEF Finish, TypeOK
<1>2. WorksOnItsEvent'
  BY <1>1 DEF Ownership, WorksOnItsEvent, Tx
<1>3. OneOwner'
  BY <1>1 DEF Ownership, OneOwner
<1>4. OwnsLedgerKey'
  BY <1>1 DEF Ownership, OwnsLedgerKey, Settled, Granting, Refunding
<1>5. OwnsUserRow'
  BY <1>1 DEF Ownership, OwnsUserRow, Settled, Granting, User
<1> QED  BY <1>2, <1>3, <1>4, <1>5 DEF Ownership

\* An actor that goes on to a statement may own more, if nobody else does.
LEMMA GotoOwnership ==
  ASSUME TypeOK, Ownership, NEW t \in Tx, pc[t] # "idle",
         NEW s \in Statements \ {"commitGrant"}, Goto(t, s),
         s \in {"insertEvent", "eventUserFk", "commitEvent", "commitFailed",
               "auditDuplicate"} => t \in WebhookTx,
         s \in Granting \cup Refunding =>
            LedgerLock(pay[t]) \in held[t] \cup Wanted(t) /\ ledger[pay[t]] = "none",
         s \in {"lockUser", "insertLedger"} \cup Granting => User(t) \in KnownUsers,
         s \in {"insertLedger"} \cup Granting => RowLock(User(t)) \in held[t] \cup Wanted(t)
  PROVE  Ownership'
<1>1. \A o \in Tx : /\ pc'[o] = IF o = t THEN s ELSE pc[o]
                    /\ held'[o] = IF o = t THEN held[t] \cup Wanted(t) ELSE held[o]
                    /\ pay'[o] = pay[o] /\ ev'[o] = ev[o] /\ gift'[o] = gift[o]
  BY DEF Goto, TypeOK
<1>2. WorksOnItsEvent'
  BY <1>1, BoundAssumption DEF Ownership, WorksOnItsEvent, Tx
<1>3. OneOwner'
  <2> SUFFICES ASSUME NEW x \in Tx, NEW o \in Tx, x # o,
                      NEW l \in held'[x] \cap held'[o]
               PROVE  l[1] = "share"
    BY DEF OneOwner
  <2>1. CASE l \in held[x] \cap held[o]
    BY <2>1 DEF Ownership, OneOwner
  <2>2. CASE x = t /\ l \in Wanted(t)
    BY <1>1, <2>2, WantedExclusive DEF Goto
  <2>3. CASE o = t /\ l \in Wanted(t)
    BY <1>1, <2>3, WantedExclusive DEF Goto
  <2> QED  BY <1>1, <2>1, <2>2, <2>3
<1>4. OwnsLedgerKey'
  BY <1>1 DEF Ownership, OwnsLedgerKey, Goto, database
<1>5. OwnsUserRow'
  BY <1>1 DEF Ownership, OwnsUserRow, Goto, database, Granting, User
<1> QED  BY <1>2, <1>3, <1>4, <1>5 DEF Ownership

\* An actor that begins owns nothing yet.
LEMMA BeginOwnership ==
  ASSUME TypeOK, Ownership, NEW t \in Tx, NEW p \in Payments, NEW e, NEW s,
         Begin(t, p, e, s),
         \/ s = "insertRefund" /\ t \in VerifyTx
         \/ s = "lockUser" /\ t \in VerifyTx /\ NotesUser[p] \in KnownUsers
         \/ s = "insertEvent" /\ t \in WebhookTx /\ e \in Events /\ p = EventPayment[e]
  PROVE  Ownership'
<1>1. \A o \in Tx : /\ pc'[o] = IF o = t THEN s ELSE pc[o]
                    /\ pay'[o] = IF o = t THEN p ELSE pay[o]
                    /\ ev'[o] = IF o = t THEN e ELSE ev[o]
                    /\ held'[o] = held[o] /\ gift'[o] = gift[o]
  BY DEF Begin, TypeOK
<1>2. WorksOnItsEvent'
  BY <1>1, BoundAssumption DEF Ownership, WorksOnItsEvent, Tx
<1>3. OneOwner'
  BY <1>1 DEF Ownership, OneOwner
<1>4. OwnsLedgerKey'
  BY <1>1 DEF Ownership, OwnsLedgerKey, Begin, database, Granting, Refunding
<1>5. OwnsUserRow'
  BY <1>1 DEF Ownership, OwnsUserRow, Begin, database, Granting, User
<1> QED  BY <1>2, <1>3, <1>4, <1>5 DEF Ownership

(* Two requests never sit past the ledger insert of the same payment, nor  *)
(* past the row lock of the same user.                                     *)
LEMMA LedgerKeyExclusive ==
  ASSUME Ownership, NEW t \in Tx, NEW o \in Tx, t # o,
         pc[t] \in Granting \cup Refunding, pc[o] \in Granting \cup Refunding
  PROVE  pay[t] # pay[o]
<1>1. LedgerLock(pay[t]) \in held[t] /\ LedgerLock(pay[o]) \in held[o]
  BY DEF Ownership, OwnsLedgerKey
<1>2. LedgerLock(pay[t])[1] = "ledger"
  BY DEF LedgerLock
<1> QED  BY <1>1, <1>2 DEF Ownership, OneOwner

\* No two actors are past the row lock of the same user.
LEMMA UserRowExclusive ==
  ASSUME Ownership, NEW t \in Tx, NEW o \in Tx, t # o,
         pc[t] \in Granting, pc[o] \in Granting
  PROVE  User(t) # User(o)
<1>1. RowLock(User(t)) \in held[t] /\ RowLock(User(o)) \in held[o]
  BY DEF Ownership, OwnsUserRow
<1>2. RowLock(User(t))[1] = "row"
  BY DEF RowLock
<1> QED  BY <1>1, <1>2 DEF Ownership, OneOwner

\* Initially nobody owns anything.
LEMMA OwnershipInit == Init => Ownership
BY BoundAssumption DEF Init, Ownership, WorksOnItsEvent, OneOwner, OwnsLedgerKey, OwnsUserRow,
   Granting, Refunding

\* A commit gives up what its actor owns.
LEMMA CommitOwnership ==
  ASSUME TypeOK, Ownership, NEW t \in Tx, CommitGrant(t) \/ CommitRefund(t)
  PROVE  Ownership'
<1>1. \A o \in Tx : /\ pc'[o] = IF o = t THEN "idle" ELSE pc[o]
                    /\ held'[o] = IF o = t THEN {} ELSE held[o]
                    /\ o # t => gift'[o] = gift[o]
                    /\ pay'[o] = pay[o] /\ ev'[o] = ev[o]
  BY DEF Finish, TypeOK, CommitGrant, CommitRefund
<1>2. pc[t] \in Granting \cup Refunding
  BY DEF CommitGrant, CommitRefund, Granting, Refunding
<1>3. \A p \in Payments : p # pay[t] => ledger'[p] = ledger[p]
  BY DEF TypeOK, CommitGrant, CommitRefund
<1>4. WorksOnItsEvent'
  BY <1>1 DEF Ownership, WorksOnItsEvent, Tx
<1>5. OneOwner'
  BY <1>1 DEF Ownership, OneOwner
<1>6. OwnsLedgerKey'
  <2> SUFFICES ASSUME NEW o \in Tx, pc'[o] \in Granting \cup Refunding
               PROVE  LedgerLock(pay'[o]) \in held'[o] /\ ledger'[pay'[o]] = "none"
    BY DEF OwnsLedgerKey
  <2>1. o # t /\ pc[o] \in Granting \cup Refunding
    BY <1>1 DEF Granting, Refunding
  <2>2. pay[o] # pay[t] /\ pay[o] \in Payments
    BY <1>2, <2>1, LedgerKeyExclusive DEF Ownership, WorksOnItsEvent, Granting, Refunding
  <2> QED  BY <1>1, <1>3, <2>1, <2>2 DEF Ownership, OwnsLedgerKey
<1>7. OwnsUserRow'
  <2>1. CASE CommitRefund(t)
    BY <1>1, <2>1 DEF Ownership, OwnsUserRow, CommitRefund, Granting, User
  <2>2. CASE CommitGrant(t)
    <3>1. ASSUME NEW o \in Tx, o # t, pc[o] = "commitGrant"
          PROVE  welcome'[User(o)] = welcome[User(o)]
      <4>1. User(o) # User(t) /\ User(o) \in KnownUsers
        BY <2>2, <3>1, UserRowExclusive DEF CommitGrant, Granting, Ownership, OwnsUserRow
      <4> QED  BY <2>2, <4>1 DEF CommitGrant, TypeOK
    <3> QED  BY <1>1, <3>1 DEF Ownership, OwnsUserRow, Granting, User
  <2> QED  BY <2>1, <2>2
<1> QED  BY <1>4, <1>5, <1>6, <1>7 DEF Ownership

\* Every step keeps the locks exclusive.
LEMMA OwnershipStep ==
  ASSUME TypeOK, Ownership, [Next]_vars
  PROVE  Ownership'
<1>1. ASSUME NEW t \in VerifyTx, NEW p \in Payments, NEW matches \in BOOLEAN,
             VerifyPayment(t, p, matches)
      PROVE  Ownership'
  BY <1>1, BeginOwnership DEF VerifyPayment, Tx
<1>2. ASSUME NEW t \in WebhookTx, NEW e \in Events, Webhook(t, e)
      PROVE  Ownership'
  <2>1. CASE event[EventKey[e]] = "processed"
    <3>1. /\ pc[t] = "idle" /\ pc' = pc /\ held' = held /\ gift' = gift
          /\ \A o \in Tx : o # t => pay'[o] = pay[o] /\ ev'[o] = ev[o]
          /\ UNCHANGED Settled
      BY <1>2, <2>1 DEF Webhook, TypeOK, database, Settled
    <3>2. WorksOnItsEvent'
      BY <3>1 DEF Ownership, WorksOnItsEvent, Tx
    <3>3. OneOwner'
      BY <3>1 DEF Ownership, OneOwner
    <3>4. OwnsLedgerKey'
      BY <3>1 DEF Ownership, OwnsLedgerKey, Settled, Granting, Refunding
    <3>5. OwnsUserRow'
      BY <3>1 DEF Ownership, OwnsUserRow, Settled, Granting, User
    <3> QED  BY <3>2, <3>3, <3>4, <3>5 DEF Ownership
  <2>2. CASE event[EventKey[e]] # "processed"
    BY <1>2, <2>2, BeginOwnership, PaymentAssumption DEF Webhook, Tx
  <2> QED  BY <2>1, <2>2
<1>3. ASSUME NEW t \in Tx, Step(t)
      PROVE  Ownership'
  <2>1. CASE InsertEvent(t)
    BY <2>1, FinishOwnership, GotoOwnership, BusyType
       DEF InsertEvent, Rollback, RollbackAck, Settled, database, Statements, Ownership,
           Granting, Refunding
  <2>2. CASE EventUserFk(t)
    BY <2>2, FinishOwnership, GotoOwnership, BusyType
       DEF EventUserFk, RollbackAck, Settled, database, Statements, Ownership,
           Granting, Refunding
  <2>3. CASE CommitEvent(t)
    BY <2>3, FinishOwnership DEF CommitEvent, Settled
  <2>4. CASE CommitFailed(t)
    BY <2>4, FinishOwnership DEF CommitFailed, Settled
  <2>5. CASE LockUser(t)
    <3>1. User(t) \in KnownUsers /\ RowLock(User(t)) \in Wanted(t)
      BY <2>5 DEF LockUser, Ownership, OwnsUserRow, Wanted, Locks
    <3> QED
      BY <2>5, <3>1, GotoOwnership DEF LockUser, Statements, Granting, Refunding
  <2>6. CASE InsertLedger(t)
    <3>1. CASE Goto(t, "grant") /\ ledger[pay[t]] = "none"
      <4>1. LedgerLock(pay[t]) \in Wanted(t)
        BY <2>6, BusyType DEF InsertLedger, Wanted, Locks, Ownership
      <4>2. User(t) \in KnownUsers /\ RowLock(User(t)) \in held[t]
        BY <2>6 DEF InsertLedger, Ownership, OwnsUserRow
      <4> QED
        BY <2>6, <3>1, <4>1, <4>2, GotoOwnership DEF InsertLedger, Statements
    <3>2. CASE Rollback(t, "already_fulfilled")
      BY <3>2, FinishOwnership DEF Rollback, Settled, database
    <3>3. CASE t \in WebhookTx /\ pc' = [pc EXCEPT ![t] = "auditDuplicate"]
               /\ held' = [held EXCEPT ![t] = {}]
               /\ UNCHANGED <<pay, ev, gift, reply, database, refunded, acked, faults>>
      <4>1. \A o \in Tx : /\ pc'[o] = IF o = t THEN "auditDuplicate" ELSE pc[o]
                          /\ held'[o] = IF o = t THEN {} ELSE held[o]
        BY <3>3 DEF TypeOK
      <4>2. pc[t] # "idle"
        BY <2>6 DEF InsertLedger
      <4>3. WorksOnItsEvent'
        BY <3>3, <4>1, <4>2, BoundAssumption DEF Ownership, WorksOnItsEvent, Tx
      <4>4. OneOwner'
        BY <4>1 DEF Ownership, OneOwner
      <4>5. OwnsLedgerKey'
        BY <3>3, <4>1 DEF Ownership, OwnsLedgerKey, database, Granting, Refunding
      <4>6. OwnsUserRow'
        BY <3>3, <4>1 DEF Ownership, OwnsUserRow, database, Granting, User
      <4> QED  BY <4>3, <4>4, <4>5, <4>6 DEF Ownership
    <3> QED  BY <2>6, <3>1, <3>2, <3>3 DEF InsertLedger
  <2>7. CASE GrantEntitlement(t)
    <3>1. \A o \in Tx : /\ pc'[o] = IF o = t THEN "commitGrant" ELSE pc[o]
                        /\ o # t => gift'[o] = gift[o]
                        /\ pay'[o] = pay[o] /\ ev'[o] = ev[o] /\ held'[o] = held[o]
      BY <2>7 DEF GrantEntitlement, TypeOK
    <3>2. pc[t] = "grant" /\ UNCHANGED Settled
      BY <2>7 DEF GrantEntitlement, database, Settled
    <3>3. WorksOnItsEvent'
      BY <3>1, <3>2 DEF Ownership, WorksOnItsEvent, Tx
    <3>4. OneOwner'
      BY <3>1 DEF Ownership, OneOwner
    <3>5. OwnsLedgerKey'
      BY <3>1, <3>2 DEF Ownership, OwnsLedgerKey, Settled, Granting, Refunding
    <3>6. gift'[t] <=> welcome'[User(t)'] = 0
      <4>1. User(t)' = User(t) /\ welcome' = welcome
        BY <3>1, <3>2 DEF User, Settled
      <4>2. gift'[t] = (welcome[User(t)] = 0)
        BY <2>7 DEF GrantEntitlement, TypeOK
      <4> QED  BY <4>1, <4>2
    <3>7. OwnsUserRow'
      <4> SUFFICES ASSUME NEW o \in Tx
                   PROVE  /\ pc'[o] \in {"lockUser", "insertLedger"} \cup Granting
                                => User(o)' \in KnownUsers
                          /\ pc'[o] \in {"insertLedger"} \cup Granting
                                => RowLock(User(o)') \in held'[o]
                          /\ pc'[o] = "commitGrant" => (gift'[o] <=> welcome'[User(o)'] = 0)
        BY DEF OwnsUserRow
      <4>1. CASE o = t
        BY <3>1, <3>2, <3>6, <4>1 DEF Ownership, OwnsUserRow, Granting, User
      <4>2. CASE o # t
        BY <3>1, <3>2, <4>2 DEF Ownership, OwnsUserRow, Settled, Granting, User
      <4> QED  BY <4>1, <4>2
    <3> QED  BY <3>3, <3>4, <3>5, <3>7 DEF Ownership
  <2>8. CASE CommitGrant(t) \/ CommitRefund(t)
    BY <2>8, CommitOwnership
  <2>9. CASE AuditDuplicate(t)
    BY <2>9, FinishOwnership DEF AuditDuplicate, Settled
  <2>10. CASE InsertRefund(t)
    <3>1. CASE Goto(t, "refundUserFk") /\ ledger[pay[t]] = "none"
      <4>1. LedgerLock(pay[t]) \in Wanted(t)
        BY <2>10, BusyType DEF InsertRefund, Wanted, Locks, Ownership
      <4> QED
        BY <2>10, <3>1, <4>1, GotoOwnership DEF InsertRefund, Statements, Granting
    <3>2. CASE Rollback(t, "already_fulfilled")
      BY <3>2, FinishOwnership DEF Rollback, Settled, database
    <3>3. CASE t \in WebhookTx /\ pc' = [pc EXCEPT ![t] = "commitEvent"]
               /\ UNCHANGED <<pay, ev, gift, held, reply, database, refunded, acked, faults>>
      <4>1. \A o \in Tx : pc'[o] = IF o = t THEN "commitEvent" ELSE pc[o]
        BY <3>3 DEF TypeOK
      <4>2. pc[t] # "idle"
        BY <2>10 DEF InsertRefund
      <4>3. WorksOnItsEvent'
        BY <3>3, <4>1, <4>2, BoundAssumption DEF Ownership, WorksOnItsEvent, Tx
      <4>4. OneOwner'
        BY <3>3 DEF Ownership, OneOwner
      <4>5. OwnsLedgerKey'
        BY <3>3, <4>1 DEF Ownership, OwnsLedgerKey, database, Granting, Refunding
      <4>6. OwnsUserRow'
        BY <3>3, <4>1 DEF Ownership, OwnsUserRow, database, Granting, User
      <4> QED  BY <4>3, <4>4, <4>5, <4>6 DEF Ownership
    <3> QED  BY <2>10, <3>1, <3>2, <3>3 DEF InsertRefund
  <2>11. CASE RefundUserFk(t)
    BY <2>11, GotoOwnership
       DEF RefundUserFk, Statements, Granting, Refunding, Ownership, OwnsLedgerKey
  <2>12. CASE RefundAccepted(t)
    <3>1. CASE pc' = [pc EXCEPT ![t] = "commitRefund"]
               /\ UNCHANGED <<pay, ev, gift, held, reply, faults>>
      <4>1. \A o \in Tx : pc'[o] = IF o = t THEN "commitRefund" ELSE pc[o]
        BY <3>1 DEF TypeOK
      <4>2. pc[t] = "callRefund" /\ UNCHANGED Settled
        BY <2>12 DEF RefundAccepted, database, Settled
      <4>3. WorksOnItsEvent'
        BY <3>1, <4>1, <4>2 DEF Ownership, WorksOnItsEvent, Tx
      <4>4. OneOwner'
        BY <3>1 DEF Ownership, OneOwner
      <4>5. OwnsLedgerKey'
        BY <3>1, <4>1, <4>2 DEF Ownership, OwnsLedgerKey, Settled, Granting, Refunding
      <4>6. OwnsUserRow'
        BY <3>1, <4>1, <4>2 DEF Ownership, OwnsUserRow, Settled, Granting, User
      <4> QED  BY <4>3, <4>4, <4>5, <4>6 DEF Ownership
    <3>2. CASE Finish(t, "500")
      BY <2>12, <3>2, FinishOwnership DEF RefundAccepted, Settled, database
    <3> QED  BY <2>12, <3>1, <3>2 DEF RefundAccepted
  <2>13. CASE RefundRejected(t)
    BY <2>13, FinishOwnership DEF RefundRejected, Settled, database
  <2> QED
    BY <1>3, <2>1, <2>2, <2>3, <2>4, <2>5, <2>6, <2>7, <2>8, <2>9, <2>10, <2>11,
       <2>12, <2>13 DEF Step
<1>4. ASSUME NEW t \in Tx, DeadlockAbort(t) \/ Crash(t)
      PROVE  Ownership'
  BY <1>4, FinishOwnership DEF DeadlockAbort, Rollback, Crash, Settled, database
<1>5. CASE UNCHANGED vars
  BY <1>5 DEF Ownership, WorksOnItsEvent, OneOwner, OwnsLedgerKey, OwnsUserRow, User,
     vars, request, database
<1> QED  BY <1>1, <1>2, <1>3, <1>4, <1>5 DEF Next

-----------------------------------------------------------------------------
(* Only the two committing statements touch what a payment has led to. *)

\* Only the commit of a grant or of a refund changes the ledger.
LEMMA OnlyCommitsSettle ==
  ASSUME TypeOK, [Next]_vars,
         \A t \in Tx : ~CommitGrant(t) /\ ~CommitRefund(t)
  PROVE  UNCHANGED Settled
<1>1. ASSUME NEW t \in Tx, Step(t)
      PROVE  UNCHANGED Settled
  BY <1>1 DEF Step, InsertEvent, EventUserFk, CommitEvent, CommitFailed, LockUser,
     InsertLedger, GrantEntitlement, AuditDuplicate, InsertRefund, RefundUserFk,
     RefundAccepted, RefundRejected, Goto, Rollback, RollbackAck, database, Settled
<1>2. ASSUME NEW t \in Tx, DeadlockAbort(t) \/ Crash(t)
      PROVE  UNCHANGED Settled
  BY <1>2 DEF DeadlockAbort, Rollback, Crash, database, Settled
<1>3. ASSUME NEW t \in VerifyTx, NEW p \in Payments, NEW matches \in BOOLEAN,
             VerifyPayment(t, p, matches)
      PROVE  UNCHANGED Settled
  BY <1>3 DEF VerifyPayment, Begin, database, Settled
<1>4. ASSUME NEW t \in WebhookTx, NEW e \in Events, Webhook(t, e)
      PROVE  UNCHANGED Settled
  BY <1>4 DEF Webhook, Begin, database, Settled
<1>5. CASE UNCHANGED vars
  BY <1>5 DEF vars, database, Settled
<1> QED  BY <1>1, <1>2, <1>3, <1>4, <1>5 DEF Next

\* A committed grant fulfils one payment and adds its entitlement.
LEMMA CommitGrantEffect ==
  ASSUME TypeOK, Ownership, NEW t \in Tx, CommitGrant(t)
  PROVE  /\ pay[t] \in Payments /\ User(t) \in KnownUsers /\ ledger[pay[t]] = "none"
         /\ gift[t] <=> welcome[User(t)] = 0
         /\ \A p \in Payments :
              /\ ledger'[p] = IF p = pay[t] THEN "fulfilled" ELSE ledger[p]
              /\ granted'[p] = IF p = pay[t] THEN granted[p] + 1 ELSE granted[p]
         /\ \A u \in KnownUsers :
              welcome'[u] = IF u = User(t) /\ welcome[u] = 0 THEN 1 ELSE welcome[u]
<1>1. /\ pay[t] \in Payments /\ User(t) \in KnownUsers /\ ledger[pay[t]] = "none"
      /\ gift[t] <=> welcome[User(t)] = 0
  BY DEF CommitGrant, Ownership, WorksOnItsEvent, OwnsUserRow, OwnsLedgerKey, Granting
<1>2. \A p \in Payments :
        /\ ledger'[p] = IF p = pay[t] THEN "fulfilled" ELSE ledger[p]
        /\ granted'[p] = IF p = pay[t] THEN granted[p] + 1 ELSE granted[p]
  BY <1>1 DEF CommitGrant, TypeOK
<1>3. \A u \in KnownUsers :
        welcome'[u] = IF u = User(t) /\ welcome[u] = 0 THEN 1 ELSE welcome[u]
  <2>1. CASE gift[t]
    BY <1>1, <2>1 DEF CommitGrant, TypeOK
  <2>2. CASE ~gift[t]
    BY <1>1, <2>2 DEF CommitGrant, TypeOK
  <2> QED  BY <2>1, <2>2
<1> QED  BY <1>1, <1>2, <1>3

\* A committed refund refunds one payment and grants nothing.
LEMMA CommitRefundEffect ==
  ASSUME TypeOK, Ownership, NEW t \in Tx, CommitRefund(t)
  PROVE  /\ pay[t] \in Payments /\ ledger[pay[t]] = "none"
         /\ \A p \in Payments : ledger'[p] = IF p = pay[t] THEN "refunded" ELSE ledger[p]
         /\ granted' = granted /\ welcome' = welcome
<1>1. pay[t] \in Payments /\ ledger[pay[t]] = "none"
  BY DEF CommitRefund, Ownership, WorksOnItsEvent, OwnsLedgerKey, Refunding
<1> QED  BY <1>1 DEF CommitRefund, TypeOK

\* Every step keeps one entitlement for each fulfilled payment.
LEMMA GrantedStep ==
  ASSUME TypeOK, Ownership, GrantedOnce, [Next]_vars
  PROVE  GrantedOnce'
<1>1. ASSUME NEW t \in Tx, CommitGrant(t)
      PROVE  GrantedOnce'
  BY <1>1, CommitGrantEffect DEF GrantedOnce, TypeOK
<1>2. ASSUME NEW t \in Tx, CommitRefund(t)
      PROVE  GrantedOnce'
  BY <1>2, CommitRefundEffect DEF GrantedOnce, TypeOK
<1>3. CASE \A t \in Tx : ~CommitGrant(t) /\ ~CommitRefund(t)
  BY <1>3, OnlyCommitsSettle DEF GrantedOnce, Settled
<1> QED  BY <1>1, <1>2, <1>3

\* Every step keeps the welcome gift with the first purchase.
LEMMA WelcomeStep ==
  ASSUME TypeOK, Ownership, WelcomeOnce, [Next]_vars
  PROVE  WelcomeOnce'
<1>1. ASSUME NEW t \in Tx, CommitGrant(t), NEW u \in KnownUsers
      PROVE  welcome'[u] = IF \E p \in Payments : NotesUser[p] = u /\ granted'[p] > 0
                           THEN 1 ELSE 0
  <2>1. CASE u = User(t)
    <3>1. NotesUser[pay[t]] = u /\ granted'[pay[t]] > 0 /\ pay[t] \in Payments
      BY <1>1, <2>1, CommitGrantEffect DEF User, TypeOK
    <3>2. welcome[u] \in {0, 1} /\ welcome'[u] = 1
      BY <1>1, <2>1, CommitGrantEffect DEF WelcomeOnce
    <3> QED  BY <3>1, <3>2
  <2>2. CASE u # User(t)
    <3>1. \A p \in Payments : NotesUser[p] = u => granted'[p] = granted[p]
      BY <1>1, <2>2, CommitGrantEffect DEF User
    <3>2. welcome'[u] = welcome[u]
      BY <1>1, <2>2, CommitGrantEffect
    <3> QED  BY <3>1, <3>2 DEF WelcomeOnce
  <2> QED  BY <2>1, <2>2
<1>2. ASSUME NEW t \in Tx, CommitRefund(t)
      PROVE  WelcomeOnce'
  BY <1>2, CommitRefundEffect DEF WelcomeOnce
<1>3. CASE \A t \in Tx : ~CommitGrant(t) /\ ~CommitRefund(t)
  BY <1>3, OnlyCommitsSettle DEF WelcomeOnce, Settled
<1> QED  BY <1>1, <1>2, <1>3 DEF WelcomeOnce

(* Fulfillment's inductive invariant holds in every reachable state. *)
THEOREM GrantInvariant == Spec => []GrantInv
<1>1. Init => GrantInv
  BY TypeInit, OwnershipInit
     DEF Init, GrantInv, Ownership, GrantedOnce, WelcomeOnce
<1>2. GrantInv /\ [Next]_vars => GrantInv'
  BY TypeStep, OwnershipStep, GrantedStep, WelcomeStep DEF GrantInv, Ownership
<1> QED  BY <1>1, <1>2, PTL DEF Spec

(* Type correctness of the settling transactions. *)
THEOREM TypeCorrect == Spec => []TypeOK
<1>1. GrantInv => TypeOK
  BY DEF GrantInv
<1> QED  BY <1>1, GrantInvariant, PTL

(* However many verify calls, deliveries, crashes and deadlock aborts race,  *)
(* a payment yields its entitlement once, exactly when it is fulfilled.      *)
THEOREM ExactlyOnceGrant == Spec => []GrantedOnce
<1>1. GrantInv => GrantedOnce
  BY DEF GrantInv
<1> QED  BY <1>1, GrantInvariant, PTL

(* The welcome gift comes with a user's first purchase and only with it. *)
THEOREM OneWelcomeGift == Spec => []WelcomeOnce
<1>1. GrantInv => WelcomeOnce
  BY DEF GrantInv
<1> QED  BY <1>1, GrantInvariant, PTL

-----------------------------------------------------------------------------
(* Every step of the transactions is a step of the ledger or a stutter. *)

\* The initial states are initial states of the abstract ledger.
LEMMA LedgerInit == Init => Ledger!Init
BY DEF Init, Ledger!Init

\* A committed grant is a grant of the abstract ledger.
LEMMA LedgerGrant ==
  ASSUME GrantInv, [Next]_vars, NEW t \in Tx, CommitGrant(t),
         NEW p \in Payments, p = pay[t]
  PROVE  Ledger!Grant(p)
<1>1. NotesUser[p] \in KnownUsers /\ ledger[p] = "none"
  BY CommitGrantEffect DEF GrantInv, Ownership, User
<1>2. ledger' = [ledger EXCEPT ![p] = "fulfilled"] /\ granted' = [granted EXCEPT ![p] = @ + 1]
  BY DEF CommitGrant
<1>3. welcome' = [welcome EXCEPT ![NotesUser[p]] = 1]
  <2>1. \A u \in KnownUsers : welcome[u] \in {0, 1}
    BY DEF GrantInv, WelcomeOnce
  <2>2. \A u \in KnownUsers : welcome'[u] = IF u = User(t) THEN 1 ELSE welcome[u]
    BY <2>1, CommitGrantEffect DEF GrantInv, Ownership
  <2>3. welcome \in [KnownUsers -> Nat] /\ welcome' \in [KnownUsers -> Nat]
    BY TypeStep DEF GrantInv, TypeOK
  <2> QED  BY <1>1, <2>2, <2>3 DEF User
<1>4. ledger \in [Payments -> {"none", "fulfilled", "refunded"}]
  BY DEF GrantInv, TypeOK
<1> QED  BY <1>1, <1>2, <1>3, <1>4 DEF Ledger!Grant

\* A committed refund is a refund of the abstract ledger.
LEMMA LedgerRefund ==
  ASSUME GrantInv, NEW t \in Tx, CommitRefund(t), NEW p \in Payments, p = pay[t]
  PROVE  Ledger!Refund(p)
<1>1. ledger[p] = "none" /\ granted' = granted /\ welcome' = welcome
  BY CommitRefundEffect DEF GrantInv, Ownership
<1>2. ledger' = [ledger EXCEPT ![p] = "refunded"]
  BY DEF CommitRefund
<1>3. ledger \in [Payments -> {"none", "fulfilled", "refunded"}]
  BY DEF GrantInv, TypeOK
<1> QED  BY <1>1, <1>2, <1>3 DEF Ledger!Refund

\* Every step is a step of the abstract ledger or a stutter.
LEMMA LedgerStep ==
  ASSUME GrantInv, [Next]_vars
  PROVE  [Ledger!Next]_(Ledger!vars)
<1>1. ASSUME NEW t \in Tx, CommitGrant(t)
      PROVE  Ledger!Next
  <2>1. pay[t] \in Payments
    BY <1>1, CommitGrantEffect DEF GrantInv, Ownership
  <2> QED  BY <1>1, <2>1, LedgerGrant DEF Ledger!Next
<1>2. ASSUME NEW t \in Tx, CommitRefund(t)
      PROVE  Ledger!Next
  <2>1. pay[t] \in Payments
    BY <1>2, CommitRefundEffect DEF GrantInv, Ownership
  <2> QED  BY <1>2, <2>1, LedgerRefund DEF Ledger!Next
<1>3. CASE \A t \in Tx : ~CommitGrant(t) /\ ~CommitRefund(t)
  <2>1. UNCHANGED Settled
    BY <1>3, OnlyCommitsSettle DEF GrantInv
  <2> QED  BY <2>1 DEF Settled, Ledger!vars
<1> QED  BY <1>1, <1>2, <1>3

(* The transactions implement the abstract ledger of PaymentLedger. *)
THEOREM Refinement == Spec => ImplementsLedger
<1>1. Spec => []GrantInv
  BY GrantInvariant
<1> QED  BY <1>1, LedgerInit, LedgerStep, PTL DEF Spec, ImplementsLedger, Ledger!Spec

-----------------------------------------------------------------------------
(* Deliveries: who opened an event id, who records it, who answers 2xx. *)

Records(t) == CommitGrant(t) \/ CommitRefund(t) \/ CommitEvent(t) \/ CommitFailed(t)
              \/ AuditDuplicate(t)

\* A step that is not a request's own leaves that request alone.
LEMMA Bystander ==
  ASSUME TypeOK, [Next]_vars, NEW o \in Tx
  PROVE  \/ /\ pc'[o] = pc[o] /\ held'[o] = held[o] /\ ev'[o] = ev[o]
            /\ pay'[o] = pay[o] /\ reply'[o] = reply[o]
         \/ o \in WebhookTx /\ pc[o] = "idle" /\ \E e \in Events : Webhook(o, e)
         \/ /\ o \in VerifyTx /\ pc[o] = "idle"
            /\ \E p \in Payments, matches \in BOOLEAN : VerifyPayment(o, p, matches)
         \/ Step(o) \/ DeadlockAbort(o) \/ Crash(o)
<1> DEFINE Alone == /\ pc'[o] = pc[o] /\ held'[o] = held[o] /\ ev'[o] = ev[o]
                    /\ pay'[o] = pay[o] /\ reply'[o] = reply[o]
<1>1. ASSUME NEW t \in Tx, Step(t), t # o
      PROVE  Alone
  BY <1>1 DEF TypeOK, Step, InsertEvent, EventUserFk, CommitEvent, CommitFailed, LockUser,
     InsertLedger, GrantEntitlement, CommitGrant, AuditDuplicate, InsertRefund,
     RefundUserFk, RefundAccepted, RefundRejected, CommitRefund, Goto, Rollback,
     RollbackAck, Finish
<1>2. ASSUME NEW t \in Tx, DeadlockAbort(t) \/ Crash(t), t # o
      PROVE  Alone
  BY <1>2 DEF TypeOK, DeadlockAbort, Rollback, Crash, Finish
<1>3. ASSUME NEW t \in VerifyTx, NEW p \in Payments, NEW matches \in BOOLEAN,
             VerifyPayment(t, p, matches)
      PROVE  pc[t] = "idle" /\ (t # o => Alone)
  BY <1>3 DEF TypeOK, Tx, VerifyPayment, Begin
<1>4. ASSUME NEW t \in WebhookTx, NEW e \in Events, Webhook(t, e)
      PROVE  pc[t] = "idle" /\ (t # o => Alone)
  BY <1>4 DEF TypeOK, Tx, Webhook, Begin
<1>5. CASE UNCHANGED vars
  BY <1>5 DEF vars, request
<1> HIDE DEF Alone
<1>6. Alone \/ ~Alone
  OBVIOUS
<1>7. CASE ~Alone
  <2>1. CASE \E t \in VerifyTx, p \in Payments, matches \in BOOLEAN : VerifyPayment(t, p, matches)
    BY <1>3, <1>7, <2>1
  <2>2. CASE \E t \in WebhookTx, e \in Events : Webhook(t, e)
    BY <1>4, <1>7, <2>2
  <2>3. CASE \E t \in Tx : Step(t) \/ DeadlockAbort(t) \/ Crash(t)
    BY <1>1, <1>2, <1>7, <2>3
  <2> QED  BY <1>5, <1>7, <2>1, <2>2, <2>3 DEF Next, Alone
<1> QED  BY <1>7 DEF Alone

\* A delivery moves by its own statements, an abort or a crash of its own, or
\* by the arrival of an event at an idle slot.
LEMMA OneActor ==
  ASSUME TypeOK, [Next]_vars, NEW o \in WebhookTx
  PROVE  \/ pc'[o] = pc[o] /\ held'[o] = held[o] /\ ev'[o] = ev[o] /\ pay'[o] = pay[o]
         \/ pc[o] = "idle" /\ \E e \in Events : Webhook(o, e)
         \/ Step(o) \/ DeadlockAbort(o) \/ Crash(o)
BY Bystander, BoundAssumption DEF Tx

\* An event row changes only by a delivery that records it, under its own key.
LEMMA EventChange ==
  ASSUME TypeOK, Ownership, [Next]_vars
  PROVE  \/ event' = event
         \/ \E t \in WebhookTx : Records(t) /\ \E s : event' = [event EXCEPT ![Key(t)] = s]
<1>1. ASSUME NEW t \in Tx, Step(t), ~Records(t)
      PROVE  event' = event
  BY <1>1 DEF Records, Step, InsertEvent, EventUserFk, LockUser,
     InsertLedger, GrantEntitlement, InsertRefund, RefundUserFk,
     RefundAccepted, RefundRejected, Goto, Rollback, RollbackAck, database
<1>2. ASSUME NEW t \in Tx, DeadlockAbort(t) \/ Crash(t)
      PROVE  event' = event
  BY <1>2 DEF DeadlockAbort, Rollback, Crash, database
<1>3. ASSUME NEW t \in VerifyTx, NEW p \in Payments, NEW matches \in BOOLEAN,
             VerifyPayment(t, p, matches)
      PROVE  event' = event
  BY <1>3 DEF VerifyPayment, Begin, database
<1>4. ASSUME NEW t \in WebhookTx, NEW e \in Events, Webhook(t, e)
      PROVE  event' = event
  BY <1>4 DEF Webhook, Begin, database
<1>5. ASSUME NEW t \in Tx, Records(t)
      PROVE  \/ event' = event
             \/ t \in WebhookTx /\ \E s : event' = [event EXCEPT ![Key(t)] = s]
  BY <1>5, BusyType DEF Ownership, Records, CommitGrant, CommitRefund, CommitEvent, CommitFailed,
     AuditDuplicate, RecordEvent
<1>6. CASE UNCHANGED vars
  BY <1>6 DEF vars, database
<1> QED  BY <1>1, <1>2, <1>3, <1>4, <1>5, <1>6 DEF Next

\* A settled payment keeps its status.
LEMMA StatusStays ==
  ASSUME TypeOK, Ownership, [Next]_vars, NEW p \in Payments, ledger[p] # "none"
  PROVE  ledger'[p] = ledger[p]
<1>1. ASSUME NEW t \in Tx, CommitGrant(t)
      PROVE  ledger'[p] = ledger[p]
  BY <1>1, CommitGrantEffect
<1>2. ASSUME NEW t \in Tx, CommitRefund(t)
      PROVE  ledger'[p] = ledger[p]
  BY <1>2, CommitRefundEffect
<1>3. CASE \A t \in Tx : ~CommitGrant(t) /\ ~CommitRefund(t)
  BY <1>3, OnlyCommitsSettle DEF Settled
<1> QED  BY <1>1, <1>2, <1>3

\* A settled payment stays settled.
LEMMA LedgerMonotone ==
  ASSUME TypeOK, Ownership, [Next]_vars, NEW p \in Payments, ledger[p] # "none"
  PROVE  ledger'[p] # "none"
BY StatusStays

(* An open delivery got there by inserting its event row. *)
LEMMA StaysOpen ==
  ASSUME TypeOK, Ownership, [Next]_vars, NEW o \in WebhookTx, pc'[o] \in EventOpen
  PROVE  /\ ev'[o] = ev[o] /\ pay'[o] = pay[o]
         /\ \/ pc[o] \in EventOpen /\ held[o] \subseteq held'[o]
            \/ /\ InsertEvent(o) /\ event[Key(o)] = "none"
               /\ held'[o] = held[o] \cup Wanted(o)
<1>1. ASSUME NEW e \in Events, Webhook(o, e)
      PROVE  FALSE
  BY <1>1 DEF Webhook, Begin, TypeOK, Tx, EventOpen, Granting, Refunding
<1>2. CASE DeadlockAbort(o) \/ Crash(o)
  BY <1>2 DEF DeadlockAbort, Rollback, Crash, Finish, TypeOK, Tx, EventOpen, Granting, Refunding
<1>3. CASE InsertEvent(o)
  BY <1>3 DEF InsertEvent, Goto, Rollback, RollbackAck, Finish, TypeOK, Tx, EventOpen,
     Granting, Refunding
<1>4. CASE EventUserFk(o) \/ LockUser(o) \/ RefundUserFk(o)
  BY <1>4 DEF EventUserFk, LockUser, RefundUserFk, Goto, RollbackAck, Finish, TypeOK, Tx,
     EventOpen, Granting, Refunding
<1>5. CASE InsertLedger(o) \/ InsertRefund(o)
  BY <1>5 DEF InsertLedger, InsertRefund, Goto, Rollback, Finish, TypeOK, Tx,
     EventOpen, Granting, Refunding
<1>6. CASE GrantEntitlement(o) \/ RefundAccepted(o) \/ RefundRejected(o)
  BY <1>6 DEF GrantEntitlement, RefundAccepted, RefundRejected, Finish, TypeOK, Tx,
     EventOpen, Granting, Refunding
<1>7. CASE Records(o)
  BY <1>7 DEF Records, CommitGrant, CommitRefund, CommitEvent, CommitFailed, AuditDuplicate,
     Finish, TypeOK, Tx, EventOpen, Granting, Refunding
<1>8. CASE pc'[o] = pc[o] /\ held'[o] = held[o] /\ ev'[o] = ev[o] /\ pay'[o] = pay[o]
  BY <1>8
<1> QED
  BY OneActor, <1>1, <1>2, <1>3, <1>4, <1>5, <1>6, <1>7, <1>8 DEF Step, Records

\* A delivery that records an event is alone with its key.
LEMMA RecorderKey ==
  ASSUME Ownership, OwnsEventKey, NEW t \in WebhookTx, Records(t),
         NEW o \in WebhookTx, o # t, EventLock(Key(o)) \in held[o]
  PROVE  Key(o) # Key(t)
<1>1. CASE AuditDuplicate(t)
  BY <1>1 DEF AuditDuplicate, Tx
<1>2. CASE ~AuditDuplicate(t)
  <2>1. pc[t] \in EventOpen
    BY <1>2 DEF Records, CommitGrant, CommitRefund, CommitEvent, CommitFailed, EventOpen,
       Granting, Refunding
  <2>2. EventLock(Key(t)) \in held[t]
    BY <2>1 DEF OwnsEventKey
  <2>3. EventLock(Key(t))[1] = "event"
    BY DEF EventLock
  <2> QED  BY <2>2, <2>3 DEF Ownership, OneOwner, Tx
<1> QED  BY <1>1, <1>2

\* Every step keeps the keys of open event rows exclusive.
LEMMA OwnsEventKeyStep ==
  ASSUME TypeOK, Ownership, OwnsEventKey, [Next]_vars
  PROVE  OwnsEventKey'
<1> SUFFICES ASSUME NEW o \in WebhookTx, pc'[o] \in EventOpen
             PROVE  EventLock(Key(o)') \in held'[o] /\ event'[Key(o)'] = "none"
  BY DEF OwnsEventKey
<1>1. Key(o)' = Key(o)
  BY StaysOpen DEF Key
<1>2. EventLock(Key(o)) \in held'[o] /\ event[Key(o)] = "none"
  <2>1. CASE pc[o] \in EventOpen /\ held[o] \subseteq held'[o]
    BY <2>1 DEF OwnsEventKey
  <2>2. CASE InsertEvent(o) /\ event[Key(o)] = "none" /\ held'[o] = held[o] \cup Wanted(o)
    <3>1. pc[o] = "insertEvent" /\ Key(o) \in EventKeys
      BY <2>2, BusyType DEF InsertEvent, Ownership, Tx
    <3> QED  BY <2>2, <3>1 DEF Wanted, Locks
  <2> QED  BY <2>1, <2>2, StaysOpen
<1>3. ASSUME NEW t \in WebhookTx, Records(t)
      PROVE  Key(t) # Key(o)
  <2>1. t # o
    BY <1>3 DEF Records, CommitGrant, CommitRefund, CommitEvent, CommitFailed,
       AuditDuplicate, Finish, TypeOK, Tx, EventOpen, Granting, Refunding
  <2>2. CASE pc[o] \in EventOpen
    BY <1>3, <2>1, <2>2, RecorderKey DEF OwnsEventKey
  <2>3. CASE InsertEvent(o)
    BY <1>3, <2>1, <2>3 DEF Records, CommitGrant, CommitRefund, CommitEvent, CommitFailed,
       AuditDuplicate, InsertEvent, Finish, TypeOK, Tx, EventOpen, Granting, Refunding
  <2> QED  BY <2>2, <2>3, StaysOpen
<1>4. event'[Key(o)] = "none"
  <2>1. Key(o) \in EventKeys
    BY StaysOpen, BusyType DEF InsertEvent, EventOpen, Granting, Refunding, Ownership, Tx
  <2> QED  BY <1>2, <1>3, <2>1, EventChange DEF TypeOK
<1> QED  BY <1>1, <1>2, <1>4

\* A delivery that records a captured event has settled its payment by then.
LEMMA RecordersSettle ==
  ASSUME TypeOK, Ownership, RecordedIsSettled, NEW t \in WebhookTx, Records(t),
         ev[t] \in Captured, User(t) \in KnownUsers
  PROVE  /\ ev[t] \in Events /\ pay[t] = EventPayment[ev[t]] /\ pay[t] \in Payments
         /\ ledger'[pay[t]] # "none"
<1>1. /\ pc[t] # "idle" /\ t \in Tx
      /\ ev[t] \in Events /\ pay[t] = EventPayment[ev[t]] /\ pay[t] \in Payments
  BY DEF Records, CommitGrant, CommitRefund, CommitEvent, CommitFailed, AuditDuplicate,
     Ownership, WorksOnItsEvent, Tx
<1>2. CASE CommitGrant(t) \/ CommitRefund(t)
  BY <1>1, <1>2, CommitGrantEffect, CommitRefundEffect
<1>3. CASE CommitEvent(t) \/ AuditDuplicate(t)
  BY <1>1, <1>3 DEF CommitEvent, AuditDuplicate, RecordedIsSettled
<1>4. CASE CommitFailed(t)
  BY <1>1, <1>4 DEF CommitFailed, RecordedIsSettled
<1> QED  BY <1>1, <1>2, <1>3, <1>4 DEF Records

\* Every step keeps recorded events settled.
LEMMA RecordedStep ==
  ASSUME DistinctKeys, TypeOK, Ownership, RecordedIsSettled, [Next]_vars
  PROVE  RecordedIsSettled'
<1>1. ASSUME NEW e \in Captured, NotesUser[EventPayment[e]] \in KnownUsers,
             event'[EventKey[e]] # "none"
      PROVE  ledger'[EventPayment[e]] # "none"
  <2>0. e \in Events /\ EventPayment[e] \in Payments /\ EventKey[e] \in EventKeys
    BY PaymentAssumption
  <2>1. CASE event[EventKey[e]] # "none"
    BY <1>1, <2>0, <2>1, LedgerMonotone DEF RecordedIsSettled
  <2>2. CASE event[EventKey[e]] = "none"
    <3>1. PICK t \in WebhookTx :
            Records(t) /\ \E s : event' = [event EXCEPT ![Key(t)] = s]
      BY <1>1, <2>2, EventChange
    <3>2. Key(t) = EventKey[e]
      BY <1>1, <2>0, <2>2, <3>1 DEF TypeOK
    <3>3. ev[t] \in Events /\ pay[t] = EventPayment[ev[t]]
      BY <3>1 DEF Records, CommitGrant, CommitRefund, CommitEvent, CommitFailed,
         AuditDuplicate, Ownership, WorksOnItsEvent, Tx
    <3>4. ev[t] = e
      BY <2>0, <3>2, <3>3 DEF DistinctKeys, Key
    <3> QED  BY <1>1, <3>1, <3>3, <3>4, RecordersSettle DEF User
  <2> QED  BY <2>1, <2>2
<1>2. ASSUME NEW t \in WebhookTx
      PROVE  /\ pc'[t] = "auditDuplicate" => ledger'[pay'[t]] # "none"
             /\ pc'[t] = "commitEvent" => ev'[t] \notin Captured \/ ledger'[pay'[t]] # "none"
             /\ pc'[t] = "commitFailed" => User(t)' \notin KnownUsers
  <2>1. CASE pc'[t] \in {"commitEvent", "commitFailed"}
    <3>1. pc'[t] \in EventOpen
      BY <2>1 DEF EventOpen
    <3>2. ev'[t] = ev[t] /\ pay'[t] = pay[t]
      BY <3>1, StaysOpen
    <3>3. /\ pc'[t] = "commitEvent" => ev[t] \notin Captured
                                        \/ (pay[t] \in Payments /\ ledger[pay[t]] # "none")
          /\ pc'[t] = "commitFailed" => User(t) \notin KnownUsers
      <4>1. CASE pc'[t] = pc[t]
        BY <2>1, <4>1 DEF RecordedIsSettled, Ownership, WorksOnItsEvent, Tx
      <4>2. CASE InsertEvent(t) \/ EventUserFk(t)
        BY <2>1, <4>2, UserAssumption DEF InsertEvent, EventUserFk, Goto, Rollback,
           RollbackAck, Finish, TypeOK, Tx
      <4>3. CASE InsertRefund(t)
        BY <2>1, <4>3 DEF InsertRefund, Goto, Rollback, Finish, TypeOK, Tx,
           Ownership, WorksOnItsEvent
      <4>4. CASE pc'[t] # pc[t] /\ ~InsertEvent(t) /\ ~EventUserFk(t) /\ ~InsertRefund(t)
        <5>1. ASSUME Step(t)  PROVE FALSE
          BY <2>1, <4>4, <5>1 DEF Step, CommitEvent, CommitFailed, LockUser,
             InsertLedger, GrantEntitlement, CommitGrant, AuditDuplicate, RefundUserFk,
             RefundAccepted, RefundRejected, CommitRefund, Goto, Rollback, Finish, TypeOK, Tx
        <5>2. ASSUME DeadlockAbort(t) \/ Crash(t)  PROVE FALSE
          BY <2>1, <5>2 DEF DeadlockAbort, Rollback, Crash, Finish, TypeOK, Tx
        <5>3. ASSUME NEW e \in Events, Webhook(t, e)  PROVE FALSE
          BY <2>1, <4>4, <5>3 DEF Webhook, Begin, TypeOK, Tx
        <5> QED  BY <4>4, <5>1, <5>2, <5>3, OneActor
      <4> QED  BY <4>1, <4>2, <4>3, <4>4
    <3>4. pc'[t] = "commitEvent" => ev[t] \notin Captured \/ ledger'[pay[t]] # "none"
      BY <3>3, LedgerMonotone
    <3>5. User(t)' = User(t)
      BY <3>2 DEF User
    <3> QED  BY <2>1, <3>2, <3>3, <3>4, <3>5
  <2>2. CASE pc'[t] = "auditDuplicate"
    <3>1. ASSUME pc[t] # "auditDuplicate"  PROVE InsertLedger(t)
      <4>1. ASSUME Step(t), ~InsertLedger(t)  PROVE FALSE
        BY <2>2, <3>1, <4>1 DEF Step, InsertEvent, EventUserFk, CommitEvent, CommitFailed,
           LockUser, GrantEntitlement, CommitGrant, AuditDuplicate, InsertRefund, RefundUserFk,
           RefundAccepted, RefundRejected, CommitRefund, Goto, Rollback, RollbackAck, Finish,
           TypeOK, Tx
      <4>2. ASSUME DeadlockAbort(t) \/ Crash(t)  PROVE FALSE
        BY <2>2, <4>2 DEF DeadlockAbort, Rollback, Crash, Finish, TypeOK, Tx
      <4>3. ASSUME NEW e \in Events, Webhook(t, e)  PROVE FALSE
        BY <2>2, <3>1, <4>3 DEF Webhook, Begin, TypeOK, Tx
      <4> QED  BY <2>2, <3>1, <4>1, <4>2, <4>3, OneActor
    <3>2. pay[t] \in Payments /\ pay'[t] = pay[t] /\ ledger[pay[t]] # "none"
      <4>1. CASE pc[t] = "auditDuplicate"
        <5>1. pay'[t] = pay[t]
          <6>1. CASE Step(t)
            BY <4>1, <2>2, <6>1 DEF Step, InsertEvent, EventUserFk, CommitEvent, CommitFailed,
               LockUser, InsertLedger, GrantEntitlement, CommitGrant, AuditDuplicate,
               InsertRefund, RefundUserFk, RefundAccepted, RefundRejected, CommitRefund,
               Finish
          <6>2. CASE DeadlockAbort(t) \/ Crash(t)
            BY <6>2 DEF DeadlockAbort, Rollback, Crash, Finish
          <6> QED  BY <4>1, <6>1, <6>2, OneActor
        <5> QED  BY <4>1, <5>1 DEF RecordedIsSettled, Ownership, WorksOnItsEvent, Tx
      <4>2. CASE pc[t] # "auditDuplicate"
        BY <2>2, <3>1, <4>2 DEF InsertLedger, Goto, Rollback, Finish, TypeOK, Tx, Ownership,
           WorksOnItsEvent
      <4> QED  BY <4>1, <4>2
    <3> QED  BY <2>2, <3>2, LedgerMonotone
  <2> QED  BY <2>1, <2>2
<1> QED  BY <1>1, <1>2 DEF RecordedIsSettled

\* Every step keeps acknowledged events settled.
LEMMA AckedStep ==
  ASSUME TypeOK, Ownership, OwnsEventKey, RecordedIsSettled, AckedIsSettled, [Next]_vars
  PROVE  AckedIsSettled'
<1> SUFFICES ASSUME NEW e \in acked' \cap Captured, NotesUser[EventPayment[e]] \in KnownUsers
             PROVE  ledger'[EventPayment[e]] # "none"
  BY DEF AckedIsSettled
<1>0. e \in Events /\ EventPayment[e] \in Payments /\ e \in Captured
  BY PaymentAssumption
<1>1. CASE ledger[EventPayment[e]] # "none"
  BY <1>0, <1>1, LedgerMonotone
<1>2. CASE ledger[EventPayment[e]] = "none"
  <2>0. e \notin acked /\ event[EventKey[e]] = "none"
    BY <1>0, <1>2 DEF AckedIsSettled, RecordedIsSettled
  <2>1. ASSUME NEW t \in Tx, Step(t)
        PROVE  t \in WebhookTx /\ ev[t] = e /\ Records(t)
    <3>1. CASE InsertEvent(t)
      <4>1. t \in WebhookTx /\ pay[t] = EventPayment[ev[t]]
        BY <3>1, BusyType DEF InsertEvent, Ownership, WorksOnItsEvent
      <4> QED
        BY <3>1, <4>1, <2>0 DEF InsertEvent, Goto, Rollback, RollbackAck, Key
    <3>2. CASE EventUserFk(t)
      <4>1. t \in WebhookTx /\ pay[t] = EventPayment[ev[t]]
        BY <3>2, BusyType DEF EventUserFk, Ownership, WorksOnItsEvent
      <4> QED
        BY <3>2, <4>1, <2>0, UserAssumption DEF EventUserFk, Goto, RollbackAck, User
    <3>3. CASE Records(t)
      <4>1. pc[t] # "idle" /\ (AuditDuplicate(t) => t \in WebhookTx)
        BY <3>3, BusyType DEF Records, CommitGrant, CommitRefund, CommitEvent, CommitFailed,
           AuditDuplicate, Ownership
      <4> QED
        BY <3>3, <4>1, <2>0 DEF Records, CommitGrant, CommitRefund, CommitEvent, CommitFailed,
           AuditDuplicate, AckIfWebhook
    <3>4. ASSUME ~InsertEvent(t), ~EventUserFk(t), ~Records(t)
          PROVE  FALSE
      BY <2>0, <2>1, <3>4 DEF Records, Step, LockUser, InsertLedger, GrantEntitlement,
         InsertRefund, RefundUserFk, RefundAccepted, RefundRejected, Goto, Rollback
    <3> QED  BY <3>1, <3>2, <3>3, <3>4
  <2>2. ASSUME NEW t \in Tx, DeadlockAbort(t) \/ Crash(t)
        PROVE  FALSE
    BY <2>0, <2>2 DEF DeadlockAbort, Rollback, Crash
  <2>3. ASSUME NEW t \in VerifyTx, NEW p \in Payments, NEW matches \in BOOLEAN,
               VerifyPayment(t, p, matches)
        PROVE  FALSE
    BY <2>0, <2>3 DEF VerifyPayment, Begin
  <2>4. ASSUME NEW t \in WebhookTx, NEW f \in Events, Webhook(t, f)
        PROVE  FALSE
    BY <2>0, <2>4 DEF Webhook, Begin
  <2>5. ASSUME UNCHANGED vars  PROVE FALSE
    BY <2>0, <2>5 DEF vars
  <2>6. PICK t \in WebhookTx : ev[t] = e /\ Records(t)
    BY <2>1, <2>2, <2>3, <2>4, <2>5 DEF Next
  <2>7. User(t) \in KnownUsers /\ pay[t] = EventPayment[e]
    BY <2>6 DEF Records, CommitGrant, CommitRefund, CommitEvent, CommitFailed,
       AuditDuplicate, Ownership, WorksOnItsEvent, Tx, User
  <2> QED  BY <1>0, <2>6, <2>7, RecordersSettle
<1> QED  BY <1>0, <1>1, <1>2 DEF TypeOK

(* Provided event ids tell events apart, Razorpay stops retrying a captured *)
(* payment of a known user only once that payment is settled.               *)
THEOREM AckedMeansSettled == DistinctKeys /\ Spec => []AckedIsSettled
<1>1. DistinctKeys /\ Init => DistinctKeys /\ AckInv
  <2>1. Init => OwnsEventKey /\ RecordedIsSettled /\ AckedIsSettled
    BY PaymentAssumption DEF Init, OwnsEventKey, RecordedIsSettled, AckedIsSettled, Tx,
       EventOpen, Granting, Refunding
  <2> QED
    BY <2>1, TypeInit, OwnershipInit
       DEF Init, AckInv, GrantInv, Ownership, GrantedOnce, WelcomeOnce
<1>2. (DistinctKeys /\ AckInv) /\ [Next]_vars => (DistinctKeys /\ AckInv)'
  BY TypeStep, OwnershipStep, GrantedStep, WelcomeStep, OwnsEventKeyStep, RecordedStep,
     AckedStep DEF AckInv, GrantInv, Ownership, DistinctKeys
<1>3. DistinctKeys /\ AckInv => AckedIsSettled
  BY DEF AckInv
<1> QED  BY <1>1, <1>2, <1>3, PTL DEF Spec

-----------------------------------------------------------------------------
(* Refunds: what is recorded of the money that went back. *)

AtCommitRefund(t) == pc[t] = "commitRefund"
Recorded == {p \in Payments : ledger[p] = "refunded" \/ \E t \in Tx : AtCommitRefund(t) /\ pay[t] = p}
LostRefunds == refunded \ Recorded

\* Razorpay has refunded what is recorded, and a refund that is not recorded
\* has cost a crash or a lost reply of its own.
RefundInv ==
  /\ GrantInv
  /\ Recorded \subseteq refunded
  /\ IsFiniteSet(LostRefunds) /\ Cardinality(LostRefunds) <= crashes

\* Nothing but the commit, or a crash, takes a transaction from its refund.
LEMMA RefundStays ==
  ASSUME TypeOK, [Next]_vars, NEW o \in Tx, AtCommitRefund(o)
  PROVE  \/ AtCommitRefund(o)' /\ pay'[o] = pay[o]
         \/ CommitRefund(o)
         \/ Crash(o)
<1>1. ASSUME Step(o)
      PROVE  CommitRefund(o)
  BY <1>1 DEF AtCommitRefund, Step, InsertEvent, EventUserFk, CommitEvent, CommitFailed, LockUser,
     InsertLedger, GrantEntitlement, CommitGrant, AuditDuplicate, InsertRefund,
     RefundUserFk, RefundAccepted, RefundRejected
<1>2. ~DeadlockAbort(o)
  <2>1. Wanted(o) = {}
    BY DEF Wanted, AtCommitRefund
  <2>2. Blockers(o) = {}
    BY <2>1 DEF Blockers
  <2> QED  BY <2>2 DEF DeadlockAbort, Deadlocked
<1> QED  BY <1>1, <1>2, Bystander DEF AtCommitRefund

\* What is recorded stays so, unless the transaction that would commit it dies.
LEMMA RecordedStays ==
  ASSUME GrantInv, [Next]_vars, NEW p \in Recorded
  PROVE  p \in Recorded' \/ \E t \in Tx : Crash(t) /\ pay[t] = p
<1>0. p \in Payments /\ TypeOK /\ Ownership
  BY DEF Recorded, GrantInv, Ownership
<1>1. CASE ledger[p] = "refunded"
  BY <1>0, <1>1, StatusStays DEF Recorded
<1>2. ASSUME NEW t \in Tx, AtCommitRefund(t), pay[t] = p
      PROVE  p \in Recorded' \/ (Crash(t) /\ pay[t] = p)
  <2>1. CASE AtCommitRefund(t)' /\ pay'[t] = pay[t]
    BY <1>0, <1>2, <2>1 DEF Recorded
  <2>2. CASE CommitRefund(t)
    BY <1>0, <1>2, <2>2, CommitRefundEffect DEF Recorded
  <2> QED  BY <1>0, <1>2, <2>1, <2>2, RefundStays
<1> QED  BY <1>1, <1>2 DEF Recorded

\* Money goes back only in the call to Razorpay.
LEMMA RefundedChange ==
  ASSUME TypeOK, [Next]_vars
  PROVE  \/ refunded' = refunded /\ (crashes' = crashes \/ crashes' = crashes + 1)
         \/ \E t \in Tx : RefundAccepted(t)
<1>1. ASSUME NEW t \in Tx, Step(t), ~RefundAccepted(t)
      PROVE  refunded' = refunded /\ crashes' = crashes
  BY <1>1 DEF Step, InsertEvent, EventUserFk, CommitEvent, CommitFailed, LockUser,
     InsertLedger, GrantEntitlement, CommitGrant, AuditDuplicate, InsertRefund,
     RefundUserFk, RefundRejected, CommitRefund, Goto, Rollback, RollbackAck, faults
<1>2. ASSUME NEW t \in Tx, DeadlockAbort(t) \/ Crash(t)
      PROVE  refunded' = refunded /\ (crashes' = crashes \/ crashes' = crashes + 1)
  BY <1>2 DEF DeadlockAbort, Rollback, Crash, faults
<1>3. ASSUME NEW t \in VerifyTx, NEW p \in Payments, NEW matches \in BOOLEAN,
             VerifyPayment(t, p, matches)
      PROVE  refunded' = refunded /\ crashes' = crashes
  BY <1>3 DEF VerifyPayment, Begin, faults
<1>4. ASSUME NEW t \in WebhookTx, NEW e \in Events, Webhook(t, e)
      PROVE  refunded' = refunded /\ crashes' = crashes
  BY <1>4 DEF Webhook, Begin, faults
<1>5. CASE UNCHANGED vars
  BY <1>5 DEF vars, faults
<1> QED  BY <1>1, <1>2, <1>3, <1>4, <1>5 DEF Next

\* Only who has called Razorpay is about to record a refund.
LEMMA RecordedChange ==
  ASSUME GrantInv, [Next]_vars, NEW p \in Recorded'
  PROVE  p \in Recorded \/ \E t \in Tx : RefundAccepted(t) /\ pay[t] = p
<1>0. p \in Payments /\ TypeOK /\ Ownership
  BY DEF Recorded, GrantInv, Ownership
<1>1. CASE ledger'[p] = "refunded"
  <2>1. ASSUME NEW t \in Tx, CommitGrant(t)
        PROVE  p \in Recorded
    BY <1>0, <1>1, <2>1, CommitGrantEffect DEF Recorded
  <2>2. ASSUME NEW t \in Tx, CommitRefund(t)
        PROVE  p \in Recorded
    <3>1. AtCommitRefund(t)
      BY <2>2 DEF CommitRefund, AtCommitRefund
    <3> QED  BY <1>0, <1>1, <2>2, <3>1, CommitRefundEffect DEF Recorded
  <2>3. CASE \A t \in Tx : ~CommitGrant(t) /\ ~CommitRefund(t)
    BY <1>0, <1>1, <2>3, OnlyCommitsSettle DEF Recorded, Settled
  <2> QED  BY <2>1, <2>2, <2>3
<1>2. ASSUME NEW o \in Tx, AtCommitRefund(o)', pay'[o] = p
      PROVE  p \in Recorded \/ (RefundAccepted(o) /\ pay[o] = p)
  <2>1. CASE Step(o)
    <3>1. RefundAccepted(o)
      BY <1>0, <1>2, <2>1 DEF TypeOK, AtCommitRefund, Step, InsertEvent, EventUserFk, CommitEvent,
         CommitFailed, LockUser, InsertLedger, GrantEntitlement, CommitGrant, AuditDuplicate,
         InsertRefund, RefundUserFk, RefundRejected, CommitRefund, Goto, Rollback,
         RollbackAck, Finish
    <3> QED  BY <1>2, <3>1 DEF RefundAccepted, Finish
  <2>2. ASSUME DeadlockAbort(o) \/ Crash(o)  PROVE FALSE
    BY <1>0, <1>2, <2>2 DEF TypeOK, DeadlockAbort, Rollback, Crash, Finish, AtCommitRefund
  <2>3. ASSUME NEW q \in Payments, NEW matches \in BOOLEAN, VerifyPayment(o, q, matches)
        PROVE  FALSE
    BY <1>0, <1>2, <2>3 DEF TypeOK, VerifyPayment, Begin, AtCommitRefund
  <2>4. ASSUME NEW e \in Events, Webhook(o, e), pc[o] = "idle"
        PROVE  FALSE
    BY <1>0, <1>2, <2>4 DEF TypeOK, Webhook, Begin, AtCommitRefund
  <2>5. pc'[o] = pc[o] /\ pay'[o] = pay[o] => p \in Recorded
    BY <1>0, <1>2 DEF Recorded, AtCommitRefund
  <2> QED  BY <1>0, <2>1, <2>2, <2>3, <2>4, <2>5, Bystander
<1> QED  BY <1>1, <1>2 DEF Recorded

\* At most one process dies in a step.
LEMMA OneCrash ==
  ASSUME TypeOK, NEW t \in Tx, NEW o \in Tx, Crash(t), Crash(o)
  PROVE  t = o
BY DEF TypeOK, Crash, Finish

\* Initially no money has gone back.
LEMMA RefundInit == Init => RefundInv
<1> SUFFICES ASSUME Init PROVE RefundInv
  OBVIOUS
<1>1. GrantInv
  BY TypeInit, OwnershipInit DEF Init, GrantInv, Ownership, GrantedOnce, WelcomeOnce
<1>2. Recorded = {} /\ LostRefunds = {}
  BY DEF Init, Recorded, LostRefunds, AtCommitRefund
<1>3. crashes = 0
  BY DEF Init
<1> QED  BY <1>1, <1>2, <1>3, FS_EmptySet DEF RefundInv

\* Every step keeps the count: a refund loses its record only with a crash of
\* the transaction that would write it, or with the answer to the call.
LEMMA RefundInvStep == RefundInv /\ [Next]_vars => RefundInv'
<1> SUFFICES ASSUME RefundInv, [Next]_vars PROVE RefundInv'
  OBVIOUS
<1>0. TypeOK /\ TypeOK' /\ GrantInv /\ GrantInv'
  BY TypeStep, OwnershipStep, GrantedStep, WelcomeStep DEF RefundInv, GrantInv, Ownership
<1>1. crashes \in Nat /\ crashes' \in Nat
  BY <1>0, BoundAssumption DEF TypeOK
<1>2. IsFiniteSet(LostRefunds) /\ Cardinality(LostRefunds) <= crashes /\ Recorded \subseteq refunded
  BY DEF RefundInv
<1>3. refunded \subseteq refunded'
  BY <1>0, RefundedChange DEF RefundAccepted
<1>4. Recorded' \subseteq refunded'
  <2> SUFFICES ASSUME NEW p \in Recorded' PROVE p \in refunded'
    OBVIOUS
  <2>1. ASSUME NEW t \in Tx, RefundAccepted(t), pay[t] = p
        PROVE  p \in refunded'
    BY <2>1 DEF RefundAccepted
  <2> QED  BY <1>0, <1>2, <1>3, <2>1, RecordedChange
<1>5. IsFiniteSet(LostRefunds') /\ Cardinality(LostRefunds') <= crashes'
  <2>a. ASSUME LostRefunds' \subseteq LostRefunds, crashes <= crashes'
        PROVE  IsFiniteSet(LostRefunds') /\ Cardinality(LostRefunds') <= crashes'
    <3>1. IsFiniteSet(LostRefunds') /\ Cardinality(LostRefunds') <= Cardinality(LostRefunds)
      BY <1>2, <2>a, FS_Subset
    <3>2. Cardinality(LostRefunds') \in Nat /\ Cardinality(LostRefunds) \in Nat
      BY <1>2, <3>1, FS_CardinalityType
    <3> QED  BY <1>1, <1>2, <2>a, <3>1, <3>2
  <2>b. ASSUME NEW x, LostRefunds' \subseteq LostRefunds \cup {x}, crashes' = crashes + 1
        PROVE  IsFiniteSet(LostRefunds') /\ Cardinality(LostRefunds') <= crashes'
    <3>1. /\ IsFiniteSet(LostRefunds \cup {x})
          /\ \/ Cardinality(LostRefunds \cup {x}) = Cardinality(LostRefunds)
             \/ Cardinality(LostRefunds \cup {x}) = Cardinality(LostRefunds) + 1
      BY <1>2, FS_AddElement
    <3>2. IsFiniteSet(LostRefunds') /\ Cardinality(LostRefunds') <= Cardinality(LostRefunds \cup {x})
      BY <2>b, <3>1, FS_Subset
    <3>3. Cardinality(LostRefunds') \in Nat /\ Cardinality(LostRefunds) \in Nat
      BY <1>2, <3>2, FS_CardinalityType
    <3>4. Cardinality(LostRefunds \cup {x}) <= Cardinality(LostRefunds) + 1
      BY <3>1, <3>3
    <3> QED  BY <1>1, <1>2, <2>b, <3>1, <3>2, <3>3, <3>4
  <2>1. ASSUME NEW t \in Tx, RefundAccepted(t)
        PROVE  IsFiniteSet(LostRefunds') /\ Cardinality(LostRefunds') <= crashes'
    <3>1. pay[t] \notin refunded /\ refunded' = refunded \cup {pay[t]}
      BY <2>1 DEF RefundAccepted
    <3>2. \A u \in Tx : ~Crash(u)
      BY <3>1 DEF Crash
    <3>3. Recorded \subseteq Recorded'
      BY <1>0, <3>2, RecordedStays
    <3>4. LostRefunds' \subseteq LostRefunds \cup {pay[t]}
      BY <3>1, <3>3 DEF LostRefunds
    <3>5. CASE pc' = [pc EXCEPT ![t] = "commitRefund"] /\ UNCHANGED <<pay, faults>>
      <4>1. pay'[t] = pay[t] /\ pay[t] \in Payments /\ AtCommitRefund(t)' /\ crashes' = crashes
        <5>1. pc[t] # "idle"
          BY <2>1 DEF RefundAccepted
        <5>2. pay[t] \in Payments
          BY <1>0, <5>1 DEF GrantInv, WorksOnItsEvent
        <5>3. pc'[t] = "commitRefund"
          BY <1>0, <3>5 DEF TypeOK
        <5> QED  BY <3>5, <5>2, <5>3 DEF AtCommitRefund, faults
      <4>2. pay[t] \in Recorded'
        BY <4>1 DEF Recorded
      <4>3. LostRefunds' \subseteq LostRefunds
        BY <3>1, <3>3, <4>2 DEF LostRefunds
      <4> QED  BY <1>1, <2>a, <4>1, <4>3
    <3>6. CASE crashes' = crashes + 1
      BY <2>b, <3>4, <3>6
    <3> QED  BY <2>1, <3>5, <3>6 DEF RefundAccepted
  <2>2. ASSUME NEW t \in Tx, Crash(t)
        PROVE  IsFiniteSet(LostRefunds') /\ Cardinality(LostRefunds') <= crashes'
    <3>1. refunded' = refunded /\ crashes' = crashes + 1
      BY <2>2 DEF Crash
    <3>2. \A u \in Tx : Crash(u) => u = t
      BY <1>0, <2>2, OneCrash
    <3>3. Recorded \subseteq Recorded' \cup {pay[t]}
      <4> SUFFICES ASSUME NEW p \in Recorded, p # pay[t] PROVE p \in Recorded'
        OBVIOUS
      <4> QED  BY <1>0, <3>2, RecordedStays
    <3>4. LostRefunds' \subseteq LostRefunds \cup {pay[t]}
      BY <3>1, <3>3 DEF LostRefunds
    <3> QED  BY <2>b, <3>1, <3>4
  <2>3. CASE \A t \in Tx : ~RefundAccepted(t) /\ ~Crash(t)
    <3>1. Recorded \subseteq Recorded'
      BY <1>0, <2>3, RecordedStays
    <3>2. refunded' = refunded /\ (crashes' = crashes \/ crashes' = crashes + 1)
      BY <1>0, <2>3, RefundedChange
    <3>3. LostRefunds' \subseteq LostRefunds
      BY <3>1, <3>2 DEF LostRefunds
    <3> QED  BY <1>1, <2>a, <3>2, <3>3
  <2> QED  BY <2>1, <2>2, <2>3
<1> QED  BY <1>0, <1>4, <1>5 DEF RefundInv

(* Each crash and each lost answer costs the record of at most one refund,  *)
(* and the ledger never records a refund that was not made.                 *)
THEOREM RefundsOnRecord ==
  Spec => [](/\ Recorded \subseteq refunded
             /\ IsFiniteSet(LostRefunds) /\ Cardinality(LostRefunds) <= crashes)
<1>1. RefundInv => /\ Recorded \subseteq refunded
                   /\ IsFiniteSet(LostRefunds) /\ Cardinality(LostRefunds) <= crashes
  BY DEF RefundInv
<1> QED  BY <1>1, RefundInit, RefundInvStep, PTL DEF Spec

(* While no process dies and no answer of Razorpay is lost, the money of a  *)
(* payment is back exactly when the ledger says so, or is about to.         *)
THEOREM MoneyBackRecorded == MaxCrashes = 0 /\ Spec => []RefundedMoneyIsRecorded
<1> SUFFICES ASSUME MaxCrashes = 0 PROVE Spec => []RefundedMoneyIsRecorded
  OBVIOUS
<1>1. RefundInv => RefundedMoneyIsRecorded
  <2> SUFFICES ASSUME RefundInv PROVE RefundedMoneyIsRecorded
    OBVIOUS
  <2>1. crashes = 0
    BY DEF RefundInv, GrantInv, TypeOK
  <2>2. IsFiniteSet(LostRefunds) /\ Cardinality(LostRefunds) \in Nat /\ Cardinality(LostRefunds) <= 0
    BY <2>1, FS_CardinalityType DEF RefundInv
  <2>3. LostRefunds = {}
    BY <2>2, FS_EmptySet
  <2>4. refunded = Recorded
    BY <2>3 DEF LostRefunds, RefundInv
  <2> QED  BY <2>4 DEF Recorded, AtCommitRefund, RefundedMoneyIsRecorded
<1> QED  BY <1>1, RefundInit, RefundInvStep, PTL DEF Spec

\* The payments whose customer has both the entitlement and the money back.
KeptBoth == {p \in Payments : granted[p] > 0 /\ p \in refunded}

(* A customer keeps both only where a crash or a lost answer took the       *)
(* record of the refund: refund_unfulfillable_payment commits its row after *)
(* the call, so there is one such payment at most for each of them.         *)
THEOREM BothOnlyAfterCrash ==
  Spec => [](IsFiniteSet(KeptBoth) /\ Cardinality(KeptBoth) <= crashes)
<1>1. RefundInv => IsFiniteSet(KeptBoth) /\ Cardinality(KeptBoth) <= crashes
  <2> SUFFICES ASSUME RefundInv
               PROVE  IsFiniteSet(KeptBoth) /\ Cardinality(KeptBoth) <= crashes
    OBVIOUS
  <2>1. TypeOK /\ GrantedOnce /\ OwnsLedgerKey
    BY DEF RefundInv, GrantInv
  <2>2. KeptBoth \cap Recorded = {}
    <3> SUFFICES ASSUME NEW p \in KeptBoth, p \in Recorded PROVE FALSE
      OBVIOUS
    <3>1. ledger[p] = "fulfilled"
      BY <2>1 DEF KeptBoth, GrantedOnce
    <3>2. PICK t \in Tx : AtCommitRefund(t) /\ pay[t] = p
      BY <3>1 DEF Recorded
    <3> QED  BY <2>1, <3>1, <3>2 DEF OwnsLedgerKey, AtCommitRefund, Refunding
  <2>3. KeptBoth \subseteq LostRefunds
    BY <2>2 DEF KeptBoth, LostRefunds
  <2>4. IsFiniteSet(LostRefunds) /\ Cardinality(LostRefunds) <= crashes
    BY DEF RefundInv
  <2>5. IsFiniteSet(KeptBoth) /\ Cardinality(KeptBoth) <= Cardinality(LostRefunds)
    BY <2>3, <2>4, FS_Subset
  <2>6. Cardinality(KeptBoth) \in Nat /\ Cardinality(LostRefunds) \in Nat /\ crashes \in Nat
    BY <2>1, <2>4, <2>5, FS_CardinalityType, BoundAssumption DEF TypeOK
  <2> QED  BY <2>4, <2>5, <2>6
<1> QED  BY <1>1, RefundInit, RefundInvStep, PTL DEF Spec

(* Whatever crashes, the money of a payment that has been granted does not  *)
(* go back any more: both paths insert the ledger row before they act.      *)
THEOREM NoRefundAfterGrant ==
  Spec => [][\A p \in Payments : granted[p] > 0 /\ p \notin refunded => p \notin refunded']_vars
<1>1. GrantInv /\ [Next]_vars =>
        [\A p \in Payments : granted[p] > 0 /\ p \notin refunded => p \notin refunded']_vars
  <2> SUFFICES ASSUME GrantInv, [Next]_vars, NEW p \in Payments, granted[p] > 0,
                      p \notin refunded
               PROVE  p \notin refunded'
    OBVIOUS
  <2>1. ledger[p] = "fulfilled"
    BY DEF GrantInv, GrantedOnce
  <2>2. ASSUME NEW t \in Tx, RefundAccepted(t)
        PROVE  p \notin refunded'
    <3>1. ledger[pay[t]] = "none" /\ refunded' = refunded \cup {pay[t]}
      BY <2>2 DEF RefundAccepted, GrantInv, OwnsLedgerKey, Refunding
    <3> QED  BY <2>1, <3>1
  <2> QED  BY <2>2, RefundedChange DEF GrantInv
<1> QED  BY <1>1, GrantInvariant, PTL DEF Spec

-----------------------------------------------------------------------------
(* Deadlocks: which cycles of waiting transactions there are.               *)

\* What a transaction may hold at each statement.
HoldsOnly ==
  \A t \in Tx : \A l \in held[t] :
    \/ t \in WebhookTx /\ pc[t] \in EventOpen /\ l = EventLock(Key(t))
    \/ /\ l = ShareLock(User(t))
       /\ \/ pc[t] \in {"callRefund", "commitRefund"}
          \/ t \in WebhookTx /\ pc[t] \in EventOpen \ {"eventUserFk"}
    \/ l = RowLock(User(t)) /\ pc[t] \in {"insertLedger"} \cup Granting
    \/ l = LedgerLock(pay[t]) /\ pc[t] \in Granting \cup Refunding

\* Only an order that passes validation is granted, and a delivery refunds
\* only one that does not.
Branches ==
  \A t \in Tx :
    /\ pc[t] \in {"lockUser", "insertLedger"} \cup Granting => pay[t] \in Payable
    /\ t \in WebhookTx /\ pc[t] \in {"insertRefund"} \cup Refunding => pay[t] \notin Payable

\* A verify call with the body of another item refunds the payment that
\* another request is granting: one waits for the user, one for the ledger.
MismatchedBody(t, o) ==
  /\ pc[t] = "insertLedger"
  /\ o \in VerifyTx /\ pc[o] = "refundUserFk" /\ pay[o] = pay[t]

\* Two deliveries have inserted event rows of one user, each with a share lock
\* on the user's row, and both want to lock it for update.
TwoDeliveries(t, o) ==
  /\ t \in WebhookTx /\ o \in WebhookTx /\ t # o
  /\ pc[t] = "lockUser" /\ pc[o] = "lockUser" /\ User(t) = User(o)

DeadlockShapes ==
  \A S \in SUBSET Tx :
    S # {} /\ (\A x \in S : Blockers(x) \cap S # {}) =>
      \E t, o \in S : MismatchedBody(t, o) \/ TwoDeliveries(t, o)

LockInv == GrantInv /\ HoldsOnly /\ Branches

\* Initially nobody holds or wants anything.
LEMMA LockInit == Init => LockInv
BY TypeInit, OwnershipInit
   DEF Init, LockInv, GrantInv, Ownership, GrantedOnce, WelcomeOnce, HoldsOnly, Branches,
       Granting, Refunding

\* Every step keeps to the locks of its statement.
LEMMA LockStep == LockInv /\ [Next]_vars => LockInv'
<1> SUFFICES ASSUME LockInv, [Next]_vars PROVE LockInv'
  OBVIOUS
<1>0. TypeOK /\ WorksOnItsEvent /\ GrantInv /\ GrantInv'
  BY TypeStep, OwnershipStep, GrantedStep, WelcomeStep DEF LockInv, GrantInv, Ownership
<1> DEFINE Fits(t, c, h, p, e) ==
      /\ \A l \in h :
           \/ t \in WebhookTx /\ c \in EventOpen /\ l = EventLock(EventKey[e])
           \/ /\ l = ShareLock(NotesUser[p])
              /\ \/ c \in {"callRefund", "commitRefund"}
                 \/ t \in WebhookTx /\ c \in EventOpen \ {"eventUserFk"}
           \/ l = RowLock(NotesUser[p]) /\ c \in {"insertLedger"} \cup Granting
           \/ l = LedgerLock(p) /\ c \in Granting \cup Refunding
      /\ c \in {"lockUser", "insertLedger"} \cup Granting => p \in Payable
      /\ t \in WebhookTx /\ c \in {"insertRefund"} \cup Refunding => p \notin Payable
<1>1. \A t \in Tx : Fits(t, pc[t], held[t], pay[t], ev[t])
  BY DEF LockInv, HoldsOnly, Branches, User, Key
<1>2. ASSUME NEW t \in Tx
      PROVE  Fits(t, pc'[t], held'[t], pay'[t], ev'[t])
  <2> USE DEF EventOpen, Granting, Refunding
  <2>1. CASE pc'[t] = pc[t] /\ held'[t] = held[t] /\ pay'[t] = pay[t] /\ ev'[t] = ev[t]
    BY <1>1, <2>1
  <2>2. ASSUME NEW r, Finish(t, r)
        PROVE  Fits(t, pc'[t], held'[t], pay'[t], ev'[t])
    BY <1>0, <2>2 DEF Finish, TypeOK
  <2>3. ASSUME NEW e \in Events, Webhook(t, e), pc[t] = "idle"
        PROVE  Fits(t, pc'[t], held'[t], pay'[t], ev'[t])
    <3>1. held'[t] = held[t] /\ held[t] = {} /\ pc'[t] \in {"idle", "insertEvent"}
      BY <1>0, <1>1, <2>3 DEF Webhook, Begin, TypeOK
    <3> QED  BY <3>1
  <2>4. ASSUME t \in VerifyTx, NEW p \in Payments, NEW matches \in BOOLEAN,
               VerifyPayment(t, p, matches), pc[t] = "idle"
        PROVE  Fits(t, pc'[t], held'[t], pay'[t], ev'[t])
    <3>1. held'[t] = held[t] /\ held[t] = {} /\ pay'[t] = p /\ t \notin WebhookTx
      BY <1>0, <1>1, <2>4, BoundAssumption DEF VerifyPayment, Begin, TypeOK
    <3>2. pc'[t] = IF p \in Payable /\ matches THEN "lockUser" ELSE "insertRefund"
      BY <1>0, <2>4 DEF VerifyPayment, Begin, TypeOK
    <3> QED  BY <3>1, <3>2
  <2>5. ASSUME NEW s, Goto(t, s)
        PROVE  /\ pc'[t] = s /\ held'[t] = held[t] \cup Wanted(t)
               /\ pay'[t] = pay[t] /\ ev'[t] = ev[t]
    BY <1>0, <2>5 DEF Goto, TypeOK
  <2>6. CASE Step(t)
    <3>1. CASE InsertEvent(t)
      <4>1. t \in WebhookTx /\ \A l \in Wanted(t) : l = EventLock(EventKey[ev[t]])
        BY <1>0, <3>1, BusyType DEF InsertEvent, Wanted, Key
      <4>2. held[t] = {}
        BY <1>1, <3>1 DEF InsertEvent
      <4> QED
        BY <2>2, <2>5, <3>1, <4>1, <4>2 DEF InsertEvent, Rollback, RollbackAck
    <3>2. CASE EventUserFk(t)
      <4>1. t \in WebhookTx /\ \A l \in Wanted(t) : l = ShareLock(NotesUser[pay[t]])
        BY <1>0, <3>2, BusyType DEF EventUserFk, Wanted, User
      <4>2. \A l \in held[t] : l = EventLock(EventKey[ev[t]])
        BY <1>1, <3>2 DEF EventUserFk
      <4>3. ASSUME NEW s \in {"commitEvent", "commitFailed"}, Goto(t, s)
            PROVE  Fits(t, pc'[t], held'[t], pay'[t], ev'[t])
        BY <2>5, <4>1, <4>2, <4>3
      <4>4. CASE Goto(t, IF pay[t] \in Payable THEN "lockUser" ELSE "insertRefund")
        <5>1. CASE pay[t] \in Payable
          BY <2>5, <4>1, <4>2, <4>4, <5>1
        <5>2. CASE pay[t] \notin Payable
          BY <2>5, <4>1, <4>2, <4>4, <5>2
        <5> QED  BY <5>1, <5>2
      <4> QED  BY <2>2, <3>2, <4>3, <4>4 DEF EventUserFk, RollbackAck
    <3>3. CASE LockUser(t)
      <4>1. Goto(t, "insertLedger") /\ \A l \in Wanted(t) : l = RowLock(NotesUser[pay[t]])
        BY <3>3 DEF LockUser, Wanted, User
      <4>2. pc[t] = "lockUser"
        BY <3>3 DEF LockUser
      <4> QED  BY <1>1, <2>5, <4>1, <4>2
    <3>4. CASE InsertLedger(t)
      <4>1. pc[t] = "insertLedger" /\ \A l \in Wanted(t) : l = LedgerLock(pay[t])
        BY <3>4 DEF InsertLedger, Wanted
      <4>2. CASE Goto(t, "grant")
        BY <1>1, <2>5, <4>1, <4>2
      <4>3. CASE Rollback(t, "already_fulfilled")
        BY <2>2, <4>3 DEF Rollback
      <4>4. CASE pc'[t] = "auditDuplicate" /\ held'[t] = {}
        BY <4>4
      <4> QED  BY <1>0, <3>4, <4>2, <4>3, <4>4 DEF InsertLedger, TypeOK
    <3>5. CASE GrantEntitlement(t)
      <4>1. /\ pc[t] = "grant" /\ pc'[t] = "commitGrant"
            /\ held'[t] = held[t] /\ pay'[t] = pay[t] /\ ev'[t] = ev[t]
        BY <1>0, <3>5 DEF GrantEntitlement, TypeOK
      <4> QED  BY <1>1, <4>1
    <3>6. CASE InsertRefund(t)
      <4>1. pc[t] = "insertRefund" /\ \A l \in Wanted(t) : l = LedgerLock(pay[t])
        BY <3>6 DEF InsertRefund, Wanted
      <4>2. CASE Goto(t, "refundUserFk")
        BY <1>1, <2>5, <4>1, <4>2
      <4>3. CASE Rollback(t, "already_fulfilled")
        BY <2>2, <4>3 DEF Rollback
      <4>4. CASE /\ pc'[t] = "commitEvent" /\ held'[t] = held[t]
                 /\ pay'[t] = pay[t] /\ ev'[t] = ev[t] /\ t \in WebhookTx
        BY <1>1, <4>1, <4>4
      <4> QED  BY <1>0, <3>6, <4>2, <4>3, <4>4 DEF InsertRefund, TypeOK
    <3>7. CASE RefundUserFk(t)
      <4>1. /\ pc[t] = "refundUserFk" /\ Goto(t, "callRefund")
            /\ \A l \in Wanted(t) : l = ShareLock(NotesUser[pay[t]])
        BY <3>7 DEF RefundUserFk, Wanted, User
      <4> QED  BY <1>1, <2>5, <4>1
    <3>8. CASE RefundAccepted(t)
      <4>1. CASE /\ pc[t] = "callRefund" /\ pc'[t] = "commitRefund"
                 /\ held'[t] = held[t] /\ pay'[t] = pay[t] /\ ev'[t] = ev[t]
        BY <1>1, <4>1
      <4> QED  BY <1>0, <2>2, <3>8, <4>1 DEF RefundAccepted, TypeOK
    <3> QED
      BY <2>2, <2>6, <3>1, <3>2, <3>3, <3>4, <3>5, <3>6, <3>7, <3>8
         DEF Step, CommitEvent, CommitFailed, CommitGrant, AuditDuplicate, RefundRejected,
             CommitRefund
  <2> QED
    BY <1>0, <2>1, <2>2, <2>3, <2>4, <2>6, Bystander
       DEF DeadlockAbort, Rollback, Crash
<1>3. HoldsOnly' /\ Branches'
  BY <1>2 DEF HoldsOnly, Branches, User, Key
<1> QED  BY <1>0, <1>3 DEF LockInv

\* Who waits, and for which of the transactions that wait themselves.
LEMMA WaitsFor ==
  ASSUME LockInv, NEW x \in Tx, NEW o \in Blockers(x), Blockers(o) # {}
  PROVE  \/ /\ pc[x] = "insertEvent" /\ o \in WebhookTx
            /\ pc[o] \in {"eventUserFk", "lockUser", "insertLedger", "insertRefund", "refundUserFk"}
         \/ /\ pc[x] \in {"insertLedger", "insertRefund"}
            /\ pc[o] = "refundUserFk" /\ pay[o] = pay[x]
         \/ /\ pc[x] = "lockUser" /\ User(o) = User(x)
            /\ \/ pc[o] = "insertLedger"
               \/ o \in WebhookTx /\ pc[o] \in {"lockUser", "insertRefund", "refundUserFk"}
         \/ pc[x] \in {"eventUserFk", "refundUserFk"} /\ pc[o] = "insertLedger"
<1>1. o \in Tx
  BY DEF Blockers
<1>2. pc[o] \in {"insertEvent", "eventUserFk", "lockUser", "insertLedger", "insertRefund",
                 "refundUserFk"}
  BY <1>1 DEF Blockers, Wanted
<1>3. PICK l \in Wanted(x), m \in held[o] : Conflict(l, m)
  BY DEF Blockers
<1>4. \/ o \in WebhookTx /\ pc[o] # "insertEvent" /\ m = EventLock(Key(o))
      \/ /\ m = ShareLock(User(o)) /\ o \in WebhookTx
         /\ pc[o] \in {"lockUser", "insertLedger", "insertRefund", "refundUserFk"}
      \/ m = RowLock(User(o)) /\ pc[o] = "insertLedger"
      \/ m = LedgerLock(pay[o]) /\ pc[o] = "refundUserFk"
  BY <1>1, <1>2, <1>3 DEF LockInv, HoldsOnly, EventOpen, Granting, Refunding
<1>5. \/ pc[x] = "insertEvent" /\ l = EventLock(Key(x))
      \/ pc[x] \in {"insertLedger", "insertRefund"} /\ l = LedgerLock(pay[x])
      \/ pc[x] = "lockUser" /\ l = RowLock(User(x))
      \/ pc[x] \in {"eventUserFk", "refundUserFk"} /\ l = ShareLock(User(x))
  BY <1>3 DEF Wanted
<1>6. \/ l = m /\ l[1] # "share"
      \/ \E u \in KnownUsers : l = RowLock(u) /\ m = ShareLock(u)
      \/ \E u \in KnownUsers : l = ShareLock(u) /\ m = RowLock(u)
  BY <1>3 DEF Conflict, RowLock, ShareLock
<1>7. CASE pc[x] = "insertEvent"
  BY <1>2, <1>4, <1>5, <1>6, <1>7 DEF EventLock, LedgerLock, RowLock, ShareLock
<1>8. CASE pc[x] \in {"insertLedger", "insertRefund"}
  BY <1>2, <1>4, <1>5, <1>6, <1>8 DEF EventLock, LedgerLock, RowLock, ShareLock
<1>9. CASE pc[x] = "lockUser"
  BY <1>2, <1>4, <1>5, <1>6, <1>9 DEF EventLock, LedgerLock, RowLock, ShareLock
<1>10. CASE pc[x] \in {"eventUserFk", "refundUserFk"}
  BY <1>2, <1>4, <1>5, <1>6, <1>10 DEF EventLock, LedgerLock, RowLock, ShareLock
<1> QED  BY <1>5, <1>7, <1>8, <1>9, <1>10

(* Whenever requests wait for each other for ever, so that PostgreSQL has   *)
(* to abort one, a verify call with a mismatched body races with the grant  *)
(* of its payment, or two deliveries for one user race for the user's row:  *)
(* with neither, the lock orders of verify and webhook never form a cycle.  *)
THEOREM OnlyTwoDeadlocks == Spec => []DeadlockShapes
<1>1. LockInv => DeadlockShapes
  <2> SUFFICES ASSUME LockInv, NEW S \in SUBSET Tx, S # {},
                      \A x \in S : Blockers(x) \cap S # {}
               PROVE  \E t, o \in S : MismatchedBody(t, o) \/ TwoDeliveries(t, o)
    BY DEF DeadlockShapes
  <2>1. \A x \in S : \E o \in S :
          /\ x # o
          /\ \/ /\ pc[x] = "insertEvent" /\ o \in WebhookTx
                /\ pc[o] \in {"eventUserFk", "lockUser", "insertLedger", "insertRefund",
                              "refundUserFk"}
             \/ /\ pc[x] \in {"insertLedger", "insertRefund"}
                /\ pc[o] = "refundUserFk" /\ pay[o] = pay[x]
             \/ /\ pc[x] = "lockUser" /\ User(o) = User(x)
                /\ \/ pc[o] = "insertLedger"
                   \/ o \in WebhookTx /\ pc[o] \in {"lockUser", "insertRefund", "refundUserFk"}
             \/ pc[x] \in {"eventUserFk", "refundUserFk"} /\ pc[o] = "insertLedger"
    <3> SUFFICES ASSUME NEW x \in S
                 PROVE  \E o \in Blockers(x) \cap S : o # x /\ Blockers(o) # {}
      BY WaitsFor
    <3> QED  BY DEF Blockers
  <2>2. ASSUME NEW t \in S, pc[t] = "insertLedger"
        PROVE  \E o \in S : MismatchedBody(t, o)
    <3>1. PICK o \in S : pc[o] = "refundUserFk" /\ pay[o] = pay[t]
      BY <2>1, <2>2
    <3>2. o \in VerifyTx
      BY <2>2, <3>1 DEF LockInv, Branches, Tx, Refunding
    <3> QED  BY <2>2, <3>1, <3>2 DEF MismatchedBody
  <2>3. CASE \E t \in S : pc[t] = "insertLedger"
    BY <2>2, <2>3
  <2>4. CASE \A t \in S : pc[t] # "insertLedger"
    <3>1. \A x \in S : pc[x] \notin {"eventUserFk", "refundUserFk"}
      BY <2>1, <2>4
    <3>2. \A x \in S : pc[x] # "insertRefund"
      BY <2>1, <3>1
    <3>3. PICK x \in S : pc[x] = "lockUser"
      BY <2>1, <2>4, <3>1, <3>2
    <3>4. PICK t \in S : pc[t] = "lockUser" /\ t \in WebhookTx
      BY <2>1, <2>4, <3>1, <3>2, <3>3
    <3>5. PICK o \in S : t # o /\ pc[o] = "lockUser" /\ o \in WebhookTx /\ User(o) = User(t)
      BY <2>1, <2>4, <3>1, <3>2, <3>4
    <3> QED  BY <3>4, <3>5 DEF TwoDeliveries
  <2> QED  BY <2>3, <2>4
<1> QED  BY <1>1, LockInit, LockStep, PTL DEF Spec

-----------------------------------------------------------------------------
(* Replies: what a caller is told of the payment. *)

Told == {"success", "already_fulfilled", "refunded"}

\* Behind ReplyMatchesLedger: a reply that says something of a payment is about
\* an existing one, and so is the second transaction of a lost race.
ReplyInv ==
  /\ GrantInv
  /\ \A t \in Tx : reply[t] \in Told => pay[t] \in Payments
  /\ \A t \in Tx : pc[t] = "auditDuplicate" => ledger[pay[t]] # "none"
  /\ ReplyMatchesLedger

\* Who rolls back with 'already fulfilled' has read a settled row.
LEMMA ReplyChange ==
  ASSUME TypeOK, Ownership, [Next]_vars, NEW o \in Tx
  PROVE  \/ reply'[o] = reply[o] /\ pay'[o] = pay[o]
         \/ reply'[o] \notin Told
         \/ CommitGrant(o) \/ CommitRefund(o) \/ AuditDuplicate(o)
         \/ /\ reply'[o] = "already_fulfilled" /\ pay'[o] = pay[o]
            /\ pc[o] # "idle" /\ ledger[pay[o]] # "none"
<1>1. CASE InsertLedger(o) \/ InsertRefund(o)
  BY <1>1 DEF TypeOK, InsertLedger, InsertRefund, Goto, Rollback, Finish
<1>2. CASE \/ LockUser(o) \/ GrantEntitlement(o) \/ RefundUserFk(o)
  BY <1>2 DEF TypeOK, LockUser, GrantEntitlement, RefundUserFk, Goto
<1>3. CASE \/ InsertEvent(o) \/ EventUserFk(o) \/ CommitEvent(o) \/ CommitFailed(o)
           \/ RefundAccepted(o) \/ RefundRejected(o)
  BY <1>3 DEF TypeOK, Told, InsertEvent, EventUserFk, CommitEvent, CommitFailed,
     RefundAccepted, RefundRejected, Goto, Rollback, RollbackAck, Finish
<1>4. ASSUME DeadlockAbort(o) \/ Crash(o)
      PROVE  reply'[o] \notin Told
  BY <1>4 DEF TypeOK, Told, DeadlockAbort, Rollback, Crash, Finish
<1>5. ASSUME NEW p \in Payments, NEW matches \in BOOLEAN, VerifyPayment(o, p, matches)
      PROVE  reply'[o] \notin Told
  BY <1>5 DEF TypeOK, Told, VerifyPayment, Begin
<1>6. ASSUME NEW e \in Events, Webhook(o, e)
      PROVE  reply'[o] \notin Told
  BY <1>6 DEF TypeOK, Told, Webhook, Begin
<1> QED  BY <1>1, <1>2, <1>3, <1>4, <1>5, <1>6, Bystander DEF Step

\* The ledger of a lost race is settled when its audit row is due.
LEMMA AuditChange ==
  ASSUME TypeOK, Ownership, [Next]_vars, NEW o \in Tx, pc'[o] = "auditDuplicate"
  PROVE  /\ pay'[o] = pay[o] /\ pc[o] # "idle"
         /\ pc[o] = "auditDuplicate" \/ ledger[pay[o]] # "none"
<1>1. CASE InsertLedger(o)
  BY <1>1 DEF TypeOK, InsertLedger, Goto, Rollback, Finish
<1>2. ASSUME Step(o), ~InsertLedger(o)
      PROVE  FALSE
  BY <1>2 DEF TypeOK, Step, InsertEvent, EventUserFk, CommitEvent, CommitFailed, LockUser,
     GrantEntitlement, CommitGrant, AuditDuplicate, InsertRefund,
     RefundUserFk, RefundAccepted, RefundRejected, CommitRefund, Goto, Rollback,
     RollbackAck, Finish
<1>3. ASSUME DeadlockAbort(o) \/ Crash(o)
      PROVE  FALSE
  BY <1>3 DEF TypeOK, DeadlockAbort, Rollback, Crash, Finish
<1>4. ASSUME NEW p \in Payments, NEW matches \in BOOLEAN, VerifyPayment(o, p, matches)
      PROVE  FALSE
  BY <1>4 DEF TypeOK, VerifyPayment, Begin
<1>5. ASSUME NEW e \in Events, Webhook(o, e), pc[o] = "idle"
      PROVE  FALSE
  BY <1>5 DEF TypeOK, Webhook, Begin
<1> QED  BY <1>1, <1>2, <1>3, <1>4, <1>5, Bystander

\* Every step keeps the replies true of the ledger.
LEMMA ReplyInvStep == ReplyInv /\ [Next]_vars => ReplyInv'
<1> SUFFICES ASSUME ReplyInv, [Next]_vars PROVE ReplyInv'
  OBVIOUS
<1>0. TypeOK /\ Ownership /\ GrantInv'
  BY TypeStep, OwnershipStep, GrantedStep, WelcomeStep DEF ReplyInv, GrantInv, Ownership
<1>1. ASSUME NEW o \in Tx, pc[o] # "idle"  PROVE pay[o] \in Payments
  BY <1>0, <1>1 DEF Ownership, WorksOnItsEvent
<1>2. ASSUME NEW o \in Tx, pc'[o] = "auditDuplicate"
      PROVE  ledger'[pay'[o]] # "none"
  <2>1. pay'[o] = pay[o] /\ pay[o] \in Payments /\ ledger[pay[o]] # "none"
    BY <1>0, <1>1, <1>2, AuditChange DEF ReplyInv
  <2> QED  BY <1>0, <2>1, LedgerMonotone
<1>3. ASSUME NEW o \in Tx, reply'[o] \in Told
      PROVE  /\ pay'[o] \in Payments
             /\ reply'[o] = "success" => ledger'[pay'[o]] = "fulfilled"
             /\ reply'[o] = "already_fulfilled" => ledger'[pay'[o]] # "none"
             /\ reply'[o] = "refunded" => ledger'[pay'[o]] = "refunded"
  <2>1. CASE reply'[o] = reply[o] /\ pay'[o] = pay[o]
    <3>1. pay[o] \in Payments
      BY <1>3, <2>1 DEF ReplyInv
    <3>2. ledger[pay[o]] # "none" => ledger'[pay[o]] = ledger[pay[o]]
      BY <1>0, <3>1, StatusStays
    <3> QED  BY <2>1, <3>1, <3>2 DEF ReplyInv, ReplyMatchesLedger
  <2>2. CASE CommitGrant(o)
    <3>1. pay'[o] = pay[o] /\ reply'[o] = "success"
      BY <1>0, <2>2 DEF CommitGrant, Finish, TypeOK
    <3> QED  BY <1>0, <2>2, <3>1, CommitGrantEffect
  <2>3. CASE CommitRefund(o)
    <3>1. pay'[o] = pay[o] /\ reply'[o] = "refunded"
      BY <1>0, <2>3 DEF CommitRefund, Finish, TypeOK
    <3> QED  BY <1>0, <2>3, <3>1, CommitRefundEffect
  <2>4. CASE AuditDuplicate(o)
    <3>1. pc[o] = "auditDuplicate" /\ pay'[o] = pay[o] /\ reply'[o] = "already_fulfilled"
      BY <1>0, <2>4 DEF AuditDuplicate, Finish, TypeOK
    <3>2. pay[o] \in Payments /\ ledger[pay[o]] # "none"
      BY <1>1, <3>1 DEF ReplyInv
    <3> QED  BY <1>0, <3>1, <3>2, LedgerMonotone
  <2>5. CASE /\ reply'[o] = "already_fulfilled" /\ pay'[o] = pay[o]
             /\ pc[o] # "idle" /\ ledger[pay[o]] # "none"
    <3>1. pay[o] \in Payments
      BY <1>1, <2>5
    <3> QED  BY <1>0, <2>5, <3>1, LedgerMonotone
  <2> QED  BY <1>0, <1>3, <2>1, <2>2, <2>3, <2>4, <2>5, ReplyChange
<1>4. ReplyMatchesLedger'
  BY <1>3 DEF ReplyMatchesLedger, Told
<1> QED  BY <1>0, <1>2, <1>3, <1>4 DEF ReplyInv

(* A caller told that a payment succeeded, was already settled, or was      *)
(* refunded is told so of a payment the ledger has settled that way.        *)
THEOREM RepliesAreTrue == Spec => []ReplyMatchesLedger
<1>1. Init => ReplyInv
  <2>1. Init => GrantInv
    BY TypeInit, OwnershipInit DEF Init, GrantInv, Ownership, GrantedOnce, WelcomeOnce
  <2> QED  BY <2>1 DEF Init, ReplyInv, ReplyMatchesLedger, Told
<1>2. ReplyInv => ReplyMatchesLedger
  BY DEF ReplyInv
<1> QED  BY <1>1, <1>2, ReplyInvStep, PTL DEF Spec
=============================================================================
