---------------------------- MODULE Fulfillment ----------------------------
(***************************************************************************)
(* payments-svc settling captured payments: the two verify callbacks and   *)
(* the Razorpay webhook, running concurrently as database transactions     *)
(* that converge on the payment_fulfillments ledger.                       *)
(*                                                                         *)
(* Every handler is a READ COMMITTED transaction.  Its uncommitted writes  *)
(* show up to others only as locks: an inserted unique key (the ledger's   *)
(* payment id, the event's razorpay_event_id), the FOR UPDATE lock on the  *)
(* user row, and the FOR KEY SHARE lock that a foreign-key check puts on   *)
(* that row.  PostgreSQL makes the second inserter of a unique key wait    *)
(* for the first one's outcome, and breaks a cycle of waiting transactions *)
(* by aborting one of them.                                                *)
(***************************************************************************)
EXTENDS Naturals

CONSTANTS
  KnownUsers,     \* ids of the rows of auth.users
  UnknownUser,    \* a well-formed user id that has no row
  NoUserId,       \* order notes without a user_id
  BadUserId,      \* order notes whose user_id is not a UUID
  Payments,       \* captured Razorpay payments
  NotesUser,      \* NotesUser[p]: the user_id in the notes of p's order
  Payable,        \* payments whose order passes amount and scope validation
  Events,         \* webhook events that Razorpay sends
  EventPayment,   \* EventPayment[e]: the payment that e is about
  EventKeys,      \* values of razorpay_event_id
  EventKey,       \* EventKey[e]: the razorpay_event_id computed for e
  Captured,       \* events of type payment.captured with a known item_type
  VerifyTx,       \* slots for concurrent verify requests
  WebhookTx,      \* slots for concurrent webhook deliveries
  MaxCrashes,     \* bound on process crashes and lost refund replies
  MaxRejects,     \* bound on refund calls that Razorpay turns down
  Nothing         \* "no payment", "no event"

ASSUME UserAssumption ==
  /\ UnknownUser \notin KnownUsers
  /\ NoUserId \notin KnownUsers
  /\ BadUserId \notin KnownUsers
  /\ UnknownUser # NoUserId /\ UnknownUser # BadUserId /\ NoUserId # BadUserId

ASSUME PaymentAssumption ==
  /\ NotesUser \in [Payments -> KnownUsers \cup {UnknownUser, NoUserId, BadUserId}]
  /\ Payable \subseteq Payments
  /\ EventPayment \in [Events -> Payments]
  /\ EventKey \in [Events -> EventKeys]
  /\ Captured \subseteq Events
  /\ Nothing \notin Payments \cup Events

ASSUME BoundAssumption ==
  /\ VerifyTx \cap WebhookTx = {}
  /\ MaxCrashes \in Nat
  /\ MaxRejects \in Nat

Tx == VerifyTx \cup WebhookTx

VARIABLES
  pc,        \* the next statement of each request
  pay, ev,   \* the payment and (webhook) the event a slot works on, or last did
  gift,      \* the transaction holds an uncommitted 'welcome' credit row
  held,      \* row locks and uncommitted unique keys of each transaction
  reply,     \* the last response each slot sent
  ledger,    \* committed payment_fulfillments.status per payment
  granted,   \* committed passes, credit packs or Pro periods per payment
  welcome,   \* committed 'welcome' credit rows per user
  event,     \* committed payment_events.status per razorpay_event_id
  refunded,  \* payments Razorpay has returned the money of
  acked,     \* events answered with a 2xx: Razorpay stops retrying them
  crashes, rejects

request  == <<pc, pay, ev, gift, held, reply>>
database == <<ledger, granted, welcome, event>>
faults   == <<crashes, rejects>>
vars     == <<request, database, refunded, acked, faults>>

EventLock(k)  == <<"event", k>>
LedgerLock(p) == <<"ledger", p>>
RowLock(u)    == <<"row", u>>      \* SELECT ... FOR UPDATE
ShareLock(u)  == <<"share", u>>    \* FOR KEY SHARE of a foreign-key check

Locks == {EventLock(k) : k \in EventKeys} \cup {LedgerLock(p) : p \in Payments}
         \cup {RowLock(u) : u \in KnownUsers} \cup {ShareLock(u) : u \in KnownUsers}

User(t) == NotesUser[pay[t]]
Key(t)  == EventKey[ev[t]]

(* The lock the next statement of t waits for (none when it needs none, as *)
(* the foreign-key check of an event row without a user).                  *)
Wanted(t) ==
  {l \in Locks :
    \/ pc[t] = "insertEvent" /\ l = EventLock(Key(t))
    \/ pc[t] \in {"insertLedger", "insertRefund"} /\ l = LedgerLock(pay[t])
    \/ pc[t] = "lockUser" /\ l = RowLock(User(t))
    \/ pc[t] \in {"eventUserFk", "refundUserFk"} /\ l = ShareLock(User(t))}

\* Variant: without the unique index on the ledger.
Conflict_NoLedgerIndex(l, m) ==
  \/ l = m /\ l[1] \in {"row", "event"}
  \/ \E u \in KnownUsers : {l, m} = {RowLock(u), ShareLock(u)}

Conflict(l, m) ==
  \/ l = m /\ l[1] # "share"
  \/ \E u \in KnownUsers : {l, m} = {RowLock(u), ShareLock(u)}

Blockers(t) ==
  {o \in Tx \ {t} : \E l \in Wanted(t), m \in held[o] : Conflict(l, m)}

Init ==
  /\ pc = [t \in Tx |-> "idle"]
  /\ pay = [t \in Tx |-> Nothing]
  /\ ev = [t \in Tx |-> Nothing]
  /\ gift = [t \in Tx |-> FALSE]
  /\ held = [t \in Tx |-> {}]
  /\ reply = [t \in Tx |-> "none"]
  /\ ledger = [p \in Payments |-> "none"]
  /\ granted = [p \in Payments |-> 0]
  /\ welcome = [u \in KnownUsers |-> 0]
  /\ event = [k \in EventKeys |-> "none"]
  /\ refunded = {}
  /\ acked = {}
  /\ crashes = 0
  /\ rejects = 0

-----------------------------------------------------------------------------
\* Variant: an error path that returns the session without a rollback.
Finish_KeepsLocks(t, r) ==
  /\ pc' = [pc EXCEPT ![t] = "idle"]
  /\ gift' = [gift EXCEPT ![t] = FALSE]
  /\ reply' = [reply EXCEPT ![t] = r]
  /\ UNCHANGED <<pay, ev, held>>

(* The end of a request: COMMIT or ROLLBACK releases every lock. *)
Finish(t, r) ==
  /\ pc' = [pc EXCEPT ![t] = "idle"]
  /\ held' = [held EXCEPT ![t] = {}]
  /\ gift' = [gift EXCEPT ![t] = FALSE]
  /\ reply' = [reply EXCEPT ![t] = r]
  /\ UNCHANGED <<pay, ev>>

Rollback(t, r) == Finish(t, r) /\ UNCHANGED <<database, refunded, acked, faults>>

(* A 2xx answer to a delivery whose transaction leaves the database alone. *)
RollbackAck(t, r) ==
  /\ Finish(t, r)
  /\ acked' = acked \cup {ev[t]}
  /\ UNCHANGED <<database, refunded, faults>>

AckIfWebhook(t) == acked' = IF t \in WebhookTx THEN acked \cup {ev[t]} ELSE acked

RecordEvent(t, status) ==
  event' = IF t \in WebhookTx THEN [event EXCEPT ![Key(t)] = status] ELSE event

(* The next statement runs once the lock it wants is free. *)
Goto(t, s) ==
  /\ Blockers(t) = {}
  /\ pc' = [pc EXCEPT ![t] = s]
  /\ held' = [held EXCEPT ![t] = @ \cup Wanted(t)]
  /\ UNCHANGED <<pay, ev, gift, reply, database, refunded, acked, faults>>

Begin(t, p, e, s) ==
  /\ pc[t] = "idle"
  /\ pc' = [pc EXCEPT ![t] = s]
  /\ pay' = [pay EXCEPT ![t] = p]
  /\ ev' = [ev EXCEPT ![t] = e]
  /\ reply' = [reply EXCEPT ![t] = "none"]
  /\ UNCHANGED <<gift, held, database, refunded, acked, faults>>

-----------------------------------------------------------------------------
(* POST /passes/verify and POST /subscription/verify, after the signature  *)
(* and ownership checks.  matches is FALSE when the body names another     *)
(* item than the order: validation then fails for a payable order too.     *)

VerifyPayment(t, p, matches) ==
  /\ NotesUser[p] \in KnownUsers
  /\ Begin(t, p, Nothing,
           IF p \in Payable /\ matches THEN "lockUser" ELSE "insertRefund")

-----------------------------------------------------------------------------
(* POST /subscription/webhook *)

Webhook(t, e) ==
  LET p == EventPayment[e] IN
  IF event[EventKey[e]] = "processed"
  THEN /\ pc[t] = "idle"
       /\ pay' = [pay EXCEPT ![t] = p]
       /\ ev' = [ev EXCEPT ![t] = e]
       /\ reply' = [reply EXCEPT ![t] = "duplicate"]
       /\ acked' = acked \cup {e}
       /\ UNCHANGED <<pc, gift, held, database, refunded, faults>>
  ELSE Begin(t, p, e, "insertEvent")

(* The insert trips the unique index when a row with that id is committed. *)
(* The handler for malformed notes does not catch the IntegrityError.      *)
InsertEvent(t) ==
  /\ pc[t] = "insertEvent"
  /\ Blockers(t) = {}
  /\ \/ /\ event[Key(t)] # "none"
        /\ IF User(t) = BadUserId THEN Rollback(t, "500")
                                  ELSE RollbackAck(t, "duplicate")
     \/ /\ event[Key(t)] = "none" /\ User(t) = BadUserId
        /\ Goto(t, "commitFailed")
     \/ /\ event[Key(t)] = "none" /\ User(t) # BadUserId
        /\ Goto(t, "eventUserFk")

\* Variant: the event row is committed as processed before the grant.
EventUserFk_CommitsEarly(t) ==
  /\ pc[t] = "eventUserFk"
  /\ Blockers(t) = {}
  /\ User(t) \in KnownUsers
  /\ pc' = [pc EXCEPT ![t] = IF pay[t] \in Payable THEN "lockUser" ELSE "insertRefund"]
  /\ event' = [event EXCEPT ![Key(t)] = "processed"]
  /\ UNCHANGED <<pay, ev, gift, held, reply, ledger, granted, welcome, refunded, acked, faults>>

(* payment_events.user_id references auth.users: an unknown id violates it, *)
(* and the same except clause that handles a duplicate answers 200.  Then   *)
(* the handler branches on the event type and validates the order.          *)
EventUserFk(t) ==
  /\ pc[t] = "eventUserFk"
  /\ \/ User(t) = UnknownUser /\ RollbackAck(t, "duplicate")
     \/ User(t) # UnknownUser /\ ev[t] \notin Captured /\ Goto(t, "commitEvent")
     \/ User(t) = NoUserId /\ ev[t] \in Captured /\ Goto(t, "commitFailed")
     \/ /\ User(t) \in KnownUsers /\ ev[t] \in Captured
        /\ Goto(t, IF pay[t] \in Payable THEN "lockUser" ELSE "insertRefund")

(* payment.authorized, payment.failed, unhandled types, unknown item_type. *)
CommitEvent(t) ==
  /\ pc[t] = "commitEvent"
  /\ RecordEvent(t, "processed")
  /\ AckIfWebhook(t)
  /\ Finish(t, "ok")
  /\ UNCHANGED <<ledger, granted, welcome, refunded, faults>>

(* A 'failed' row is committed and the delivery answered with a 400. *)
CommitFailed(t) ==
  /\ pc[t] = "commitFailed"
  /\ RecordEvent(t, "failed")
  /\ Finish(t, "400")
  /\ UNCHANGED <<ledger, granted, welcome, refunded, acked, faults>>

-----------------------------------------------------------------------------
(* fulfill_payment and maybe_grant_welcome_gift under the user row lock. *)

\* Variant: the user row is read without FOR UPDATE.
LockUser_NoForUpdate(t) ==
  /\ pc[t] = "lockUser"
  /\ pc' = [pc EXCEPT ![t] = "insertLedger"]
  /\ UNCHANGED <<pay, ev, gift, held, reply, database, refunded, acked, faults>>

LockUser(t) == pc[t] = "lockUser" /\ Goto(t, "insertLedger")

(* AlreadyFulfilled rolls back; the webhook then opens a second transaction *)
(* for a 'duplicate' audit row.                                             *)
InsertLedger(t) ==
  /\ pc[t] = "insertLedger"
  /\ Blockers(t) = {}
  /\ \/ ledger[pay[t]] = "none" /\ Goto(t, "grant")
     \/ /\ ledger[pay[t]] # "none" /\ t \in VerifyTx
        /\ Rollback(t, "already_fulfilled")
     \/ /\ ledger[pay[t]] # "none" /\ t \in WebhookTx
        /\ pc' = [pc EXCEPT ![t] = "auditDuplicate"]
        /\ held' = [held EXCEPT ![t] = {}]
        /\ UNCHANGED <<pay, ev, gift, reply, database, refunded, acked, faults>>

(* The gift is decided by a count of the committed 'welcome' rows. *)
GrantEntitlement(t) ==
  /\ pc[t] = "grant"
  /\ gift' = [gift EXCEPT ![t] = welcome[User(t)] = 0]
  /\ pc' = [pc EXCEPT ![t] = "commitGrant"]
  /\ UNCHANGED <<pay, ev, held, reply, database, refunded, acked, faults>>

CommitGrant(t) ==
  /\ pc[t] = "commitGrant"
  /\ ledger' = [ledger EXCEPT ![pay[t]] = "fulfilled"]
  /\ granted' = [granted EXCEPT ![pay[t]] = @ + 1]
  /\ welcome' = IF gift[t] THEN [welcome EXCEPT ![User(t)] = @ + 1] ELSE welcome
  /\ RecordEvent(t, "processed")
  /\ AckIfWebhook(t)
  /\ Finish(t, "success")
  /\ UNCHANGED <<refunded, faults>>

(* Failing to write the audit row is swallowed: the answer is 200 anyway. *)
AuditDuplicate(t) ==
  /\ pc[t] = "auditDuplicate"
  /\ \A o \in Tx \ {t} : held[o] \cap {EventLock(Key(t)), RowLock(User(t))} = {}
  /\ event' = IF event[Key(t)] = "none"
              THEN [event EXCEPT ![Key(t)] = "duplicate"] ELSE event
  /\ acked' = acked \cup {ev[t]}
  /\ Finish(t, "already_fulfilled")
  /\ UNCHANGED <<ledger, granted, welcome, refunded, faults>>

-----------------------------------------------------------------------------
(* refund_unfulfillable_payment: ledger row, Razorpay call, commit. *)

\* Variants: a refund that overwrites an existing ledger row; a duplicate
\* refund that does not wait for the transaction that holds the ledger key.
InsertRefund_Overwrites(t) == pc[t] = "insertRefund" /\ Goto(t, "refundUserFk")

InsertRefund_NoWait(t) ==
  /\ pc[t] = "insertRefund"
  /\ IF ledger[pay[t]] = "none" /\ Blockers(t) = {}
     THEN Goto(t, "refundUserFk") ELSE Rollback(t, "already_fulfilled")

InsertRefund(t) ==
  /\ pc[t] = "insertRefund"
  /\ Blockers(t) = {}
  /\ \/ ledger[pay[t]] = "none" /\ Goto(t, "refundUserFk")
     \/ /\ ledger[pay[t]] # "none" /\ t \in VerifyTx
        /\ Rollback(t, "already_fulfilled")
     \/ /\ ledger[pay[t]] # "none" /\ t \in WebhookTx
        /\ pc' = [pc EXCEPT ![t] = "commitEvent"]
        /\ UNCHANGED <<pay, ev, gift, held, reply, database, refunded, acked, faults>>

RefundUserFk(t) == pc[t] = "refundUserFk" /\ Goto(t, "callRefund")

\* Variant: the session is closed after the refund without a commit.
RefundAccepted_NoCommit(t) ==
  /\ pc[t] = "callRefund"
  /\ pay[t] \notin refunded
  /\ refunded' = refunded \cup {pay[t]}
  /\ Finish(t, "ok")
  /\ UNCHANGED <<database, acked, faults>>

(* Razorpay refunds a payment once and turns a second refund down.  A turned *)
(* down call, or one whose answer is lost, rolls the ledger row back.        *)
RefundAccepted(t) ==
  /\ pc[t] = "callRefund"
  /\ pay[t] \notin refunded
  /\ refunded' = refunded \cup {pay[t]}
  /\ \/ /\ pc' = [pc EXCEPT ![t] = "commitRefund"]
        /\ UNCHANGED <<pay, ev, gift, held, reply, faults>>
     \/ /\ crashes < MaxCrashes
        /\ crashes' = crashes + 1
        /\ Finish(t, "500")
        /\ UNCHANGED rejects
  /\ UNCHANGED <<database, acked>>

\* Variant: a failed refund is answered with a 2xx.
RefundRejected_Acked(t) ==
  /\ pc[t] = "callRefund"
  /\ rejects < MaxRejects
  /\ rejects' = rejects + 1
  /\ AckIfWebhook(t)
  /\ Finish(t, "ok")
  /\ UNCHANGED <<database, refunded, crashes>>

RefundRejected(t) ==
  /\ pc[t] = "callRefund"
  /\ \/ pay[t] \in refunded /\ UNCHANGED rejects
     \/ /\ pay[t] \notin refunded
        /\ rejects < MaxRejects
        /\ rejects' = rejects + 1
  /\ Finish(t, "500")
  /\ UNCHANGED <<database, refunded, acked, crashes>>

CommitRefund(t) ==
  /\ pc[t] = "commitRefund"
  /\ ledger' = [ledger EXCEPT ![pay[t]] = "refunded"]
  /\ RecordEvent(t, "processed")
  /\ AckIfWebhook(t)
  /\ Finish(t, "refunded")
  /\ UNCHANGED <<granted, welcome, refunded, faults>>

-----------------------------------------------------------------------------
(* PostgreSQL aborts a transaction of a cycle of waiting ones. *)
Deadlocked(t) ==
  \E S \in SUBSET Tx :
    /\ t \in S
    /\ \A x \in S : Blockers(x) \cap S # {} /\ \E y \in S : x \in Blockers(y)

DeadlockAbort(t) == Deadlocked(t) /\ Rollback(t, "500")

(* The process dies: the database rolls back, nobody gets an answer. *)
Crash(t) ==
  /\ pc[t] # "idle"
  /\ crashes < MaxCrashes
  /\ crashes' = crashes + 1
  /\ Finish(t, "none")
  /\ UNCHANGED <<database, refunded, acked, rejects>>

Step(t) ==
  \/ InsertEvent(t) \/ EventUserFk(t) \/ CommitEvent(t) \/ CommitFailed(t)
  \/ LockUser(t) \/ InsertLedger(t) \/ GrantEntitlement(t) \/ CommitGrant(t)
  \/ AuditDuplicate(t)
  \/ InsertRefund(t) \/ RefundUserFk(t) \/ RefundAccepted(t) \/ RefundRejected(t)
  \/ CommitRefund(t)

Next ==
  \/ \E t \in VerifyTx, p \in Payments, matches \in BOOLEAN :
       VerifyPayment(t, p, matches)
  \/ \E t \in WebhookTx, e \in Events : Webhook(t, e)
  \/ \E t \in Tx : Step(t) \/ DeadlockAbort(t) \/ Crash(t)

Spec == Init /\ [][Next]_vars

(* The server keeps running its requests, lock queues are FIFO (hence strong *)
(* fairness for a statement that waits for a lock), PostgreSQL's deadlock    *)
(* detector runs, Razorpay redelivers an event until it is answered 2xx, and *)
(* clients call verify finitely often: one that retried a mismatched body    *)
(* for ever could deadlock with every delivery and win each time.            *)
Fairness ==
  /\ <>[][\A t \in VerifyTx : pc[t] = "idle" => pc'[t] = "idle"]_vars
  /\ \A t \in Tx : SF_vars(Step(t)) /\ WF_vars(DeadlockAbort(t))
  /\ \A e \in Events : SF_vars(\E t \in WebhookTx : e \notin acked /\ Webhook(t, e))

FairSpec == Spec /\ Fairness

-----------------------------------------------------------------------------
(* Properties *)

Statements ==
  {"idle", "insertEvent", "eventUserFk", "commitEvent", "commitFailed",
   "lockUser", "insertLedger", "grant", "commitGrant", "auditDuplicate",
   "insertRefund", "refundUserFk", "callRefund", "commitRefund"}

Replies == {"none", "ok", "success", "already_fulfilled", "refunded", "duplicate",
            "400", "500"}

\* Every variable has its type; a slot only holds locks that exist.
TypeOK ==
  /\ pc \in [Tx -> Statements]
  /\ pay \in [Tx -> Payments \cup {Nothing}]
  /\ ev \in [Tx -> Events \cup {Nothing}]
  /\ gift \in [Tx -> BOOLEAN]
  /\ held \in [Tx -> SUBSET Locks]
  /\ reply \in [Tx -> Replies]
  /\ ledger \in [Payments -> {"none", "fulfilled", "refunded"}]
  /\ granted \in [Payments -> Nat]
  /\ welcome \in [KnownUsers -> Nat]
  /\ event \in [EventKeys -> {"none", "processed", "failed", "duplicate"}]
  /\ refunded \subseteq Payments
  /\ acked \subseteq Events
  /\ crashes \in 0..MaxCrashes
  /\ rejects \in 0..MaxRejects

\* A payment has produced its entitlement exactly once when the ledger calls
\* it fulfilled and never otherwise, whatever verify calls, redeliveries,
\* crashes and deadlock aborts raced for it (fulfill_payment's contract).
GrantedOnce ==
  \A p \in Payments : granted[p] = IF ledger[p] = "fulfilled" THEN 1 ELSE 0

\* A user has one welcome gift as soon as one purchase of theirs is granted,
\* and none before: concurrent first purchases do not both carry it
\* (maybe_grant_welcome_gift counts rows without a constraint behind it).
WelcomeOnce ==
  \A u \in KnownUsers :
    welcome[u] = IF \E p \in Payments : NotesUser[p] = u /\ granted[p] > 0
                 THEN 1 ELSE 0

\* Razorpay stops retrying a captured payment of a known user only when that
\* payment is settled: answering 'duplicate' on a lost race for the event row
\* relies on the winner having fulfilled it.
AckedIsSettled ==
  \A e \in acked \cap Captured :
    NotesUser[EventPayment[e]] \in KnownUsers => ledger[EventPayment[e]] # "none"

\* A caller told that the payment is done, was already done, or was refunded
\* is told so of a payment the ledger has settled that way.
ReplyMatchesLedger ==
  \A t \in Tx :
    /\ reply[t] = "success" => ledger[pay[t]] = "fulfilled"
    /\ reply[t] = "already_fulfilled" => ledger[pay[t]] # "none"
    /\ reply[t] = "refunded" => ledger[pay[t]] = "refunded"

\* Money goes back to the customer only for a payment that the ledger records
\* as refunded, or that one transaction is about to record
\* (refund_unfulfillable_payment: "exactly once").
RefundedMoneyIsRecorded ==
  refunded = {p \in Payments :
                \/ ledger[p] = "refunded"
                \/ \E t \in Tx : pc[t] = "commitRefund" /\ pay[t] = p}

\* The customer of every captured payment gets what was bought or the money
\* back, whatever crashes, rejected refunds and deadlocks the bounds allow.
GrantedOrMoneyBack ==
  \A e \in Captured :
    LET p == EventPayment[e] IN
    NotesUser[p] \in KnownUsers => <>(granted[p] > 0 \/ p \in refunded)

\* Every captured payment of a known user is eventually settled in the ledger:
\* a refund that fails is attempted again until its row is committed.
CapturedIsSettled ==
  \A e \in Captured :
    NotesUser[EventPayment[e]] \in KnownUsers => <>(ledger[EventPayment[e]] # "none")

\* No request waits for ever: verify and webhook take their locks in different
\* orders, so cycles of waiting transactions do form and have to be broken.
RequestsEnd == \A t \in Tx : pc[t] # "idle" ~> pc[t] = "idle"

Ledger == INSTANCE PaymentLedger WITH
  Users   <- KnownUsers,
  Buyer   <- NotesUser,
  outcome <- [p \in Payments |-> IF ledger[p] = "none" THEN "open"
                               ELSE IF ledger[p] = "fulfilled" THEN "granted"
                               ELSE "refunded"],
  gifts   <- welcome

\* The ledger settles each payment once, for good, and with the gift on the
\* first grant only: the transactions implement the abstract ledger.
ImplementsLedger == Ledger!Spec

-----------------------------------------------------------------------------
(* The inductive invariant behind the theorems of FulfillmentProofs. *)

Granting   == {"grant", "commitGrant"}
Refunding  == {"refundUserFk", "callRefund", "commitRefund"}
EventOpen  == {"eventUserFk", "commitEvent", "commitFailed", "lockUser",
               "insertLedger", "insertRefund"} \cup Granting \cup Refunding

\* Whoever is past the ledger insert owns the payment's ledger key and no
\* settled row exists yet.
OwnsLedgerKey ==
  \A t \in Tx : pc[t] \in Granting \cup Refunding =>
    LedgerLock(pay[t]) \in held[t] /\ ledger[pay[t]] = "none"

\* Whoever decides about the gift owns the user row, and the decision is
\* still right when it is committed.
OwnsUserRow ==
  \A t \in Tx :
    /\ pc[t] \in {"lockUser", "insertLedger"} \cup Granting => User(t) \in KnownUsers
    /\ pc[t] \in {"insertLedger"} \cup Granting => RowLock(User(t)) \in held[t]
    /\ pc[t] = "commitGrant" => (gift[t] <=> welcome[User(t)] = 0)

\* Row locks and unique keys have one owner; only key-share locks are shared.
OneOwner ==
  \A t, o \in Tx : \A l \in held[t] \cap held[o] : t = o \/ l[1] = "share"

\* A request works on an existing payment, a delivery on its event's payment.
WorksOnItsEvent ==
  \A t \in Tx :
    /\ pc[t] # "idle" => pay[t] \in Payments
    /\ t \in WebhookTx /\ pc[t] # "idle" =>
         ev[t] \in Events /\ pay[t] = EventPayment[ev[t]]
    /\ t \in VerifyTx => pc[t] \notin {"insertEvent", "eventUserFk", "commitEvent",
                                     "commitFailed", "auditDuplicate"}

\* An open delivery owns its event id, and the event is not recorded yet.
OwnsEventKey ==
  \A t \in WebhookTx : pc[t] \in EventOpen =>
    EventLock(Key(t)) \in held[t] /\ event[Key(t)] = "none"

\* Razorpay's own event ids tell events apart; the fallback id that the webhook
\* builds from the account and the creation second does not.
DistinctKeys == \A e, f \in Events : EventKey[e] = EventKey[f] => e = f

\* A recorded event of a known user's captured payment means it is settled;
\* so does a delivery that is about to be recorded without settling itself.
RecordedIsSettled ==
  /\ \A e \in Captured :
       (NotesUser[EventPayment[e]] \in KnownUsers /\ event[EventKey[e]] # "none")
         => ledger[EventPayment[e]] # "none"
  /\ \A t \in WebhookTx :
       /\ pc[t] = "auditDuplicate" => ledger[pay[t]] # "none"
       /\ pc[t] = "commitEvent" => ev[t] \notin Captured \/ ledger[pay[t]] # "none"
       /\ pc[t] = "commitFailed" => User(t) \notin KnownUsers

GrantInv ==
  /\ TypeOK
  /\ WorksOnItsEvent
  /\ OneOwner
  /\ OwnsLedgerKey
  /\ OwnsUserRow
  /\ GrantedOnce
  /\ WelcomeOnce

AckInv ==
  /\ GrantInv
  /\ OwnsEventKey
  /\ RecordedIsSettled
  /\ AckedIsSettled
=============================================================================
