-------------------------- MODULE ProSubscription --------------------------
(***************************************************************************)
(* The Pro plan of one user: rows of billing.subscriptions, bought and     *)
(* renewed through fulfill_payment, cancelled by the user, cancelled or    *)
(* halted by Razorpay's subscription events.  All statements filter on the *)
(* user id, so users are independent and one is enough.                    *)
(*                                                                         *)
(* Fulfilments hold the user row FOR UPDATE from before their ledger       *)
(* insert, and a webhook event holds a foreign-key share lock on it from   *)
(* its event insert: these two exclude each other.  cancel_pro locks       *)
(* nothing: it reads a row and updates it by primary key later, whatever   *)
(* has become of it; two events do not exclude each other either.  So a    *)
(* row that was halted may be made a cancelled one, which grants access    *)
(* again: the variable revived keeps the rows this has happened to.        *)
(***************************************************************************)
EXTENDS Naturals

CONSTANTS
  Payments,    \* Razorpay orders for Pro; an order is paid at most once
  Rows,        \* primary keys of billing.subscriptions
  Cancels,     \* slots for concurrent POST /subscription/cancel requests
  Hooks,       \* slots for concurrent subscription.* webhook events
  HookEdits,   \* what these events set: "cancelled", "halted"
  Duration,    \* PRO_DURATION_DAYS
  Window,      \* PRO_RENEWAL_WINDOW_DAYS
  MaxTime,     \* bound on the clock, in days
  Nothing      \* no payment, no row

ASSUME PeriodAssumption ==
  /\ Duration \in Nat \ {0}
  /\ Window \in Nat
  /\ MaxTime \in Nat
  /\ Nothing \notin Payments \cup Rows
  /\ HookEdits \subseteq {"cancelled", "halted"}

VARIABLES
  now,                       \* the clock, in days
  order,                     \* Razorpay's state of each order
  status, expires,           \* the subscription rows
  settled,                   \* payments with a committed 'fulfilled' ledger row
  dropped,                   \* paid orders answered "already_fulfilled" without a grant
  revived,                   \* history: halted rows that a stale write made cancelled
  step, paying, at, target,  \* the fulfilment that holds the user row
  cancelling, accessUntil,   \* the row each cancel request has read; its answer
  hook                       \* the row and new status of each open webhook event

plan       == <<status, expires, revived>>
fulfilment == <<step, paying, at, target>>
others     == <<cancelling, accessUntil, hook>>
vars == <<now, order, plan, settled, dropped, fulfilment, others>>

Live     == {r \in Rows : status[r] \in {"active", "cancelled"}}
InPeriod == {r \in Live : expires[r] > now}

(* get_pro_subscription: ORDER BY expires_at DESC LIMIT 1 *)
Latest(S) == {r \in S : \A q \in S : expires[q] <= expires[r]}

Later(a, b) == IF a > b THEN a ELSE b

Closed == [row |-> Nothing, to |-> "none"]

Init ==
  /\ now = 0
  /\ order = [p \in Payments |-> "none"]
  /\ status = [r \in Rows |-> "none"]
  /\ expires = [r \in Rows |-> 0]
  /\ settled = {}
  /\ dropped = {}
  /\ revived = {}
  /\ step = "free" /\ paying = Nothing /\ at = 0 /\ target = Nothing
  /\ cancelling = [c \in Cancels |-> Nothing]
  /\ accessUntil = [c \in Cancels |-> 0]
  /\ hook = [h \in Hooks |-> Closed]

Tick ==
  /\ now < MaxTime
  /\ now' = now + 1
  /\ UNCHANGED <<order, plan, settled, dropped, fulfilment, others>>

-----------------------------------------------------------------------------
(* POST /subscription/checkout: an active plan can be renewed in its last   *)
(* days only, a cancelled one at any time.  create_order hands out an       *)
(* unpaid order again, unless its lookup fails or races with another one.   *)
Checkout(p) ==
  /\ \A r \in Latest(InPeriod) :
       status[r] = "active" => expires[r] - now <= Window
  /\ order[p] = "none"
  /\ order' = [order EXCEPT ![p] = "created"]
  /\ UNCHANGED <<now, plan, settled, dropped, fulfilment, others>>

Pay(p) ==
  /\ order[p] = "created"
  /\ order' = [order EXCEPT ![p] = "paid"]
  /\ UNCHANGED <<now, plan, settled, dropped, fulfilment, others>>

-----------------------------------------------------------------------------
(* fulfill_payment for item_type "pro_subscription" *)

(* The user row is locked and the pending ledger row inserted: a payment    *)
(* that has one already rolls back here.                                    *)
LockUser(p) ==
  /\ step = "free"
  /\ \A h \in Hooks : hook[h] = Closed
  /\ order[p] = "paid" /\ p \notin settled
  /\ step' = "locked"
  /\ paying' = p
  /\ UNCHANGED <<now, order, plan, settled, dropped, at, target, others>>

\* Variant: only an active plan counts as being in its period.
SelectRow_ActiveOnly ==
  /\ step = "locked"
  /\ target' = IF \E r \in InPeriod : status[r] = "active"
               THEN CHOOSE r \in InPeriod : status[r] = "active" ELSE Nothing
  /\ at' = now
  /\ step' = "selected"
  /\ UNCHANGED <<now, order, plan, settled, dropped, paying, others>>

(* The in-period row is selected FOR UPDATE; the clock is read just before. *)
SelectRow ==
  /\ step = "locked"
  /\ \/ InPeriod # {} /\ \E r \in Latest(InPeriod) : target' = r
     \/ InPeriod = {} /\ target' = Nothing
  /\ at' = now
  /\ step' = "selected"
  /\ UNCHANGED <<now, order, plan, settled, dropped, paying, others>>

EndFulfilment ==
  /\ step' = "free"
  /\ paying' = Nothing
  /\ target' = Nothing
  /\ at' = 0
  /\ UNCHANGED <<now, order, others>>

(* The one-active index refuses an active row next to another one: the     *)
(* transaction is rolled back and the payment reported as already          *)
(* fulfilled.  (The webhook answers 500 to the flush that fails in Extend, *)
(* and Razorpay delivers again: there it is an Abort.)                     *)
Refuse ==
  /\ dropped' = dropped \cup {paying}
  /\ UNCHANGED <<plan, settled>>

Grant(newStatus, newExpires) ==
  /\ status' = newStatus
  /\ expires' = newExpires
  /\ settled' = settled \cup {paying}
  /\ UNCHANGED <<dropped, revived>>

\* Variant: a renewal starts today, whatever is left of the period.
Extend_FromToday ==
  /\ step = "selected" /\ target # Nothing
  /\ IF \E r \in Rows \ {target} : status[r] = "active"
     THEN Refuse
     ELSE Grant([status EXCEPT ![target] = "active"],
                [expires EXCEPT ![target] = at + Duration])
  /\ EndFulfilment

(* The row selected becomes active again and one period longer. *)
Extend ==
  /\ step = "selected" /\ target # Nothing
  /\ IF \E r \in Rows \ {target} : status[r] = "active"
     THEN Refuse
     ELSE Grant([status EXCEPT ![target] = "active"],
                [expires EXCEPT ![target] = Later(at, @) + Duration])
  /\ EndFulfilment

\* Variant: the flip misses a row that expires at this very moment.
Stale_Strict == {r \in Rows : status[r] = "active" /\ expires[r] < at}

Stale == {r \in Rows : status[r] = "active" /\ expires[r] <= at}

(* Stale rows become 'expired' and a fresh active one is inserted. *)
Insert ==
  /\ step = "selected" /\ target = Nothing
  /\ IF \E r \in Rows \ Stale : status[r] = "active"
     THEN Refuse
     ELSE \E fresh \in Rows :
          /\ status[fresh] = "none"
          /\ Grant([r \in Rows |-> IF r = fresh THEN "active"
                                   ELSE IF r \in Stale THEN "expired" ELSE status[r]],
                   [expires EXCEPT ![fresh] = at + Duration])
  /\ EndFulfilment

(* A crash, a deadlock abort, any other error: rolled back, retried later. *)
Abort ==
  /\ step # "free"
  /\ UNCHANGED <<plan, settled, dropped>>
  /\ EndFulfilment

-----------------------------------------------------------------------------
(* POST /subscription/cancel: reads the plan without a lock ... *)
CancelRead(c) ==
  /\ cancelling[c] = Nothing
  /\ \E r \in Latest(InPeriod) :
       /\ accessUntil' = [accessUntil EXCEPT ![c] = expires[r]]
       /\ cancelling' = IF status[r] = "active" THEN [cancelling EXCEPT ![c] = r]
                                                ELSE cancelling
  /\ UNCHANGED <<now, order, plan, settled, dropped, fulfilment, hook>>

(* An update by primary key: the status it replaces is not looked at. *)
Overwrite(r, to) ==
  /\ status' = [status EXCEPT ![r] = to]
  /\ revived' = IF status[r] = "halted" /\ to = "cancelled" THEN revived \cup {r}
                                                            ELSE revived

\* Variant: cancelling ends the access at once.
CancelWrite_EndsAccess(c) ==
  /\ cancelling[c] # Nothing
  /\ cancelling[c] # target
  /\ Overwrite(cancelling[c], "cancelled")
  /\ expires' = [expires EXCEPT ![cancelling[c]] = now]
  /\ cancelling' = [cancelling EXCEPT ![c] = Nothing]
  /\ UNCHANGED <<now, order, settled, dropped, fulfilment, accessUntil, hook>>

(* ... and writes that row once no fulfilment has it locked. *)
CancelWrite(c) ==
  /\ cancelling[c] # Nothing
  /\ cancelling[c] # target
  /\ Overwrite(cancelling[c], "cancelled")
  /\ cancelling' = [cancelling EXCEPT ![c] = Nothing]
  /\ UNCHANGED <<now, order, expires, settled, dropped, fulfilment, accessUntil, hook>>

(* subscription.cancelled and subscription.halted events: the active row is *)
(* read whatever its expiry, and written when the event commits.            *)
HookRead(h, to) ==
  /\ hook[h] = Closed
  /\ step = "free"
  /\ \E r \in Rows :
       /\ status[r] = "active"
       /\ hook' = [hook EXCEPT ![h] = [row |-> r, to |-> to]]
  /\ UNCHANGED <<now, order, plan, settled, dropped, fulfilment, cancelling, accessUntil>>

HookWrite(h) ==
  /\ hook[h] # Closed
  /\ Overwrite(hook[h].row, hook[h].to)
  /\ hook' = [hook EXCEPT ![h] = Closed]
  /\ UNCHANGED <<now, order, expires, settled, dropped, fulfilment, cancelling, accessUntil>>

Next ==
  \/ Tick
  \/ \E p \in Payments : Checkout(p) \/ Pay(p) \/ LockUser(p)
  \/ SelectRow \/ Extend \/ Insert \/ Abort
  \/ \E c \in Cancels : CancelRead(c) \/ CancelWrite(c)
  \/ \E h \in Hooks : HookWrite(h) \/ \E to \in HookEdits : HookRead(h, to)

Spec == Init /\ [][Next]_vars

-----------------------------------------------------------------------------
(* Properties *)

\* Every variable has its type.
TypeOK ==
  /\ now \in 0..MaxTime
  /\ order \in [Payments -> {"none", "created", "paid"}]
  /\ status \in [Rows -> {"none", "active", "cancelled", "halted", "expired"}]
  /\ expires \in [Rows -> Nat]
  /\ settled \subseteq Payments
  /\ dropped \subseteq Payments
  /\ revived \subseteq Rows
  /\ step \in {"free", "locked", "selected"}
  /\ paying \in Payments \cup {Nothing}
  /\ at \in 0..now
  /\ target \in Rows \cup {Nothing}
  /\ cancelling \in [Cancels -> Rows \cup {Nothing}]
  /\ accessUntil \in [Cancels -> Nat]
  /\ hook \in [Hooks -> [row : Rows, to : HookEdits] \cup {Closed}]

\* A paid order is answered "already fulfilled" without having been granted
\* only when it would renew a row that a stale cancellation brought back after
\* a halt: in any other order of events the lazy flip and the choice of the row
\* to extend keep the one-active index from tripping.
PaidIsGranted == [][dropped' # dropped => target \in revived]_vars

\* A user never has two rows that grant access at the same time, though the
\* index only forbids two active ones and a cancelled row counts too: apart
\* from the rows that a stale cancellation brought back after a halt.
OneInPeriod == \A r, q \in InPeriod \ revived : r = q

\* The end of the access granted by the rows.
Ends == {0} \cup {expires[r] : r \in Live}
AccessEnd == CHOOSE u \in Ends : \A v \in Ends : v <= u

\* The rows Razorpay has ever halted.
Halted == {r \in Rows : status[r] = "halted"} \cup revived

Access == INSTANCE ProAccess WITH until <- AccessEnd, paid <- settled,
                                  halted <- (Halted # {})

\* Until Razorpay halts the plan, each payment adds a full period to whatever
\* access there is, and nothing else moves its end: no renewal, cancellation or
\* race loses paid days.  After a halt each granted payment still gives a full
\* period from the day it is handled, and shortens nothing.
ImplementsProAccess == Access!Spec

\* The answer of a cancel request ("access_until") is kept: access does not
\* end before the date it named, unless Razorpay has halted the plan.
CancelKeepsAccess == Halted = {} => \A c \in Cancels : accessUntil[c] <= AccessEnd

-----------------------------------------------------------------------------
(* The inductive invariant behind the theorems of ProSubscriptionProofs.    *)

\* The open fulfilment has the user row: no event is open next to it.
OneWriter ==
  /\ step # "free" =>
       /\ paying \in Payments \ settled
       /\ \A h \in Hooks : hook[h] = Closed
  /\ step # "selected" => target = Nothing

\* No row ends later than the plan that a fulfilment has selected, nor after
\* the time it saw when it selected none, but for rows brought back since.
SelectedIsLatest ==
  step = "selected" =>
    /\ target = Nothing =>
         \A r \in Live : r \notin revived \/ status[r] = "active" => expires[r] <= at
    /\ target # Nothing =>
         /\ target \in Live
         /\ expires[target] > at
         /\ \A r \in Live : r \notin revived \/ status[r] = "active"
                           => expires[r] <= expires[target]

\* The active row, which the index wants to be the only one, ends after every
\* row that was never brought back.
ActiveIsLatest ==
  \A r \in Rows, q \in Rows \ revived :
    status[r] = "active" /\ status[q] \in {"active", "cancelled", "expired"} /\ r # q
      => expires[q] < expires[r]

\* A flipped row is out of its period; no request or event has read a row
\* that was never inserted, and none is open on a flipped row.
FlippedIsOver ==
  /\ \A r \in Rows : status[r] = "expired" =>
       /\ expires[r] <= now
       /\ step = "selected" => expires[r] <= at
  /\ \A c \in Cancels : cancelling[c] # Nothing => status[cancelling[c]] # "none"
  /\ \A h \in Hooks : hook[h] # Closed =>
       status[hook[h].row] \in {"active", "cancelled", "halted"}

\* As long as none was halted, no row ends after the access, flipped or not.
EndIsLatest ==
  Halted = {} => \A r \in Rows : status[r] # "none" => expires[r] <= AccessEnd

PlanInv ==
  /\ TypeOK
  /\ OneWriter
  /\ EndIsLatest
  /\ SelectedIsLatest
  /\ ActiveIsLatest
  /\ OneInPeriod
  /\ FlippedIsOver
  /\ CancelKeepsAccess
=============================================================================
