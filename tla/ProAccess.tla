----------------------------- MODULE ProAccess -----------------------------
(***************************************************************************)
(* What a customer who buys Pro is promised: each payment adds one full    *)
(* period to the access they have, and nothing else moves its end.         *)
(* Module ProSubscription, with its rows, renewals, cancellations and      *)
(* concurrent requests, is shown to implement this specification.          *)
(***************************************************************************)
EXTENDS Naturals

CONSTANTS Payments,   \* captured payments for Pro
          Duration    \* days that one payment buys

VARIABLES now,        \* today
          until,      \* the end of the access bought so far (0: none)
          paid,       \* payments that have been turned into access
          halted      \* Razorpay has halted the plan once

vars == <<now, until, paid, halted>>

Init == now = 0 /\ until = 0 /\ paid = {} /\ halted = FALSE

Later(a, b) == IF a > b THEN a ELSE b

Tick == now' = now + 1 /\ UNCHANGED <<until, paid, halted>>

\* The period starts when the purchase is handled or when the current one
\* ends, whichever is later; a purchase may be handled over a few ticks.
Purchase(p) ==
  /\ ~halted
  /\ p \notin paid
  /\ \E at \in 0..now : until' = Later(at, until) + Duration
  /\ paid' = paid \cup {p}
  /\ UNCHANGED <<now, halted>>

\* A halt ends the access, or leaves some of it.  From then on Razorpay and
\* late cancellations may move its end either way ...
Halt ==
  /\ halted' = TRUE
  /\ until' \in Nat
  /\ UNCHANGED <<now, paid>>

\* ... and a purchase gives a period from the day it is handled at least.
PurchaseAfterHalt(p) ==
  /\ halted
  /\ p \notin paid
  /\ \E at \in 0..now : until' >= Later(at + Duration, until)
  /\ paid' = paid \cup {p}
  /\ UNCHANGED <<now, halted>>

Next == Tick \/ Halt \/ \E p \in Payments : Purchase(p) \/ PurchaseAfterHalt(p)

Spec == Init /\ [][Next]_vars
=============================================================================
