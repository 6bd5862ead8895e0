--------------------------- MODULE PaymentLedger ---------------------------
(***************************************************************************)
(* What payments-svc promises about captured money: every captured payment *)
(* is settled at most once, either by granting what was bought or by       *)
(* refunding it, and a user's first settled purchase (and only that one)   *)
(* carries the welcome gift.  No concurrency, no transactions, no failure: *)
(* module Fulfillment is shown to implement this specification.            *)
(***************************************************************************)
EXTENDS Naturals

CONSTANTS Users,      \* accounts that can own a payment
          Payments,   \* captured Razorpay payments
          Buyer       \* Buyer[p] is the account that pays p

VARIABLES outcome,    \* what became of each payment
          granted,    \* how many entitlements each payment has produced
          gifts       \* how many welcome gifts each account has received

vars == <<outcome, granted, gifts>>

Init == /\ outcome = [p \in Payments |-> "open"]
        /\ granted = [p \in Payments |-> 0]
        /\ gifts = [u \in Users |-> 0]

\* One atomic grant; the gift comes with the account's first grant.
Grant(p) == /\ outcome[p] = "open"
            /\ Buyer[p] \in Users
            /\ outcome' = [outcome EXCEPT ![p] = "granted"]
            /\ granted' = [granted EXCEPT ![p] = @ + 1]
            /\ gifts' = [gifts EXCEPT ![Buyer[p]] = 1]

Refund(p) == /\ outcome[p] = "open"
             /\ outcome' = [outcome EXCEPT ![p] = "refunded"]
             /\ UNCHANGED <<granted, gifts>>

Next == \E p \in Payments : Grant(p) \/ Refund(p)

Spec == Init /\ [][Next]_vars
=============================================================================
