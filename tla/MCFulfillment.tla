--------------------------- MODULE MCFulfillment ---------------------------
(* Values of Fulfillment's constants for TLC. *)
EXTENDS Fulfillment

CONSTANTS u1, p1, p2, p3, p4, p5, e1, e2, e3, e4, e5

\* Two purchases of one user, so that first purchases race for the gift.
OneBuyer == [p \in Payments |-> u1]
EventOf  == [e \in Events |->
              CASE e = e1 -> p1 [] e = e2 -> p2 [] e = e3 -> p3
                [] e = e4 -> p4 [] e = e5 -> p5]

\* payment.authorized and payment.captured of one payment, and others.
AuthorizedToo == [e \in Events |-> IF e = e2 THEN p1 ELSE EventOf[e]]

\* Every kind of user id that order notes can carry.
AnyNotes == [p \in Payments |->
              CASE p \in {p1, p2} -> u1 [] p = p3 -> NoUserId
                [] p = p4 -> UnknownUser [] p = p5 -> BadUserId]

\* Every event has an id of its own.
OwnKey == [e \in Events |-> e]
=============================================================================
