--------------------------- MODULE MCEntitlement ---------------------------
EXTENDS Entitlement, TLC

CONSTANTS q1, q2, q3, x, f, p1, p2

Symmetry == Permutations(Requests)

\* Two passes for one tool, one with a single use that ends the same day.
TwoPassTools    == p1 :> {x} @@ p2 :> {x}
TwoPassPerDay   == p1 :> 1 @@ p2 :> 2
TwoPassDuration == p1 :> 1 @@ p2 :> 4
\* One pass for one tool, with a single use a day, that outlives the clock.
OnePassTools    == p1 :> {x}
OnePassPerDay   == p1 :> 1
OnePassDuration == p1 :> 3

OnePack == <<2>>
NoPack  == <<>>
=============================================================================
