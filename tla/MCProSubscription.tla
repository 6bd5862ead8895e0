------------------------- MODULE MCProSubscription -------------------------
EXTENDS ProSubscription, TLC

\* Row ids, orders and cancel slots are interchangeable.
Symmetry == Permutations(Rows) \cup Permutations(Payments)
            \cup Permutations(Cancels) \cup Permutations(Hooks)
=============================================================================
