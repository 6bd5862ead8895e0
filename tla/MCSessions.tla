----------------------------- MODULE MCSessions -----------------------------
\* One user with two requests at a time.
EXTENDS Sessions, TLC

CONSTANTS r1, r2

Symmetry == Permutations(Requests)
=============================================================================
