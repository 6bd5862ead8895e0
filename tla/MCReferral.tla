----------------------------- MODULE MCReferral -----------------------------
EXTENDS Referral, TLC

CONSTANTS a, b, c1, c2, t1, t2, g1, g2

\* One user sends two claims at the same time.
SameClaimant == t1 :> a @@ t2 :> a

\* Two users ask for their codes, one at a time.
OneGetEach == g1 :> a @@ g2 :> b
=============================================================================
