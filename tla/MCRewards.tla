------------------------------ MODULE MCRewards -----------------------------
(***************************************************************************)
(* Three users with claims of their own, and three spins or logins at a    *)
(* time.  The parts are independent: a behaviour is about one of them.     *)
(***************************************************************************)
EXTENDS Rewards, TLC

CONSTANTS a, b, c, t1, t2, t3, g1, g2

VARIABLE part

\* Three users, each with claims of their own.
OneClaimEach == t1 :> a @@ t2 :> b @@ t3 :> c
\* Two users ask for their codes, one at a time.
OneGetEach == g1 :> a @@ g2 :> b

ASSUME Wheel!SpinAssumption

wheelVars == <<today, spun, rewards, loggedIn, firsts, spinPc, key>>

MCInit ==
  /\ part \in {"claims", "wheel"}
  /\ Init
  /\ Wheel!Init

MCNext ==
  /\ UNCHANGED part
  /\ \/ part = "claims" /\ Next       /\ UNCHANGED wheelVars
     \/ part = "wheel"  /\ Wheel!Next /\ UNCHANGED vars

\* The fairness of Referral: nothing is asked of spins and logins.
MCSpec == MCInit /\ [][MCNext]_<<part, vars, wheelVars>> /\ Fairness
=============================================================================
