------------------------------ MODULE Rewards -------------------------------
(***************************************************************************)
(* What payments-svc gives away: rewards for a referral, and those of the  *)
(* weekly spin and the daily login.  The two share no row that one of them *)
(* writes.                                                                 *)
(***************************************************************************)
EXTENDS Referral

CONSTANTS Requests, DaysPerWeek, LastDay

VARIABLES today, spun, rewards, loggedIn, firsts, spinPc, key

Wheel == INSTANCE WeeklySpin WITH pc <- spinPc

\* One reward for every week that was spun, one first login for every day.
OneSpinAWeek == Wheel!OneSpinAWeek
=============================================================================
