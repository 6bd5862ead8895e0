----------------------------- MODULE WeeklySpin -----------------------------
(***************************************************************************)
(* The rewards one user of payments-svc gets for coming back: a spin of    *)
(* the wheel in every ISO week (spin_wheel), and a login bonus on every    *)
(* day (record_daily_login).  The rows are keyed by the week and the day;  *)
(* an INSERT waits while another transaction has inserted the same key.    *)
(***************************************************************************)
EXTENDS Integers, FiniteSets

CONSTANTS
  Requests,     \* requests at the same time
  DaysPerWeek,
  LastDay       \* bound: days

SpinAssumption == DaysPerWeek \in Nat \ {0} /\ LastDay \in Nat

VARIABLES
  today,
  spun,      \* weeks with a row in user_spin_log
  rewards,   \* rewards granted for the spins of each week
  loggedIn,  \* days with a row in user_daily_logins
  firsts,    \* history: how often record_daily_login answered True for a day
  pc,        \* each request: its next statement
  key        \* the week of its spin, or the day of its login

wvars == <<today, spun, rewards, loggedIn, firsts, pc, key>>

Days  == 0 .. LastDay
Weeks == 0 .. LastDay \div DaysPerWeek
Week(d) == d \div DaysPerWeek

Init ==
  /\ today = 0
  /\ spun = {}
  /\ rewards = [w \in Weeks |-> 0]
  /\ loggedIn = {}
  /\ firsts = [d \in Days |-> 0]
  /\ pc = [r \in Requests |-> "idle"]
  /\ key = [r \in Requests |-> 0]

Go(r, step) == pc' = [pc EXCEPT ![r] = step] /\ UNCHANGED key
Leave(r) == pc' = [pc EXCEPT ![r] = "idle"] /\ key' = [key EXCEPT ![r] = 0]

-----------------------------------------------------------------------------
(* The week is taken once, when the request begins. *)
Spin(r) ==
  /\ pc[r] = "idle"
  /\ pc' = [pc EXCEPT ![r] = "look"]
  /\ key' = [key EXCEPT ![r] = Week(today)]
  /\ UNCHANGED <<today, spun, rewards, loggedIn, firsts>>

Look(r) ==
  /\ pc[r] = "look"
  /\ IF key[r] \in spun THEN Leave(r) ELSE Go(r, "insert")
  /\ UNCHANGED <<today, spun, rewards, loggedIn, firsts>>

Inserting(r, step) == \E o \in Requests \ {r} : pc[o] = step /\ key[o] = key[r]

\* Variant: the primary key does not include the week.
InsertSpin_NoKey(r) ==
  /\ pc[r] = "insert"
  /\ Go(r, "grant")
  /\ UNCHANGED <<today, spun, rewards, loggedIn, firsts>>

(* The flush: an IntegrityError says that the week is taken.                 *)
InsertSpin(r) ==
  /\ pc[r] = "insert"
  /\ ~Inserting(r, "grant")
  /\ IF key[r] \in spun THEN Leave(r) ELSE Go(r, "grant")
  /\ UNCHANGED <<today, spun, rewards, loggedIn, firsts>>

(* The reward, credits or a pass, is committed with the row.                 *)
Grant(r) ==
  /\ pc[r] = "grant"
  /\ spun' = spun \cup {key[r]}
  /\ rewards' = [rewards EXCEPT ![key[r]] = @ + 1]
  /\ Leave(r)
  /\ UNCHANGED <<today, loggedIn, firsts>>

-----------------------------------------------------------------------------
(* GET /subscription/status: record_daily_login runs unless the day has a    *)
(* row already.                                                              *)
Status(r) ==
  /\ pc[r] = "idle"
  /\ today \notin loggedIn
  /\ Go(r, "login")
  /\ UNCHANGED <<today, spun, rewards, loggedIn, firsts>>

(* ON CONFLICT DO NOTHING, for the day it is now. *)
RecordLogin(r) ==
  /\ pc[r] = "login"
  /\ \A o \in Requests : ~(pc[o] = "commitLogin" /\ key[o] = today)
  /\ IF today \in loggedIn THEN Leave(r)
     ELSE pc' = [pc EXCEPT ![r] = "commitLogin"] /\ key' = [key EXCEPT ![r] = today]
  /\ UNCHANGED <<today, spun, rewards, loggedIn, firsts>>

CommitLogin(r) ==
  /\ pc[r] = "commitLogin"
  /\ loggedIn' = loggedIn \cup {key[r]}
  /\ firsts' = [firsts EXCEPT ![key[r]] = @ + 1]
  /\ Leave(r)
  /\ UNCHANGED <<today, spun, rewards>>

-----------------------------------------------------------------------------
(* An error or a crash: the transaction is rolled back. *)
Fail(r) ==
  /\ pc[r] # "idle"
  /\ Leave(r)
  /\ UNCHANGED <<today, spun, rewards, loggedIn, firsts>>

NextDay ==
  /\ today < LastDay
  /\ today' = today + 1
  /\ UNCHANGED <<spun, rewards, loggedIn, firsts, pc, key>>

Next ==
  \/ NextDay
  \/ \E r \in Requests :
       \/ Spin(r) \/ Look(r) \/ InsertSpin(r) \/ Grant(r)
       \/ Status(r) \/ RecordLogin(r) \/ CommitLogin(r)
       \/ Fail(r)

Spec == Init /\ [][Next]_wvars

-----------------------------------------------------------------------------
(* A week has one reward when its spin is on record and none otherwise,      *)
(* however many spins run at the same time, fail half-way or run over the    *)
(* end of the week; and one login of a day counts as its first.              *)
OneSpinAWeek ==
  /\ \A w \in Weeks : rewards[w] = IF w \in spun THEN 1 ELSE 0
  /\ \A d \in Days : firsts[d] = IF d \in loggedIn THEN 1 ELSE 0
=============================================================================
