------------------------------ MODULE ToolQuota ------------------------------
(***************************************************************************)
(* What the entitlement gate promises: a call is answered once, an answer  *)
(* "credit" takes one credit from the user's balance, an answer "free"     *)
(* counts one free use, and no other answer, and no failure, moves either. *)
(***************************************************************************)
EXTENDS Naturals

CONSTANTS
  Requests,    \* slots for calls of one user that run at the same time
  Amounts      \* numbers of credits that a purchase or a reward may add

VARIABLES
  balance,     \* the user's credits
  freeUses,    \* free uses counted so far, over all tools and days
  outcome      \* the last answer of each slot, or "open" while it runs

quotaVars == <<balance, freeUses, outcome>>

Unmetered == {"always", "pro", "pass", "blocked", "failed"}

QuotaInit ==
  /\ balance = 0
  /\ freeUses = 0
  /\ outcome \in [Requests -> Unmetered \cup {"free", "credit"}]

Ask(q) ==
  /\ outcome[q] # "open"
  /\ outcome' = [outcome EXCEPT ![q] = "open"]
  /\ UNCHANGED <<balance, freeUses>>

Answer(q, r) ==
  /\ outcome[q] = "open"
  /\ outcome' = [outcome EXCEPT ![q] = r]

AnswerUnmetered(q) ==
  /\ \E r \in Unmetered : Answer(q, r)
  /\ UNCHANGED <<balance, freeUses>>

AnswerCredit(q) ==
  /\ Answer(q, "credit")
  /\ balance > 0
  /\ balance' = balance - 1
  /\ UNCHANGED freeUses

AnswerFree(q) ==
  /\ Answer(q, "free")
  /\ freeUses' = freeUses + 1
  /\ UNCHANGED balance

AddCredits ==
  /\ \E n \in Amounts : balance' = balance + n
  /\ UNCHANGED <<freeUses, outcome>>

QuotaNext ==
  \/ AddCredits
  \/ \E q \in Requests :
       Ask(q) \/ AnswerUnmetered(q) \/ AnswerCredit(q) \/ AnswerFree(q)

QuotaSpec == QuotaInit /\ [][QuotaNext]_quotaVars
=============================================================================
