------------------------------ MODULE MCTools -------------------------------
(***************************************************************************)
(* The tools and what stands before them: the text tools with the texts of *)
(* MCTextTools, and the parts of ToolGate, each followed on its own.       *)
(***************************************************************************)
EXTENDS MCTextTools, ToolGate

CONSTANT home

VARIABLE part

\* Two user agents behind one address.
OneAddress == [v \in Visitors |-> home]

ASSUME Calling!CallsAssumption
ASSUME Visiting!VisitorAssumption
ASSUME Limiter!LimiterAssumption

callVars == <<call, asked, paid, job, readers>>
visitVars == <<today, known, counted, served, pc, who, target, day>>
limiterVars == <<time, zset, lapse, hits, slot, checks, admitted, newest, late, memories>>

NoText ==
  /\ work = Workload(Once("uppercase", None), {65}, 0)
  /\ original = <<>> /\ text = <<>> /\ done = 0 /\ status = "ok"

MCInit ==
  /\ \/ part = "text" /\ Init
     \/ part \in {"calls", "visitors", "limiter"} /\ NoText
  /\ Calling!Init /\ Visiting!Init /\ Limiter!Init

MCNext ==
  /\ UNCHANGED part
  /\ \/ part = "text"     /\ Next          /\ UNCHANGED <<callVars, visitVars, limiterVars>>
     \/ part = "calls"    /\ Calling!Next  /\ UNCHANGED <<vars, visitVars, limiterVars>>
     \/ part = "visitors" /\ Visiting!Next /\ UNCHANGED <<vars, callVars, limiterVars>>
     \/ part = "limiter"  /\ Limiter!Next  /\ UNCHANGED <<vars, callVars, visitVars>>

MCSpec == MCInit /\ [][MCNext]_<<part, vars, callVars, visitVars, limiterVars>>
=============================================================================
