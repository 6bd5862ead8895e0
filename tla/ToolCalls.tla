------------------------------ MODULE ToolCalls -----------------------------
(***************************************************************************)
(* Calls of tools: POST /text/{tool_id} of text-svc, and the run, stream   *)
(* and enqueue routes of ai-svc with the worker behind the last.  Each     *)
(* call passes its service's rate limiter and then asks payments-svc       *)
(* (/internal/v1/check-access), which consumes a use.  The answer may be   *)
(* late or lost: payments-svc carries on when its caller has given up.     *)
(* Redis and the arq library behind the queue are external.                *)
(***************************************************************************)
EXTENDS Naturals, Sequences

CONSTANTS
  Users,      \* signed-in users, with a verified e-mail address
  Visitor,    \* someone who is not signed in
  TextTools,  \* LOCAL tools of text-svc
  AlwaysFree, \* those in its ALWAYS_FREE_TOOL_IDS
  StaticAi,   \* AI tools with a prompt of their own
  DynamicAi,  \* AI tools whose prompt is built from a further argument
  Offline,    \* AI tools that have something to offer without Groq
  MAX_TRIES,  \* attempts of arq at a job
  MaxCalls    \* bound: calls

AiTools == StaticAi \cup DynamicAi
Routes == {"text", "run", "stream", "enqueue"}

CallsAssumption ==
  /\ Visitor \notin Users
  /\ TextTools \cap AiTools = {}
  /\ AlwaysFree \subseteq TextTools
  /\ Offline \subseteq AiTools
  /\ MAX_TRIES \in Nat \ {0}

VARIABLES
  call,    \* call[i]: route, tool and caller, and where it stands
  asked,   \* asked[i]: what became of its request at payments-svc
  paid,    \* calls whose use is consumed in the database of payments-svc
  job,     \* job[i]: its job in Redis
  readers  \* readers[i]: who has got a result of the call

cvars == <<call, asked, paid, job, readers>>

Calls == DOMAIN call
NoJob == [status |-> "none", tries |-> 0]

Init ==
  /\ call = <<>>
  /\ asked = <<>>
  /\ paid = {}
  /\ job = <<>>
  /\ readers = <<>>

At(i, step) == call[i].step = step
Go(i, step) == call' = [call EXCEPT ![i].step = step]

(* 404, 422, 401 and 403 are answered before anything happens.               *)
Arrive ==
  /\ Len(call) < MaxCalls
  /\ \E route \in Routes, tool \in TextTools \cup AiTools, who \in Users \cup {Visitor} :
       /\ route = "text" <=> tool \in TextTools
       /\ who = Visitor => route = "text"
       /\ call' = Append(call, [route |-> route, tool |-> tool, who |-> who, step |-> "limit"])
  /\ asked' = Append(asked, "no")
  /\ job' = Append(job, NoJob)
  /\ readers' = Append(readers, {})
  /\ UNCHANGED paid

(* The limiter refuses the call with a 429, or the gate is asked.            *)
Limit(i) ==
  /\ At(i, "limit")
  /\ \/ Go(i, "gate") /\ asked' = [asked EXCEPT ![i] = "sent"]
     \/ Go(i, "throttled") /\ UNCHANGED asked
  /\ UNCHANGED <<paid, job, readers>>

-----------------------------------------------------------------------------
(* payments-svc: allowed and committed, denied, or an error and a rollback.  *)
Allow(i) ==
  /\ asked[i] = "sent"
  /\ asked' = [asked EXCEPT ![i] = "allowed"]
  /\ paid' = paid \cup {i}
  /\ UNCHANGED <<call, job, readers>>

Deny(i) ==
  /\ asked[i] = "sent"
  /\ \E answer \in {"denied", "error"} : asked' = [asked EXCEPT ![i] = answer]
  /\ UNCHANGED <<call, paid, job, readers>>

-----------------------------------------------------------------------------
\* Variant: an outage of the gate opens it.
Closed_Open(i) == Go(i, "run")

(* _fail_closed of text-svc; ai-svc knows no free tools.                     *)
Closed(i) ==
  Go(i, IF call[i].route = "text" /\ call[i].tool \in AlwaysFree THEN "run" ELSE "unavailable")

(* check_access: no answer in time, whatever payments-svc has done or does   *)
(* yet, or an answer.                                                        *)
GateTimeout(i) ==
  /\ At(i, "gate")
  /\ Closed(i)
  /\ UNCHANGED <<asked, paid, job, readers>>

GateAnswer(i) ==
  /\ At(i, "gate")
  /\ \/ asked[i] = "allowed" /\ Go(i, "run")
     \/ asked[i] = "denied" /\ Go(i, "refused")
     \/ asked[i] = "error" /\ Closed(i)
  /\ UNCHANGED <<asked, paid, job, readers>>

-----------------------------------------------------------------------------
Serve(i) ==
  /\ readers' = [readers EXCEPT ![i] = @ \cup {call[i].who}]
  /\ Go(i, "served")

(* Whether an AI tool gives a result: that of Groq, or else of its fallback, *)
(* which for some tools is only to say that the service is unavailable.      *)
MayFail(i) == call[i].route = "text" \/ call[i].tool \notin Offline

(* The handler in its thread, within its time, or run_ai_tool.               *)
Run(i) ==
  /\ At(i, "run")
  /\ call[i].route \in {"text", "run"}
  /\ Serve(i) \/ (MayFail(i) /\ Go(i, "failed") /\ UNCHANGED readers)
  /\ UNCHANGED <<asked, paid, job>>

(* stream_ai_tool: the body of a stream has no argument beside the text, so  *)
(* a tool that needs one has no prompt, and fails here, after the gate.      *)
Streamable(i) == call[i].tool \in StaticAi

(* An error in the middle ends the stream with [ERROR].                      *)
Stream(i) ==
  /\ At(i, "run")
  /\ call[i].route = "stream"
  /\ \/ Streamable(i) /\ Serve(i)
     \/ Go(i, "failed") /\ UNCHANGED readers
  /\ UNCHANGED <<asked, paid, job>>

Enqueue(i) ==
  /\ At(i, "run")
  /\ call[i].route = "enqueue"
  /\ \/ Go(i, "queued") /\ job' = [job EXCEPT ![i].status = "queued"]
     \/ Go(i, "failed") /\ UNCHANGED job
  /\ UNCHANGED <<asked, paid, readers>>

-----------------------------------------------------------------------------
(* The worker; one that is stopped leaves the job to be tried again.         *)
Work(i, before, after) ==
  /\ job[i].status = before
  /\ job' = [job EXCEPT ![i].status = after]
  /\ UNCHANGED <<call, asked, paid, readers>>

Start(i) ==
  /\ job[i].status = "queued"
  /\ job' = [job EXCEPT ![i] =
       [status |-> IF @.tries < MAX_TRIES THEN "in_progress" ELSE "failed",
        tries |-> IF @.tries < MAX_TRIES THEN @.tries + 1 ELSE @.tries]]
  /\ UNCHANGED <<call, asked, paid, readers>>

WorkerStops(i) == Work(i, "in_progress", "queued")
Finish(i) ==
  \/ Work(i, "in_progress", "complete")
  \/ call[i].tool \notin Offline /\ Work(i, "in_progress", "failed")

(* keep_result: the result is kept for an hour. *)
Lapse(i) == Work(i, "complete", "none") \/ Work(i, "failed", "none")

(* get_job_status: only the user whose id is among the job's arguments; the  *)
(* other answers change nothing.                                             *)
Poll(i, u) ==
  /\ job[i].status = "complete"
  /\ call[i].who = u
  /\ readers' = [readers EXCEPT ![i] = @ \cup {u}]
  /\ UNCHANGED <<call, asked, paid, job>>

Next ==
  \/ Arrive
  \/ \E i \in Calls :
       \/ Limit(i) \/ Allow(i) \/ Deny(i) \/ GateTimeout(i) \/ GateAnswer(i)
       \/ Run(i) \/ Stream(i) \/ Enqueue(i)
       \/ Start(i) \/ WorkerStops(i) \/ Finish(i) \/ Lapse(i)
       \/ \E u \in Users : Poll(i, u)

Spec == Init /\ [][Next]_cvars

-----------------------------------------------------------------------------
(* A result of a billable tool goes to nobody but its caller, and only after *)
(* payments-svc has consumed a use for this very call; a call that the rate  *)
(* limiter turned away costs none, then or later.  (The converse does not    *)
(* hold: a use may be consumed for a call that fails.)                       *)
ServedIsPaid ==
  \A i \in Calls :
    /\ readers[i] \subseteq {call[i].who}
    /\ readers[i] # {} /\ call[i].tool \notin AlwaysFree => i \in paid
    /\ At(i, "throttled") => asked[i] = "no" /\ i \notin paid
=============================================================================
