----------------------------- MODULE ToolProofs ------------------------------
(***************************************************************************)
(* What holds of ToolCalls, RateLimiter and VisitorQuota for every number  *)
(* of calls, users, tools, replicas and visitors, and all bounds.          *)
(***************************************************************************)
EXTENDS ToolGate, Naturals, SequenceTheorems, FunctionTheorems, FiniteSetTheorems, TLAPS

-----------------------------------------------------------------------------
(* Calls of tools: the invariant *)

Steps == {"limit", "throttled", "gate", "run", "refused", "unavailable", "served", "failed", "queued"}
Callers == Users \cup {Visitor}
CallRecords == [route : Calling!Routes, tool : LocalTools \cup Calling!AiTools, who : Callers, step : Steps]
JobRecords ==
  [status : {"none", "queued", "in_progress", "complete", "failed"}, tries : Nat]

CallsTypeOK ==
  /\ call \in Seq(CallRecords)
  /\ asked \in Seq({"no", "sent", "allowed", "denied", "error"})
  /\ job \in Seq(JobRecords)
  /\ readers \in Seq(SUBSET Callers)
  /\ Len(asked) = Len(call) /\ Len(job) = Len(call) /\ Len(readers) = Len(call)
  /\ paid \subseteq Calling!Calls

\* Every service offers its own tools.
ToolsOfRoutes == \A i \in Calling!Calls : call[i].route = "text" <=> call[i].tool \in LocalTools

\* payments-svc has consumed a use exactly for the calls it has allowed, and it
\* is asked only for calls that the limiter lets through.
GateBooks ==
  \A i \in Calling!Calls :
    /\ i \in paid <=> asked[i] = "allowed"
    /\ Calling!At(i, "limit") \/ Calling!At(i, "throttled") => asked[i] = "no"

\* Behind the gate: the handlers, the job and its result.
BehindGate ==
  \A i \in Calling!Calls : call[i].tool \notin AlwaysFree =>
    \/ asked[i] = "allowed"
    \/ /\ call[i].step \notin {"run", "served", "queued"}
       /\ job[i].status = "none"
       /\ readers[i] = {}

\* Nobody but the caller reads a result, and only an enqueued call has a job.
OwnResults ==
  \A i \in Calling!Calls :
    /\ readers[i] \subseteq {call[i].who}
    /\ job[i].status # "none" => call[i].route = "enqueue"

CallsInv == CallsTypeOK /\ ToolsOfRoutes /\ GateBooks /\ BehindGate /\ OwnResults

-----------------------------------------------------------------------------
LEMMA SeqUpdate ==
  ASSUME NEW S, NEW s \in Seq(S), NEW i \in DOMAIN s, NEW x \in S
  PROVE  /\ [s EXCEPT ![i] = x] \in Seq(S)
         /\ Len([s EXCEPT ![i] = x]) = Len(s)
         /\ DOMAIN [s EXCEPT ![i] = x] = DOMAIN s
         /\ \A k \in DOMAIN s : [s EXCEPT ![i] = x][k] = IF k = i THEN x ELSE s[k]
<1>1. DOMAIN s = 1 .. Len(s)
  BY LenProperties
<1>2. /\ [s EXCEPT ![i] = x] \in Seq(S)
      /\ Len([s EXCEPT ![i] = x]) = Len(s)
      /\ \A k \in 1 .. Len(s) : [s EXCEPT ![i] = x][k] = IF k = i THEN x ELSE s[k]
  BY <1>1, ExceptSeq
<1>3. DOMAIN [s EXCEPT ![i] = x] = 1 .. Len(s)
  BY <1>2, LenProperties
<1>. QED
  BY <1>1, <1>2, <1>3

(* The records of a call. *)
LEMMA CallTypes ==
  ASSUME CallsTypeOK, NEW i \in Calling!Calls
  PROVE  /\ DOMAIN asked = Calling!Calls /\ DOMAIN job = Calling!Calls /\ DOMAIN readers = Calling!Calls
         /\ call[i] \in CallRecords
         /\ job[i] \in JobRecords
         /\ readers[i] \in SUBSET Callers
<1>1. /\ DOMAIN call = 1 .. Len(call) /\ DOMAIN asked = 1 .. Len(asked)
      /\ DOMAIN job = 1 .. Len(job) /\ DOMAIN readers = 1 .. Len(readers)
  BY LenProperties DEF CallsTypeOK
<1>. QED
  BY <1>1, ElementOfSeq DEF CallsTypeOK, Calling!Calls

(* A step of call i that leaves the calls, their number and tools alone.     *)
LEMMA SameCalls ==
  ASSUME CallsTypeOK, NEW i \in Calling!Calls, NEW step \in Steps,
         call' = [call EXCEPT ![i].step = step]
  PROVE  /\ call' \in Seq(CallRecords) /\ Len(call') = Len(call) /\ Calling!Calls' = Calling!Calls
         /\ \A k \in Calling!Calls :
              /\ call'[k].route = call[k].route /\ call'[k].tool = call[k].tool
              /\ call'[k].who = call[k].who
              /\ call'[k].step = IF k = i THEN step ELSE call[k].step
<1>. DEFINE new == [call[i] EXCEPT !.step = step]
<1>1. call \in Seq(CallRecords) /\ call[i] \in CallRecords /\ new \in CallRecords
  BY CallTypes DEF CallsTypeOK, CallRecords
<1>2. call' = [call EXCEPT ![i] = new]
  OBVIOUS
<1>3. /\ call' \in Seq(CallRecords) /\ Len(call') = Len(call) /\ Calling!Calls' = Calling!Calls
      /\ \A k \in Calling!Calls : call'[k] = IF k = i THEN new ELSE call[k]
  BY <1>1, <1>2, SeqUpdate DEF Calling!Calls
<1>4. /\ new.route = call[i].route /\ new.tool = call[i].tool /\ new.who = call[i].who
      /\ new.step = step
  BY <1>1 DEF CallRecords
<1>. QED
  BY <1>3, <1>4

LEMMA ArriveStep == ASSUME CallsInv, Calling!Arrive PROVE CallsInv'
<1>1. PICK route \in Calling!Routes, tool \in LocalTools \cup Calling!AiTools, by \in Callers :
        /\ route = "text" <=> tool \in LocalTools
        /\ call' = Append(call, [route |-> route, tool |-> tool, who |-> by, step |-> "limit"])
  BY DEF Calling!Arrive, Callers
<1>2. /\ asked' = Append(asked, "no") /\ job' = Append(job, Calling!NoJob)
      /\ readers' = Append(readers, {}) /\ paid' = paid
  BY DEF Calling!Arrive
<1>. DEFINE n == Len(call) + 1
<1>3. /\ Calling!Calls' = Calling!Calls \cup {n} /\ n \notin Calling!Calls
      /\ Calling!Calls = 1 .. Len(call)
  BY <1>1 DEF CallsInv, CallsTypeOK, Calling!Calls
<1>4. /\ call'[n] = [route |-> route, tool |-> tool, who |-> by, step |-> "limit"]
      /\ asked'[n] = "no" /\ job'[n] = Calling!NoJob /\ readers'[n] = {}
  BY <1>1, <1>2 DEF CallsInv, CallsTypeOK
<1>5. \A k \in Calling!Calls : /\ call'[k] = call[k] /\ asked'[k] = asked[k]
                       /\ job'[k] = job[k] /\ readers'[k] = readers[k]
  BY <1>1, <1>2, <1>3 DEF CallsInv, CallsTypeOK
<1>6. CallsTypeOK'
  <2>1. call' \in Seq(CallRecords) /\ Len(call') = n
    BY <1>1 DEF CallsInv, CallsTypeOK, CallRecords, Steps
  <2>2. /\ asked' \in Seq({"no", "sent", "allowed", "denied", "error"}) /\ Len(asked') = n
        /\ job' \in Seq(JobRecords) /\ Len(job') = n
        /\ readers' \in Seq(SUBSET Callers) /\ Len(readers') = n
    BY <1>2 DEF CallsInv, CallsTypeOK, JobRecords, Calling!NoJob
  <2>. QED
    BY <1>2, <1>3, <2>1, <2>2 DEF CallsInv, CallsTypeOK
<1>. HIDE DEF n
<1>7. n \notin paid
  BY <1>3 DEF CallsInv, CallsTypeOK
<1>8. ToolsOfRoutes'
  <2>1. call'[n].route = "text" <=> call'[n].tool \in LocalTools
    <3>1. call'[n].route = route /\ call'[n].tool = tool
      BY <1>4
    <3>. QED
      BY <1>1, <3>1, Zenon
  <2>. QED
    BY <1>3, <1>5, <2>1 DEF CallsInv, ToolsOfRoutes
<1>9. GateBooks'
  <2>1. \A k \in Calling!Calls : (Calling!At(k, "limit") \/ Calling!At(k, "throttled"))' <=> Calling!At(k, "limit") \/ Calling!At(k, "throttled")
    BY <1>5 DEF Calling!At
  <2>. QED
    BY <1>2, <1>3, <1>4, <1>5, <1>7, <2>1 DEF CallsInv, GateBooks
<1>10. BehindGate' /\ OwnResults'
  BY <1>3, <1>4, <1>5 DEF CallsInv, BehindGate, OwnResults, Calling!NoJob
<1>. QED
  BY <1>6, <1>8, <1>9, <1>10 DEF CallsInv

LEMMA LimitStep == ASSUME CallsInv, NEW i \in Calling!Calls, Calling!Limit(i) PROVE CallsInv'
<1>1. PICK step \in {"gate", "throttled"} :
        /\ call' = [call EXCEPT ![i].step = step]
        /\ asked' = IF step = "gate" THEN [asked EXCEPT ![i] = "sent"] ELSE asked
  BY DEF Calling!Limit, Calling!Go
<1>2. UNCHANGED <<paid, job, readers>> /\ Calling!At(i, "limit")
  BY DEF Calling!Limit
<1>3. /\ call' \in Seq(CallRecords) /\ Len(call') = Len(call) /\ Calling!Calls' = Calling!Calls
      /\ \A k \in Calling!Calls :
           /\ call'[k].route = call[k].route /\ call'[k].tool = call[k].tool
           /\ call'[k].who = call[k].who
           /\ call'[k].step = IF k = i THEN step ELSE call[k].step
  <2>1. step \in Steps /\ CallsTypeOK
    BY DEF CallsInv, Steps
  <2>. QED
    BY <1>1, <2>1, SameCalls
<1>4. /\ asked' \in Seq({"no", "sent", "allowed", "denied", "error"}) /\ Len(asked') = Len(asked)
      /\ \A k \in Calling!Calls : asked'[k] = IF k = i /\ step = "gate" THEN "sent" ELSE asked[k]
  <2>. DEFINE Answers == {"no", "sent", "allowed", "denied", "error"}
  <2>1. DOMAIN asked = Calling!Calls /\ asked \in Seq(Answers)
    BY CallTypes DEF CallsInv, CallsTypeOK
  <2>2. CASE step = "throttled"
    BY <1>1, <2>1, <2>2
  <2>3. CASE step = "gate"
    BY <1>1, <2>1, <2>3, SeqUpdate, "sent" \in Answers
  <2>. QED
    BY <2>2, <2>3
<1>5. CallsTypeOK'
  BY <1>2, <1>3, <1>4 DEF CallsInv, CallsTypeOK
<1>6. asked[i] = "no"
  BY <1>2 DEF CallsInv, GateBooks
<1>7. ToolsOfRoutes' /\ GateBooks'
  BY <1>1, <1>2, <1>3, <1>4, <1>6 DEF CallsInv, ToolsOfRoutes, GateBooks, Calling!At
<1>8. BehindGate' /\ OwnResults'
  BY <1>1, <1>2, <1>3, <1>4, <1>6 DEF CallsInv, BehindGate, OwnResults
<1>. QED
  BY <1>5, <1>7, <1>8 DEF CallsInv

\* The answer of payments-svc.
LEMMA AnswerStep == ASSUME CallsInv, NEW i \in Calling!Calls, Calling!Allow(i) \/ Calling!Deny(i) PROVE CallsInv'
<1>1. PICK answer \in {"allowed", "denied", "error"} :
        /\ asked' = [asked EXCEPT ![i] = answer]
        /\ paid' = IF answer = "allowed" THEN paid \cup {i} ELSE paid
  BY DEF Calling!Allow, Calling!Deny
<1>2. asked[i] = "sent" /\ UNCHANGED <<call, job, readers>>
  BY DEF Calling!Allow, Calling!Deny
<1>3. /\ asked' \in Seq({"no", "sent", "allowed", "denied", "error"}) /\ Len(asked') = Len(asked)
      /\ Calling!Calls' = Calling!Calls
      /\ \A k \in Calling!Calls : asked'[k] = IF k = i THEN answer ELSE asked[k]
  BY <1>1, <1>2 DEF CallsInv, CallsTypeOK, Calling!Calls
<1>4. CallsTypeOK'
  BY <1>1, <1>2, <1>3 DEF CallsInv, CallsTypeOK
<1>5. ToolsOfRoutes' /\ GateBooks' /\ BehindGate' /\ OwnResults'
  BY <1>1, <1>2, <1>3
  DEF CallsInv, ToolsOfRoutes, GateBooks, BehindGate, OwnResults, Calling!At
<1>. QED
  BY <1>4, <1>5 DEF CallsInv

\* Steps of the call itself from the gate on: what it takes for step to be next,
\* and for a result to be read or a job to be queued.
LEMMA CallStep ==
  ASSUME CallsInv, NEW i \in Calling!Calls, NEW step \in Steps \ {"limit", "throttled"},
         call' = [call EXCEPT ![i].step = step],
         step \in {"run", "served", "queued"} /\ call[i].tool \notin AlwaysFree
           => asked[i] = "allowed",
         \/ readers' = readers
         \/ readers' = [readers EXCEPT ![i] = @ \cup {call[i].who}] /\ step = "served",
         \/ job' = job
         \/ /\ job' = [job EXCEPT ![i].status = "queued"]
            /\ step = "queued" /\ call[i].route = "enqueue",
         UNCHANGED <<asked, paid>>
  PROVE  CallsInv'
<1>1. /\ call' \in Seq(CallRecords) /\ Len(call') = Len(call) /\ Calling!Calls' = Calling!Calls
      /\ \A k \in Calling!Calls :
           /\ call'[k].route = call[k].route /\ call'[k].tool = call[k].tool
           /\ call'[k].who = call[k].who
           /\ call'[k].step = IF k = i THEN step ELSE call[k].step
  BY SameCalls DEF CallsInv
<1>2. /\ call[i].who \in Callers
      /\ job[i] \in JobRecords
  BY CallTypes DEF CallsInv, CallRecords
<1>3. /\ readers' \in Seq(SUBSET Callers) /\ Len(readers') = Len(readers)
      /\ \A k \in Calling!Calls :
           \/ readers'[k] = readers[k]
           \/ k = i /\ step = "served" /\ readers'[k] = readers[k] \cup {call[k].who}
  <2>1. /\ DOMAIN readers = Calling!Calls /\ readers \in Seq(SUBSET Callers)
        /\ readers[i] \cup {call[i].who} \in SUBSET Callers
    BY <1>2, CallTypes DEF CallsInv, CallsTypeOK
  <2>. QED
    BY <2>1, SeqUpdate
<1>4. /\ job' \in Seq(JobRecords) /\ Len(job') = Len(job)
      /\ \A k \in Calling!Calls :
           \/ job'[k] = job[k]
           \/ k = i /\ step = "queued" /\ call[k].route = "enqueue"
  <2>. DEFINE new == [job[i] EXCEPT !.status = "queued"]
  <2>1. /\ DOMAIN job = Calling!Calls /\ job \in Seq(JobRecords) /\ new \in JobRecords
        /\ [job EXCEPT ![i].status = "queued"] = [job EXCEPT ![i] = new]
    BY <1>2, CallTypes DEF CallsInv, CallsTypeOK, JobRecords
  <2>. HIDE DEF new
  <2>. QED
    BY <2>1, SeqUpdate
<1>5. CallsTypeOK'
  BY <1>1, <1>3, <1>4 DEF CallsInv, CallsTypeOK
<1>6. ToolsOfRoutes' /\ GateBooks'
  BY <1>1 DEF CallsInv, ToolsOfRoutes, GateBooks, Calling!At
<1>7. BehindGate'
  BY <1>1, <1>3, <1>4 DEF CallsInv, BehindGate
<1>8. OwnResults'
  BY <1>1, <1>3, <1>4 DEF CallsInv, OwnResults
<1>. QED
  BY <1>5, <1>6, <1>7, <1>8 DEF CallsInv

\* The gate lets a call pass that it has allowed, or whose tool is always free.
LEMMA GateStep ==
  ASSUME CallsInv, NEW i \in Calling!Calls, Calling!GateTimeout(i) \/ Calling!GateAnswer(i)
  PROVE  CallsInv'
<1>1. PICK step \in {"run", "refused", "unavailable"} :
        /\ call' = [call EXCEPT ![i].step = step]
        /\ step = "run" => asked[i] = "allowed" \/ call[i].tool \in AlwaysFree
  BY DEF Calling!GateTimeout, Calling!GateAnswer, Calling!Closed, Calling!Go
<1>2. UNCHANGED <<asked, paid, job, readers>>
  BY DEF Calling!GateTimeout, Calling!GateAnswer
<1>. QED
  BY <1>1, <1>2, CallStep DEF Steps

LEMMA HandlerStep ==
  ASSUME CallsInv, NEW i \in Calling!Calls, Calling!Run(i) \/ Calling!Stream(i) \/ Calling!Enqueue(i)
  PROVE  CallsInv'
<1>1. PICK step \in {"served", "failed", "queued"} :
        /\ call' = [call EXCEPT ![i].step = step]
        /\ \/ readers' = readers
           \/ readers' = [readers EXCEPT ![i] = @ \cup {call[i].who}] /\ step = "served"
        /\ \/ job' = job
           \/ /\ job' = [job EXCEPT ![i].status = "queued"]
              /\ step = "queued" /\ call[i].route = "enqueue"
  BY DEF Calling!Run, Calling!Stream, Calling!Enqueue, Calling!Serve, Calling!Go
<1>2. Calling!At(i, "run") /\ UNCHANGED <<asked, paid>>
  BY DEF Calling!Run, Calling!Stream, Calling!Enqueue
<1>3. call[i].tool \notin AlwaysFree => asked[i] = "allowed"
  BY <1>2 DEF CallsInv, BehindGate, Calling!At
<1>. QED
  BY <1>1, <1>2, <1>3, CallStep DEF Steps

\* The worker moves a job that somebody has queued.
LEMMA WorkerStep ==
  ASSUME CallsInv, NEW i \in Calling!Calls, Calling!Start(i) \/ Calling!WorkerStops(i) \/ Calling!Finish(i) \/ Calling!Lapse(i)
  PROVE  CallsInv'
<1>1. job[i] \in JobRecords
  BY CallTypes DEF CallsInv
<1>2. PICK new \in JobRecords : job' = [job EXCEPT ![i] = new]
  <2>1. CASE Calling!Start(i)
    <3>. DEFINE w == [status |-> IF job[i].tries < MAX_TRIES THEN "in_progress" ELSE "failed",
                      tries |-> IF job[i].tries < MAX_TRIES THEN job[i].tries + 1 ELSE job[i].tries]
    <3>1. w \in JobRecords /\ job' = [job EXCEPT ![i] = w]
      BY <1>1, <2>1 DEF Calling!Start, JobRecords
    <3>. QED
      BY <3>1
  <2>2. ASSUME NEW before, NEW after \in {"none", "queued", "complete", "failed"},
               Calling!Work(i, before, after)
        PROVE  \E new \in JobRecords : job' = [job EXCEPT ![i] = new]
    <3>. DEFINE w == [job[i] EXCEPT !.status = after]
    <3>1. w \in JobRecords /\ job' = [job EXCEPT ![i] = w]
      BY <1>1, <2>2 DEF Calling!Work, JobRecords, CallsInv, CallsTypeOK
    <3>. QED
      BY <3>1
  <2>. QED
    BY <2>1, <2>2 DEF Calling!WorkerStops, Calling!Finish, Calling!Lapse
<1>3. job[i].status # "none" /\ UNCHANGED <<call, asked, paid, readers>>
  BY DEF Calling!Start, Calling!WorkerStops, Calling!Finish, Calling!Lapse, Calling!Work
<1>4. /\ job' \in Seq(JobRecords) /\ Len(job') = Len(job)
      /\ \A k \in Calling!Calls : k # i => job'[k] = job[k]
  BY <1>2 DEF CallsInv, CallsTypeOK, Calling!Calls
<1>5. Calling!Calls' = Calling!Calls /\ CallsTypeOK'
  BY <1>3, <1>4 DEF CallsInv, CallsTypeOK, Calling!Calls
<1>6. ToolsOfRoutes' /\ GateBooks' /\ BehindGate' /\ OwnResults'
  BY <1>3, <1>4, <1>5 DEF CallsInv, ToolsOfRoutes, GateBooks, BehindGate, OwnResults, Calling!At
<1>. QED
  BY <1>5, <1>6 DEF CallsInv

\* A job has a result only behind the gate, and its caller is the one to get it.
LEMMA PollStep ==
  ASSUME CallsInv, NEW i \in Calling!Calls, NEW u \in Users, Calling!Poll(i, u)
  PROVE  CallsInv'
<1>1. /\ job[i].status = "complete" /\ call[i].who = u
      /\ readers' = [readers EXCEPT ![i] = @ \cup {u}]
      /\ UNCHANGED <<call, asked, paid, job>>
  BY DEF Calling!Poll
<1>2. /\ readers' \in Seq(SUBSET Callers) /\ Len(readers') = Len(readers) /\ Calling!Calls' = Calling!Calls
      /\ \A k \in Calling!Calls : readers'[k] = IF k = i THEN readers[k] \cup {call[k].who} ELSE readers[k]
  <2>1. /\ DOMAIN readers = Calling!Calls /\ readers \in Seq(SUBSET Callers)
        /\ readers[i] \cup {u} \in SUBSET Callers
    BY CallTypes DEF CallsInv, CallsTypeOK, Callers
  <2>2. Calling!Calls' = Calling!Calls
    BY <1>1 DEF Calling!Calls
  <2>. DEFINE got == readers[i] \cup {u}
  <2>3. readers' = [readers EXCEPT ![i] = got]
    BY <1>1
  <2>. HIDE DEF got
  <2>4. /\ readers' \in Seq(SUBSET Callers) /\ Len(readers') = Len(readers)
        /\ \A k \in Calling!Calls : readers'[k] = IF k = i THEN got ELSE readers[k]
    BY <2>1, <2>3, SeqUpdate DEF got
  <2>. QED
    BY <1>1, <2>2, <2>4 DEF got
<1>3. CallsTypeOK'
  BY <1>1, <1>2 DEF CallsInv, CallsTypeOK
<1>4. ToolsOfRoutes' /\ GateBooks' /\ BehindGate' /\ OwnResults'
  BY <1>1, <1>2 DEF CallsInv, ToolsOfRoutes, GateBooks, BehindGate, OwnResults, Calling!At
<1>. QED
  BY <1>3, <1>4 DEF CallsInv

LEMMA CallsStep == CallsInv /\ [Calling!Next]_Calling!cvars => CallsInv'
<1>. SUFFICES ASSUME CallsInv, [Calling!Next]_Calling!cvars PROVE CallsInv'
  OBVIOUS
<1>1. CASE Calling!Arrive
  BY <1>1, ArriveStep
<1>2. ASSUME NEW i \in Calling!Calls,
             \/ Calling!Limit(i) \/ Calling!Allow(i) \/ Calling!Deny(i) \/ Calling!GateTimeout(i) \/ Calling!GateAnswer(i)
             \/ Calling!Run(i) \/ Calling!Stream(i) \/ Calling!Enqueue(i)
             \/ Calling!Start(i) \/ Calling!WorkerStops(i) \/ Calling!Finish(i) \/ Calling!Lapse(i)
             \/ \E u \in Users : Calling!Poll(i, u)
      PROVE  CallsInv'
  BY <1>2, LimitStep, AnswerStep, GateStep, HandlerStep, WorkerStep, PollStep
<1>3. CASE UNCHANGED Calling!cvars
  BY <1>3 DEF Calling!cvars, CallsInv, CallsTypeOK, ToolsOfRoutes, GateBooks, BehindGate, OwnResults,
              Calling!At, Calling!Calls
<1>. QED
  BY <1>1, <1>2, <1>3 DEF Calling!Next

LEMMA CallsInit == Calling!Init => CallsInv
BY DEF Calling!Init, CallsInv, CallsTypeOK, ToolsOfRoutes, GateBooks, BehindGate, OwnResults, Calling!Calls

\* A result goes to its caller only, for a billable tool only after a use was
\* consumed for the call, and a throttled call costs none (check_access of both
\* services, get_job_status): for any number of calls, whatever answers are late
\* or lost and however often workers stop.
THEOREM OnlyPaidIsServed == Calling!Spec => [](CallsTypeOK /\ ServedIsPaid)
<1>1. Calling!Init => CallsInv
  BY CallsInit
<1>2. CallsInv /\ [Calling!Next]_Calling!cvars => CallsInv'
  BY CallsStep
<1>3. CallsInv => CallsTypeOK /\ ServedIsPaid
  BY DEF CallsInv, GateBooks, BehindGate, OwnResults, ServedIsPaid, Calling!ServedIsPaid
<1>. QED
  BY <1>1, <1>2, <1>3, PTL DEF Calling!Spec

-----------------------------------------------------------------------------
(* Sets that are counted in parts *)

\* At most n of each kind, so at most n for every kind.
LEMMA Fibers ==
  ASSUME NEW S, NEW T, IsFiniteSet(S), IsFiniteSet(T), NEW n \in Nat, NEW f \in [S -> T],
         \A t \in T : Cardinality({s \in S : f[s] = t}) <= n
  PROVE  Cardinality(S) <= n * Cardinality(T)
<1>. DEFINE Fiber(t) == {s \in S : f[s] = t}
            g == [t \in T |-> CHOOSE h : h \in Injection(Fiber(t), 1 .. n)]
            h == [s \in S |-> <<f[s], g[f[s]][s]>>]
<1>1. ASSUME NEW t \in T PROVE g[t] \in Injection(Fiber(t), 1 .. n)
  <2>. DEFINE F == Fiber(t)
  <2>1. F \in SUBSET S /\ Cardinality(F) <= n
    OBVIOUS
  <2>. HIDE DEF F, g
  <2>2. IsFiniteSet(F)
    BY <2>1, FS_Subset
  <2>3. Cardinality(F) \in Nat /\ ExistsBijection(1 .. Cardinality(F), F)
    BY <2>2, FS_CardinalityType
  <2>4. ExistsBijection(F, 1 .. Cardinality(F))
    BY <2>3, Fun_ExistsBijSymmetric
  <2>5. PICK b : b \in Injection(F, 1 .. Cardinality(F))
    BY <2>4 DEF ExistsBijection, Bijection
  <2>6. 1 .. Cardinality(F) \subseteq 1 .. n
    BY <2>1, <2>3
  <2>7. b \in Injection(F, 1 .. n)
    BY <2>5, <2>6 DEF Injection
  <2>. QED
    BY <2>7 DEF F, g
<1>2. h \in Injection(S, T \X (1 .. n))
  <2>1. \A s \in S : f[s] \in T /\ s \in Fiber(f[s])
    OBVIOUS
  <2>. HIDE DEF g
  <2>2. \A s \in S : g[f[s]][s] \in 1 .. n
    BY <1>1, <2>1 DEF Injection
  <2>3. ASSUME NEW s \in S, NEW t \in S, h[s] = h[t] PROVE s = t
    <3>1. f[s] = f[t] /\ g[f[s]][s] = g[f[s]][t]
      BY <2>3
    <3>2. s \in Fiber(f[s]) /\ t \in Fiber(f[s]) /\ f[s] \in T
      BY <3>1
    <3>3. g[f[s]] \in Injection(Fiber(f[s]), 1 .. n)
      BY <3>2, <1>1
    <3>. HIDE DEF Fiber
    <3>. QED
      BY <3>1, <3>2, <3>3, Fun_InjectionProperties
  <2>4. h \in [S -> T \X (1 .. n)]
    BY <2>1, <2>2
  <2>. HIDE DEF h
  <2>. QED
    BY <2>3, <2>4, Fun_IsInj
<1>3. IsFiniteSet(1 .. n) /\ Cardinality(1 .. n) = n
  BY FS_Interval
<1>4. IsFiniteSet(T \X (1 .. n)) /\ Cardinality(T \X (1 .. n)) = Cardinality(T) * n
  BY <1>3, FS_Product
<1>. HIDE DEF h
<1>5. Cardinality(S) <= Cardinality(T) * n
  BY <1>2, <1>4, FS_Injection
<1>6. Cardinality(T) \in Nat
  BY FS_CardinalityType
<1>7. Cardinality(T) * n = n * Cardinality(T)
  BY <1>6
<1>. QED
  BY <1>5, <1>7

LEMMA LimiterSets ==
  /\ \A S : Limiter!IsFiniteSet(S) <=> IsFiniteSet(S)
  /\ \A S : Limiter!Cardinality(S) = Cardinality(S)
BY DEF Limiter!IsFiniteSet, IsFiniteSet, Limiter!Cardinality, Cardinality

-----------------------------------------------------------------------------
(* The shared limiter: the invariant *)

Stamps == [at : Nat, id : Nat]
SlotRecords == [at : Nat, in : Replicas, id : Nat, waits : BOOLEAN]

LimiterTypeOK ==
  /\ time \in Nat /\ lapse \in Nat /\ newest \in Nat /\ memories \in Nat /\ checks \in Nat
  /\ zset \in SUBSET Stamps /\ IsFiniteSet(zset)
  /\ hits \in [Replicas -> SUBSET Stamps] /\ \A p \in Replicas : IsFiniteSet(hits[p])
  /\ slot \in [Slots -> SlotRecords \cup {NoSlot}]
  /\ admitted \in SUBSET Stamps /\ IsFiniteSet(admitted)

\* No request is ahead of the clock, and the key outlives its stamps.
ClocksAgree ==
  /\ \A s \in Slots : slot[s] # NoSlot => slot[s].at <= time
  /\ \A m \in zset : m.at <= time /\ m.at + window_seconds < lapse

\* The stamps m of S with f[m] = k that are in the window that ends at t.
Counting(S, f, k, t) == {m \in S : f[m] = k /\ m.at > t - window_seconds /\ m.at <= t}

OnTime == {m \in admitted : m.id \notin late}

\* Who let each request pass: f is 0 for Redis and else the number of a memory, g
\* is the number of the memory that a replica has now.  Redis and the replicas
\* still hold what counts of what they let pass.
LetPass(f, g) ==
  /\ f \in [admitted -> 0 .. memories]
  /\ g \in [Replicas -> 0 .. memories]
  /\ \A m \in OnTime : f[m] = 0 => m \in zset \/ m.at <= newest - window_seconds
  /\ \A p \in Replicas : hits[p] # {} =>
       /\ g[p] # 0
       /\ \A q \in Replicas : hits[q] # {} /\ g[q] = g[p] => q = p
       /\ \A m \in admitted : f[m] = g[p] => m \in hits[p] \/ m.at <= time - window_seconds
  /\ \A k \in 0 .. memories, t \in Nat : Cardinality(Counting(OnTime, f, k, t)) <= max_requests

LimiterInv == LimiterTypeOK /\ ClocksAgree /\ \E f, g : LetPass(f, g)

LEMMA LimiterNats ==
  ASSUME Limiter!LimiterAssumption
  PROVE  max_requests \in Nat \ {0} /\ window_seconds \in Nat \ {0}
BY DEF Limiter!LimiterAssumption

LEMMA CountingFinite ==
  ASSUME LimiterTypeOK
  PROVE  \A S \in SUBSET admitted : \A f, k, t : IsFiniteSet(Counting(S, f, k, t))
<1>. SUFFICES ASSUME NEW S \in SUBSET admitted, NEW f, NEW k, NEW t PROVE IsFiniteSet(Counting(S, f, k, t))
  OBVIOUS
<1>1. Counting(S, f, k, t) \in SUBSET admitted
  BY DEF Counting
<1>. QED
  BY <1>1, FS_Subset DEF LimiterTypeOK

LEMMA LimiterInit == Limiter!LimiterAssumption /\ Limiter!Init => LimiterInv
<1>. SUFFICES ASSUME Limiter!LimiterAssumption, Limiter!Init PROVE LimiterInv
  OBVIOUS
<1>. DEFINE f == [m \in {} |-> 0]
            g == [p \in Replicas |-> 0]
<1>1. LimiterTypeOK
  BY FS_EmptySet DEF Limiter!Init, LimiterTypeOK
<1>2. ClocksAgree
  BY DEF Limiter!Init, ClocksAgree
<1>3. OnTime = {} /\ \A k, t : Counting(OnTime, f, k, t) = {}
  BY DEF Limiter!Init, OnTime, Counting
<1>4. f \in [admitted -> 0 .. memories] /\ g \in [Replicas -> 0 .. memories]
  BY DEF Limiter!Init
<1>. HIDE DEF f, g
<1>5. \A k, t : Cardinality(Counting(OnTime, f, k, t)) <= max_requests
  BY <1>3, LimiterNats, FS_EmptySet
<1>6. \A p \in Replicas : hits[p] = {}
  BY DEF Limiter!Init
<1>7. LetPass(f, g)
  BY <1>3, <1>4, <1>5, <1>6 DEF LetPass
<1>. QED
  BY <1>1, <1>2, <1>7 DEF LimiterInv

\* Steps that let nothing pass, and remove at most what no longer counts.
LEMMA NothingPasses ==
  ASSUME Limiter!LimiterAssumption, LimiterInv, LimiterTypeOK',
         UNCHANGED <<admitted, memories>>, late \subseteq late',
         newest' >= newest, time' >= time,
         \A m \in zset : m \in zset' \/ m.at <= newest' - window_seconds,
         \A p \in Replicas : hits'[p] # {} =>
           hits[p] # {} /\ \A m \in hits[p] : m \in hits'[p] \/ m.at <= time' - window_seconds
  PROVE  \E f, g : LetPass(f, g)'
<1>1. PICK f, g : LetPass(f, g)
  BY DEF LimiterInv
<1>2. OnTime' \subseteq OnTime
  BY DEF OnTime
<1>3. \A k \in 0 .. memories, t \in Nat : Cardinality(Counting(OnTime', f, k, t)) <= max_requests
  <2>. SUFFICES ASSUME NEW k \in 0 .. memories, NEW t \in Nat
                PROVE  Cardinality(Counting(OnTime', f, k, t)) <= max_requests
    OBVIOUS
  <2>1. Counting(OnTime', f, k, t) \in SUBSET Counting(OnTime, f, k, t)
    BY <1>2 DEF Counting
  <2>2. IsFiniteSet(Counting(OnTime, f, k, t))
    BY CountingFinite DEF LimiterInv, OnTime
  <2>3. /\ Cardinality(Counting(OnTime', f, k, t)) <= Cardinality(Counting(OnTime, f, k, t))
        /\ Cardinality(Counting(OnTime', f, k, t)) \in Nat /\ Cardinality(Counting(OnTime, f, k, t)) \in Nat
    BY <2>1, <2>2, FS_Subset, FS_CardinalityType
  <2>4. Cardinality(Counting(OnTime, f, k, t)) <= max_requests
    BY <1>1 DEF LetPass
  <2>. QED
    BY <2>3, <2>4, LimiterNats
<1>4. \A k \in 0 .. memories', t \in Nat : Cardinality(Counting(OnTime, f, k, t)') <= max_requests
  BY <1>3 DEF Counting
<1>5. \A m \in OnTime' : f[m] = 0 => m \in zset' \/ m.at <= newest' - window_seconds
  <2>. SUFFICES ASSUME NEW m \in OnTime', f[m] = 0 PROVE m \in zset' \/ m.at <= newest' - window_seconds
    OBVIOUS
  <2>1. m \in OnTime /\ m.at \in Nat
    BY <1>2 DEF LimiterInv, LimiterTypeOK, OnTime, Stamps
  <2>2. m \in zset \/ m.at <= newest - window_seconds
    BY <1>1, <2>1 DEF LetPass
  <2>. QED
    BY <2>1, <2>2, LimiterNats DEF LimiterInv, LimiterTypeOK
<1>6. \A p \in Replicas : hits'[p] # {} =>
        \A m \in admitted : f[m] = g[p] => m \in hits'[p] \/ m.at <= time' - window_seconds
  <2>. SUFFICES ASSUME NEW p \in Replicas, hits'[p] # {}, NEW m \in admitted, f[m] = g[p]
                PROVE  m \in hits'[p] \/ m.at <= time' - window_seconds
    OBVIOUS
  <2>1. m \in hits[p] \/ m.at <= time - window_seconds
    BY <1>1 DEF LetPass
  <2>2. m.at \in Nat
    BY DEF LimiterInv, LimiterTypeOK, Stamps
  <2>. QED
    BY <2>1, <2>2, LimiterNats DEF LimiterInv, LimiterTypeOK
<1>7. LetPass(f, g)'
  BY <1>1, <1>4, <1>5, <1>6 DEF LetPass
<1>. QED
  BY <1>7

\* m passes, by k, of which R holds what counts for m: e is f with m.
Passing(m, k, R, f, e) ==
  /\ m \in Stamps /\ admitted' = admitted \cup {m} /\ late \subseteq late'
  /\ k \in 0 .. memories'
  /\ memories' = memories \/ (memories' = memories + 1 /\ k = memories')
  /\ IsFiniteSet(R)
  /\ m.id \notin late' =>
       /\ Cardinality(R) < max_requests
       /\ \A x \in OnTime : f[x] = k /\ x.at > m.at - window_seconds => x \in R
  /\ e = [x \in admitted' |-> IF x = m THEN k ELSE f[x]]

LEMMA OnePasses ==
  ASSUME Limiter!LimiterAssumption, LimiterInv, LimiterTypeOK',
         NEW f, NEW g, LetPass(f, g), NEW m, NEW k, NEW R, NEW e, Passing(m, k, R, f, e)
  PROVE  \A j \in 0 .. memories', t \in Nat : Cardinality(Counting(OnTime', e, j, t)) <= max_requests
<1>. USE DEF Passing
<1>. SUFFICES ASSUME NEW j \in 0 .. memories', NEW t \in Nat
              PROVE  Cardinality(Counting(OnTime', e, j, t)) <= max_requests
  OBVIOUS
<1>. DEFINE C == Counting(OnTime', e, j, t)
            B == Counting(OnTime, f, j, t)
<1>1. \A x \in C \ {m} : x \in B
  BY DEF Counting, OnTime
<1>2. m \in C => j = k /\ m.id \notin late' /\ m.at > t - window_seconds /\ m.at <= t
  BY DEF Counting, OnTime
<1>3. IsFiniteSet(B) /\ Cardinality(B) \in Nat
  BY CountingFinite, FS_CardinalityType DEF LimiterInv, OnTime
<1>4. Cardinality(B) <= max_requests
  <2>1. CASE j \in 0 .. memories
    BY <2>1 DEF LetPass
  <2>2. CASE j \notin 0 .. memories
    <3>1. B = {}
      BY <2>2 DEF LetPass, Counting, OnTime
    <3>. QED
      BY <3>1, FS_EmptySet, LimiterNats
  <2>. QED
    BY <2>1, <2>2
<1>5. CASE m \notin C
  <2>1. C \in SUBSET B
    BY <1>1, <1>5
  <2>. HIDE DEF C, B
  <2>2. Cardinality(C) \in Nat /\ Cardinality(C) <= Cardinality(B)
    BY <1>3, <2>1, FS_Subset, FS_CardinalityType
  <2>. QED
    BY <1>3, <1>4, <2>2, LimiterNats DEF C
<1>6. CASE m \in C
  <2>1. \A x \in C \ {m} : x \in R
    <3>. SUFFICES ASSUME NEW x \in C \ {m} PROVE x \in R
      OBVIOUS
    <3>1. x \in OnTime /\ f[x] = k /\ x.at > t - window_seconds
      BY <1>1, <1>2, <1>6 DEF Counting
    <3>2. x.at \in Nat /\ m.at \in Nat
      BY <3>1 DEF OnTime, LimiterInv, LimiterTypeOK, Stamps
    <3>3. x.at > m.at - window_seconds
      BY <1>2, <1>6, <3>1, <3>2, LimiterNats
    <3>. QED
      BY <1>2, <1>6, <3>1, <3>3
  <2>2. Cardinality(R) < max_requests
    BY <1>2, <1>6
  <2>. HIDE DEF C
  <2>3. C \in SUBSET (R \cup {m})
    BY <2>1
  <2>4. IsFiniteSet(R \cup {m}) /\ Cardinality(R) \in Nat
    BY FS_AddElement, FS_CardinalityType
  <2>5. Cardinality(R \cup {m}) <= Cardinality(R) + 1 /\ Cardinality(R \cup {m}) \in Nat
    BY <2>4, FS_AddElement, FS_CardinalityType
  <2>6. Cardinality(C) <= Cardinality(R \cup {m}) /\ Cardinality(C) \in Nat
    BY <2>3, <2>4, FS_Subset, FS_CardinalityType
  <2>. QED
    BY <2>2, <2>4, <2>5, <2>6, LimiterNats DEF C
<1>. QED
  BY <1>5, <1>6

\* What a script does to the set, whether or not it lets the request pass.
LEMMA ScriptRuns ==
  ASSUME Limiter!LimiterAssumption, LimiterInv, NEW s \in Slots, slot[s] # NoSlot, Limiter!Script(s),
         newest' = Limiter!Larger(newest, slot[s].at), UNCHANGED time
  PROVE  /\ zset' \in SUBSET Stamps /\ IsFiniteSet(zset') /\ lapse' \in Nat /\ newest' \in Nat
         /\ newest' >= newest
         /\ \A m \in zset' : m.at <= time /\ m.at + window_seconds < lapse'
         /\ \A m \in zset : m \in zset' \/ m.at <= newest' - window_seconds
         /\ IsFiniteSet(Limiter!Live(s))
<1>1. /\ slot[s].at \in Nat /\ slot[s].id \in Nat /\ slot[s].at <= time
      /\ time \in Nat /\ lapse \in Nat /\ newest \in Nat
  BY DEF LimiterInv, LimiterTypeOK, ClocksAgree, SlotRecords
<1>2. newest' \in Nat /\ newest' >= newest /\ newest' >= slot[s].at
  BY <1>1 DEF Limiter!Larger
<1>3. Limiter!Live(s) \in SUBSET zset /\ IsFiniteSet(zset) /\ zset \in SUBSET Stamps
  BY DEF Limiter!Live, LimiterInv, LimiterTypeOK
<1>4. IsFiniteSet(Limiter!Live(s))
  BY <1>3, FS_Subset
<1>5. \A m \in zset : m \in Limiter!Live(s) \/ m.at <= newest' - window_seconds
  <2>. SUFFICES ASSUME NEW m \in zset, m \notin Limiter!Live(s) PROVE m.at <= newest' - window_seconds
    OBVIOUS
  <2>1. ~(m.at > slot[s].at - window_seconds) /\ m.at \in Nat
    BY <1>3 DEF Limiter!Live, Stamps
  <2>. QED
    BY <1>1, <1>2, <2>1, LimiterNats
<1>6. \A m \in zset : m.at <= time /\ m.at + window_seconds < lapse /\ m.at \in Nat
  BY <1>3 DEF LimiterInv, ClocksAgree, Stamps
<1>. DEFINE new == [at |-> slot[s].at, id |-> slot[s].id]
<1>7. CASE zset' = Limiter!Live(s) /\ lapse' = lapse
  BY <1>1, <1>2, <1>3, <1>4, <1>5, <1>6, <1>7
<1>8. CASE zset' = Limiter!Live(s) \cup {new} /\ lapse' = time + window_seconds + 1
  <2>1. new \in Stamps
    BY <1>1 DEF Stamps
  <2>2. IsFiniteSet(zset')
    BY <1>4, <1>8, FS_AddElement
  <2>3. lapse' \in Nat
    BY <1>1, <1>8, LimiterNats
  <2>4. \A m \in zset' : m.at <= time /\ m.at + window_seconds < lapse'
    BY <1>1, <1>3, <1>6, <1>8, LimiterNats
  <2>. QED
    BY <1>2, <1>3, <1>4, <1>5, <1>8, <2>1, <2>2, <2>3, <2>4
<1>. QED
  BY <1>7, <1>8 DEF Limiter!Script

LEMMA LimiterStep ==
  ASSUME Limiter!LimiterAssumption, LimiterInv, [Limiter!Next]_Limiter!rvars
  PROVE  LimiterInv'
<1>. USE DEF Limiter!Done, Limiter!Pass
<1>1. CASE Limiter!Tick
  <2>1. /\ time' = time + 1 /\ newest' \in Nat /\ newest' >= newest
        /\ UNCHANGED <<lapse, hits, slot, checks, admitted, late, memories>>
        /\ zset' \in {zset, {}}
        /\ zset' = zset \/ newest' >= lapse - 1
    BY <1>1 DEF Limiter!Tick, LimiterInv, LimiterTypeOK, Limiter!Larger
  <2>2. LimiterTypeOK'
    <3>1. zset' \in SUBSET Stamps /\ IsFiniteSet(zset')
      BY <2>1, FS_EmptySet DEF LimiterInv, LimiterTypeOK
    <3>. QED
      BY <2>1, <3>1 DEF LimiterInv, LimiterTypeOK
  <2>3. ClocksAgree'
    BY <2>1 DEF LimiterInv, LimiterTypeOK, ClocksAgree, SlotRecords, Stamps
  <2>4. \A m \in zset : m \in zset' \/ m.at <= newest' - window_seconds
    BY <2>1, LimiterNats DEF LimiterInv, LimiterTypeOK, ClocksAgree, Stamps
  <2>5. \A p \in Replicas : hits'[p] # {} =>
          hits[p] # {} /\ \A m \in hits[p] : m \in hits'[p] \/ m.at <= time' - window_seconds
    BY <2>1
  <2>6. \E f, g : LetPass(f, g)'
    BY <2>1, <2>2, <2>4, <2>5, NothingPasses DEF LimiterInv, LimiterTypeOK
  <2>. QED
    BY <2>2, <2>3, <2>6 DEF LimiterInv
<1>2. ASSUME NEW s \in Slots, NEW p \in Replicas, Limiter!Arrive(s, p) PROVE LimiterInv'
  <2>1. UNCHANGED <<time, zset, lapse, hits, admitted, newest, late, memories>>
    BY <1>2 DEF Limiter!Arrive
  <2>2. LimiterTypeOK'
    BY <1>2 DEF Limiter!Arrive, LimiterInv, LimiterTypeOK, SlotRecords
  <2>3. ClocksAgree'
    BY <1>2 DEF Limiter!Arrive, LimiterInv, LimiterTypeOK, ClocksAgree
  <2>4. \E f, g : LetPass(f, g)'
    BY <2>1, <2>2, NothingPasses DEF LimiterInv, LimiterTypeOK
  <2>. QED
    BY <2>2, <2>3, <2>4 DEF LimiterInv
<1>3. ASSUME NEW s \in Slots, Limiter!Lost(s) PROVE LimiterInv'
  <2>1. /\ slot[s] # NoSlot /\ Limiter!Script(s) /\ newest' = Limiter!Larger(newest, slot[s].at)
        /\ slot' = [slot EXCEPT ![s].waits = FALSE]
        /\ UNCHANGED <<time, hits, checks, admitted, late, memories>>
    BY <1>3 DEF Limiter!Lost
  <2>2. LimiterTypeOK'
    BY <2>1, ScriptRuns DEF LimiterInv, LimiterTypeOK, SlotRecords
  <2>3. \A q \in Slots : slot'[q] # NoSlot => slot'[q].at <= time
    BY <2>1 DEF LimiterInv, LimiterTypeOK, ClocksAgree, SlotRecords
  <2>4. ClocksAgree'
    BY <2>1, <2>3, ScriptRuns DEF ClocksAgree
  <2>5. \E f, g : LetPass(f, g)'
    BY <2>1, <2>2, ScriptRuns, NothingPasses DEF LimiterInv, LimiterTypeOK
  <2>. QED
    BY <2>2, <2>4, <2>5 DEF LimiterInv
<1>4. ASSUME NEW s \in Slots, Limiter!Answered(s) PROVE LimiterInv'
  <2>. DEFINE m == [at |-> slot[s].at, id |-> slot[s].id]
              live == Limiter!Live(s)
  <2>1. /\ slot[s] # NoSlot /\ Limiter!Script(s) /\ newest' = Limiter!Larger(newest, slot[s].at)
        /\ slot' = [slot EXCEPT ![s] = NoSlot]
        /\ late' = IF slot[s].at < newest THEN late \cup {slot[s].id} ELSE late
        /\ UNCHANGED <<time, hits, checks, memories>>
    BY <1>4 DEF Limiter!Answered, Limiter!Late
  <2>2. slot[s] \in SlotRecords /\ m \in Stamps
    BY <2>1 DEF LimiterInv, LimiterTypeOK, SlotRecords, Stamps
  <2>3. admitted' \in {admitted, admitted \cup {m}}
    BY <1>4 DEF Limiter!Answered
  <2>4. LimiterTypeOK'
    <3>. HIDE DEF m
    <3>1. admitted' \in SUBSET Stamps
      BY <2>2, <2>3 DEF LimiterInv, LimiterTypeOK
    <3>2. IsFiniteSet(admitted')
      BY <2>3, FS_AddElement DEF LimiterInv, LimiterTypeOK
    <3>. QED
      BY <2>1, <3>1, <3>2, ScriptRuns DEF LimiterInv, LimiterTypeOK
  <2>5. ClocksAgree'
    BY <2>1, ScriptRuns DEF LimiterInv, LimiterTypeOK, ClocksAgree
  <2>6. CASE admitted' = admitted
    <3>1. \E f, g : LetPass(f, g)'
      BY <2>1, <2>4, <2>6, ScriptRuns, NothingPasses DEF LimiterInv, LimiterTypeOK
    <3>. QED
      BY <2>4, <2>5, <3>1 DEF LimiterInv
  <2>7. CASE admitted' # admitted
    <3>1. admitted' = admitted \cup {m} /\ Cardinality(live) < max_requests /\ zset' = live \cup {m}
      BY <1>4, <2>3, <2>7, LimiterSets DEF Limiter!Answered, Limiter!Room, Limiter!Script
    <3>2. PICK f, g : LetPass(f, g)
      BY DEF LimiterInv
    <3>3. PICK e : e = [x \in admitted' |-> IF x = m THEN 0 ELSE f[x]]
      OBVIOUS
    <3>4. IsFiniteSet(live)
      BY <2>1, ScriptRuns
    <3>5. m.id \notin late' => slot[s].at >= newest
      BY <2>1, <2>2 DEF SlotRecords, LimiterInv, LimiterTypeOK
    <3>6. m.id \notin late' => \A x \in OnTime : f[x] = 0 /\ x.at > m.at - window_seconds => x \in live
      <4>. SUFFICES ASSUME m.id \notin late', NEW x \in OnTime, f[x] = 0, x.at > m.at - window_seconds
                    PROVE  x \in live
        OBVIOUS
      <4>1. x.at \in Nat /\ newest \in Nat /\ slot[s].at \in Nat
        BY <2>2 DEF OnTime, LimiterInv, LimiterTypeOK, Stamps
      <4>2. ~(x.at <= newest - window_seconds)
        BY <3>5, <4>1, LimiterNats
      <4>3. x \in zset
        BY <3>2, <4>2 DEF LetPass
      <4>. QED
        BY <4>3 DEF Limiter!Live
    <3>7. late \subseteq late' /\ 0 \in 0 .. memories'
      BY <2>1, <2>4 DEF LimiterTypeOK
    <3>8. \A j \in 0 .. memories', t \in Nat : Cardinality(Counting(OnTime', e, j, t)) <= max_requests
      <4>. HIDE DEF m, live
      <4>1. Passing(m, 0, live, f, e)
        BY <2>1, <2>2, <3>1, <3>3, <3>4, <3>6, <3>7 DEF Passing
      <4>. QED
        BY <2>4, <3>2, <4>1, OnePasses
    <3>9. \A x \in OnTime' : e[x] = 0 => x \in zset' \/ x.at <= newest' - window_seconds
      <4>. SUFFICES ASSUME NEW x \in OnTime', x # m, f[x] = 0 PROVE x \in zset' \/ x.at <= newest' - window_seconds
        BY <3>1, <3>3 DEF OnTime
      <4>1. x \in OnTime
        BY <3>1, <3>7 DEF OnTime
      <4>2. x \in zset \/ x.at <= newest - window_seconds
        BY <3>2, <4>1 DEF LetPass
      <4>3. x.at \in Nat /\ newest \in Nat /\ newest' \in Nat /\ newest' >= newest
        BY <2>1, <4>1, ScriptRuns DEF OnTime, LimiterInv, LimiterTypeOK, Stamps
      <4>4. x \in zset => x \in zset' \/ x.at <= newest' - window_seconds
        BY <2>1, ScriptRuns
      <4>. QED
        BY <4>2, <4>3, <4>4, LimiterNats
    <3>10. e \in [admitted' -> 0 .. memories']
      BY <2>1, <3>1, <3>2, <3>7, <3>3 DEF LetPass
    <3>11. \A x \in admitted', p \in Replicas : hits[p] # {} /\ e[x] = g[p] => x \in admitted /\ f[x] = g[p]
      BY <3>1, <3>2, <3>3 DEF LetPass
    <3>. HIDE DEF m
    <3>12. \A j \in 0 .. memories', t \in Nat : Cardinality(Counting(OnTime, e, j, t)') <= max_requests
      BY <3>8 DEF Counting
    <3>13. LetPass(e, g)'
      BY <2>1, <3>2, <3>9, <3>10, <3>11, <3>12 DEF LetPass
    <3>. QED
      BY <2>4, <2>5, <3>13 DEF LimiterInv
  <2>. QED
    BY <2>6, <2>7
<1>5. ASSUME NEW s \in Slots, Limiter!FallBack(s) PROVE LimiterInv'
  <2>. DEFINE p == slot[s].in
              m == [at |-> time, id |-> slot[s].id]
              live == {x \in hits[p] : time - x.at < window_seconds}
  <2>1. /\ slot[s] # NoSlot /\ slot' = [slot EXCEPT ![s] = NoSlot]
        /\ UNCHANGED <<time, zset, lapse, checks, newest, late>>
    BY <1>5 DEF Limiter!FallBack
  <2>2. p \in Replicas /\ m \in Stamps
    BY <2>1 DEF LimiterInv, LimiterTypeOK, SlotRecords, Stamps
  <2>3. live \in SUBSET hits[p] /\ IsFiniteSet(hits[p]) /\ hits[p] \in SUBSET Stamps
    BY <2>2 DEF LimiterInv, LimiterTypeOK
  <2>4. IsFiniteSet(live)
    BY <2>3, FS_Subset
  <2>5. ClocksAgree'
    BY <2>1 DEF LimiterInv, LimiterTypeOK, ClocksAgree
  <2>6. \A x \in hits[p] : x \in live \/ x.at <= time - window_seconds
    BY <2>2, LimiterNats DEF LimiterInv, LimiterTypeOK, Stamps
  <2>7. CASE /\ hits' = [hits EXCEPT ![p] = live] /\ UNCHANGED <<admitted, memories>>
    <3>1. hits' \in [Replicas -> SUBSET Stamps] /\ hits'[p] = live /\ \A q \in Replicas \ {p} : hits'[q] = hits[q]
      BY <2>2, <2>3, <2>7 DEF LimiterInv, LimiterTypeOK
    <3>. HIDE DEF live
    <3>2. LimiterTypeOK'
      BY <2>1, <2>4, <2>7, <3>1 DEF LimiterInv, LimiterTypeOK
    <3>3. \A q \in Replicas : hits'[q] # {} =>
            hits[q] # {} /\ \A x \in hits[q] : x \in hits'[q] \/ x.at <= time' - window_seconds
      BY <2>1, <2>3, <2>6, <3>1
    <3>4. \E f, g : LetPass(f, g)'
      BY <2>1, <2>7, <3>2, <3>3, NothingPasses DEF LimiterInv, LimiterTypeOK
    <3>. QED
      BY <2>5, <3>2, <3>4 DEF LimiterInv
  <2>8. CASE /\ hits' = [hits EXCEPT ![p] = live \cup {m}] /\ admitted' = admitted \cup {m}
             /\ memories' = (IF hits[p] = {} THEN memories + 1 ELSE memories)
             /\ Cardinality(live) < max_requests
    <3>. HIDE DEF m, live, p
    <3>1. hits' \in [Replicas -> SUBSET Stamps] /\ hits'[p] = live \cup {m} /\ \A q \in Replicas \ {p} : hits'[q] = hits[q]
      BY <2>2, <2>3, <2>8 DEF LimiterInv, LimiterTypeOK
    <3>2. IsFiniteSet(live \cup {m}) /\ IsFiniteSet(admitted \cup {m})
      BY <2>4, FS_AddElement DEF LimiterInv, LimiterTypeOK
    <3>3. admitted' \in SUBSET Stamps /\ memories' \in Nat
      BY <2>2, <2>8 DEF LimiterInv, LimiterTypeOK
    <3>4. LimiterTypeOK'
      BY <2>1, <2>8, <3>1, <3>2, <3>3 DEF LimiterInv, LimiterTypeOK
    <3>5. PICK f, g : LetPass(f, g)
      BY DEF LimiterInv
    <3>6. PICK k : k = IF hits[p] = {} THEN memories + 1 ELSE g[p]
      OBVIOUS
    <3>7. PICK e : e = [x \in admitted' |-> IF x = m THEN k ELSE f[x]]
      OBVIOUS
    <3>8. PICK h : h = [g EXCEPT ![p] = k]
      OBVIOUS
    <3>20. memories \in Nat /\ memories' \in {memories, memories + 1}
      BY <2>8 DEF LimiterInv, LimiterTypeOK
    <3>21. hits[p] = {} => k = memories + 1 /\ memories' = memories + 1
      BY <2>8, <3>6
    <3>22. hits[p] # {} => k = g[p] /\ memories' = memories /\ g[p] # 0
      BY <2>2, <2>8, <3>5, <3>6 DEF LetPass
    <3>9. /\ memories \in Nat /\ g \in [Replicas -> 0 .. memories] /\ f \in [admitted -> 0 .. memories]
          /\ k \in 0 .. memories' /\ k # 0
          /\ memories' = memories \/ (memories' = memories + 1 /\ k = memories')
      BY <2>2, <3>5, <3>20, <3>21, <3>22 DEF LetPass
    <3>10. \A x \in OnTime : f[x] = k /\ x.at > m.at - window_seconds => x \in live
      <4>. SUFFICES ASSUME NEW x \in OnTime, f[x] = k, x.at > m.at - window_seconds PROVE x \in live
        OBVIOUS
      <4>1. x \in admitted /\ x.at \in Nat /\ time \in Nat
        BY DEF OnTime, LimiterInv, LimiterTypeOK, Stamps
      <4>2. hits[p] # {} /\ k = g[p]
        BY <3>5, <3>6, <3>9, <4>1
      <4>3. x \in hits[p] \/ x.at <= time - window_seconds
        BY <2>2, <3>5, <4>1, <4>2 DEF LetPass
      <4>4. ~(x.at <= time - window_seconds)
        BY <4>1, LimiterNats DEF m
      <4>. QED
        BY <2>6, <4>3, <4>4
    <3>11. \A j \in 0 .. memories', t \in Nat : Cardinality(Counting(OnTime', e, j, t)) <= max_requests
      <4>1. Passing(m, k, live, f, e)
        BY <2>1, <2>2, <2>4, <2>8, <3>7, <3>9, <3>10 DEF Passing
      <4>. QED
        BY <3>4, <3>5, <4>1, OnePasses
    <3>12. \A j \in 0 .. memories', t \in Nat : Cardinality(Counting(OnTime, e, j, t)') <= max_requests
      BY <3>11 DEF Counting
    <3>13. e \in [admitted' -> 0 .. memories'] /\ h \in [Replicas -> 0 .. memories']
      <4>1. 0 .. memories \subseteq 0 .. memories'
        BY <3>9
      <4>2. \A x \in admitted' : (IF x = m THEN k ELSE f[x]) \in 0 .. memories'
        BY <2>8, <3>9, <4>1
      <4>3. e \in [admitted' -> 0 .. memories']
        BY <3>7, <4>2
      <4>. QED
        BY <3>8, <3>9, <4>1, <4>3
    <3>14. \A x \in OnTime' : e[x] = 0 => x \in zset' \/ x.at <= newest' - window_seconds
      <4>. SUFFICES ASSUME NEW x \in OnTime', e[x] = 0 PROVE x \in zset' \/ x.at <= newest' - window_seconds
        OBVIOUS
      <4>1. x \in OnTime /\ f[x] = 0
        BY <2>1, <2>8, <3>7, <3>9 DEF OnTime
      <4>. QED
        BY <2>1, <3>5, <4>1 DEF LetPass
    <3>15. h[p] = k /\ \A q \in Replicas \ {p} : h[q] = g[q]
      BY <2>2, <3>8, <3>9
    <3>16. \A q \in Replicas \ {p} : hits[q] # {} => g[q] # k
      BY <2>2, <3>5, <3>6, <3>9 DEF LetPass
    <3>17. ASSUME NEW q \in Replicas, hits'[q] # {}
           PROVE  /\ h[q] # 0
                  /\ \A o \in Replicas : hits'[o] # {} /\ h[o] = h[q] => o = q
      BY <3>1, <3>5, <3>9, <3>15, <3>16, <3>17 DEF LetPass
    <3>18. ASSUME NEW q \in Replicas, hits'[q] # {}, NEW x \in admitted', e[x] = h[q]
           PROVE  x \in hits'[q] \/ x.at <= time' - window_seconds
      <4>1. CASE q = p
        <5>1. x = m \/ (x \in admitted /\ f[x] = k)
          BY <2>8, <3>7, <3>15, <3>18, <4>1
        <5>2. x \in admitted /\ f[x] = k => x \in hits[p] \/ x.at <= time - window_seconds
          BY <2>2, <3>5, <3>6, <3>9 DEF LetPass
        <5>. QED
          BY <2>1, <2>6, <3>1, <4>1, <5>1, <5>2
      <4>2. CASE q # p
        <5>1. hits'[q] = hits[q] /\ h[q] = g[q] /\ g[q] # k
          BY <3>1, <3>15, <3>16, <3>18, <4>2
        <5>2. x \in admitted /\ f[x] = g[q]
          BY <2>8, <3>7, <3>18, <5>1
        <5>. QED
          BY <2>1, <3>5, <3>18, <5>1, <5>2 DEF LetPass
      <4>. QED
        BY <4>1, <4>2
    <3>19. LetPass(e, h)'
      BY <3>12, <3>13, <3>14, <3>17, <3>18 DEF LetPass
    <3>. QED
      BY <2>5, <3>4, <3>19 DEF LimiterInv
  <2>. QED
    BY <1>5, <2>7, <2>8, LimiterSets DEF Limiter!FallBack, Limiter!Room
<1>6. ASSUME NEW p \in Replicas, Limiter!Restart(p) PROVE LimiterInv'
  <2>1. hits' = [hits EXCEPT ![p] = {}] /\ UNCHANGED <<time, zset, lapse, slot, checks, admitted, newest, late, memories>>
    BY <1>6 DEF Limiter!Restart
  <2>2. LimiterTypeOK'
    BY <2>1, FS_EmptySet DEF LimiterInv, LimiterTypeOK
  <2>3. ClocksAgree'
    BY <2>1 DEF LimiterInv, LimiterTypeOK, ClocksAgree
  <2>4. \A q \in Replicas : hits'[q] # {} => hits'[q] = hits[q]
    BY <2>1 DEF LimiterInv, LimiterTypeOK
  <2>5. \E f, g : LetPass(f, g)'
    BY <2>1, <2>2, <2>4, NothingPasses DEF LimiterInv, LimiterTypeOK
  <2>. QED
    BY <2>2, <2>3, <2>5 DEF LimiterInv
<1>7. CASE UNCHANGED Limiter!rvars
  <2>1. UNCHANGED <<time, zset, lapse, hits, slot, checks, admitted, newest, late, memories>>
    BY <1>7 DEF Limiter!rvars
  <2>2. LimiterTypeOK'
    BY <2>1 DEF LimiterInv, LimiterTypeOK
  <2>3. ClocksAgree'
    BY <2>1 DEF LimiterInv, ClocksAgree
  <2>4. \E f, g : LetPass(f, g)'
    BY <2>1, <2>2, NothingPasses DEF LimiterInv, LimiterTypeOK
  <2>. QED
    BY <2>2, <2>3, <2>4 DEF LimiterInv
<1>. QED
  BY <1>1, <1>2, <1>3, <1>4, <1>5, <1>6, <1>7 DEF Limiter!Next

(* In every window as many requests pass as Redis allows, and as many again  *)
(* for each memory that replicas fell back to, however long Redis is away    *)
(* and however often they start again.  (check, _check_memory,               *)
(* _SLIDING_WINDOW_LUA)                                                      *)
THEOREM WindowsAreCapped == Limiter!LimiterAssumption /\ Limiter!Spec => []WindowCap
<1>. SUFFICES ASSUME Limiter!LimiterAssumption PROVE Limiter!Spec => []WindowCap
  OBVIOUS
<1>1. Limiter!Init => LimiterInv
  BY LimiterInit
<1>2. LimiterInv /\ [Limiter!Next]_Limiter!rvars => LimiterInv'
  BY LimiterStep
<1>3. LimiterInv => WindowCap
  <2>. SUFFICES ASSUME LimiterInv, NEW t \in 0 .. time
                PROVE  Cardinality(Limiter!InWindow(t)) <= max_requests * (1 + memories)
    BY LimiterSets DEF WindowCap, Limiter!WindowCap
  <2>1. PICK f, g : LetPass(f, g)
    BY DEF LimiterInv
  <2>. DEFINE W == Limiter!InWindow(t)
              T == 0 .. memories
              e == [m \in W |-> f[m]]
  <2>2. W \in SUBSET admitted /\ IsFiniteSet(admitted) /\ memories \in Nat /\ t \in Nat
    BY DEF Limiter!InWindow, LimiterInv, LimiterTypeOK
  <2>3. e \in [W -> T]
    BY <2>1, <2>2 DEF LetPass
  <2>4. \A k \in T : {m \in W : e[m] = k} = Counting(OnTime, f, k, t)
    BY DEF Limiter!InWindow, Counting, OnTime
  <2>5. \A k \in T : Cardinality({m \in W : e[m] = k}) <= max_requests
    BY <2>1, <2>2, <2>4 DEF LetPass
  <2>6. IsFiniteSet(T) /\ Cardinality(T) = 1 + memories
    BY <2>2, FS_Interval
  <2>7. max_requests \in Nat
    BY LimiterNats
  <2>. HIDE DEF W, T, e
  <2>8. IsFiniteSet(W)
    BY <2>2, FS_Subset
  <2>9. Cardinality(W) <= max_requests * Cardinality(T)
    BY <2>3, <2>5, <2>6, <2>7, <2>8, Fibers
  <2>. QED
    BY <2>6, <2>9 DEF W
<1>. QED
  BY <1>1, <1>2, <1>3, PTL DEF Limiter!Spec

-----------------------------------------------------------------------------
(* The free uses of visitors: the invariant *)

LEMMA VisitorSets ==
  /\ \A S : Visiting!IsFiniteSet(S) <=> IsFiniteSet(S)
  /\ \A S : Visiting!Cardinality(S) = Cardinality(S)
BY DEF Visiting!IsFiniteSet, IsFiniteSet, Visiting!Cardinality, Cardinality

Statements == {"idle", "find", "insert", "count", "upsert", "commit"}

VisitorTypeOK ==
  /\ today \in Visiting!Days
  /\ known \in [Rows -> Visitors \cup {Nobody}]
  /\ counted \in [Rows -> [Visiting!Days -> Nat]]
  /\ pc \in [Requests -> Statements]
  /\ who \in [Requests -> Visitors \cup {Nobody}]
  /\ target \in [Requests -> Rows \cup {NoRow}]
  /\ day \in [Requests -> Visiting!Days]

\* A request has one row, which no other has and which is of its address.
RowsLocked ==
  /\ \A q \in Requests :
       /\ pc[q] # "idle" => who[q] \in Visitors
       /\ pc[q] \in {"count", "upsert", "commit"} <=> target[q] # NoRow
       /\ target[q] # NoRow /\ known[target[q]] # Nobody => Ip[known[target[q]]] = Ip[who[q]]
       /\ pc[q] = "count" => known[target[q]] # Nobody
  /\ \A q, o \in Requests : target[q] = target[o] /\ target[q] # NoRow => q = o

\* The count that a request has read still leaves room when it writes, over
\* midnight too.
RoomLeft ==
  /\ \A r \in Rows, d \in Visiting!Days :
       /\ counted[r][d] <= FreeUses
       /\ d > today \/ known[r] = Nobody => counted[r][d] = 0
  /\ \A q \in Requests :
       /\ pc[q] = "upsert" => counted[target[q]][today] < FreeUses
       /\ pc[q] = "commit" => day[q] <= today /\ counted[target[q]][day[q]] < FreeUses

\* Every use is counted, on a row of the address.
UsesCounted ==
  /\ IsFiniteSet(served)
  /\ \A u \in served :
       /\ u.row \in Rows /\ u.use \in Nat /\ u.use <= counted[u.row][u.day]
       /\ known[u.row] # Nobody /\ Ip[known[u.row]] = Ip[u.who]
  /\ \A r \in Rows, d \in Visiting!Days : Cardinality(Visiting!UsesOf(r, d)) = counted[r][d]

\* Requests of address i that will add a row: they have looked when it had none.
Adding(i) ==
  {q \in Requests : /\ pc[q] \in {"insert", "upsert", "commit"} /\ Ip[who[q]] = i
                    /\ target[q] # NoRow => known[target[q]] = Nobody}

RowsFew ==
  \A i : /\ IsFiniteSet(Visiting!RowsOf(i))
         /\ Cardinality(Visiting!RowsOf(i)) + Cardinality(Adding(i)) <= Cardinality(Requests)

VisitorInv == VisitorTypeOK /\ RowsLocked /\ RoomLeft /\ UsesCounted /\ RowsFew

LEMMA VisitorConstants ==
  ASSUME Visiting!VisitorAssumption
  PROVE  /\ IsFiniteSet(Requests) /\ Cardinality(Requests) \in Nat
         /\ FreeUses \in Nat \ {0} /\ LastDay \in Nat /\ Nobody \notin Visitors /\ NoRow \notin Rows
         /\ \A S \in SUBSET Requests :
              IsFiniteSet(S) /\ Cardinality(S) \in Nat /\ Cardinality(S) <= Cardinality(Requests)
<1>1. IsFiniteSet(Requests)
  BY VisitorSets DEF Visiting!VisitorAssumption
<1>2. \A S \in SUBSET Requests :
        IsFiniteSet(S) /\ Cardinality(S) \in Nat /\ Cardinality(S) <= Cardinality(Requests)
  BY <1>1, FS_Subset, FS_CardinalityType
<1>. QED
  BY <1>1, <1>2 DEF Visiting!VisitorAssumption

LEMMA VisitorInit == Visiting!VisitorAssumption /\ Visiting!Init => VisitorInv
<1>. SUFFICES ASSUME Visiting!VisitorAssumption, Visiting!Init PROVE VisitorInv
  OBVIOUS
<1>1. VisitorTypeOK
  BY VisitorConstants DEF Visiting!Init, VisitorTypeOK, Visiting!Days, Statements
<1>2. RowsLocked
  BY DEF Visiting!Init, RowsLocked
<1>3. RoomLeft
  BY VisitorConstants DEF Visiting!Init, RoomLeft, Visiting!Days
<1>4. served = {} /\ \A r, d : Visiting!UsesOf(r, d) = {}
  BY DEF Visiting!Init, Visiting!UsesOf
<1>5. UsesCounted
  BY <1>4, FS_EmptySet DEF Visiting!Init, UsesCounted
<1>6. \A i : Visiting!RowsOf(i) = {} /\ Adding(i) \in SUBSET Requests
  BY DEF Visiting!Init, Visiting!RowsOf, Adding
<1>7. \A i : Cardinality(Adding(i)) <= Cardinality(Requests) /\ Cardinality(Adding(i)) \in Nat
  BY <1>6, VisitorConstants
<1>8. RowsFew
  BY <1>6, <1>7, FS_EmptySet DEF RowsFew
<1>. QED
  BY <1>1, <1>2, <1>3, <1>5, <1>8 DEF VisitorInv

\* Steps after which no more requests are adding a row.
LEMMA FewStay ==
  ASSUME Visiting!VisitorAssumption, VisitorInv, known' = known, \A i : Adding(i)' \subseteq Adding(i)
  PROVE  RowsFew'
<1>. SUFFICES ASSUME NEW i
              PROVE  /\ IsFiniteSet(Visiting!RowsOf(i))
                     /\ Cardinality(Visiting!RowsOf(i)) + Cardinality(Adding(i)') <= Cardinality(Requests)
  BY DEF RowsFew, Visiting!RowsOf
<1>1. /\ IsFiniteSet(Visiting!RowsOf(i))
      /\ Cardinality(Visiting!RowsOf(i)) + Cardinality(Adding(i)) <= Cardinality(Requests)
  BY DEF VisitorInv, RowsFew
<1>2. Adding(i) \in SUBSET Requests
  BY DEF Adding
<1>3. IsFiniteSet(Adding(i)) /\ Cardinality(Adding(i)) \in Nat
  BY <1>2, VisitorConstants
<1>4. Adding(i)' \in SUBSET Adding(i)
  OBVIOUS
<1>5. Cardinality(Adding(i)') <= Cardinality(Adding(i)) /\ Cardinality(Adding(i)') \in Nat
  BY <1>3, <1>4, FS_Subset, FS_CardinalityType
<1>6. Cardinality(Visiting!RowsOf(i)) \in Nat
  BY <1>1, FS_CardinalityType
<1>. QED
  BY <1>1, <1>3, <1>5, <1>6, VisitorConstants

LEMMA UsesStay ==
  ASSUME VisitorInv, UNCHANGED <<known, counted, served>>
  PROVE  UsesCounted'
BY DEF VisitorInv, UsesCounted, Visiting!UsesOf

\* A request goes to another statement, and the rows stay.
LEMMA VisitorEnd ==
  ASSUME Visiting!VisitorAssumption, VisitorInv, NEW q \in Requests, Visiting!End(q), UNCHANGED <<today, known, counted, served>>
  PROVE  VisitorInv'
<1>1. VisitorTypeOK'
  BY VisitorConstants DEF Visiting!End, Visiting!Goto, VisitorInv, VisitorTypeOK, Visiting!Days, Statements
<1>2. /\ pc'[q] = "idle" /\ target'[q] = NoRow
      /\ \A o \in Requests \ {q} : pc'[o] = pc[o] /\ who'[o] = who[o] /\ target'[o] = target[o] /\ day'[o] = day[o]
  BY DEF Visiting!End, Visiting!Goto, VisitorInv, VisitorTypeOK
<1>3. RowsLocked'
  BY <1>2 DEF VisitorInv, RowsLocked
<1>4. RoomLeft'
  BY <1>2 DEF VisitorInv, RoomLeft
<1>5. \A i : Adding(i)' \subseteq Adding(i)
  BY <1>2 DEF Adding
<1>. QED
  BY <1>1, <1>3, <1>4, <1>5, FewStay, UsesStay DEF VisitorInv

LEMMA VisitorStart ==
  ASSUME Visiting!VisitorAssumption, VisitorInv, NEW q \in Requests, NEW v \in Visitors, Visiting!Start(q, v)
  PROVE  VisitorInv'
<1>0. UNCHANGED <<today, known, counted, served, target, day>>
  BY DEF Visiting!Start, Visiting!rows
<1>1. VisitorTypeOK'
  BY <1>0 DEF Visiting!Start, Visiting!Goto, VisitorInv, VisitorTypeOK, Statements
<1>2. /\ pc[q] = "idle" /\ pc'[q] = "find" /\ who'[q] = v
      /\ \A o \in Requests \ {q} : pc'[o] = pc[o] /\ who'[o] = who[o]
  BY DEF Visiting!Start, Visiting!Goto, VisitorInv, VisitorTypeOK
<1>3. RowsLocked'
  BY <1>0, <1>2 DEF VisitorInv, RowsLocked
<1>4. RoomLeft'
  BY <1>0, <1>2 DEF VisitorInv, RoomLeft
<1>5. \A i : Adding(i)' \subseteq Adding(i)
  BY <1>0, <1>2 DEF Adding
<1>. QED
  BY <1>0, <1>1, <1>3, <1>4, <1>5, FewStay, UsesStay DEF VisitorInv

LEMMA VisitorFind ==
  ASSUME Visiting!VisitorAssumption, VisitorInv, NEW q \in Requests, Visiting!Find(q)
  PROVE  VisitorInv'
<1>0. pc[q] = "find" /\ target[q] = NoRow /\ UNCHANGED <<today, known, counted, served, who, day>>
  BY DEF Visiting!Find, Visiting!rows, VisitorInv, RowsLocked
<1>1. CASE /\ Visiting!Matching(who[q]) = {} /\ pc' = [pc EXCEPT ![q] = "insert"] /\ target' = target
  <2>1. VisitorTypeOK'
    BY <1>0, <1>1 DEF VisitorInv, VisitorTypeOK, Statements
  <2>2. pc'[q] = "insert" /\ \A o \in Requests \ {q} : pc'[o] = pc[o]
    BY <1>1 DEF VisitorInv, VisitorTypeOK
  <2>3. RowsLocked'
    BY <1>0, <1>1, <2>2 DEF VisitorInv, RowsLocked
  <2>4. RoomLeft'
    BY <1>0, <1>1, <2>2 DEF VisitorInv, RoomLeft
  <2>5. RowsFew'
    <3>. SUFFICES ASSUME NEW i
                  PROVE  /\ IsFiniteSet(Visiting!RowsOf(i))
                         /\ Cardinality(Visiting!RowsOf(i)) + Cardinality(Adding(i)') <= Cardinality(Requests)
      BY <1>0 DEF RowsFew, Visiting!RowsOf
    <3>1. Adding(i)' \in SUBSET Requests
      BY DEF Adding
    <3>2. Cardinality(Adding(i)') \in Nat /\ Cardinality(Adding(i)') <= Cardinality(Requests)
      BY <3>1, VisitorConstants
    <3>3. CASE i = Ip[who[q]]
      <4>1. Visiting!RowsOf(i) = {}
        BY <1>1, <3>3 DEF Visiting!RowsOf, Visiting!Matching
      <4>. QED
        BY <3>2, <4>1, FS_EmptySet, VisitorConstants
    <3>4. CASE i # Ip[who[q]]
      <4>1. Adding(i)' = Adding(i)
        BY <1>0, <1>1, <2>2, <3>4 DEF Adding
      <4>. QED
        BY <4>1 DEF VisitorInv, RowsFew
    <3>. QED
      BY <3>3, <3>4
  <2>. QED
    BY <1>0, <2>1, <2>3, <2>4, <2>5, UsesStay DEF VisitorInv
<1>2. ASSUME NEW r \in Visiting!Matching(who[q]), \A o \in Requests : target[o] # r,
             target' = [target EXCEPT ![q] = r], pc' = [pc EXCEPT ![q] = "count"]
      PROVE  VisitorInv'
  <2>0. r \in Rows /\ known[r] # Nobody /\ Ip[known[r]] = Ip[who[q]] /\ r # NoRow
    BY VisitorConstants DEF Visiting!Matching
  <2>1. VisitorTypeOK'
    BY <1>0, <1>2, <2>0 DEF VisitorInv, VisitorTypeOK, Statements
  <2>2. /\ pc'[q] = "count" /\ target'[q] = r
        /\ \A o \in Requests \ {q} : pc'[o] = pc[o] /\ target'[o] = target[o]
    BY <1>2 DEF VisitorInv, VisitorTypeOK
  <2>3. RowsLocked'
    BY <1>0, <1>2, <2>0, <2>2 DEF VisitorInv, RowsLocked
  <2>4. RoomLeft'
    BY <1>0, <1>2, <2>2 DEF VisitorInv, RoomLeft
  <2>5. \A i : Adding(i)' \subseteq Adding(i)
    BY <1>0, <2>2 DEF Adding
  <2>. QED
    BY <1>0, <2>1, <2>3, <2>4, <2>5, FewStay, UsesStay DEF VisitorInv
<1>. QED
  BY <1>1, <1>2 DEF Visiting!Find, Visiting!Goto

LEMMA VisitorInsert ==
  ASSUME Visiting!VisitorAssumption, VisitorInv, NEW q \in Requests, Visiting!Insert(q)
  PROVE  VisitorInv'
<1>1. pc[q] = "insert" /\ target[q] = NoRow /\ UNCHANGED <<today, known, counted, served, who, day>>
  BY DEF Visiting!Insert, Visiting!rows, VisitorInv, RowsLocked
<1>2. PICK r \in Rows : known[r] = Nobody /\ (\A o \in Requests : target[o] # r) /\ target' = [target EXCEPT ![q] = r]
  BY DEF Visiting!Insert
<1>3. VisitorTypeOK'
  BY <1>1, <1>2 DEF Visiting!Insert, Visiting!Goto, VisitorInv, VisitorTypeOK, Statements
<1>4. /\ pc'[q] = "upsert" /\ target'[q] = r
      /\ \A o \in Requests \ {q} : pc'[o] = pc[o] /\ target'[o] = target[o]
  BY <1>2 DEF Visiting!Insert, Visiting!Goto, VisitorInv, VisitorTypeOK
<1>5. RowsLocked'
  BY <1>1, <1>2, <1>4, VisitorConstants DEF VisitorInv, RowsLocked
<1>6. RoomLeft'
  BY <1>1, <1>2, <1>4, VisitorConstants DEF VisitorInv, RoomLeft, VisitorTypeOK
<1>7. \A i : Adding(i)' \subseteq Adding(i)
  BY <1>1, <1>2, <1>4 DEF Adding
<1>. QED
  BY <1>1, <1>3, <1>5, <1>6, <1>7, FewStay, UsesStay DEF VisitorInv

LEMMA VisitorGoes ==
  ASSUME Visiting!VisitorAssumption, VisitorInv, NEW q \in Requests, Visiting!ReadCount(q) \/ Visiting!Upsert(q)
  PROVE  VisitorInv'
<1>1. UNCHANGED <<today, known, counted, served>>
  BY DEF Visiting!ReadCount, Visiting!Upsert, Visiting!rows
<1>2. CASE Visiting!End(q)
  BY <1>1, <1>2, VisitorEnd
<1>3. CASE ~Visiting!End(q)
  <2>1. /\ UNCHANGED <<who, target>>
        /\ \/ /\ pc[q] = "count" /\ pc' = [pc EXCEPT ![q] = "upsert"] /\ day' = day
              /\ ~(counted[target[q]][today] >= FreeUses)
           \/ /\ pc[q] = "upsert" /\ pc' = [pc EXCEPT ![q] = "commit"] /\ day' = [day EXCEPT ![q] = today]
    BY <1>3 DEF Visiting!ReadCount, Visiting!Upsert, Visiting!Goto, Visiting!UsesToday
  <2>2. VisitorTypeOK'
    BY <1>1, <2>1 DEF VisitorInv, VisitorTypeOK, Statements
  <2>3. \A o \in Requests \ {q} : pc'[o] = pc[o] /\ day'[o] = day[o]
    BY <2>1 DEF VisitorInv, VisitorTypeOK
  <2>4. \/ pc[q] = "count" /\ pc'[q] = "upsert" /\ counted[target[q]][today] < FreeUses
        \/ pc[q] = "upsert" /\ pc'[q] = "commit" /\ day'[q] = today
    <3>1. target[q] \in Rows
      BY <2>1 DEF VisitorInv, VisitorTypeOK, RowsLocked
    <3>2. counted[target[q]][today] \in Nat
      BY <3>1 DEF VisitorInv, VisitorTypeOK
    <3>. QED
      BY <2>1, <3>2, VisitorConstants DEF VisitorInv, VisitorTypeOK
  <2>5. RowsLocked'
    BY <1>1, <2>1, <2>3, <2>4 DEF VisitorInv, RowsLocked
  <2>6. RoomLeft'
    BY <1>1, <2>1, <2>3, <2>4 DEF VisitorInv, RoomLeft, VisitorTypeOK, Visiting!Days
  <2>7. \A i : Adding(i)' \subseteq Adding(i)
    BY <1>1, <2>1, <2>3, <2>4 DEF Adding, VisitorInv, RowsLocked
  <2>. QED
    BY <1>1, <2>2, <2>5, <2>6, <2>7, FewStay, UsesStay DEF VisitorInv
<1>. QED
  BY <1>2, <1>3

LEMMA VisitorDay ==
  ASSUME Visiting!VisitorAssumption, VisitorInv, Visiting!NextDay
  PROVE  VisitorInv'
<1>1. UNCHANGED <<known, counted, served, pc, who, target, day>> /\ today' = today + 1 /\ today < LastDay
  BY DEF Visiting!NextDay, Visiting!rows
<1>2. VisitorTypeOK'
  BY <1>1, VisitorConstants DEF VisitorInv, VisitorTypeOK, Visiting!Days
<1>3. RowsLocked'
  BY <1>1 DEF VisitorInv, RowsLocked
<1>4. RoomLeft'
  <2>1. \A r \in Rows : counted[r][today'] = 0
    BY <1>1, <1>2, VisitorConstants DEF VisitorInv, VisitorTypeOK, RoomLeft, Visiting!Days
  <2>2. \A q \in Requests : pc[q] = "upsert" => target[q] \in Rows
    BY DEF VisitorInv, VisitorTypeOK, RowsLocked
  <2>. QED
    BY <1>1, <2>1, <2>2, VisitorConstants DEF VisitorInv, VisitorTypeOK, RoomLeft, Visiting!Days
<1>5. \A i : Adding(i)' \subseteq Adding(i)
  BY <1>1 DEF Adding
<1>. QED
  BY <1>1, <1>2, <1>3, <1>4, <1>5, FewStay, UsesStay DEF VisitorInv

\* A use is counted; a row that is new takes the place of its request.
LEMMA VisitorCommit ==
  ASSUME Visiting!VisitorAssumption, VisitorInv, NEW q \in Requests, Visiting!Commit(q)
  PROVE  VisitorInv'
<1>0. PICK r, d, v : r = target[q] /\ d = day[q] /\ v = who[q]
  OBVIOUS
<1>. DEFINE use == [who |-> v, row |-> r, day |-> d, use |-> Cardinality(Visiting!UsesOf(r, d)) + 1]
<1>1. /\ pc[q] = "commit" /\ r \in Rows /\ d \in Visiting!Days /\ v \in Visitors
      /\ d <= today /\ counted[r][d] < FreeUses /\ counted[r][d] \in Nat
      /\ known[r] # Nobody => Ip[known[r]] = Ip[v]
      /\ \A o \in Requests \ {q} : target[o] # r
  BY <1>0 DEF Visiting!Commit, VisitorInv, VisitorTypeOK, RowsLocked, RoomLeft
<1>2. /\ known' = [known EXCEPT ![r] = v] /\ counted' = [counted EXCEPT ![r][d] = counted[r][d] + 1]
      /\ served' = served \cup {use} /\ Visiting!End(q) /\ today' = today
  BY <1>0, VisitorSets DEF Visiting!Commit, Visiting!Serve
<1>3. /\ known'[r] = v /\ v # Nobody /\ counted'[r][d] = counted[r][d] + 1
      /\ \A s \in Rows \ {r} : known'[s] = known[s] /\ counted'[s] = counted[s]
      /\ \A e \in Visiting!Days \ {d} : counted'[r][e] = counted[r][e]
  BY <1>1, <1>2, VisitorConstants DEF VisitorInv, VisitorTypeOK
<1>4. /\ pc'[q] = "idle" /\ target'[q] = NoRow
      /\ \A o \in Requests \ {q} : pc'[o] = pc[o] /\ who'[o] = who[o] /\ target'[o] = target[o] /\ day'[o] = day[o]
  BY <1>2 DEF Visiting!End, Visiting!Goto, VisitorInv, VisitorTypeOK
<1>5. VisitorTypeOK'
  <2>1. /\ pc' \in [Requests -> Statements] /\ who' \in [Requests -> Visitors \cup {Nobody}]
        /\ target' \in [Requests -> Rows \cup {NoRow}] /\ day' \in [Requests -> Visiting!Days]
    BY <1>2, VisitorConstants DEF Visiting!End, Visiting!Goto, VisitorInv, VisitorTypeOK, Visiting!Days, Statements
  <2>2. known' \in [Rows -> Visitors \cup {Nobody}]
    BY <1>1, <1>2 DEF VisitorInv, VisitorTypeOK
  <2>3. counted' \in [Rows -> [Visiting!Days -> Nat]]
    BY <1>1, <1>2 DEF VisitorInv, VisitorTypeOK
  <2>. QED
    BY <1>2, <2>1, <2>2, <2>3 DEF VisitorInv, VisitorTypeOK
<1>6. RowsLocked'
  BY <1>0, <1>1, <1>3, <1>4 DEF VisitorInv, VisitorTypeOK, RowsLocked
<1>7. RoomLeft'
  <2>1. ASSUME NEW s \in Rows, NEW e \in Visiting!Days
        PROVE  /\ counted'[s][e] <= FreeUses
               /\ e > today \/ known'[s] = Nobody => counted'[s][e] = 0
    <3>1. CASE s = r /\ e = d
      BY <1>1, <1>3, <3>1, VisitorConstants DEF VisitorInv, VisitorTypeOK, Visiting!Days
    <3>2. CASE s = r /\ e # d
      BY <1>3, <3>2 DEF VisitorInv, RoomLeft
    <3>3. CASE s # r
      BY <1>3, <3>3 DEF VisitorInv, RoomLeft
    <3>. QED
      BY <3>1, <3>2, <3>3
  <2>2. ASSUME NEW o \in Requests
        PROVE  /\ pc'[o] = "upsert" => counted'[target'[o]][today] < FreeUses
               /\ pc'[o] = "commit" => day'[o] <= today /\ counted'[target'[o]][day'[o]] < FreeUses
    <3>1. CASE o = q
      BY <1>4, <3>1
    <3>2. CASE o # q
      BY <1>0, <1>1, <1>3, <1>4, <3>2 DEF VisitorInv, VisitorTypeOK, RoomLeft, RowsLocked
    <3>. QED
      BY <3>1, <3>2
  <2>. QED
    BY <1>2, <2>1, <2>2 DEF RoomLeft
<1>8. UsesCounted'
  <2>. DEFINE U == Visiting!UsesOf(r, d)
              new == Cardinality(U) + 1
  <2>1. U \in SUBSET served /\ IsFiniteSet(served) /\ Cardinality(U) = counted[r][d]
    BY <1>0, <1>1 DEF Visiting!UsesOf, VisitorInv, UsesCounted
  <2>2. IsFiniteSet(U)
    BY <2>1, FS_Subset
  <2>3. use.row = r /\ use.day = d /\ use.who = v /\ use.use = counted[r][d] + 1
    BY <2>1
  <2>4. use \notin U
    BY <1>1, <2>3 DEF Visiting!UsesOf, VisitorInv, UsesCounted
  <2>. HIDE DEF use
  <2>5. Visiting!UsesOf(r, d)' = U \cup {use}
    <3>1. \A a : a \in served' <=> a \in served \/ a = use
      BY <1>2
    <3>. QED
      BY <2>3, <3>1 DEF Visiting!UsesOf
  <2>6. \A s \in Rows, e \in Visiting!Days : ~(s = r /\ e = d) => Visiting!UsesOf(s, e)' = Visiting!UsesOf(s, e)
    BY <1>2, <2>3 DEF Visiting!UsesOf
  <2>7. IsFiniteSet(served') /\ Cardinality(U \cup {use}) = Cardinality(U) + 1
    <3>. HIDE DEF U
    <3>. QED
      BY <1>2, <2>1, <2>2, <2>4, FS_AddElement
  <2>8. \A s \in Rows, e \in Visiting!Days : Cardinality(Visiting!UsesOf(s, e)') = counted'[s][e]
    <3>. SUFFICES ASSUME NEW s \in Rows, NEW e \in Visiting!Days
                  PROVE  Cardinality(Visiting!UsesOf(s, e)') = counted'[s][e]
      OBVIOUS
    <3>1. CASE s = r /\ e = d
      BY <1>3, <2>1, <2>5, <2>7, <3>1
    <3>2. CASE ~(s = r /\ e = d)
      <4>1. counted'[s][e] = counted[s][e]
        BY <1>3, <3>2
      <4>. QED
        BY <2>6, <3>2, <4>1 DEF VisitorInv, UsesCounted
    <3>. QED
      BY <3>1, <3>2
  <2>9. ASSUME NEW u \in served'
        PROVE  /\ u.row \in Rows /\ u.use \in Nat /\ u.use <= counted'[u.row][u.day]
               /\ known'[u.row] # Nobody /\ Ip[known'[u.row]] = Ip[u.who]
    <3>1. CASE u = use
      BY <1>1, <1>3, <2>3, <3>1
    <3>2. CASE u \in served
      <4>1. /\ u.row \in Rows /\ u.use \in Nat /\ u.use <= counted[u.row][u.day]
            /\ known[u.row] # Nobody /\ Ip[known[u.row]] = Ip[u.who]
        BY <3>2 DEF VisitorInv, UsesCounted
      <4>2. known'[u.row] # Nobody /\ Ip[known'[u.row]] = Ip[u.who]
        BY <1>1, <1>3, <4>1
      <4>3. u.use <= counted'[u.row][u.day]
        <5>1. CASE u.row = r /\ u.day = d
          BY <1>1, <1>3, <4>1, <5>1
        <5>2. CASE u.row # r
          BY <1>3, <4>1, <5>2
        <5>3. CASE u.row = r /\ u.day # d
          <6>1. counted'[r] = [counted[r] EXCEPT ![d] = counted[r][d] + 1]
            BY <1>1, <1>2 DEF VisitorInv, VisitorTypeOK
          <6>2. DOMAIN counted[r] = Visiting!Days
            BY <1>1 DEF VisitorInv, VisitorTypeOK
          <6>3. counted'[r][u.day] = counted[r][u.day]
            BY <5>3, <6>1
          <6>. QED
            BY <4>1, <5>3, <6>3
        <5>. QED
          BY <5>1, <5>2, <5>3
      <4>. QED
        BY <4>1, <4>2, <4>3
    <3>. QED
      BY <1>2, <3>1, <3>2
  <2>10. (\A u \in served : /\ u.row \in Rows /\ u.use \in Nat /\ u.use <= counted[u.row][u.day]
                            /\ known[u.row] # Nobody /\ Ip[known[u.row]] = Ip[u.who])'
    BY <2>9
  <2>. QED
    BY <2>7, <2>8, <2>10 DEF UsesCounted
<1>9. RowsFew'
  <2>. SUFFICES ASSUME NEW i
                PROVE  /\ IsFiniteSet(Visiting!RowsOf(i)')
                       /\ Cardinality(Visiting!RowsOf(i)') + Cardinality(Adding(i)') <= Cardinality(Requests)
    BY DEF RowsFew
  <2>. DEFINE R == Visiting!RowsOf(i)
              A == Adding(i)
  <2>1. A \in SUBSET Requests
    BY DEF Adding
  <2>2. /\ IsFiniteSet(R) /\ Cardinality(R) + Cardinality(A) <= Cardinality(Requests)
        /\ IsFiniteSet(A) /\ Cardinality(A) \in Nat
    BY <2>1, VisitorConstants DEF VisitorInv, RowsFew
  <2>3. Cardinality(R) \in Nat
    BY <2>2, FS_CardinalityType
  <2>4. A' \subseteq A
    BY <1>0, <1>1, <1>3, <1>4 DEF Adding, VisitorInv, VisitorTypeOK, RowsLocked
  <2>5. CASE i = Ip[v] /\ known[r] = Nobody
    <3>1. R' = R \cup {r} /\ r \notin R
      BY <1>1, <1>3, <2>5 DEF Visiting!RowsOf
    <3>2. q \in A /\ q \notin A'
      BY <1>0, <1>1, <1>4, <2>5 DEF Adding
    <3>3. A' \in SUBSET (A \ {q})
      BY <2>4, <3>2
    <3>. HIDE DEF A, R
    <3>4. IsFiniteSet(A \ {q}) /\ Cardinality(A \ {q}) = Cardinality(A) - 1
      BY <2>2, <3>2, FS_RemoveElement
    <3>5. Cardinality(A') <= Cardinality(A \ {q}) /\ Cardinality(A') \in Nat
      BY <3>3, <3>4, FS_Subset, FS_CardinalityType
    <3>6. IsFiniteSet(R') /\ Cardinality(R') = Cardinality(R) + 1
      BY <2>2, <3>1, FS_AddElement
    <3>7. Cardinality(R') + Cardinality(A') <= Cardinality(Requests)
      BY <2>2, <2>3, <3>4, <3>5, <3>6, VisitorConstants
    <3>. QED
      BY <3>6, <3>7 DEF R, A
  <2>6. CASE ~(i = Ip[v] /\ known[r] = Nobody)
    <3>1. R' = R
      BY <1>1, <1>3, <2>6 DEF Visiting!RowsOf
    <3>. HIDE DEF A, R
    <3>2. Cardinality(A') <= Cardinality(A) /\ Cardinality(A') \in Nat
      BY <2>2, <2>4, FS_Subset, FS_CardinalityType
    <3>3. IsFiniteSet(R') /\ Cardinality(R') + Cardinality(A') <= Cardinality(Requests)
      BY <2>2, <2>3, <3>1, <3>2, VisitorConstants
    <3>. QED
      BY <3>3 DEF R, A
  <2>. QED
    BY <2>5, <2>6
<1>. QED
  BY <1>5, <1>6, <1>7, <1>8, <1>9 DEF VisitorInv

(* The visitors of an address share the free uses of its rows on every day,  *)
(* whatever their user agents, and its rows are at most the requests that    *)
(* may run at the same time.  (check_visitor_access, _visitor_key)           *)
THEOREM AddressesAreLimited == Visiting!VisitorAssumption /\ Visiting!Spec => []AddressLimit
<1>. SUFFICES ASSUME Visiting!VisitorAssumption PROVE Visiting!Spec => []AddressLimit
  OBVIOUS
<1>1. Visiting!Init => VisitorInv
  BY VisitorInit
<1>2. VisitorInv /\ [Visiting!Next]_Visiting!vars => VisitorInv'
  <2>1. ASSUME VisitorInv, NEW q \in Requests, Visiting!Fail(q) PROVE VisitorInv'
    BY <2>1, VisitorEnd DEF Visiting!Fail, Visiting!rows
  <2>2. ASSUME VisitorInv, UNCHANGED Visiting!vars PROVE VisitorInv'
    <3>1. UNCHANGED <<today, known, counted, served, pc, who, target, day>>
      BY <2>2 DEF Visiting!vars, Visiting!rows
    <3>2. VisitorTypeOK' /\ RowsLocked' /\ RoomLeft'
      BY <2>2, <3>1 DEF VisitorInv, VisitorTypeOK, RowsLocked, RoomLeft
    <3>3. \A i : Adding(i)' \subseteq Adding(i)
      BY <3>1 DEF Adding
    <3>. QED
      BY <2>2, <3>1, <3>2, <3>3, FewStay, UsesStay DEF VisitorInv
  <2>. QED
    BY <2>1, <2>2, VisitorStart, VisitorFind, VisitorInsert, VisitorGoes, VisitorCommit, VisitorDay
       DEF Visiting!Next, Visiting!Step
<1>3. VisitorInv => AddressLimit
  <2>. SUFFICES ASSUME VisitorInv, NEW i, NEW d \in Visiting!Days
                PROVE  /\ Cardinality(Visiting!RowsOf(i)) <= Cardinality(Requests)
                       /\ Cardinality({u \in served : Ip[u.who] = i /\ u.day = d})
                            <= FreeUses * Cardinality(Visiting!RowsOf(i))
    <3>1. 0 \in Visiting!Days
      BY VisitorConstants DEF Visiting!Days
    <3>. QED
      BY <3>1, VisitorSets DEF AddressLimit, Visiting!AddressLimit
  <2>. DEFINE U == {u \in served : Ip[u.who] = i /\ u.day = d}
              R == Visiting!RowsOf(i)
              f == [u \in U |-> u.row]
  <2>1. Adding(i) \in SUBSET Requests
    BY DEF Adding
  <2>2. IsFiniteSet(R) /\ Cardinality(R) + Cardinality(Adding(i)) <= Cardinality(Requests)
    BY DEF VisitorInv, RowsFew
  <2>3. Cardinality(R) \in Nat /\ Cardinality(R) <= Cardinality(Requests)
    BY <2>1, <2>2, FS_CardinalityType, VisitorConstants
  <2>4. IsFiniteSet(served) /\ U \in SUBSET served
    BY DEF VisitorInv, UsesCounted
  <2>5. f \in [U -> R]
    BY DEF VisitorInv, UsesCounted, Visiting!RowsOf
  <2>6. \A r \in R : Cardinality({u \in U : f[u] = r}) <= FreeUses
    <3>. SUFFICES ASSUME NEW r \in R PROVE Cardinality({u \in U : f[u] = r}) <= FreeUses
      OBVIOUS
    <3>1. r \in Rows
      BY DEF Visiting!RowsOf
    <3>2. {u \in U : f[u] = r} \in SUBSET Visiting!UsesOf(r, d) /\ Visiting!UsesOf(r, d) \in SUBSET served
      BY DEF Visiting!UsesOf
    <3>3. IsFiniteSet(Visiting!UsesOf(r, d))
      BY <2>4, <3>2, FS_Subset
    <3>. DEFINE F == {u \in U : f[u] = r}
    <3>. HIDE DEF F
    <3>4. F \in SUBSET Visiting!UsesOf(r, d)
      BY <3>2 DEF F
    <3>5. Cardinality(F) <= Cardinality(Visiting!UsesOf(r, d)) /\ Cardinality(F) \in Nat
      BY <3>3, <3>4, FS_Subset, FS_CardinalityType
    <3>6. Cardinality(Visiting!UsesOf(r, d)) = counted[r][d] /\ counted[r][d] <= FreeUses /\ counted[r][d] \in Nat
      BY <3>1 DEF VisitorInv, VisitorTypeOK, RoomLeft, UsesCounted
    <3>7. Cardinality(F) <= FreeUses
      BY <3>5, <3>6, VisitorConstants
    <3>. QED
      BY <3>7 DEF F
  <2>. HIDE DEF U, R, f
  <2>7. IsFiniteSet(U)
    BY <2>4, FS_Subset
  <2>8. Cardinality(U) <= FreeUses * Cardinality(R)
    BY <2>2, <2>5, <2>6, <2>7, VisitorConstants, Fibers
  <2>. QED
    BY <2>3, <2>8 DEF U, R
<1>. QED
  BY <1>1, <1>2, <1>3, PTL DEF Visiting!Spec
=============================================================================
