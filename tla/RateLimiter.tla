----------------------------- MODULE RateLimiter ----------------------------
(***************************************************************************)
(* The sliding-window limiter that text-svc, ai-svc and account-svc share  *)
(* (fixmytext_shared/rate_limit), for one key.  Every replica counts in    *)
(* Redis; when Redis fails a request falls back to a window in the memory  *)
(* of its own replica.                                                     *)
(***************************************************************************)
EXTENDS Integers, FiniteSets

CONSTANTS
  Replicas,
  Slots,           \* requests that are checked at the same time
  max_requests,
  window_seconds,
  None,
  MaxSeconds,      \* bound: seconds
  MaxChecks        \* bound: requests in all

LimiterAssumption ==
  /\ IsFiniteSet(Replicas) /\ IsFiniteSet(Slots)
  /\ max_requests \in Nat \ {0}
  /\ window_seconds \in Nat \ {0}

VARIABLES
  time,
  zset,      \* the sorted set in Redis: [at, id]
  lapse,     \* when the key of zset expires
  hits,      \* hits[p]: _hits of the fallback in replica p
  slot,      \* each request: when it read the clock, and in which replica
  checks,    \* number of requests so far (bound), also their ids
  admitted,  \* history: stamps of the requests that passed, [at, id]
  newest,    \* history: the latest stamp that stamps were removed for
  late,      \* history: ids of the requests whose script ran late
  memories   \* history: windows that fallbacks have opened in a replica's memory

rvars == <<time, zset, lapse, hits, slot, checks, admitted, newest, late, memories>>

Init ==
  /\ time = 0
  /\ zset = {}
  /\ lapse = 0
  /\ hits = [p \in Replicas |-> {}]
  /\ slot = [s \in Slots |-> None]
  /\ checks = 0
  /\ admitted = {}
  /\ newest = 0
  /\ late = {}
  /\ memories = 0

Larger(a, b) == IF a > b THEN a ELSE b

(* The key of zset expires like this: it forgets what a script with the time *)
(* lapse - 1 would have removed.                                             *)
Tick ==
  /\ time < MaxSeconds
  /\ time' = time + 1
  /\ IF time' = lapse
     THEN zset' = {} /\ newest' = Larger(newest, lapse - 1)
     ELSE UNCHANGED <<zset, newest>>
  /\ UNCHANGED <<lapse, hits, slot, checks, admitted, late, memories>>

(* check reads the clock, and then waits for Redis. *)
Arrive(s, p) ==
  /\ slot[s] = None
  /\ checks < MaxChecks
  /\ checks' = checks + 1
  /\ slot' = [slot EXCEPT ![s] = [at |-> time, in |-> p, id |-> checks + 1, waits |-> TRUE]]
  /\ UNCHANGED <<time, zset, lapse, hits, admitted, newest, late, memories>>

Done(s) == slot' = [slot EXCEPT ![s] = None]
Pass(at, id) == admitted' = admitted \cup {[at |-> at, id |-> id]}

\* Variant: one request too many.
Room_Off(n) == n <= max_requests
Room(n) == n < max_requests

(* A script with a later stamp has removed stamps that count for this one.   *)
Late(s) == slot[s].at < newest

Live(s) == {m \in zset : m.at > slot[s].at - window_seconds}

(* _SLIDING_WINDOW_LUA: atomic, with the time the caller has read before.    *)
Script(s) ==
  IF Room(Cardinality(Live(s)))
  THEN /\ zset' = Live(s) \cup {[at |-> slot[s].at, id |-> slot[s].id]}
       /\ lapse' = time + window_seconds + 1
  ELSE zset' = Live(s) /\ UNCHANGED lapse

Answered(s) ==
  /\ slot[s] # None
  /\ slot[s].waits
  /\ Script(s)
  /\ IF Room(Cardinality(Live(s))) THEN Pass(slot[s].at, slot[s].id) ELSE UNCHANGED admitted
  /\ late' = IF Late(s) THEN late \cup {slot[s].id} ELSE late
  /\ newest' = Larger(newest, slot[s].at)
  /\ Done(s)
  /\ UNCHANGED <<time, hits, checks, memories>>

(* The script has run, but its answer is lost. *)
Lost(s) ==
  /\ slot[s] # None
  /\ slot[s].waits
  /\ Script(s)
  /\ slot' = [slot EXCEPT ![s].waits = FALSE]
  /\ newest' = Larger(newest, slot[s].at)
  /\ UNCHANGED <<time, hits, checks, admitted, late, memories>>

(* No Redis, or no answer from it: the window in memory, with the time now.  *)
FallBack(s) ==
  /\ slot[s] # None
  /\ LET in == slot[s].in
         live == {m \in hits[in] : time - m.at < window_seconds}
     IN IF Room(Cardinality(live))
        THEN /\ hits' = [hits EXCEPT ![in] = live \cup {[at |-> time, id |-> slot[s].id]}]
             /\ Pass(time, slot[s].id)
             /\ memories' = IF hits[in] = {} THEN memories + 1 ELSE memories
        ELSE /\ hits' = [hits EXCEPT ![in] = live]
             /\ UNCHANGED <<admitted, memories>>
  /\ Done(s)
  /\ UNCHANGED <<time, zset, lapse, checks, newest, late>>

(* A replica starts again with an empty memory. *)
Restart(p) ==
  /\ hits[p] # {}
  /\ hits' = [hits EXCEPT ![p] = {}]
  /\ UNCHANGED <<time, zset, lapse, slot, checks, admitted, newest, late, memories>>

Next ==
  \/ Tick
  \/ \E s \in Slots : (\E p \in Replicas : Arrive(s, p)) \/ Answered(s) \/ Lost(s) \/ FallBack(s)
  \/ \E p \in Replicas : Restart(p)

Spec == Init /\ [][Next]_rvars

-----------------------------------------------------------------------------
(* The requests that pass in a window of window_seconds, by the clock they   *)
(* were checked with, are at most max_requests, and as many again for every  *)
(* memory that a request fell back to while Redis was away: no outage lifts  *)
(* the limit.  Only a script that runs late can pass on top of these.        *)
InWindow(t) == {m \in admitted : m.at > t - window_seconds /\ m.at <= t /\ m.id \notin late}
WindowCap ==
  \A t \in 0 .. time : Cardinality(InWindow(t)) <= max_requests * (1 + memories)
=============================================================================
