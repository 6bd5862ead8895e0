------------------------------ MODULE ToolGate ------------------------------
(***************************************************************************)
(* What stands before the tools: the calls of them with the gate that      *)
(* consumes a use, the free uses of visitors behind that gate, and the     *)
(* rate limiter before it.  A call takes the answers of the other two as   *)
(* they come; they share no row, key or variable with each other.          *)
(***************************************************************************)

CONSTANTS
  Users, Visitor, LocalTools, AlwaysFree, StaticAi, DynamicAi, Offline, MAX_TRIES, MaxToolCalls,
  Requests, Visitors, Ip, Rows, FreeUses, LastDay, Nobody, NoRow,
  Replicas, Slots, max_requests, window_seconds, NoSlot, MaxSeconds, MaxChecks

VARIABLES
  call, asked, paid, job, readers,
  today, known, counted, served, pc, who, target, day,
  time, zset, lapse, hits, slot, checks, admitted, newest, late, memories

Calling == INSTANCE ToolCalls WITH TextTools <- LocalTools, MaxCalls <- MaxToolCalls
Visiting == INSTANCE VisitorQuota
Limiter == INSTANCE RateLimiter WITH None <- NoSlot

\* A result goes to its caller only, after a use was consumed for the call.
ServedIsPaid == Calling!ServedIsPaid
\* The visitors of one address share its free uses.
AddressLimit == Visiting!AddressLimit
\* As many requests pass in a window as the window and its fallbacks allow.
WindowCap == Limiter!WindowCap
=============================================================================
