---------------------------- MODULE VisitorQuota ----------------------------
(***************************************************************************)
(* check_visitor_access of payments-svc: the daily free uses of a tool by  *)
(* visitors who are not signed in.  A visitor is the hash of an IP address *)
(* and a user agent; a row of auth.visitor_usage is found by either.  The  *)
(* counters of different tools are independent: this is one tool.          *)
(***************************************************************************)
EXTENDS Naturals, FiniteSets

CONSTANTS
  Requests,     \* slots for requests that run at the same time
  Visitors, Ip, \* Ip[v]: the address that the hash of v was made with
  Rows,         \* ids for rows of visitor_usage; one is never used again
  FreeUses,     \* FREE_USES_PER_TOOL_PER_DAY
  LastDay,      \* bound of the calendar
  Nobody, NoRow

VisitorAssumption ==
  /\ IsFiniteSet(Requests)
  /\ FreeUses \in Nat \ {0}
  /\ LastDay \in Nat
  /\ Nobody \notin Visitors
  /\ NoRow \notin Rows

VARIABLES
  today,
  known,        \* known[r]: the visitor whose hash and address row r has
  counted,      \* counted[r][d]: use_count in visitor_tool_usage
  served,       \* history: the uses that were allowed, [who, row, day, use]
  pc, who,      \* each request: its next statement and its visitor
  target,       \* the row it has locked, or inserted
  day           \* the day its UPSERT counts

rows == <<known, counted, served>>
vars == <<today, rows, pc, who, target, day>>

Days == 0 .. LastDay

Init ==
  /\ today = 0
  /\ known = [r \in Rows |-> Nobody]
  /\ counted = [r \in Rows |-> [d \in Days |-> 0]]
  /\ served = {}
  /\ pc = [q \in Requests |-> "idle"]
  /\ who = [q \in Requests |-> Nobody]
  /\ target = [q \in Requests |-> NoRow]
  /\ day = [q \in Requests |-> 0]

Goto(q, label) == pc' = [pc EXCEPT ![q] = label]

Start(q, v) ==
  /\ pc[q] = "idle"
  /\ who' = [who EXCEPT ![q] = v]
  /\ Goto(q, "find")
  /\ UNCHANGED <<today, rows, target, day>>

(* fingerprint = v or ip_address = Ip[v]: the hash determines the address.  *)
Matching(v) == {r \in Rows : known[r] # Nobody /\ Ip[known[r]] = Ip[v]}

(* SELECT ... FOR UPDATE LIMIT 1, in no order.                              *)
Find(q) ==
  /\ pc[q] = "find"
  /\ IF Matching(who[q]) = {}
     THEN Goto(q, "insert") /\ UNCHANGED target
     ELSE \E r \in Matching(who[q]) :
            /\ \A o \in Requests : target[o] # r
            /\ target' = [target EXCEPT ![q] = r]
            /\ Goto(q, "count")
  /\ UNCHANGED <<today, rows, who, day>>

Insert(q) ==
  /\ pc[q] = "insert"
  /\ \E r \in Rows :
       /\ known[r] = Nobody
       /\ \A o \in Requests : target[o] # r
       /\ target' = [target EXCEPT ![q] = r]
  /\ Goto(q, "upsert")
  /\ UNCHANGED <<today, rows, who, day>>

End(q) ==
  /\ Goto(q, "idle")
  /\ who' = [who EXCEPT ![q] = Nobody]
  /\ target' = [target EXCEPT ![q] = NoRow]
  /\ day' = [day EXCEPT ![q] = 0]

UsesToday(v) == counted[v][today]

(* Over the limit, the request is answered "blocked" and writes nothing.    *)
ReadCount(q) ==
  /\ pc[q] = "count"
  /\ IF UsesToday(target[q]) >= FreeUses
     THEN End(q)
     ELSE Goto(q, "upsert") /\ UNCHANGED <<who, target, day>>
  /\ UNCHANGED <<today, rows>>

Upsert(q) ==
  /\ pc[q] = "upsert"
  /\ day' = [day EXCEPT ![q] = today]
  /\ Goto(q, "commit")
  /\ UNCHANGED <<today, rows, who, target>>

UsesOf(r, d) == {u \in served : u.row = r /\ u.day = d}

\* Which use of its row on its day a request is.
Serve(q) ==
  served' = served \cup {[who |-> who[q], row |-> target[q], day |-> day[q],
                         use |-> Cardinality(UsesOf(target[q], day[q])) + 1]}

\* Variant: a request that adds a row does not count its first use.
Commit_FirstUncounted(q) ==
  /\ pc[q] = "commit"
  /\ known' = [known EXCEPT ![target[q]] = who[q]]
  /\ counted' = [counted EXCEPT ![target[q]][day[q]] =
                   IF known[target[q]] = Nobody THEN 0 ELSE @ + 1]
  /\ Serve(q)
  /\ End(q)
  /\ UNCHANGED today

(* A row found by its address takes the hash of the last visitor.           *)
Commit(q) ==
  /\ pc[q] = "commit"
  /\ known' = [known EXCEPT ![target[q]] = who[q]]
  /\ counted' = [counted EXCEPT ![target[q]][day[q]] = @ + 1]
  /\ Serve(q)
  /\ End(q)
  /\ UNCHANGED today

Fail(q) == pc[q] # "idle" /\ End(q) /\ UNCHANGED <<today, rows>>

NextDay ==
  /\ today < LastDay
  /\ today' = today + 1
  /\ UNCHANGED <<rows, pc, who, target, day>>

Step(q) == Find(q) \/ Insert(q) \/ ReadCount(q) \/ Upsert(q) \/ Commit(q)

Next ==
  \/ \E q \in Requests : (\E v \in Visitors : Start(q, v)) \/ Step(q) \/ Fail(q)
  \/ NextDay

Spec == Init /\ [][Next]_vars

-----------------------------------------------------------------------------
(* Properties *)

RowsOf(i) == {r \in Rows : known[r] # Nobody /\ Ip[known[r]] = i}

\* The visitors of one address share the quota of its rows, also over midnight,
\* and it has more than one row only because its first requests ran at the same
\* time: a new user agent brings no new free uses.
AddressLimit ==
  \A i \in {Ip[v] : v \in Visitors} :
    /\ Cardinality(RowsOf(i)) <= Cardinality(Requests)
    /\ \A d \in Days :
         Cardinality({u \in served : Ip[u.who] = i /\ u.day = d})
           <= FreeUses * Cardinality(RowsOf(i))
=============================================================================
