----------------------------- MODULE ToolGroups -----------------------------
(***************************************************************************)
(* The custom tool groups of one user (account-svc, endpoints/user_data.py *)
(* and db/models/user_tool_group.py): every route of "Tool Groups", with   *)
(* the statements of a request as separate steps, because a transaction at *)
(* READ COMMITTED sees what others commit between two of its statements.   *)
(* A group of another user is, for every route, a group that does not      *)
(* exist: the queries filter on the user.                                  *)
(***************************************************************************)
EXTENDS Integers, FiniteSets, SequencesExt

CONSTANTS
  Requests,         \* the requests that may be open at the same time
  Names,            \* names of groups
  Tools,            \* ids of tools
  ToolLists,        \* the lists of tools that requests carry
  MAX_TOOL_GROUPS_PER_USER,
  MAX_TOOLS_PER_GROUP,
  MaxCreates,       \* bound: requests that create a group
  MaxRequests       \* bound: requests in all

GroupAssumption ==
  /\ IsFiniteSet(Requests)
  /\ Requests # {}
  /\ ToolLists \subseteq Seq(Tools)
  /\ MAX_TOOL_GROUPS_PER_USER \in Nat \ {0}
  /\ MAX_TOOLS_PER_GROUP \in Nat \ {0}

VARIABLES
  groups,   \* rows of user_tool_groups by id, each with its user_tool_group_items
  req,      \* the open requests: operation, arguments and what they have read
  made,     \* number of transactions that create a group: their ids and created_at
  begun,    \* number of requests so far (bound)
  raced     \* history: two requests have been open at the same time

gvars == <<groups, req, made, begun, raced>>

Ids == 1 .. MaxCreates
Closed == [op |-> "none"]

(* What a request does next once it has read what it needs. *)
Steps == {"look", "count", "rank", "write", "reread"}

Orders(f) == {f[k].order : k \in DOMAIN f}
ItemOrders(f) == {f[t] : t \in DOMAIN f}

\* Variant: "max or -1", as if a highest order of 0 were none.
NextOrder_Falsy(S) ==
  IF S \subseteq {0} THEN 0 ELSE CHOOSE n \in {k + 1 : k \in S} : \A k \in S : k < n

(* 0 if max is None else max + 1 *)
NextOrder(S) == IF S = {} THEN 0 ELSE CHOOSE n \in {k + 1 : k \in S} : \A k \in S : k < n

First(s, t) == CHOOSE i \in DOMAIN s : s[i] = t /\ \A j \in 1 .. (i - 1) : s[j] # t
Earlier(s, t) == {s[j] : j \in 1 .. (First(s, t) - 1)}

(* Duplicates keep their first position, and the list is cut at the cap. *)
Deduped(s) == {t \in ToSet(s) : Cardinality(Earlier(s, t)) < MAX_TOOLS_PER_GROUP}
Positions(s) == [t \in Deduped(s) |-> Cardinality(Earlier(s, t))]

(* Groups by sort_order and then created_at, which is the time the creating  *)
(* transaction began.                                                        *)
Display(f, g, h) == f[g].order < f[h].order \/ (f[g].order = f[h].order /\ g < h)

-----------------------------------------------------------------------------
Init ==
  /\ groups = <<>>
  /\ req = [r \in Requests |-> Closed]
  /\ made = 0
  /\ begun = 0
  /\ raced = FALSE

Begin(r, request) ==
  /\ req[r] = Closed
  /\ begun < MaxRequests
  /\ req' = [req EXCEPT ![r] = request]
  /\ begun' = begun + 1
  /\ raced' = (raced \/ \E q \in Requests : req[q] # Closed)
  /\ UNCHANGED groups

(* The request ends, with nothing written. *)
End(r) ==
  /\ req' = [req EXCEPT ![r] = Closed]
  /\ UNCHANGED <<groups, made, begun, raced>>

Proceed(r, step) ==
  /\ req' = [req EXCEPT ![r].step = step]
  /\ UNCHANGED <<groups, made, begun, raced>>

(* The flush and the commit: an exclusive lock on a row or index entry makes *)
(* a conflicting writer wait for the commit, so they are one step.           *)
Commit(r, rows, next) ==
  /\ groups' = rows
  /\ req' = [req EXCEPT ![r] = next]
  /\ UNCHANGED <<made, begun, raced>>

At(r, op, step) == req[r].op = op /\ req[r].step = step

Exists(g) == g \in DOMAIN groups
Named(n) == {g \in DOMAIN groups : groups[g].name = n}
Without(f, S) == [k \in DOMAIN f \ S |-> f[k]]

(* The answer is read again after the commit: 500 when the group is gone. *)
Reread(r) ==
  /\ req[r] # Closed
  /\ req[r].step = "reread"
  /\ End(r)

-----------------------------------------------------------------------------
(* create_tool_group: idempotent by name, capped, at the end of the order. *)
CreateBegin(r) ==
  /\ made < MaxCreates
  /\ \E n \in Names, ts \in ToolLists :
       Begin(r, [op |-> "create", step |-> "look", id |-> made + 1, name |-> n, tools |-> ts])
  /\ made' = made + 1

CreateLook(r) ==
  /\ At(r, "create", "look")
  /\ IF Named(req[r].name) # {} THEN End(r) ELSE Proceed(r, "count")

CreateCount(r) ==
  /\ At(r, "create", "count")
  /\ IF Cardinality(DOMAIN groups) >= MAX_TOOL_GROUPS_PER_USER THEN End(r) ELSE Proceed(r, "rank")

CreateRank(r) ==
  /\ At(r, "create", "rank")
  /\ req' = [req EXCEPT ![r] = [op |-> "create", step |-> "write", id |-> @.id, name |-> @.name,
                                tools |-> @.tools, order |-> NextOrder(Orders(groups))]]
  /\ UNCHANGED <<groups, made, begun, raced>>

(* The row as the session adds it. *)
NewGroup(q) == [name |-> q.name, order |-> q.order, items |-> Positions(q.tools)]

\* Variant: no unique index on the name.
CreateWrite_NoIndex(r) ==
  /\ At(r, "create", "write")
  /\ Commit(r, [g \in DOMAIN groups \cup {req[r].id} |->
                  IF g = req[r].id THEN NewGroup(req[r]) ELSE groups[g]],
            [op |-> "reread", step |-> "reread"])

CreateWrite(r) ==
  /\ At(r, "create", "write")
  /\ IF Named(req[r].name) # {}                    \* uq_user_tool_groups_user_name
     THEN End(r)
     ELSE Commit(r, [g \in DOMAIN groups \cup {req[r].id} |->
                       IF g = req[r].id THEN NewGroup(req[r]) ELSE groups[g]],
                 [op |-> "reread", step |-> "reread"])

-----------------------------------------------------------------------------
(* rename_tool_group *)
RenameBegin(r) ==
  /\ \E g \in 1 .. made, n \in Names :
       Begin(r, [op |-> "rename", step |-> "look", id |-> g, name |-> n])
  /\ UNCHANGED made

RenameLook(r) ==
  /\ At(r, "rename", "look")
  /\ LET g == req[r].id IN
     IF ~Exists(g) THEN End(r)                                         \* 404
     ELSE Proceed(r, IF groups[g].name = req[r].name THEN "reread" ELSE "count")

RenameCheck(r) ==
  /\ At(r, "rename", "count")
  /\ IF Named(req[r].name) # {} THEN End(r) ELSE Proceed(r, "write")   \* 409

(* A row that is gone is a StaleDataError, a name that is taken an           *)
(* IntegrityError: both end the request with 500.                            *)
RenameWrite(r) ==
  /\ At(r, "rename", "write")
  /\ LET q == req[r] IN
     IF ~Exists(q.id) \/ Named(q.name) # {} THEN End(r)
     ELSE Commit(r, [groups EXCEPT ![q.id].name = q.name], [op |-> "reread", step |-> "reread"])

-----------------------------------------------------------------------------
(* delete_tool_group: the items go with the group. *)
DeleteBegin(r) ==
  /\ \E g \in 1 .. made : Begin(r, [op |-> "delete", step |-> "look", id |-> g])
  /\ UNCHANGED made

DeleteLook(r) ==
  /\ At(r, "delete", "look")
  /\ IF Exists(req[r].id) THEN Proceed(r, "write") ELSE End(r)         \* 404

DeleteWrite(r) ==
  /\ At(r, "delete", "write")
  /\ Commit(r, Without(groups, {req[r].id}), Closed)

-----------------------------------------------------------------------------
(* reorder_tool_groups: the listed groups first, each once, then the others  *)
(* as they stand; only the orders that differ from the ones read are         *)
(* written.                                                                  *)
ReorderBegin(r) ==
  /\ \E first, second \in 1 .. MaxCreates :
       Begin(r, [op |-> "reorder", step |-> "look", list |-> <<first, second, first>>])
  /\ UNCHANGED made

Goes(f, list, g, h) ==
  LET listed == ToSet(list) IN
  \/ g \in listed /\ (h \in listed => First(list, g) < First(list, h))
  \/ g \notin listed /\ h \notin listed /\ Display(f, g, h)

Ordered(f, list) == [g \in DOMAIN f |-> Cardinality({h \in DOMAIN f : Goes(f, list, h, g)})]

ReorderLook(r) ==
  /\ At(r, "reorder", "look")
  /\ LET place == Ordered(groups, req[r].list)
         moved == {g \in DOMAIN groups : groups[g].order # place[g]} IN
     req' = [req EXCEPT ![r] = [op |-> "reorder", step |-> "write",
                                place |-> [g \in moved |-> place[g]]]]
  /\ UNCHANGED <<groups, made, begun, raced>>

Reordered(f, place) ==
  [g \in DOMAIN f |-> IF g \in DOMAIN place THEN [f[g] EXCEPT !.order = place[g]] ELSE f[g]]

(* An UPDATE that finds its row gone fails the flush; when the flush sends   *)
(* several rows in one batch the driver may not report it.                   *)
ReorderWrite(r) ==
  /\ At(r, "reorder", "write")
  /\ LET place == req[r].place IN
     \/ /\ \/ DOMAIN place \subseteq DOMAIN groups
           \/ Cardinality(DOMAIN place) > 1
        /\ Commit(r, Reordered(groups, place), Closed)
     \/ ~(DOMAIN place \subseteq DOMAIN groups) /\ End(r)

-----------------------------------------------------------------------------
(* add_tool_to_group *)
AddBegin(r) ==
  /\ \E g \in 1 .. made, t \in Tools :
       Begin(r, [op |-> "add", step |-> "look", id |-> g, tool |-> t])
  /\ UNCHANGED made

Items(g) == IF Exists(g) THEN groups[g].items ELSE <<>>

(* 404 for a missing group, 200 for a tool that is already there. *)
AddLook(r) ==
  /\ At(r, "add", "look")
  /\ IF ~Exists(req[r].id) \/ req[r].tool \in DOMAIN Items(req[r].id)
     THEN End(r) ELSE Proceed(r, "count")

AddCount(r) ==
  /\ At(r, "add", "count")
  /\ IF Cardinality(DOMAIN Items(req[r].id)) >= MAX_TOOLS_PER_GROUP THEN End(r) ELSE Proceed(r, "rank")

AddRank(r) ==
  /\ At(r, "add", "rank")
  /\ req' = [req EXCEPT ![r] = [op |-> "add", step |-> "write", id |-> @.id, tool |-> @.tool,
                                order |-> NextOrder(ItemOrders(Items(@.id)))]]
  /\ UNCHANGED <<groups, made, begun, raced>>

(* The foreign key and the primary key of the row turn a stale read into 500. *)
AddWrite(r) ==
  /\ At(r, "add", "write")
  /\ LET q == req[r] IN
     IF ~Exists(q.id) \/ q.tool \in DOMAIN Items(q.id) THEN End(r)
     ELSE Commit(r, [groups EXCEPT ![q.id].items =
                       [t \in DOMAIN @ \cup {q.tool} |-> IF t = q.tool THEN q.order ELSE @[t]]], Closed)

(* remove_tool_from_group: silent when the tool is not there. *)
RemoveBegin(r) ==
  /\ \E g \in 1 .. made, t \in Tools :
       Begin(r, [op |-> "remove", step |-> "look", id |-> g, tool |-> t])
  /\ UNCHANGED made

RemoveLook(r) ==
  /\ At(r, "remove", "look")
  /\ IF req[r].tool \in DOMAIN Items(req[r].id) THEN Proceed(r, "write") ELSE End(r)

RemoveWrite(r) ==
  /\ At(r, "remove", "write")
  /\ Commit(r, IF Exists(req[r].id)
               THEN [groups EXCEPT ![req[r].id].items = Without(@, {req[r].tool})]
               ELSE groups, Closed)

-----------------------------------------------------------------------------
(* set_tool_group_tools: the difference between the list and the items that  *)
(* were read is written; items added meanwhile stay.                         *)
SetBegin(r) ==
  /\ \E g \in 1 .. made, ts \in ToolLists :
       Begin(r, [op |-> "set", step |-> "look", id |-> g, tools |-> ts])
  /\ UNCHANGED made

SetLook(r) ==
  /\ At(r, "set", "look")
  /\ IF ~Exists(req[r].id) THEN End(r)
     ELSE /\ LET wanted == Positions(req[r].tools)
                 old == groups[req[r].id].items
                 kept == DOMAIN old \cap DOMAIN wanted IN
             req' = [req EXCEPT ![r] =
               [op |-> "set", step |-> "write", id |-> @.id,
                gone  |-> DOMAIN old \ DOMAIN wanted,
                moved |-> [t \in {k \in kept : old[k] # wanted[k]} |-> wanted[t]],
                added |-> [t \in DOMAIN wanted \ DOMAIN old |-> wanted[t]]]]
          /\ UNCHANGED <<groups, made, begun, raced>>

Updated(now, q) ==
  [t \in (DOMAIN now \ q.gone) \cup DOMAIN q.added |->
     CASE t \in DOMAIN q.added -> q.added[t]
       [] t \in DOMAIN q.moved -> q.moved[t]
       [] OTHER -> now[t]]

SetWrite(r) ==
  /\ At(r, "set", "write")
  /\ LET q == req[r]
         now == Items(q.id)
         lost == DOMAIN q.moved \ DOMAIN now
         refused == \/ DOMAIN q.added \cap DOMAIN now # {}         \* primary key
                    \/ ~Exists(q.id) /\ DOMAIN q.added # {} IN     \* foreign key
     \/ /\ ~refused
        /\ lost = {} \/ Cardinality(DOMAIN q.moved) > 1
        /\ Commit(r, IF Exists(q.id) THEN [groups EXCEPT ![q.id].items = Updated(now, q)] ELSE groups,
                  [op |-> "reread", step |-> "reread"])
     \/ /\ refused \/ lost # {}
        /\ End(r)

-----------------------------------------------------------------------------
Next ==
  \E r \in Requests :
    \/ CreateBegin(r) \/ CreateLook(r) \/ CreateCount(r) \/ CreateRank(r) \/ CreateWrite(r)
    \/ RenameBegin(r) \/ RenameLook(r) \/ RenameCheck(r) \/ RenameWrite(r)
    \/ DeleteBegin(r) \/ DeleteLook(r) \/ DeleteWrite(r)
    \/ ReorderBegin(r) \/ ReorderLook(r) \/ ReorderWrite(r)
    \/ AddBegin(r) \/ AddLook(r) \/ AddCount(r) \/ AddRank(r) \/ AddWrite(r)
    \/ RemoveBegin(r) \/ RemoveLook(r) \/ RemoveWrite(r)
    \/ SetBegin(r) \/ SetLook(r) \/ SetWrite(r)
    \/ Reread(r)

Spec == Init /\ [][Next]_gvars

-----------------------------------------------------------------------------
(* Groups have distinct names whatever requests race, and so few of them     *)
(* can get past the count at the same time that their number exceeds the cap *)
(* by at most the requests open with it, less one. (create_tool_group and    *)
(* rename_tool_group: a check, and later a write.)                           *)
GroupsBounded ==
  /\ \A g, h \in DOMAIN groups : groups[g].name = groups[h].name => g = h
  /\ Cardinality(DOMAIN groups) < MAX_TOOL_GROUPS_PER_USER + Cardinality(Requests)

(* As long as a user's requests come one after the other, no two groups and  *)
(* no two tools of a group share a place, so that lists have one order, and  *)
(* the caps are exact. (Every route that hands out or rewrites sort_order.)  *)
PlacesDistinct ==
  ~raced =>
    /\ \A g, h \in DOMAIN groups : groups[g].order = groups[h].order => g = h
    /\ \A g \in DOMAIN groups :
         /\ \A t, u \in DOMAIN groups[g].items : groups[g].items[t] = groups[g].items[u] => t = u
         /\ Cardinality(DOMAIN groups[g].items) <= MAX_TOOLS_PER_GROUP
    /\ Cardinality(DOMAIN groups) <= MAX_TOOL_GROUPS_PER_USER
=============================================================================
