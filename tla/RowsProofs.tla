----------------------------- MODULE RowsProofs ------------------------------
(***************************************************************************)
(* What holds of ToolGroups, of Workspace and of Storefront for every      *)
(* number of requests, all caps, lists and values, and all bounds.         *)
(***************************************************************************)
EXTENDS Account, Sequences, FiniteSetTheorems, FunctionTheorems, TLAPS

-----------------------------------------------------------------------------
(* Partial updates: only the fields whose value changes are written. *)
LEMMA ApplyNames ==
  ASSUME NEW row, NEW old, NEW u, NEW f \in Fields, Rows!Apply(row, old, u)[f] # row[f]
  PROVE  f \in DOMAIN u /\ u[f] = Rows!Apply(row, old, u)[f]
BY DEF Rows!Apply, Rows!Changed

\* No update changes a field that its body does not name, whatever row it loaded
\* and whoever wrote in between.  (update_preferences, update_ui_settings,
\* update_template)
THEOREM UpdatesAreNamed == Rows!Spec => OnlyNamedFields
<1> DEFINE Kept ==
      /\ settings # Rows!NoRow =>
           \A f \in Fields : settings'[f] # settings[f] =>
              \E r \in Requests : Rows!Names(r, "settings", f, settings'[f])
      /\ {template, template'} \cap {Rows!NoRow, Rows!Deleted} = {} =>
           \A f \in Fields : template'[f] # template[f] =>
              \E r \in Requests : Rows!Names(r, "template", f, template'[f])
<1>1. ASSUME NEW r \in Requests, Rows!SettingsPut(r) PROVE Kept
  <2>1. template' = template
    BY <1>1 DEF Rows!SettingsPut
  <2>2. settings # Rows!NoRow /\ settings' # settings =>
          settings' = Rows!Apply(settings, open[r].old, open[r].set) /\ open[r].op = "settings"
    BY <1>1 DEF Rows!SettingsPut, Rows!Doing
  <2>3. ASSUME settings # Rows!NoRow, NEW f \in Fields, settings'[f] # settings[f]
        PROVE  Rows!Names(r, "settings", f, settings'[f])
    BY <2>2, <2>3, ApplyNames DEF Rows!Names, Rows!Doing
  <2>. QED
    BY <2>1, <2>3
<1>2. ASSUME NEW r \in Requests, Rows!TemplatePut(r) PROVE Kept
  <2>1. settings' = settings
    BY <1>2 DEF Rows!TemplatePut
  <2>2. template' # template =>
          template' = Rows!Apply(template, open[r].old, open[r].set) /\ open[r].op = "template"
    BY <1>2 DEF Rows!TemplatePut, Rows!Doing
  <2>3. ASSUME NEW f \in Fields, template'[f] # template[f]
        PROVE  Rows!Names(r, "template", f, template'[f])
    BY <2>2, <2>3, ApplyNames DEF Rows!Names, Rows!Doing
  <2>. QED
    BY <2>1, <2>3
<1>3. ASSUME NEW r \in Requests, Rows!TemplateCreate(r) \/ Rows!TemplateDelete(r) PROVE Kept
  BY <1>3 DEF Rows!TemplateCreate, Rows!TemplateDelete
<1>4. ASSUME UNCHANGED <<settings, template>> PROVE Kept
  BY <1>4
<1>5. Rows!Next \/ UNCHANGED Rows!wvars => Kept
  <2>1. Rows!Tick \/ UNCHANGED Rows!wvars => UNCHANGED <<settings, template>>
    BY DEF Rows!Tick, Rows!rows, Rows!wvars
  <2>2. ASSUME NEW r \in Requests,
               Rows!SettingsGet(r) \/ Rows!TemplateGet(r) \/ Rows!FavoriteGet(r) \/ Rows!FavoriteAdd(r)
               \/ Rows!FavoriteRemove(r) \/ Rows!PipelineCreate(r) \/ Rows!PipelineGet(r)
               \/ Rows!PipelinePut(r) \/ Rows!PipelineDelete(r) \/ Rows!HistoryRecord(r)
               \/ Rows!HistoryClear(r) \/ Rows!HistoryGet(r) \/ Rows!HistoryDelete(r)
               \/ Rows!ShareCreate(r) \/ Rows!ShareGet(r) \/ Rows!ShareView(r)
        PROVE  UNCHANGED <<settings, template>>
    BY <2>2 DEF Rows!SettingsGet, Rows!TemplateGet, Rows!FavoriteGet, Rows!FavoriteAdd, Rows!FavoriteRemove,
       Rows!PipelineCreate, Rows!PipelineGet, Rows!PipelinePut, Rows!PipelineDelete, Rows!HistoryRecord,
       Rows!HistoryClear, Rows!HistoryGet, Rows!HistoryDelete, Rows!ShareCreate, Rows!ShareGet,
       Rows!ShareView, Rows!Begin, Rows!rows
  <2>. QED
    BY <1>1, <1>2, <1>3, <1>4, <2>1, <2>2 DEF Rows!Next
<1>6. [Rows!Next]_Rows!wvars => [Kept]_Rows!wvars
  BY <1>5
<1>. QED
  BY <1>6, PTL DEF Rows!Spec, OnlyNamedFields, Rows!OnlyNamedFields

-----------------------------------------------------------------------------
(* Pipelines and shared links: the invariant *)

\* The steps of each of the first n requests are there whole or not at all.
Whole(steps, n) ==
  \A s \in steps :
    /\ s.by \in Nat /\ s.by <= n
    /\ \E list \in StepLists : {t \in steps : t.by = s.by} = Rows!StepRows(list, s.by)

PlacesOnce(steps) == \A s, t \in steps : s.order = t.order => s = t

\* The steps of the pipeline are whole lists, and take each place once.
ListsWhole ==
  pipeline # Rows!NoRow => Whole(pipeline.steps, begun) /\ PlacesOnce(pipeline.steps)

\* Two lists that clients send have a place in common, such as 0.
CommonPlace ==
  \A a, b \in StepLists : DOMAIN a # {} /\ DOMAIN b # {} =>
    \E i \in DOMAIN a, j \in DOMAIN b : a[i][1] = b[j][1]

\* A request is about a pipeline that is there.
PipelineFound ==
  \A r \in Requests : Rows!Doing(r, "pipeline") \/ Rows!Doing(r, "pipeline-delete") =>
    pipeline # Rows!NoRow

\* Of each list that an update has read a part of, it has read all that is there,
\* and all of it is still there, or nothing; its own number is on no row yet.
ReadsWhole ==
  \A r \in Requests : Rows!Doing(r, "pipeline") =>
    /\ open[r].list \in StepLists
    /\ open[r].by \in Nat /\ open[r].by <= begun
    /\ \A s \in pipeline.steps :
         /\ s.by # open[r].by
         /\ \A t \in open[r].old : s.by = t.by => s \in open[r].old /\ t \in pipeline.steps
    /\ \A q \in Requests : Rows!Doing(q, "pipeline") =>
         /\ \A s \in open[q].old : s.by # open[r].by
         /\ q # r => open[q].by # open[r].by
    /\ \A s \in open[r].old : s.by \in Nat /\ s.by <= begun

Links == [created : Nat, view_count : Nat]

\* A view is open only of a link, and every one that is answered is counted.
ViewsCounted ==
  /\ share \in {Rows!NoRow} \cup Links
  /\ day \in Nat
  /\ views = IF share = Rows!NoRow THEN 0 ELSE share.view_count
  /\ \A r \in Requests : Rows!Doing(r, "share") => share \in Links

RowsInv ==
  /\ begun \in Nat
  /\ open = [r \in Requests |-> open[r]]
  /\ pipeline # Rows!NoRow => pipeline = [active |-> pipeline.active, steps |-> pipeline.steps]
  /\ ListsWhole
  /\ PipelineFound
  /\ ReadsWhole
  /\ ViewsCounted

\* The rows of a list that the unique index lets in among those that are kept.
LEMMA RowsOfList ==
  ASSUME Rows!WorkspaceAssumption, NEW list \in StepLists, NEW by,
         NEW kept, ~Rows!Collide(list, kept)
  PROVE  /\ \A s \in Rows!StepRows(list, by) : s.by = by /\ s.order \notin Rows!OrdersOf(kept)
         /\ PlacesOnce(Rows!StepRows(list, by))
<1>. DEFINE places == {list[i][1] : i \in DOMAIN list}
            place == [i \in DOMAIN list |-> list[i][1]]
<1>1. list \in Seq(Int \X FavoriteTools) /\ DOMAIN list = 1..Len(list) /\ Len(list) \in Nat
  BY DEF Rows!WorkspaceAssumption
<1>2. place \in Surjection(DOMAIN list, places)
  BY DEF Surjection
<1>3. IsFiniteSet(DOMAIN list) /\ Cardinality(DOMAIN list) = Len(list)
  BY <1>1, FS_Interval
<1>4. /\ Cardinality(places) <= Cardinality(DOMAIN list)
      /\ Cardinality(places) \in Nat
      /\ Cardinality(places) = Cardinality(DOMAIN list) <=> place \in Injection(DOMAIN list, places)
  <2>. HIDE DEF place, places
  <2>1. IsFiniteSet(places)
    BY <1>2, <1>3, FS_Surjection
  <2>2. Cardinality(places) \in Nat
    BY <2>1, FS_CardinalityType
  <2>. QED
    BY <1>2, <1>3, <2>2, FS_Surjection
<1>5. ~(Rows!Cardinality(places) < Len(list)) /\ places \cap Rows!OrdersOf(kept) = {}
  BY DEF Rows!Collide
<1>6. Rows!Cardinality(places) = Cardinality(places)
  <2>. HIDE DEF places
  <2>. QED
    BY DEF Rows!Cardinality, Cardinality
<1>7. place \in Injection(DOMAIN list, places)
  <2>. HIDE DEF place, places
  <2>. QED
    BY <1>1, <1>3, <1>4, <1>5, <1>6
<1>8. \A i, j \in DOMAIN list : list[i][1] = list[j][1] => i = j
  <2>1. \A i, j \in DOMAIN list : place[i] = place[j] => i = j
    <3>. HIDE DEF place, places
    <3>. QED
      BY <1>7, Fun_InjectionProperties
  <2>. QED
    BY <2>1
<1>9. ASSUME NEW s \in Rows!StepRows(list, by)
      PROVE  s.by = by /\ \E i \in DOMAIN list : s.order = list[i][1]
  BY DEF Rows!StepRows
<1>10. PlacesOnce(Rows!StepRows(list, by))
  <2>. SUFFICES ASSUME NEW s \in Rows!StepRows(list, by), NEW t \in Rows!StepRows(list, by),
                       s.order = t.order
                PROVE  s = t
    BY DEF PlacesOnce
  <2>1. PICK i \in DOMAIN list : s = [order |-> list[i][1], tool |-> list[i][2], by |-> by]
    BY DEF Rows!StepRows
  <2>2. PICK j \in DOMAIN list : t = [order |-> list[j][1], tool |-> list[j][2], by |-> by]
    BY DEF Rows!StepRows
  <2>3. i = j
    BY <1>8, <2>1, <2>2
  <2>. QED
    BY <2>1, <2>2, <2>3
<1>. QED
  BY <1>5, <1>9, <1>10

\* A new list among whole ones.
LEMMA ListAdded ==
  ASSUME Rows!WorkspaceAssumption, NEW list \in StepLists,
         NEW n \in Nat, NEW by \in Nat, by <= n,
         NEW kept, Whole(kept, n), PlacesOnce(kept), \A s \in kept : s.by # by,
         ~Rows!Collide(list, kept)
  PROVE  /\ Whole(kept \cup Rows!StepRows(list, by), n)
         /\ PlacesOnce(kept \cup Rows!StepRows(list, by))
<1>. DEFINE new == Rows!StepRows(list, by)
            steps == kept \cup new
<1>1. \A s \in new : s.by = by /\ s.order \notin Rows!OrdersOf(kept)
  BY RowsOfList
<1>2. PlacesOnce(new)
  BY RowsOfList
<1>3. PlacesOnce(steps)
  <2>. HIDE DEF new
  <2>. QED
    BY <1>1, <1>2 DEF PlacesOnce, Rows!OrdersOf
<1>4. ASSUME NEW s \in steps
      PROVE  /\ s.by \in Nat /\ s.by <= n
             /\ \E a \in StepLists : {t \in steps : t.by = s.by} = Rows!StepRows(a, s.by)
  <2>1. CASE s \in kept
    <3>1. {t \in steps : t.by = s.by} = {t \in kept : t.by = s.by}
      <4>. HIDE DEF new
      <4>. QED
        BY <1>1, <2>1
    <3>. HIDE DEF steps
    <3>. QED
      BY <2>1, <3>1 DEF Whole
  <2>2. CASE s \in new
    <3>1. s.by = by /\ {t \in steps : t.by = by} = new
      <4>. HIDE DEF new
      <4>. QED
        BY <1>1, <2>2
    <3>. HIDE DEF steps
    <3>. QED
      BY <3>1
  <2>. QED
    BY <2>1, <2>2
<1>. QED
  BY <1>3, <1>4 DEF Whole

\* What is kept of whole lists when whole lists are taken away.
LEMMA ListsKept ==
  ASSUME NEW steps, NEW old, NEW n, Whole(steps, n), PlacesOnce(steps),
         \A s \in steps : \A t \in old : s.by = t.by => s \in old /\ t \in steps
  PROVE  Whole(steps \ old, n) /\ PlacesOnce(steps \ old)
<1>1. ASSUME NEW s \in steps \ old
      PROVE  {t \in steps \ old : t.by = s.by} = {t \in steps : t.by = s.by}
  OBVIOUS
<1>. QED
  BY <1>1 DEF Whole, PlacesOnce

LEMMA NotALink == Rows!NoRow \notin Links
BY DEF Rows!NoRow, Links

LEMMA ListsStay ==
  ASSUME RowsInv, UNCHANGED pipeline, begun' \in Nat, begun' >= begun
  PROVE  ListsWhole'
BY DEF RowsInv, ListsWhole, Whole, Rows!NoRow

LEMMA RowsInit == Rows!Init => RowsInv
<1>. SUFFICES ASSUME Rows!Init PROVE RowsInv
  OBVIOUS
<1>1. \A r \in Requests : open[r].op = "none"
  BY DEF Rows!Init, Rows!Closed
<1>2. open = [r \in Requests |-> open[r]]
  BY DEF Rows!Init
<1>. QED
  BY <1>1, <1>2 DEF RowsInv, ListsWhole, Rows!Init, PipelineFound, ReadsWhole, ViewsCounted, Rows!Doing

\* A request that opens or closes, and is about neither a pipeline nor a link.
LEMMA OtherRequest ==
  ASSUME RowsInv, UNCHANGED <<pipeline, share, day, views>>,
         begun' \in Nat, begun' >= begun,
         NEW r \in Requests,
         open' = open \/ \E q : open' = [open EXCEPT ![r] = q] /\ q.op \notin {"pipeline", "pipeline-delete", "share"}
  PROVE  RowsInv'
<1>1. open' = [q \in Requests |-> open'[q]]
  BY DEF RowsInv
<1>2. \A q \in Requests : \A op \in {"pipeline", "pipeline-delete", "share"} :
        Rows!Doing(q, op)' => Rows!Doing(q, op) /\ open'[q] = open[q]
  BY DEF RowsInv, Rows!Doing
<1>3. ListsWhole'
  BY ListsStay
<1>4. PipelineFound' /\ ReadsWhole'
  BY <1>2 DEF RowsInv, PipelineFound, ReadsWhole, Rows!NoRow
<1>5. ViewsCounted'
  BY <1>2 DEF RowsInv, ViewsCounted
<1>. QED
  BY <1>1, <1>3, <1>4, <1>5 DEF RowsInv, Rows!NoRow

LEMMA NotMissing ==
  \A active, steps : [active |-> active, steps |-> steps] # Rows!NoRow
BY DEF Rows!NoRow

LEMMA PipelineCreateStep ==
  ASSUME Rows!WorkspaceAssumption, RowsInv, NEW r \in Requests, Rows!PipelineCreate(r)
  PROVE  RowsInv'
<1>1. /\ pipeline = Rows!NoRow /\ begun' = begun + 1 /\ begun' \in Nat
      /\ UNCHANGED <<share, day, open, views>>
  BY DEF RowsInv, Rows!PipelineCreate
<1>2. PICK list \in StepLists :
        pipeline' = IF Rows!Collide(list, {}) THEN Rows!NoRow
                    ELSE [active |-> TRUE, steps |-> Rows!StepRows(list, begun')]
  BY DEF Rows!PipelineCreate
<1>3. /\ pipeline' # Rows!NoRow' =>
             pipeline' = [active |-> pipeline'.active, steps |-> pipeline'.steps]
      /\ ListsWhole'
  <2>1. CASE pipeline' = Rows!NoRow
    BY <2>1 DEF ListsWhole, Rows!NoRow
  <2>2. CASE ~Rows!Collide(list, {})
    <3>1. pipeline' = [active |-> TRUE, steps |-> Rows!StepRows(list, begun')]
      BY <1>2, <2>2
    <3>2. ASSUME NEW n \in Nat
          PROVE  Whole({} \cup Rows!StepRows(list, n), n) /\ PlacesOnce({} \cup Rows!StepRows(list, n))
      <4>1. n <= n /\ Whole({}, n) /\ PlacesOnce({}) /\ \A s \in {} : s.by # n
        BY DEF Whole, PlacesOnce
      <4>. QED
        BY <2>2, <4>1, ListAdded
    <3>3. {} \cup Rows!StepRows(list, begun') = Rows!StepRows(list, begun')
      OBVIOUS
    <3>4. Whole(pipeline'.steps, begun') /\ PlacesOnce(pipeline'.steps)
      BY <1>1, <3>1, <3>2, <3>3
    <3>. QED
      BY <3>1, <3>4 DEF ListsWhole
  <2>. QED
    BY <1>2, <2>1, <2>2
<1>4. \A q \in Requests : ~Rows!Doing(q, "pipeline") /\ ~Rows!Doing(q, "pipeline-delete")
  BY <1>1 DEF RowsInv, PipelineFound
<1>5. PipelineFound' /\ ReadsWhole'
  BY <1>1, <1>4 DEF PipelineFound, ReadsWhole, Rows!Doing
<1>6. ViewsCounted'
  BY <1>1 DEF RowsInv, ViewsCounted, Rows!Doing, Rows!NoRow
<1>. QED
  BY <1>1, <1>3, <1>5, <1>6 DEF RowsInv

LEMMA PipelineGetStep ==
  ASSUME RowsInv, NEW r \in Requests, Rows!PipelineGet(r)
  PROVE  RowsInv'
<1>1. /\ pipeline # Rows!NoRow /\ begun' = begun + 1 /\ begun' \in Nat
      /\ UNCHANGED <<pipeline, share, day, views>>
  BY DEF RowsInv, Rows!PipelineGet, Rows!Begin, Rows!rows
<1>2. PICK new : /\ open' = [open EXCEPT ![r] = new]
                 /\ \/ new.op = "pipeline-delete"
                    \/ /\ new.op = "pipeline" /\ new.old = pipeline.steps
                       /\ new.list \in StepLists /\ new.by = begun + 1
  <2>1. PICK new : /\ Rows!Begin(r, new)
                   /\ \/ new = [op |-> "pipeline-delete"]
                      \/ \E list \in StepLists :
                           new = [op |-> "pipeline", old |-> pipeline.steps, list |-> list, by |-> begun + 1]
    BY DEF Rows!PipelineGet
  <2>2. \/ new.op = "pipeline-delete"
        \/ new.op = "pipeline" /\ new.old = pipeline.steps /\ new.list \in StepLists /\ new.by = begun + 1
    BY <2>1
  <2>3. open' = [open EXCEPT ![r] = new]
    BY <2>1 DEF Rows!Begin
  <2>. QED
    BY <2>2, <2>3
<1>3. open'[r] = new /\ \A q \in Requests \ {r} : open'[q] = open[q]
  BY <1>2 DEF RowsInv
<1>4. open' = [q \in Requests |-> open'[q]]
  BY <1>2 DEF RowsInv
<1>5. ListsWhole'
  BY <1>1, ListsStay DEF RowsInv
<1>6. PipelineFound'
  BY <1>1 DEF PipelineFound, Rows!NoRow
<1>7. ReadsWhole'
  BY <1>1, <1>2, <1>3 DEF RowsInv, ListsWhole, Whole, ReadsWhole, Rows!Doing
<1>8. ViewsCounted'
  BY <1>1, <1>2, <1>3 DEF RowsInv, ViewsCounted, Rows!Doing, Rows!NoRow
<1>. QED
  BY <1>1, <1>4, <1>5, <1>6, <1>7, <1>8 DEF RowsInv, Rows!NoRow

LEMMA PipelinePutStep ==
  ASSUME Rows!WorkspaceAssumption, RowsInv, NEW r \in Requests, Rows!PipelinePut(r)
  PROVE  RowsInv'
<1>. DEFINE list == open[r].list
            old == open[r].old
            by == open[r].by
            kept == pipeline.steps \ old
            rows == kept \cup Rows!StepRows(list, by)
<1>1. /\ Rows!Doing(r, "pipeline") /\ UNCHANGED <<share, day, views, begun>>
      /\ open' = [open EXCEPT ![r] = Rows!Closed]
      /\ pipeline' = IF Rows!Collide(list, kept) THEN pipeline ELSE [pipeline EXCEPT !.steps = rows]
  BY DEF Rows!PipelinePut, Rows!End, Rows!Frame
<1>2. open'[r] = Rows!Closed /\ \A q \in Requests \ {r} : open'[q] = open[q]
  BY <1>1 DEF RowsInv
<1>3. open' = [q \in Requests |-> open'[q]]
  BY <1>1 DEF RowsInv
<1>4. Rows!Closed.op = "none"
  BY DEF Rows!Closed
<1>5. /\ pipeline # Rows!NoRow /\ pipeline = [active |-> pipeline.active, steps |-> pipeline.steps]
      /\ begun \in Nat /\ Whole(pipeline.steps, begun) /\ PlacesOnce(pipeline.steps)
      /\ list \in StepLists /\ by \in Nat /\ by <= begun
      /\ \A s \in pipeline.steps :
           s.by # by /\ \A t \in old : s.by = t.by => s \in old /\ t \in pipeline.steps
  BY <1>1 DEF RowsInv, ListsWhole, PipelineFound, ReadsWhole
<1>6. /\ pipeline' # Rows!NoRow
      /\ pipeline' = [active |-> pipeline'.active, steps |-> pipeline'.steps]
      /\ \/ pipeline'.steps = pipeline.steps
         \/ ~Rows!Collide(list, kept) /\ pipeline'.steps = rows
  <2>1. CASE Rows!Collide(list, kept)
    BY <1>1, <1>5, <2>1
  <2>2. CASE ~Rows!Collide(list, kept)
    <3>. HIDE DEF rows
    <3>1. pipeline' = [active |-> pipeline.active, steps |-> rows]
      BY <1>1, <1>5, <2>2
    <3>2. pipeline' # Rows!NoRow
      BY <3>1, NotMissing
    <3>. QED
      BY <2>2, <3>1, <3>2
  <2>. QED
    BY <2>1, <2>2
<1>7. ListsWhole'
  <2>1. CASE pipeline'.steps = pipeline.steps
    BY <1>1, <1>5, <2>1 DEF ListsWhole
  <2>2. CASE ~Rows!Collide(list, kept) /\ pipeline'.steps = rows
    <3>1. Whole(kept, begun) /\ PlacesOnce(kept)
      <4>. HIDE DEF list, old, by
      <4>. QED
        BY <1>5, ListsKept
    <3>2. \A s \in kept : s.by # by
      BY <1>5
    <3>3. Whole(rows, begun) /\ PlacesOnce(rows)
      <4>. HIDE DEF list, old, by, kept
      <4>. QED
        BY <1>5, <2>2, <3>1, <3>2, ListAdded
    <3>. HIDE DEF rows
    <3>. QED
      BY <1>1, <2>2, <3>3 DEF ListsWhole
  <2>. QED
    BY <1>6, <2>1, <2>2
<1>8. PipelineFound'
  BY <1>6 DEF PipelineFound, Rows!NoRow
<1>9. /\ \A s \in pipeline'.steps : s \in pipeline.steps \/ s.by = by
      /\ \A s \in pipeline'.steps, t \in pipeline.steps : s.by = t.by => s \in pipeline.steps
      /\ \A s \in pipeline'.steps, t \in pipeline.steps : s.by = t.by => t \in pipeline'.steps
  <2>1. \A s \in Rows!StepRows(list, by) : s.by = by
    BY DEF Rows!StepRows
  <2>. HIDE DEF list, old, by
  <2>2. CASE pipeline'.steps = pipeline.steps
    BY <2>2
  <2>3. CASE pipeline'.steps = rows
    <3>1. ASSUME NEW s \in kept, NEW t \in pipeline.steps, s.by = t.by PROVE t \in kept
      BY <1>5, <3>1
    <3>. QED
      BY <1>5, <2>1, <2>3, <3>1
  <2>. QED
    BY <1>6, <2>2, <2>3
<1>10. ReadsWhole'
  <2>. SUFFICES ASSUME NEW q \in Requests, Rows!Doing(q, "pipeline")'
                PROVE  /\ open'[q].list \in StepLists
                       /\ open'[q].by \in Nat /\ open'[q].by <= begun'
                       /\ \A s \in pipeline'.steps :
                            /\ s.by # open'[q].by
                            /\ \A t \in open'[q].old : s.by = t.by => s \in open'[q].old /\ t \in pipeline'.steps
                       /\ \A p \in Requests : Rows!Doing(p, "pipeline")' =>
                            /\ \A s \in open'[p].old : s.by # open'[q].by
                            /\ p # q => open'[p].by # open'[q].by
                       /\ \A s \in open'[q].old : s.by \in Nat /\ s.by <= begun'
    BY DEF ReadsWhole
  <2>1. q # r /\ open'[q] = open[q] /\ Rows!Doing(q, "pipeline")
    BY <1>2, <1>4 DEF Rows!Doing
  <2>2. \A p \in Requests : Rows!Doing(p, "pipeline")' => open'[p] = open[p] /\ Rows!Doing(p, "pipeline")
    BY <1>2, <1>4 DEF Rows!Doing
  <2>3. /\ open[q].by # by
        /\ \A t \in open[q].old : t.by # by
        /\ \A s \in pipeline.steps : s.by # open[q].by
        /\ \A s \in pipeline.steps : \A t \in open[q].old :
             s.by = t.by => s \in open[q].old /\ t \in pipeline.steps
    BY <1>1, <2>1 DEF RowsInv, ReadsWhole
  <2>4. ASSUME NEW s \in pipeline'.steps, NEW t \in open[q].old, s.by = t.by
        PROVE  s \in open[q].old /\ t \in pipeline'.steps
    <3>1. s \in pipeline.steps
      BY <1>9, <2>3, <2>4
    <3>2. s \in open[q].old /\ t \in pipeline.steps
      BY <2>3, <2>4, <3>1
    <3>. QED
      BY <1>9, <2>4, <3>2
  <2>5. \A s \in pipeline'.steps : s.by # open[q].by
    BY <1>9, <2>3
  <2>6. /\ open[q].list \in StepLists
        /\ open[q].by \in Nat /\ open[q].by <= begun
        /\ \A s \in open[q].old : s.by \in Nat /\ s.by <= begun
        /\ \A p \in Requests : Rows!Doing(p, "pipeline") =>
             /\ \A s \in open[p].old : s.by # open[q].by
             /\ p # q => open[p].by # open[q].by
    BY <2>1 DEF RowsInv, ReadsWhole
  <2>. QED
    BY <1>1, <2>1, <2>2, <2>4, <2>5, <2>6
<1>11. ViewsCounted'
  BY <1>1, <1>2, <1>4 DEF RowsInv, ViewsCounted, Rows!Doing, Rows!NoRow
<1>. QED
  BY <1>1, <1>3, <1>6, <1>7, <1>8, <1>10, <1>11 DEF RowsInv

LEMMA PipelineDeleteStep ==
  ASSUME RowsInv, NEW r \in Requests, Rows!PipelineDelete(r)
  PROVE  RowsInv'
<1>1. /\ Rows!Doing(r, "pipeline-delete") /\ UNCHANGED <<share, day, views, begun>>
      /\ open' = [open EXCEPT ![r] = Rows!Closed]
      /\ pipeline' = [pipeline EXCEPT !.active = FALSE]
  BY DEF Rows!PipelineDelete, Rows!End, Rows!Frame
<1>2. \A q \in Requests : \A op \in {"pipeline", "pipeline-delete", "share"} :
        Rows!Doing(q, op)' => Rows!Doing(q, op) /\ open'[q] = open[q]
  BY <1>1 DEF RowsInv, Rows!Doing, Rows!Closed
<1>3. open' = [q \in Requests |-> open'[q]]
  BY <1>1 DEF RowsInv
<1>4. /\ pipeline # Rows!NoRow /\ pipeline = [active |-> pipeline.active, steps |-> pipeline.steps]
      /\ Whole(pipeline.steps, begun) /\ PlacesOnce(pipeline.steps)
  BY <1>1 DEF RowsInv, ListsWhole, PipelineFound
<1>5. pipeline' = [active |-> FALSE, steps |-> pipeline.steps] /\ pipeline' # Rows!NoRow
  BY <1>1, <1>4, NotMissing
<1>6. ListsWhole'
  BY <1>1, <1>4, <1>5 DEF ListsWhole
<1>7. PipelineFound' /\ ReadsWhole'
  BY <1>1, <1>2, <1>5 DEF RowsInv, PipelineFound, ReadsWhole, Rows!NoRow
<1>8. ViewsCounted'
  BY <1>1, <1>2 DEF RowsInv, ViewsCounted, Rows!NoRow
<1>. QED
  BY <1>1, <1>3, <1>5, <1>6, <1>7, <1>8 DEF RowsInv

\* The counter is raised in the database, so that no view is lost.
LEMMA ShareStep ==
  ASSUME RowsInv, NEW r \in Requests, Rows!ShareCreate(r) \/ Rows!ShareGet(r) \/ Rows!ShareView(r)
  PROVE  RowsInv'
<1>1. /\ UNCHANGED pipeline
      /\ begun' \in Nat /\ begun' >= begun
  BY DEF RowsInv, Rows!ShareCreate, Rows!ShareGet, Rows!ShareView, Rows!Begin, Rows!Frame, Rows!rows
<1>2. PICK q : /\ open' = open \/ open' = [open EXCEPT ![r] = q]
               /\ q.op \in {"share", "none"}
               /\ q.op = "share" => Rows!ShareGet(r)
  <2>1. CASE Rows!ShareCreate(r)
    <3>1. Rows!Closed.op = "none"
      BY DEF Rows!Closed
    <3>. QED
      BY <2>1, <3>1 DEF Rows!ShareCreate
  <2>2. CASE Rows!ShareView(r)
    <3>1. Rows!Closed.op = "none"
      BY DEF Rows!Closed
    <3>. QED
      BY <2>2, <3>1 DEF Rows!ShareView, Rows!End
  <2>3. CASE Rows!ShareGet(r)
    <3>. DEFINE new == [op |-> "share", seen |-> share.view_count]
    <3>1. open' = [open EXCEPT ![r] = new] /\ new.op = "share"
      BY <2>3 DEF Rows!ShareGet, Rows!Begin
    <3>. QED
      BY <2>3, <3>1
  <2>. QED
    BY <2>1, <2>2, <2>3
<1>3. open' = [p \in Requests |-> open'[p]]
  BY <1>2 DEF RowsInv
<1>4. /\ \A p \in Requests : \A op \in {"pipeline", "pipeline-delete"} :
           Rows!Doing(p, op)' => Rows!Doing(p, op) /\ open'[p] = open[p]
      /\ \A p \in Requests :
           Rows!Doing(p, "share")' => Rows!Doing(p, "share") \/ Rows!ShareGet(r)
  BY <1>2 DEF RowsInv, Rows!Doing
<1>5. ListsWhole'
  BY <1>1, ListsStay
<1>6. PipelineFound' /\ ReadsWhole'
  BY <1>1, <1>4 DEF RowsInv, PipelineFound, ReadsWhole, Rows!NoRow
<1>7. ViewsCounted'
  <2>. USE DEF RowsInv, ViewsCounted
  <2>1. CASE Rows!ShareGet(r)
    <3>1. share # Rows!NoRow /\ UNCHANGED <<share, day, views>>
      BY <2>1 DEF Rows!ShareGet, Rows!Begin, Rows!rows
    <3>. QED
      BY <3>1 DEF Rows!NoRow
  <2>2. CASE Rows!ShareCreate(r)
    <3>1. /\ share = Rows!NoRow /\ share' = [created |-> day, view_count |-> 0]
          /\ UNCHANGED <<day, views, open>>
      BY <2>2 DEF Rows!ShareCreate
    <3>2. share' \in Links /\ share'.view_count = 0
      BY <3>1 DEF Links
    <3>. QED
      BY <3>1, <3>2 DEF Rows!NoRow
  <2>3. CASE Rows!ShareView(r)
    <3>1. /\ share \in Links /\ share' = [share EXCEPT !.view_count = @ + 1] /\ views' = views + 1
          /\ day' = day
      BY <2>3 DEF Rows!ShareView, Rows!Frame
    <3>2. share # Rows!NoRow
      BY <3>1, NotALink
    <3>3. share' \in Links /\ share'.view_count = share.view_count + 1
      BY <3>1 DEF Links
    <3>4. share' # Rows!NoRow'
      BY <3>3, NotALink DEF Rows!NoRow
    <3>. QED
      BY <3>1, <3>2, <3>3, <3>4
  <2>. QED
    BY <2>1, <2>2, <2>3
<1>. QED
  BY <1>1, <1>3, <1>5, <1>6, <1>7 DEF RowsInv, Rows!NoRow

LEMMA RowsStep ==
  Rows!WorkspaceAssumption /\ RowsInv /\ [Rows!Next]_Rows!wvars => RowsInv'
<1>. SUFFICES ASSUME Rows!WorkspaceAssumption, RowsInv, [Rows!Next]_Rows!wvars PROVE RowsInv'
  OBVIOUS
<1>. DEFINE Other(r) ==
       \/ Rows!SettingsGet(r) \/ Rows!SettingsPut(r)
       \/ Rows!TemplateCreate(r) \/ Rows!TemplateGet(r) \/ Rows!TemplatePut(r) \/ Rows!TemplateDelete(r)
       \/ Rows!FavoriteGet(r) \/ Rows!FavoriteAdd(r) \/ Rows!FavoriteRemove(r)
       \/ Rows!HistoryRecord(r) \/ Rows!HistoryClear(r) \/ Rows!HistoryGet(r) \/ Rows!HistoryDelete(r)
<1>1. ASSUME NEW r \in Requests, Other(r) PROVE RowsInv'
  <2>1. UNCHANGED <<pipeline, share, day, views>> /\ begun' \in Nat /\ begun' >= begun
    BY <1>1 DEF RowsInv, Rows!SettingsGet, Rows!SettingsPut, Rows!TemplateCreate, Rows!TemplateGet,
       Rows!TemplatePut, Rows!TemplateDelete, Rows!FavoriteGet, Rows!FavoriteAdd, Rows!FavoriteRemove,
       Rows!HistoryRecord, Rows!HistoryClear, Rows!HistoryGet, Rows!HistoryDelete, Rows!Begin,
       Rows!Frame, Rows!rows
  <2>2. open' = open \/ \E q : /\ open' = [open EXCEPT ![r] = q]
                               /\ q.op \notin {"pipeline", "pipeline-delete", "share"}
    <3>1. Rows!Closed.op = "none"
      BY DEF Rows!Closed
    <3>2. Rows!SettingsPut(r) \/ Rows!TemplatePut(r) \/ Rows!TemplateDelete(r) \/ Rows!FavoriteAdd(r)
          \/ Rows!FavoriteRemove(r) \/ Rows!HistoryDelete(r) => open' = [open EXCEPT ![r] = Rows!Closed]
      BY DEF Rows!SettingsPut, Rows!TemplatePut, Rows!TemplateDelete, Rows!FavoriteAdd,
         Rows!FavoriteRemove, Rows!HistoryDelete, Rows!End
    <3>3. Rows!TemplateCreate(r) \/ Rows!HistoryRecord(r) \/ Rows!HistoryClear(r) => open' = open
      BY DEF Rows!TemplateCreate, Rows!HistoryRecord, Rows!HistoryClear
    <3>4. Rows!SettingsGet(r) \/ Rows!TemplateGet(r) \/ Rows!FavoriteGet(r) \/ Rows!HistoryGet(r) =>
            \E q : /\ Rows!Begin(r, q)
                  /\ q.op \in {"settings", "template", "template-delete", "favorite",
                                "favorite-remove", "history"}
      <4>1. ASSUME Rows!SettingsGet(r) PROVE \E q : Rows!Begin(r, q) /\ q.op = "settings"
        <5>1. PICK u : Rows!Begin(r, [op |-> "settings", old |-> settings, set |-> u])
          BY <4>1 DEF Rows!SettingsGet
        <5>. QED
          BY <5>1
      <4>2. ASSUME Rows!TemplateGet(r)
            PROVE  \E q : Rows!Begin(r, q) /\ q.op \in {"template", "template-delete"}
        <5>1. PICK u : \/ Rows!Begin(r, [op |-> "template", old |-> template, set |-> u])
                       \/ Rows!Begin(r, [op |-> "template-delete"])
          BY <4>2 DEF Rows!TemplateGet
        <5>. QED
          BY <5>1
      <4>3. ASSUME Rows!FavoriteGet(r)
            PROVE  \E q : Rows!Begin(r, q) /\ q.op \in {"favorite", "favorite-remove"}
        <5>1. PICK t : \/ Rows!Begin(r, [op |-> "favorite", tool |-> t, order |-> Rows!MaxOrder(favorites) + 1])
                       \/ Rows!Begin(r, [op |-> "favorite-remove", tool |-> t])
          BY <4>3 DEF Rows!FavoriteGet
        <5>. QED
          BY <5>1
      <4>4. ASSUME Rows!HistoryGet(r) PROVE \E q : Rows!Begin(r, q) /\ q.op = "history"
        BY <4>4 DEF Rows!HistoryGet
      <4>. QED
        BY <4>1, <4>2, <4>3, <4>4
    <3>5. \A q : Rows!Begin(r, q) => open' = [open EXCEPT ![r] = q]
      BY DEF Rows!Begin
    <3>. QED
      BY <1>1, <3>1, <3>2, <3>3, <3>4, <3>5
  <2>. QED
    BY <2>1, <2>2, OtherRequest
<1>2. ASSUME Rows!Tick PROVE RowsInv'
  BY <1>2 DEF Rows!Tick, Rows!rows, RowsInv, ListsWhole, PipelineFound, ReadsWhole,
     ViewsCounted, Rows!Doing, Rows!NoRow
<1>3. ASSUME UNCHANGED Rows!wvars PROVE RowsInv'
  BY <1>3 DEF Rows!wvars, Rows!rows, RowsInv, ListsWhole, PipelineFound, ReadsWhole,
     ViewsCounted, Rows!Doing, Rows!NoRow
<1>. QED
  BY <1>1, <1>2, <1>3, PipelineCreateStep, PipelineGetStep, PipelinePutStep, PipelineDeleteStep,
     ShareStep DEF Rows!Next

\* However many updates replace the steps of a pipeline at once, those that are
\* stored are the whole lists of the requests they came with, under places that no
\* two of them share.  (update_pipeline: delete what was read, insert what was
\* asked, under uq_pipeline_step_order)
THEOREM StepsComeWhole == Rows!WorkspaceAssumption /\ Rows!Spec => []ListsWhole
<1>. SUFFICES ASSUME Rows!WorkspaceAssumption PROVE Rows!Spec => []ListsWhole
  OBVIOUS
<1>1. Rows!Init => RowsInv
  BY RowsInit
<1>2. RowsInv /\ [Rows!Next]_Rows!wvars => RowsInv'
  BY RowsStep
<1>3. RowsInv => ListsWhole
  BY DEF RowsInv
<1>. QED
  BY <1>1, <1>2, <1>3, PTL DEF Rows!Spec

\* Two lists with a place in common cannot both be stored.
LEMMA OneList ==
  ASSUME CommonPlace, RowsInv, pipeline # Rows!NoRow,
         NEW s \in pipeline.steps, NEW t \in pipeline.steps
  PROVE  s.by = t.by
<1>. DEFINE steps == pipeline.steps
<1>1. Whole(steps, begun) /\ PlacesOnce(steps)
  BY DEF RowsInv, ListsWhole
<1>2. PICK a \in StepLists : {q \in steps : q.by = s.by} = Rows!StepRows(a, s.by)
  BY <1>1 DEF Whole
<1>3. PICK b \in StepLists : {q \in steps : q.by = t.by} = Rows!StepRows(b, t.by)
  BY <1>1 DEF Whole
<1>. HIDE DEF steps
<1>4. s \in Rows!StepRows(a, s.by) /\ t \in Rows!StepRows(b, t.by)
  <2>1. s \in steps /\ t \in steps
    BY DEF steps
  <2>. QED
    BY <1>2, <1>3, <2>1
<1>5. PICK i \in DOMAIN a, j \in DOMAIN b : a[i][1] = b[j][1]
  BY <1>4 DEF CommonPlace, Rows!StepRows
<1>. DEFINE x == [order |-> a[i][1], tool |-> a[i][2], by |-> s.by]
            y == [order |-> b[j][1], tool |-> b[j][2], by |-> t.by]
<1>6. x \in Rows!StepRows(a, s.by) /\ y \in Rows!StepRows(b, t.by)
  BY DEF Rows!StepRows
<1>7. x.order = y.order /\ x.by = s.by /\ y.by = t.by
  BY <1>5
<1>8. x = y
  <2>. HIDE DEF x, y
  <2>1. x \in steps /\ y \in steps
    BY <1>2, <1>3, <1>6
  <2>. QED
    BY <1>1, <1>7, <2>1 DEF PlacesOnce
<1>. QED
  BY <1>7, <1>8

\* If any two lists of steps have a place in common, as lists that are numbered
\* from 0 do, a pipeline holds the steps of one request, although two updates may
\* read the same steps and each replace them.  Every view of a link that was
\* answered is counted.  (update_pipeline, get_share)
THEOREM StepsOfOneRequest ==
  CommonPlace /\ Rows!WorkspaceAssumption /\ Rows!Spec => []StepsWhole
<1>. SUFFICES ASSUME CommonPlace, Rows!WorkspaceAssumption PROVE Rows!Spec => []StepsWhole
  OBVIOUS
<1>1. Rows!Init => RowsInv
  BY RowsInit
<1>2. RowsInv /\ [Rows!Next]_Rows!wvars => RowsInv'
  BY RowsStep
<1>3. RowsInv => StepsWhole
  BY OneList DEF StepsWhole, Rows!StepsWhole, RowsInv, ViewsCounted
<1>. QED
  BY <1>1, <1>2, <1>3, PTL DEF Rows!Spec

-----------------------------------------------------------------------------
(* Tool groups: names and the cap *)

\* A creating request that has seen room for one more group.
HasRoom(q) == q.op = "create" /\ q.step \in {"rank", "write"}
Counted == {r \in Requests : HasRoom(groupReq[r])}

Requested(q) == q = Groups!Closed \/ {"op", "step"} \subseteq DOMAIN q

NamesApart == \A g, h \in DOMAIN groups : groups[g].name = groups[h].name => g = h

\* Each of them saw a number below the cap, so that the last to look saw one that
\* leaves room for itself: groups and such requests exceed it together by less
\* than the number of requests.
RoomSeen ==
  /\ IsFiniteSet(DOMAIN groups)
  /\ Cardinality(DOMAIN groups) + Cardinality(Counted)
       < MAX_TOOL_GROUPS_PER_USER + Cardinality(Requests)

GroupRow(g) == g = [name |-> g.name, order |-> g.order, items |-> g.items]

CapInv ==
  /\ \A g \in DOMAIN groups : GroupRow(groups[g])
  /\ groupReq = [r \in Requests |-> groupReq[r]]
  /\ \A r \in Requests : Requested(groupReq[r])
  /\ NamesApart
  /\ RoomSeen

LEMMA GroupSets ==
  /\ \A S : Groups!IsFiniteSet(S) <=> IsFiniteSet(S)
  /\ \A S : Groups!Cardinality(S) = Cardinality(S)
BY DEF Groups!IsFiniteSet, IsFiniteSet, Groups!Cardinality, Cardinality

LEMMA Sizes ==
  ASSUME Groups!GroupAssumption
  PROVE  /\ IsFiniteSet(Requests) /\ Cardinality(Requests) \in Nat \ {0}
         /\ MAX_TOOL_GROUPS_PER_USER \in Nat \ {0} /\ MAX_TOOLS_PER_GROUP \in Nat \ {0}
         /\ \A S \in SUBSET Requests :
              IsFiniteSet(S) /\ Cardinality(S) \in Nat /\ Cardinality(S) <= Cardinality(Requests)
<1>1. IsFiniteSet(Requests) /\ Requests # {}
  BY GroupSets DEF Groups!GroupAssumption
<1>2. Cardinality(Requests) \in Nat /\ Cardinality(Requests) # 0
  BY <1>1, FS_CardinalityType, FS_EmptySet
<1>3. \A S \in SUBSET Requests :
        IsFiniteSet(S) /\ Cardinality(S) \in Nat /\ Cardinality(S) <= Cardinality(Requests)
  BY <1>1, FS_Subset, FS_CardinalityType
<1>. QED
  BY <1>1, <1>2, <1>3 DEF Groups!GroupAssumption

LEMMA CapInit == Groups!GroupAssumption /\ Groups!Init => CapInv
<1>. SUFFICES ASSUME Groups!GroupAssumption, Groups!Init PROVE CapInv
  OBVIOUS
<1>1. DOMAIN groups = {}
  BY DEF Groups!Init
<1>2. Counted = {}
  BY DEF Groups!Init, Counted, HasRoom, Groups!Closed
<1>3. RoomSeen
  BY <1>1, <1>2, Sizes, FS_EmptySet DEF RoomSeen
<1>. QED
  BY <1>1, <1>3 DEF CapInv, Groups!Init, Requested, NamesApart

\* A request that takes no room: it changes itself and at most removes groups or
\* changes what is not their names.
LEMMA Quiet ==
  ASSUME Groups!GroupAssumption, CapInv, NEW r \in Requests,
         NEW q, groupReq' = [groupReq EXCEPT ![r] = q], Requested(q), HasRoom(q) => HasRoom(groupReq[r]),
         DOMAIN groups' \subseteq DOMAIN groups,
         \A g \in DOMAIN groups' : GroupRow(groups'[g]) /\ groups'[g].name = groups[g].name
  PROVE  CapInv'
<1>1. groupReq'[r] = q /\ \A p \in Requests \ {r} : groupReq'[p] = groupReq[p]
  BY DEF CapInv
<1>2. Counted' \subseteq Counted
  BY <1>1 DEF Counted
<1>3. Counted \in SUBSET Requests
  BY DEF Counted
<1>4. IsFiniteSet(Counted) /\ Cardinality(Counted) \in Nat
  BY <1>3, Sizes
<1>5. Cardinality(Counted') \in Nat /\ Cardinality(Counted') <= Cardinality(Counted)
  BY <1>2, <1>4, FS_Subset, FS_CardinalityType
<1>6. /\ IsFiniteSet(DOMAIN groups') /\ Cardinality(DOMAIN groups) \in Nat
      /\ Cardinality(DOMAIN groups') \in Nat /\ Cardinality(DOMAIN groups') <= Cardinality(DOMAIN groups)
  BY FS_Subset, FS_CardinalityType DEF CapInv, RoomSeen
<1>7. RoomSeen'
  BY <1>4, <1>5, <1>6, Sizes DEF CapInv, RoomSeen
<1>8. groupReq' = [p \in Requests |-> groupReq'[p]]
  BY DEF CapInv
<1>9. NamesApart'
  BY DEF CapInv, NamesApart
<1>. QED
  BY <1>1, <1>7, <1>8, <1>9 DEF CapInv

LEMMA EndStep ==
  ASSUME Groups!GroupAssumption, CapInv, NEW r \in Requests, Groups!End(r)
  PROVE  CapInv'
<1>1. Requested(Groups!Closed) /\ ~HasRoom(Groups!Closed)
  BY DEF Requested, HasRoom, Groups!Closed
<1>2. groupReq' = [groupReq EXCEPT ![r] = Groups!Closed] /\ groups' = groups
  BY DEF Groups!End
<1>. QED
  BY <1>1, <1>2, Quiet DEF CapInv

LEMMA ProceedStep ==
  ASSUME Groups!GroupAssumption, CapInv, NEW r \in Requests, NEW step, Groups!Proceed(r, step),
         groupReq[r].op # "none",
         groupReq[r].op = "create" => step \notin {"rank", "write"}
  PROVE  CapInv'
<1>. DEFINE q == [groupReq[r] EXCEPT !.step = step]
<1>1. {"op", "step"} \subseteq DOMAIN groupReq[r]
  BY DEF CapInv, Requested, Groups!Closed
<1>2. q.op = groupReq[r].op /\ q.step = step /\ {"op", "step"} \subseteq DOMAIN q
  BY <1>1
<1>3. groupReq' = [groupReq EXCEPT ![r] = q] /\ groups' = groups
  BY DEF Groups!Proceed
<1>4. Requested(q) /\ ~HasRoom(q)
  BY <1>2 DEF Requested, HasRoom
<1>. HIDE DEF q
<1>. QED
  BY <1>3, <1>4, Quiet DEF CapInv

LEMMA BeginStep ==
  ASSUME Groups!GroupAssumption, CapInv, NEW r \in Requests,
         NEW q, Groups!Begin(r, q), {"op", "step"} \subseteq DOMAIN q, q.step = "look"
  PROVE  CapInv'
<1>1. groupReq' = [groupReq EXCEPT ![r] = q] /\ groups' = groups
  BY DEF Groups!Begin
<1>2. Requested(q) /\ ~HasRoom(q)
  BY DEF Requested, HasRoom
<1>. QED
  BY <1>1, <1>2, Quiet DEF CapInv

\* The check passes below the cap, and no more than all requests have passed it.
LEMMA CountStep ==
  ASSUME Groups!GroupAssumption, CapInv, NEW r \in Requests, Groups!CreateCount(r)
  PROVE  CapInv'
<1>1. CASE Groups!End(r)
  BY <1>1, EndStep
<1>2. CASE Cardinality(DOMAIN groups) < MAX_TOOL_GROUPS_PER_USER /\ Groups!Proceed(r, "rank")
  <2>1. {"op", "step"} \subseteq DOMAIN groupReq[r]
    BY DEF Groups!CreateCount, Groups!At, CapInv, Requested, Groups!Closed
  <2>2. groups' = groups /\ groupReq' = [groupReq EXCEPT ![r] = [groupReq[r] EXCEPT !.step = "rank"]]
    BY <1>2 DEF Groups!Proceed
  <2>3. groupReq' = [p \in Requests |-> groupReq'[p]]
    BY <2>2 DEF CapInv
  <2>4. \A p \in Requests : Requested(groupReq'[p])
    BY <2>1, <2>2 DEF CapInv, Requested
  <2>5. Counted' \in SUBSET Requests
    BY DEF Counted
  <2>6. Cardinality(Counted') \in Nat /\ Cardinality(Counted') <= Cardinality(Requests)
    BY <2>5, Sizes
  <2>7. Cardinality(DOMAIN groups) \in Nat
    BY FS_CardinalityType DEF CapInv, RoomSeen
  <2>8. RoomSeen'
    BY <1>2, <2>2, <2>6, <2>7, Sizes DEF CapInv, RoomSeen
  <2>. QED
    BY <2>2, <2>3, <2>4, <2>8 DEF CapInv, NamesApart
<1>3. Cardinality(DOMAIN groups) \in Nat
  BY FS_CardinalityType DEF CapInv, RoomSeen
<1>. QED
  BY <1>1, <1>2, <1>3, GroupSets, Sizes DEF Groups!CreateCount

\* A new group takes the room of the request that creates it.
LEMMA WriteStep ==
  ASSUME Groups!GroupAssumption, CapInv, NEW r \in Requests, Groups!CreateWrite(r)
  PROVE  CapInv'
<1>. DEFINE id == groupReq[r].id
            new == Groups!NewGroup(groupReq[r])
            again == [op |-> "reread", step |-> "reread"]
<1>1. CASE Groups!End(r)
  BY <1>1, EndStep
<1>2. CASE /\ Groups!Named(groupReq[r].name) = {}
           /\ groups' = [g \in DOMAIN groups \cup {id} |-> IF g = id THEN new ELSE groups[g]]
           /\ groupReq' = [groupReq EXCEPT ![r] = again]
  <2>1. groupReq'[r] = again /\ \A p \in Requests \ {r} : groupReq'[p] = groupReq[p]
    BY <1>2 DEF CapInv
  <2>2. Counted' = Counted \ {r} /\ r \in Counted
    BY <2>1 DEF Counted, HasRoom, Groups!CreateWrite, Groups!At
  <2>3. IsFiniteSet(Counted)
    BY Sizes DEF Counted
  <2>4. Cardinality(Counted') = Cardinality(Counted) - 1 /\ Cardinality(Counted) \in Nat
    BY <2>2, <2>3, FS_RemoveElement, FS_CardinalityType
  <2>5. DOMAIN groups' = DOMAIN groups \cup {id}
    BY <1>2
  <2>6. /\ IsFiniteSet(DOMAIN groups') /\ Cardinality(DOMAIN groups) \in Nat
        /\ Cardinality(DOMAIN groups') \in Nat
        /\ Cardinality(DOMAIN groups') <= Cardinality(DOMAIN groups) + 1
    <3>1. IsFiniteSet(DOMAIN groups)
      BY DEF CapInv, RoomSeen
    <3>2. IsFiniteSet(DOMAIN groups \cup {id}) /\ Cardinality(DOMAIN groups) \in Nat
      BY <3>1, FS_AddElement, FS_CardinalityType
    <3>3. /\ Cardinality(DOMAIN groups \cup {id}) \in Nat
          /\ Cardinality(DOMAIN groups \cup {id}) <= Cardinality(DOMAIN groups) + 1
      <4>1. CASE id \in DOMAIN groups
        BY <3>2, <4>1, DOMAIN groups \cup {id} = DOMAIN groups
      <4>2. CASE id \notin DOMAIN groups
        BY <3>1, <3>2, <4>2, FS_AddElement
      <4>. QED
        BY <4>1, <4>2
    <3>. QED
      BY <2>5, <3>2, <3>3
  <2>7. RoomSeen'
    BY <2>4, <2>6, Sizes DEF CapInv, RoomSeen
  <2>8. new.name = groupReq[r].name /\ GroupRow(new)
    BY DEF Groups!NewGroup, GroupRow
  <2>9. \A g \in DOMAIN groups : groups[g].name # groupReq[r].name
    BY <1>2 DEF Groups!Named
  <2>. HIDE DEF new
  <2>10. NamesApart'
    BY <1>2, <2>8, <2>9 DEF CapInv, NamesApart
  <2>11. groupReq' = [p \in Requests |-> groupReq'[p]]
    BY <1>2 DEF CapInv
  <2>12. \A p \in Requests : Requested(groupReq'[p])
    BY <2>1 DEF CapInv, Requested
  <2>13. \A g \in DOMAIN groups' : GroupRow(groups'[g])
    BY <1>2, <2>8 DEF CapInv
  <2>. QED
    BY <2>7, <2>10, <2>11, <2>12, <2>13 DEF CapInv
<1>. QED
  BY <1>1, <1>2 DEF Groups!CreateWrite, Groups!Commit

LEMMA CreateStep ==
  ASSUME Groups!GroupAssumption, CapInv, NEW r \in Requests,
         Groups!CreateBegin(r) \/ Groups!CreateLook(r) \/ Groups!CreateRank(r)
  PROVE  CapInv'
<1>1. CASE Groups!CreateBegin(r)
  <2>1. PICK n \in GroupNames, ts \in GroupLists :
          Groups!Begin(r, [op |-> "create", step |-> "look", id |-> made + 1, name |-> n, tools |-> ts])
    BY <1>1 DEF Groups!CreateBegin
  <2>. QED
    BY <2>1, BeginStep
<1>2. CASE Groups!CreateLook(r)
  BY <1>2, EndStep, ProceedStep DEF Groups!CreateLook, Groups!At
<1>3. CASE Groups!CreateRank(r)
  <2>. DEFINE old == groupReq[r]
              q == [op |-> "create", step |-> "write", id |-> old.id, name |-> old.name,
                    tools |-> old.tools, order |-> Groups!NextOrder(Groups!Orders(groups))]
  <2>1. groups' = groups /\ groupReq' = [groupReq EXCEPT ![r] = q]
    BY <1>3 DEF Groups!CreateRank
  <2>3. HasRoom(q) /\ Requested(q)
    BY DEF HasRoom, Requested
  <2>. HIDE DEF q
  <2>2. HasRoom(groupReq[r])
    BY <1>3 DEF Groups!CreateRank, Groups!At, HasRoom
  <2>. QED
    BY <2>1, <2>2, <2>3, Quiet DEF CapInv
<1>. QED
  BY <1>1, <1>2, <1>3

LEMMA RenameStep ==
  ASSUME Groups!GroupAssumption, CapInv, NEW r \in Requests,
         Groups!RenameBegin(r) \/ Groups!RenameLook(r) \/ Groups!RenameCheck(r) \/ Groups!RenameWrite(r)
  PROVE  CapInv'
<1>1. CASE Groups!RenameBegin(r)
  <2>1. PICK g \in 1 .. made, n \in GroupNames :
          Groups!Begin(r, [op |-> "rename", step |-> "look", id |-> g, name |-> n])
    BY <1>1 DEF Groups!RenameBegin
  <2>. QED
    BY <2>1, BeginStep
<1>2. CASE Groups!RenameLook(r) \/ Groups!RenameCheck(r)
  BY <1>2, EndStep, ProceedStep DEF Groups!RenameLook, Groups!RenameCheck, Groups!At
<1>3. CASE Groups!RenameWrite(r) /\ ~Groups!End(r)
  <2>. DEFINE again == [op |-> "reread", step |-> "reread"]
              id == groupReq[r].id
              new == groupReq[r].name
  <2>1. /\ id \in DOMAIN groups /\ Groups!Named(new) = {}
        /\ groups' = [groups EXCEPT ![id].name = new]
        /\ groupReq' = [groupReq EXCEPT ![r] = again]
    BY <1>3 DEF Groups!RenameWrite, Groups!Exists, Groups!Commit
  <2>2. groupReq'[r] = again /\ \A p \in Requests \ {r} : groupReq'[p] = groupReq[p]
    BY <2>1 DEF CapInv
  <2>3. Requested(again) /\ ~HasRoom(again)
    BY DEF Requested, HasRoom
  <2>4. DOMAIN groups' = DOMAIN groups
    BY <2>1
  <2>5. \A g \in DOMAIN groups : groupReq[r].name # groups[g].name
    BY <2>1 DEF Groups!Named
  <2>6. \A g \in DOMAIN groups :
          /\ groups'[g] = IF g = id THEN [name |-> new, order |-> groups[g].order, items |-> groups[g].items]
                          ELSE groups[g]
    BY <2>1 DEF CapInv, GroupRow
  <2>7. NamesApart' /\ \A g \in DOMAIN groups' : GroupRow(groups'[g])
    BY <2>4, <2>5, <2>6 DEF CapInv, NamesApart, GroupRow
  <2>8. Counted' \subseteq Counted /\ Counted \subseteq Requests
    BY <2>2, <2>3 DEF Counted
  <2>9. IsFiniteSet(Counted)
    BY <2>8, Sizes
  <2>10. /\ Cardinality(Counted) \in Nat /\ Cardinality(Counted') \in Nat
         /\ Cardinality(Counted') <= Cardinality(Counted)
    BY <2>8, <2>9, FS_Subset, FS_CardinalityType
  <2>11. Cardinality(DOMAIN groups) \in Nat
    BY FS_CardinalityType DEF CapInv, RoomSeen
  <2>12. RoomSeen'
    BY <2>4, <2>10, <2>11, Sizes DEF CapInv, RoomSeen
  <2>13. groupReq' = [p \in Requests |-> groupReq'[p]]
    BY <2>1 DEF CapInv
  <2>. QED
    BY <2>2, <2>3, <2>7, <2>12, <2>13 DEF CapInv
<1>. QED
  BY <1>1, <1>2, <1>3, EndStep

\* What the other routes write keeps every name.
LEMMA KeepsNames ==
  ASSUME CapInv, NEW id,
         \/ groups' = groups
         \/ groups' = Groups!Without(groups, {id})
         \/ \E items : groups' = [groups EXCEPT ![id].items = items]
         \/ \E place : groups' = [g \in DOMAIN groups |-> IF g \in DOMAIN place
                                                        THEN [groups[g] EXCEPT !.order = place[g]]
                                                        ELSE groups[g]]
  PROVE  /\ DOMAIN groups' \subseteq DOMAIN groups
         /\ \A g \in DOMAIN groups' : GroupRow(groups'[g]) /\ groups'[g].name = groups[g].name
<1>1. CASE groups' = groups
  BY <1>1 DEF CapInv
<1>2. CASE groups' = Groups!Without(groups, {id})
  BY <1>2 DEF CapInv, Groups!Without
<1>3. CASE \E items : groups' = [groups EXCEPT ![id].items = items]
  BY <1>3 DEF CapInv, GroupRow
<1>4. CASE \E place : groups' = [g \in DOMAIN groups |-> IF g \in DOMAIN place
                                                       THEN [groups[g] EXCEPT !.order = place[g]]
                                                       ELSE groups[g]]
  BY <1>4 DEF CapInv, GroupRow
<1>. QED
  BY <1>1, <1>2, <1>3, <1>4

LEMMA LookStep ==
  ASSUME Groups!GroupAssumption, CapInv, NEW r \in Requests,
         \/ Groups!DeleteBegin(r) \/ Groups!DeleteLook(r)
         \/ Groups!ReorderBegin(r) \/ Groups!ReorderLook(r)
         \/ Groups!AddBegin(r) \/ Groups!AddLook(r) \/ Groups!AddCount(r) \/ Groups!AddRank(r)
         \/ Groups!RemoveBegin(r) \/ Groups!RemoveLook(r)
         \/ Groups!SetBegin(r) \/ Groups!SetLook(r) \/ Groups!Reread(r)
  PROVE  CapInv'
<1>1. CASE \/ Groups!DeleteLook(r) \/ Groups!AddLook(r) \/ Groups!AddCount(r)
           \/ Groups!RemoveLook(r) \/ (Groups!SetLook(r) /\ Groups!End(r)) \/ Groups!Reread(r)
  BY <1>1, EndStep, ProceedStep DEF Groups!DeleteLook, Groups!AddLook, Groups!AddCount, Groups!RemoveLook,
     Groups!Reread, Groups!At
<1>2. CASE \/ Groups!DeleteBegin(r) \/ Groups!ReorderBegin(r) \/ Groups!AddBegin(r)
           \/ Groups!RemoveBegin(r) \/ Groups!SetBegin(r)
  <2>1. PICK q : Groups!Begin(r, q) /\ {"op", "step"} \subseteq DOMAIN q /\ q.step = "look"
    <3>1. CASE Groups!DeleteBegin(r)
      BY <3>1 DEF Groups!DeleteBegin
    <3>2. CASE Groups!ReorderBegin(r)
      BY <3>2 DEF Groups!ReorderBegin
    <3>3. CASE Groups!AddBegin(r)
      BY <3>3 DEF Groups!AddBegin
    <3>4. CASE Groups!RemoveBegin(r)
      BY <3>4 DEF Groups!RemoveBegin
    <3>5. CASE Groups!SetBegin(r)
      BY <3>5 DEF Groups!SetBegin
    <3>. QED
      BY <1>2, <3>1, <3>2, <3>3, <3>4, <3>5
  <2>. QED
    BY <2>1, BeginStep
<1>3. CASE Groups!ReorderLook(r) \/ Groups!AddRank(r) \/ (Groups!SetLook(r) /\ ~Groups!End(r))
  <2>1. PICK q : /\ groupReq' = [groupReq EXCEPT ![r] = q] /\ groups' = groups
                 /\ Requested(q) /\ ~HasRoom(q)
    <3>1. CASE Groups!ReorderLook(r)
      <4>. DEFINE place == Groups!Ordered(groups, groupReq[r].list)
                  moved == {g \in DOMAIN groups : groups[g].order # place[g]}
                  q == [op |-> "reorder", step |-> "write", place |-> [g \in moved |-> place[g]]]
      <4>1. groupReq' = [groupReq EXCEPT ![r] = q] /\ groups' = groups
        BY <3>1 DEF Groups!ReorderLook
      <4>2. Requested(q) /\ ~HasRoom(q)
        BY DEF Requested, HasRoom
      <4>. QED
        BY <4>1, <4>2
    <3>2. CASE Groups!AddRank(r)
      <4>. DEFINE old == groupReq[r]
                  q == [op |-> "add", step |-> "write", id |-> old.id, tool |-> old.tool,
                        order |-> Groups!NextOrder(Groups!ItemOrders(Groups!Items(old.id)))]
      <4>1. groupReq' = [groupReq EXCEPT ![r] = q] /\ groups' = groups
        BY <3>2 DEF Groups!AddRank
      <4>2. Requested(q) /\ ~HasRoom(q)
        BY DEF Requested, HasRoom
      <4>. QED
        BY <4>1, <4>2
    <3>3. CASE Groups!SetLook(r) /\ ~Groups!End(r)
      <4>. DEFINE old == groupReq[r]
                  wanted == Groups!Positions(old.tools)
                  had == groups[old.id].items
                  kept == DOMAIN had \cap DOMAIN wanted
                  q == [op |-> "set", step |-> "write", id |-> old.id,
                        gone  |-> DOMAIN had \ DOMAIN wanted,
                        moved |-> [t \in {k \in kept : had[k] # wanted[k]} |-> wanted[t]],
                        added |-> [t \in DOMAIN wanted \ DOMAIN had |-> wanted[t]]]
      <4>1. groupReq' = [groupReq EXCEPT ![r] = q] /\ groups' = groups
        BY <3>3 DEF Groups!SetLook
      <4>2. Requested(q) /\ ~HasRoom(q)
        BY DEF Requested, HasRoom
      <4>. QED
        BY <4>1, <4>2
    <3>. QED
      BY <1>3, <3>1, <3>2, <3>3
  <2>2. \A g \in DOMAIN groups' : GroupRow(groups'[g]) /\ groups'[g].name = groups[g].name
    BY <2>1 DEF CapInv
  <2>3. DOMAIN groups' \subseteq DOMAIN groups
    BY <2>1
  <2>4. HasRoom(q) => HasRoom(groupReq[r])
    BY <2>1
  <2>5. Requested(q) /\ groupReq' = [groupReq EXCEPT ![r] = q]
    BY <2>1
  <2>. QED
    BY <2>2, <2>3, <2>4, <2>5, Quiet
<1>. QED
  BY <1>1, <1>2, <1>3

LEMMA OtherWriteStep ==
  ASSUME Groups!GroupAssumption, CapInv, NEW r \in Requests,
         \/ Groups!DeleteWrite(r) \/ Groups!ReorderWrite(r) \/ Groups!AddWrite(r)
         \/ Groups!RemoveWrite(r) \/ Groups!SetWrite(r)
  PROVE  CapInv'
<1>1. CASE Groups!End(r)
  BY <1>1, EndStep
<1>2. CASE ~Groups!End(r)
  <2>1. PICK rows, q : Groups!Commit(r, rows, q) /\ q \in {Groups!Closed, [op |-> "reread", step |-> "reread"]}
    BY <1>2 DEF Groups!DeleteWrite, Groups!ReorderWrite, Groups!AddWrite, Groups!RemoveWrite, Groups!SetWrite
  <2>2. groupReq' = [groupReq EXCEPT ![r] = q] /\ Requested(q) /\ ~HasRoom(q)
    BY <2>1 DEF Groups!Commit, Requested, HasRoom, Groups!Closed
  <2>3. CASE Groups!DeleteWrite(r)
    BY <2>2, <2>3, KeepsNames, Quiet DEF Groups!DeleteWrite, Groups!Commit
  <2>4. CASE Groups!ReorderWrite(r)
    BY <1>2, <2>2, <2>4, KeepsNames, Quiet DEF Groups!ReorderWrite, Groups!Commit, Groups!Reordered
  <2>5. CASE Groups!AddWrite(r) \/ Groups!RemoveWrite(r) \/ Groups!SetWrite(r)
    <3>1. groups' = groups \/ \E items : groups' = [groups EXCEPT ![groupReq[r].id].items = items]
      <4>1. CASE Groups!AddWrite(r)
        BY <1>2, <4>1 DEF Groups!AddWrite, Groups!Commit
      <4>2. CASE Groups!RemoveWrite(r)
        BY <1>2, <4>2 DEF Groups!RemoveWrite, Groups!Commit
      <4>3. CASE Groups!SetWrite(r)
        BY <1>2, <4>3 DEF Groups!SetWrite, Groups!Commit
      <4>. QED
        BY <2>5, <4>1, <4>2, <4>3
    <3>. QED
      BY <2>2, <3>1, KeepsNames, Quiet
  <2>. QED
    BY <2>3, <2>4, <2>5
<1>. QED
  BY <1>1, <1>2

LEMMA CapStep ==
  ASSUME Groups!GroupAssumption, CapInv, [Groups!Next]_Groups!gvars
  PROVE  CapInv'
<1>1. ASSUME UNCHANGED Groups!gvars PROVE CapInv'
  BY <1>1 DEF CapInv, Groups!gvars, NamesApart, RoomSeen, Counted
<1>. QED
  BY <1>1, CreateStep, CountStep, WriteStep, RenameStep, LookStep, OtherWriteStep DEF Groups!Next

(* Names stay distinct and the cap is exceeded by less than the number of    *)
(* open requests, whatever the requests do between their check and their     *)
(* write.  (create_tool_group, rename_tool_group)                            *)
THEOREM GroupsStayBounded == Groups!GroupAssumption /\ Groups!Spec => []GroupsBounded
<1>. SUFFICES ASSUME Groups!GroupAssumption PROVE Groups!Spec => []GroupsBounded
  OBVIOUS
<1>1. Groups!Init => CapInv
  BY CapInit
<1>2. CapInv /\ [Groups!Next]_Groups!gvars => CapInv'
  BY CapStep
<1>3. CapInv => GroupsBounded
  <2>. SUFFICES ASSUME CapInv PROVE GroupsBounded
    OBVIOUS
  <2>1. Cardinality(Counted) \in Nat /\ Cardinality(DOMAIN groups) \in Nat
    BY Sizes, FS_CardinalityType DEF Counted, CapInv, RoomSeen
  <2>. QED
    BY <2>1, GroupSets, Sizes DEF CapInv, NamesApart, RoomSeen, GroupsBounded, Groups!GroupsBounded
<1>. QED
  BY <1>1, <1>2, <1>3, PTL DEF Groups!Spec

-----------------------------------------------------------------------------
(* Places: least elements, and the rank of an element in a finite order *)

\* R is an order of S, and one that leaves no two elements side by side.
StrictOrder(R, S) ==
  /\ \A g \in S : <<g, g>> \notin R
  /\ \A g, h, k \in S : <<g, h>> \in R /\ <<h, k>> \in R => <<g, k>> \in R

TotalOrder(R, S) ==
  /\ StrictOrder(R, S)
  /\ \A g, h \in S : g = h \/ <<g, h>> \in R \/ <<h, g>> \in R

Before(R, S, g) == {h \in S : <<h, g>> \in R}
Rank(R, S, g) == Cardinality(Before(R, S, g))

LEMMA LeastExists ==
  ASSUME NEW S, IsFiniteSet(S), S # {}, NEW R, StrictOrder(R, S)
  PROVE  \E g \in S : \A h \in S : <<h, g>> \notin R
<1>. DEFINE F == {Before(R, S, g) : g \in S}
<1>1. F \subseteq FiniteSubsetsOf(S) /\ F # {}
  <2>1. \A g \in S : Before(R, S, g) \subseteq S
    BY DEF Before
  <2>2. \A T \in SUBSET S : IsFiniteSet(T)
    BY FS_Subset
  <2>. QED
    BY <2>1, <2>2 DEF FiniteSubsetsOf
<1>2. PICK T \in F : \A U \in F : <<U, T>> \notin StrictSubsetOrdering(S)
  <2>. HIDE DEF F
  <2>1. IsWellFoundedOn(StrictSubsetOrdering(S), FiniteSubsetsOf(S))
    BY FS_StrictSubsetOrderingWellFounded
  <2>. QED
    BY <1>1, <2>1, WFMin
<1>3. PICK g \in S : T = Before(R, S, g)
  OBVIOUS
<1>4. SUFFICES ASSUME NEW h \in S, <<h, g>> \in R PROVE FALSE
  OBVIOUS
<1>5. Before(R, S, h) \subseteq T /\ h \in T /\ h \notin Before(R, S, h) /\ T \subseteq S
  BY <1>3, <1>4 DEF Before, StrictOrder
<1>6. <<Before(R, S, h), T>> \in StrictSubsetOrdering(S)
  BY <1>5 DEF StrictSubsetOrdering
<1>. QED
  BY <1>2, <1>6

LEMMA RanksDiffer ==
  ASSUME NEW S, IsFiniteSet(S), NEW R, TotalOrder(R, S)
  PROVE  /\ \A g \in S : Rank(R, S, g) \in Nat
         /\ \A g, h \in S : Rank(R, S, g) = Rank(R, S, h) => g = h
<1>1. \A g \in S : IsFiniteSet(Before(R, S, g)) /\ Rank(R, S, g) \in Nat
  <2>1. \A g \in S : Before(R, S, g) \in SUBSET S
    BY DEF Before
  <2>. QED
    BY <2>1, FS_Subset, FS_CardinalityType DEF Rank
<1>2. ASSUME NEW g \in S, NEW h \in S, <<g, h>> \in R PROVE Rank(R, S, g) # Rank(R, S, h)
  <2>1. /\ Before(R, S, g) \in SUBSET Before(R, S, h)
        /\ g \in Before(R, S, h) /\ g \notin Before(R, S, g)
    BY <1>2 DEF Before, TotalOrder, StrictOrder
  <2>2. Before(R, S, g) # Before(R, S, h)
    BY <2>1
  <2>. QED
    BY <1>1, <2>1, <2>2, FS_Subset DEF Rank
<1>. QED
  BY <1>1, <1>2 DEF TotalOrder

\* At most n elements have one of the first n ranks.
LEMMA FewAreFirst ==
  ASSUME NEW S, IsFiniteSet(S), NEW R, TotalOrder(R, S), NEW n \in Nat,
         NEW T \in SUBSET S, \A g \in T : Rank(R, S, g) < n
  PROVE  IsFiniteSet(T) /\ Cardinality(T) <= n
<1>. DEFINE f == [g \in T |-> Rank(R, S, g)]
<1>1. f \in [T -> 0 .. (n - 1)]
  BY RanksDiffer
<1>2. \A g, h \in T : f[g] = f[h] => g = h
  BY RanksDiffer
<1>3. f \in Injection(T, 0 .. (n - 1))
  <2>. HIDE DEF f
  <2>. QED
    BY <1>1, <1>2, Fun_IsInj
<1>4. IsFiniteSet(0 .. (n - 1)) /\ Cardinality(0 .. (n - 1)) = n
  BY FS_Interval
<1>. HIDE DEF f
<1>. QED
  BY <1>3, <1>4, FS_Injection

-----------------------------------------------------------------------------
\* The place after the last one.
LEMMA NextIsLast ==
  ASSUME NEW S, IsFiniteSet(S), S \subseteq Int
  PROVE  Groups!NextOrder(S) \in Int /\ \A k \in S : k < Groups!NextOrder(S)
<1>1. CASE S = {}
  BY <1>1 DEF Groups!NextOrder
<1>2. CASE S # {}
  <2>. DEFINE R == {p \in S \X S : p[1] > p[2]}
  <2>1. PICK m \in S : \A k \in S : <<k, m>> \notin R
    <3>1. StrictOrder(R, S)
      BY DEF StrictOrder
    <3>. HIDE DEF R
    <3>. QED
      BY <1>2, <3>1, LeastExists
  <2>2. \A k \in S : k <= m
    <3>1. \A k \in S : ~(k > m)
      <4>1. ASSUME NEW k \in S, k > m PROVE <<k, m>> \in R
        BY <4>1
      <4>. QED
        BY <2>1, <4>1
    <3>. QED
      BY <3>1
  <2>3. (m + 1) \in {k + 1 : k \in S} /\ \A k \in S : k < m + 1
    BY <2>2
  <2>4. Groups!NextOrder(S) = CHOOSE n \in {k + 1 : k \in S} : \A k \in S : k < n
    BY <1>2 DEF Groups!NextOrder
  <2>. QED
    BY <2>3, <2>4
<1>. QED
  BY <1>1, <1>2

LEMMA FirstIsFirst ==
  ASSUME NEW S, NEW s \in Seq(S), NEW t \in Groups!ToSet(s)
  PROVE  /\ Groups!First(s, t) \in 1 .. Len(s)
         /\ s[Groups!First(s, t)] = t
         /\ \A j \in 1 .. (Groups!First(s, t) - 1) : s[j] # t
<1>. DEFINE I == {i \in 1 .. Len(s) : s[i] = t}
            R == {p \in I \X I : p[1] < p[2]}
<1>1. DOMAIN s = 1 .. Len(s) /\ Len(s) \in Nat
  OBVIOUS
<1>2. IsFiniteSet(I) /\ I # {}
  <2>1. IsFiniteSet(1 .. Len(s)) /\ I \in SUBSET (1 .. Len(s))
    BY <1>1, FS_Interval
  <2>2. I # {}
    BY <1>1 DEF Groups!ToSet
  <2>. QED
    BY <2>1, <2>2, FS_Subset
<1>3. PICK i \in I : \A j \in I : <<j, i>> \notin R
  <2>1. StrictOrder(R, I)
    BY <1>1 DEF StrictOrder
  <2>. HIDE DEF I, R
  <2>. QED
    BY <1>2, <2>1, LeastExists
<1>4. i \in DOMAIN s /\ s[i] = t /\ \A j \in 1 .. (i - 1) : s[j] # t
  <2>1. i \in 1 .. Len(s) /\ s[i] = t
    OBVIOUS
  <2>2. ASSUME NEW j \in 1 .. (i - 1), s[j] = t PROVE FALSE
    <3>1. j \in I /\ j < i
      BY <1>1, <2>1, <2>2
    <3>2. <<j, i>> \in R
      BY <3>1
    <3>. QED
      BY <1>3, <3>1, <3>2
  <2>. QED
    BY <1>1, <2>1, <2>2
<1>. QED
  BY <1>1, <1>4 DEF Groups!First
-----------------------------------------------------------------------------
(* Places: the invariant *)

\* Tools of a group, as few as the cap allows, each with a place of its own.
Good(f) ==
  /\ IsFiniteSet(DOMAIN f) /\ Cardinality(DOMAIN f) <= MAX_TOOLS_PER_GROUP
  /\ \A t \in DOMAIN f : f[t] \in Int
  /\ \A t, u \in DOMAIN f : f[t] = f[u] => t = u

Spread(gs) ==
  /\ \A g \in DOMAIN gs : gs[g].order \in Int /\ Good(gs[g].items)
  /\ \A g, h \in DOMAIN gs : gs[g].order = gs[h].order => g = h

\* A list is dealt out in the order of first positions.
LEMMA PositionsGood ==
  ASSUME Groups!GroupAssumption, NEW S, NEW s \in Seq(S)
  PROVE  Good(Groups!Positions(s))
<1>. DEFINE T == Groups!ToSet(s)
            I == 1 .. Len(s)
            f == [t \in T |-> Groups!First(s, t)]
            R == {p \in T \X T : f[p[1]] < f[p[2]]}
            D == Groups!Deduped(s)
<1>1. /\ DOMAIN s = I /\ Len(s) \in Nat /\ I \subseteq Int
      /\ \A j \in I : s[j] \in T
  BY DEF Groups!ToSet
<1>2. /\ f \in [T -> I]
      /\ \A t \in T : s[f[t]] = t /\ \A j \in I : s[j] = t => f[t] <= j
  BY <1>1, FirstIsFirst
<1>3. \A t \in T : Groups!Earlier(s, t) = {s[j] : j \in 1 .. (f[t] - 1)}
  BY DEF Groups!Earlier
<1>4. D = {t \in T : Groups!Cardinality(Groups!Earlier(s, t)) < MAX_TOOLS_PER_GROUP}
  BY DEF Groups!Deduped
<1>. HIDE DEF T, f, D
<1>5. IsFiniteSet(T)
  <2>1. f \in Injection(T, I)
    BY <1>2, Fun_IsInj
  <2>2. IsFiniteSet(I)
    BY <1>1, FS_Interval
  <2>. QED
    BY <2>1, <2>2, FS_Injection
<1>6. TotalOrder(R, T)
  BY <1>1, <1>2 DEF TotalOrder, StrictOrder
<1>7. \A t \in T : Groups!Earlier(s, t) = Before(R, T, t)
  <2>1. ASSUME NEW t \in T PROVE Groups!Earlier(s, t) \subseteq Before(R, T, t)
    <3>1. ASSUME NEW j \in 1 .. (f[t] - 1) PROVE s[j] \in Before(R, T, t)
      <4>1. j \in I /\ f[t] \in Int /\ j < f[t] /\ s[j] \in T
        BY <1>1, <1>2, <3>1
      <4>2. f[s[j]] \in Int /\ f[s[j]] <= j
        BY <1>1, <1>2, <4>1
      <4>. QED
        BY <1>1, <4>1, <4>2 DEF Before
    <3>. QED
      BY <1>3, <3>1
  <2>2. ASSUME NEW t \in T PROVE Before(R, T, t) \subseteq Groups!Earlier(s, t)
    <3>1. ASSUME NEW u \in T, f[u] < f[t] PROVE u \in Groups!Earlier(s, t)
      <4>1. f[u] \in 1 .. (f[t] - 1) /\ s[f[u]] = u
        BY <1>1, <1>2, <3>1
      <4>. QED
        BY <1>3, <4>1
    <3>. QED
      BY <3>1 DEF Before
  <2>. QED
    BY <2>1, <2>2
<1>. HIDE DEF R
<1>8. \A t \in T : Groups!Cardinality(Groups!Earlier(s, t)) = Rank(R, T, t)
  BY <1>7, GroupSets DEF Rank
<1>9. D \in SUBSET T /\ \A t \in D : Rank(R, T, t) < MAX_TOOLS_PER_GROUP
  BY <1>4, <1>8
<1>10. IsFiniteSet(D) /\ Cardinality(D) <= MAX_TOOLS_PER_GROUP
  BY <1>5, <1>6, <1>9, FewAreFirst, Sizes
<1>11. /\ DOMAIN Groups!Positions(s) = D
       /\ \A t \in D : Groups!Positions(s)[t] = Rank(R, T, t)
  BY <1>8, <1>9 DEF D, Groups!Positions
<1>. QED
  BY <1>5, <1>6, <1>9, <1>10, <1>11, RanksDiffer DEF Good

\* The listed groups and then the others make one order.
LEMMA OrderedApart ==
  ASSUME NEW gs, IsFiniteSet(DOMAIN gs), DOMAIN gs \subseteq Int,
         \A g \in DOMAIN gs : gs[g].order \in Int,
         NEW list \in Seq(Int), NEW g \in DOMAIN gs, NEW h \in DOMAIN gs
  PROVE  /\ Groups!Ordered(gs, list)[g] \in Int
         /\ Groups!Ordered(gs, list)[g] = Groups!Ordered(gs, list)[h] => g = h
<1>. DEFINE T == Groups!ToSet(list)
            f == [k \in T |-> Groups!First(list, k)]
            S == DOMAIN gs
            R == {p \in S \X S : Groups!Goes(gs, list, p[1], p[2])}
<1>1. \A k \in T : f[k] \in Int /\ list[f[k]] = k
  BY FirstIsFirst
<1>2. \A j, k \in S : Groups!Goes(gs, list, j, k) <=>
        \/ j \in T /\ (k \in T => f[j] < f[k])
        \/ j \notin T /\ k \notin T /\ (\/ gs[j].order < gs[k].order
                                        \/ gs[j].order = gs[k].order /\ j < k)
  BY DEF Groups!Goes, Groups!Display
<1>. HIDE DEF T, f
<1>3. TotalOrder(R, S)
  <2>1. \A k \in S : <<k, k>> \notin R
    BY <1>1, <1>2
  <2>2. \A i, j, k \in S : <<i, j>> \in R /\ <<j, k>> \in R => <<i, k>> \in R
    BY <1>1, <1>2
  <2>3. \A j, k \in S : j = k \/ <<j, k>> \in R \/ <<k, j>> \in R
    <3>1. \A j, k \in T : j = k \/ f[j] < f[k] \/ f[k] < f[j]
      BY <1>1
    <3>2. \A j, k \in S : \/ gs[j].order < gs[k].order \/ gs[k].order < gs[j].order
                          \/ gs[j].order = gs[k].order /\ (j = k \/ j < k \/ k < j)
      OBVIOUS
    <3>3. \A j, k \in S : j = k \/ Groups!Goes(gs, list, j, k) \/ Groups!Goes(gs, list, k, j)
      BY <1>2, <3>1, <3>2
    <3>. QED
      BY <3>3
  <2>. HIDE DEF R
  <2>. QED
    BY <2>1, <2>2, <2>3 DEF TotalOrder, StrictOrder
<1>4. \A k \in S : Groups!Ordered(gs, list)[k] = Rank(R, S, k)
  <2>1. ASSUME NEW k \in S PROVE {j \in S : Groups!Goes(gs, list, j, k)} = Before(R, S, k)
    BY DEF Before
  <2>. HIDE DEF R
  <2>. QED
    BY <2>1, GroupSets DEF Rank, Groups!Ordered
<1>. HIDE DEF R
<1>. QED
  BY <1>3, <1>4, RanksDiffer
-----------------------------------------------------------------------------
Placed(gs) ==
  /\ DOMAIN gs \subseteq Int
  /\ IsFiniteSet(DOMAIN gs) /\ Cardinality(DOMAIN gs) <= MAX_TOOL_GROUPS_PER_USER
  /\ Spread(gs)

ItemsOf(gs, g) == IF g \in DOMAIN gs THEN gs[g].items ELSE <<>>

\* What the open request q has read is what the groups gs are: there is room for
\* what it creates or adds, at a place after the others, and what it rewrites
\* will be spread again.
Reads(gs, q) ==
  \/ q = Groups!Closed
  \/ /\ q.op = "create" /\ {"id", "tools"} \subseteq DOMAIN q
     /\ q.id \in Int /\ q.tools \in Seq(Tools)
     /\ q.step \in {"rank", "write"} => Cardinality(DOMAIN gs) < MAX_TOOL_GROUPS_PER_USER
     /\ q.step = "write" => q.order \in Int /\ \A g \in DOMAIN gs : gs[g].order < q.order
  \/ /\ q.op = "add" /\ "id" \in DOMAIN q
     /\ q.step \in {"rank", "write"} => Cardinality(DOMAIN ItemsOf(gs, q.id)) < MAX_TOOLS_PER_GROUP
     /\ q.step = "write" => /\ q.order \in Int
                            /\ \A t \in DOMAIN ItemsOf(gs, q.id) : ItemsOf(gs, q.id)[t] < q.order
  \/ /\ q.op = "reorder"
     /\ q.step = "look" => q.list \in Seq(Int)
     /\ q.step = "write" => Spread(Groups!Reordered(gs, q.place))
  \/ /\ q.op = "set"
     /\ q.step = "look" => q.tools \in Seq(Tools)
     /\ q.step = "write" => Good(Groups!Updated(ItemsOf(gs, q.id), q))
  \/ q.op \in {"rename", "delete", "remove", "reread"}

OneByOne ==
  ~raced =>
    /\ \A p, r \in Requests : p = r \/ groupReq[p] = Groups!Closed \/ groupReq[r] = Groups!Closed
    /\ Placed(groups)
    /\ \A r \in Requests : Reads(groups, groupReq[r])

PlacesInv == CapInv /\ made \in Nat /\ OneByOne

LEMMA PlacesInit == Groups!GroupAssumption /\ Groups!Init => PlacesInv
<1>. SUFFICES ASSUME Groups!GroupAssumption, Groups!Init PROVE PlacesInv
  OBVIOUS
<1>1. DOMAIN groups = {}
  BY DEF Groups!Init
<1>2. Placed(groups)
  BY <1>1, FS_EmptySet, Sizes DEF Placed, Spread
<1>. QED
  BY <1>2, CapInit DEF Groups!Init, PlacesInv, OneByOne, Reads

\* The only open request goes on, and its rows are in place.
LEMMA Onward ==
  ASSUME OneByOne, CapInv, NEW r \in Requests, groupReq[r] # Groups!Closed,
         NEW q, groupReq' = [groupReq EXCEPT ![r] = q], raced' = raced,
         ~raced => Placed(groups') /\ Reads(groups', q)
  PROVE  OneByOne'
<1>. SUFFICES ASSUME ~raced PROVE OneByOne'
  BY DEF OneByOne
<1>1. groupReq'[r] = q /\ \A p \in Requests \ {r} : groupReq'[p] = groupReq[p]
  BY DEF CapInv
<1>2. \A p \in Requests \ {r} : groupReq[p] = Groups!Closed
  BY DEF OneByOne
<1>3. \A p \in Requests : Reads(groups', groupReq'[p])
  BY <1>1, <1>2 DEF Reads
<1>4. \A p, s \in Requests : p = s \/ groupReq'[p] = Groups!Closed \/ groupReq'[s] = Groups!Closed
  BY <1>1, <1>2
<1>. QED
  BY <1>3, <1>4 DEF OneByOne

\* A first request begins, or it races.
LEMMA Opens ==
  ASSUME OneByOne, CapInv, NEW r \in Requests, NEW q, Groups!Begin(r, q), Reads(groups, q)
  PROVE  OneByOne'
<1>. SUFFICES ASSUME ~raced' PROVE OneByOne'
  BY DEF OneByOne
<1>1. ~raced /\ \A p \in Requests : groupReq[p] = Groups!Closed
  BY DEF Groups!Begin
<1>2. groupReq' = [groupReq EXCEPT ![r] = q] /\ groups' = groups
  BY DEF Groups!Begin
<1>3. groupReq'[r] = q /\ \A p \in Requests \ {r} : groupReq'[p] = Groups!Closed
  BY <1>1, <1>2 DEF CapInv
<1>4. \A p \in Requests : Reads(groups', groupReq'[p])
  BY <1>2, <1>3 DEF Reads
<1>5. \A p, s \in Requests : p = s \/ groupReq'[p] = Groups!Closed \/ groupReq'[s] = Groups!Closed
  BY <1>3
<1>. QED
  BY <1>1, <1>2, <1>4, <1>5 DEF OneByOne

LEMMA Ends ==
  ASSUME OneByOne, CapInv, NEW r \in Requests, groupReq[r] # Groups!Closed, Groups!End(r)
  PROVE  OneByOne'
<1>1. /\ groupReq' = [groupReq EXCEPT ![r] = Groups!Closed]
      /\ groups' = groups /\ raced' = raced
  BY DEF Groups!End
<1>2. Reads(groups, Groups!Closed)
  BY DEF Reads
<1>3. ~raced => Placed(groups)
  BY DEF OneByOne
<1>. QED
  BY <1>1, <1>2, <1>3, Onward

LEMMA GoesOnTo ==
  ASSUME OneByOne, CapInv, NEW r \in Requests, groupReq[r] # Groups!Closed,
         NEW step, Groups!Proceed(r, step),
         ~raced => Reads(groups, [groupReq[r] EXCEPT !.step = step])
  PROVE  OneByOne'
<1>1. /\ groupReq' = [groupReq EXCEPT ![r] = [groupReq[r] EXCEPT !.step = step]]
      /\ groups' = groups /\ raced' = raced
  BY DEF Groups!Proceed
<1>2. ~raced => Placed(groups)
  BY DEF OneByOne
<1>. QED
  BY <1>1, <1>2, Onward

Writes(r, q) ==
  /\ groupReq' = [groupReq EXCEPT ![r] = q]
  /\ q = Groups!Closed \/ q.op = "reread"
  /\ raced' = raced

LEMMA Committed ==
  ASSUME OneByOne, CapInv, NEW r \in Requests, groupReq[r] # Groups!Closed, NEW q, Writes(r, q),
         ~raced => Placed(groups')
  PROVE  OneByOne'
<1>1. Reads(groups', q)
  BY DEF Reads, Writes
<1>. QED
  BY <1>1, Onward DEF Writes

LEMMA Working ==
  ASSUME NEW r, NEW op, NEW step, Groups!At(r, op, step), op # "none"
  PROVE  groupReq[r] # Groups!Closed
BY DEF Groups!At, Groups!Closed

LEMMA OpenStep ==
  ASSUME Groups!GroupAssumption, PlacesInv, NEW r \in Requests,
         \/ Groups!CreateBegin(r) \/ Groups!RenameBegin(r) \/ Groups!DeleteBegin(r)
         \/ Groups!ReorderBegin(r) \/ Groups!AddBegin(r) \/ Groups!RemoveBegin(r) \/ Groups!SetBegin(r)
  PROVE  OneByOne'
<1>1. PICK q : Groups!Begin(r, q) /\ Reads(groups, q)
  <2>1. CASE Groups!CreateBegin(r)
    <3>1. PICK n \in GroupNames, ts \in GroupLists :
            Groups!Begin(r, [op |-> "create", step |-> "look", id |-> made + 1, name |-> n, tools |-> ts])
      BY <2>1 DEF Groups!CreateBegin
    <3>2. ts \in Seq(Tools) /\ made + 1 \in Int
      BY DEF Groups!GroupAssumption, PlacesInv
    <3>3. Reads(groups, [op |-> "create", step |-> "look", id |-> made + 1, name |-> n, tools |-> ts])
      BY <3>2 DEF Reads
    <3>. QED
      BY <3>1, <3>3
  <2>2. CASE Groups!RenameBegin(r)
    BY <2>2 DEF Groups!RenameBegin, Reads
  <2>3. CASE Groups!DeleteBegin(r)
    BY <2>3 DEF Groups!DeleteBegin, Reads
  <2>4. CASE Groups!ReorderBegin(r)
    <3>1. PICK first, second \in 1 .. MaxCreates :
            Groups!Begin(r, [op |-> "reorder", step |-> "look", list |-> <<first, second, first>>])
      BY <2>4 DEF Groups!ReorderBegin
    <3>2. <<first, second, first>> \in Seq(Int)
      OBVIOUS
    <3>3. Reads(groups, [op |-> "reorder", step |-> "look", list |-> <<first, second, first>>])
      BY <3>2 DEF Reads
    <3>. QED
      BY <3>1, <3>3
  <2>5. CASE Groups!AddBegin(r)
    BY <2>5 DEF Groups!AddBegin, Reads
  <2>6. CASE Groups!RemoveBegin(r)
    BY <2>6 DEF Groups!RemoveBegin, Reads
  <2>7. CASE Groups!SetBegin(r)
    <3>1. PICK g \in 1 .. made, ts \in GroupLists :
            Groups!Begin(r, [op |-> "set", step |-> "look", id |-> g, tools |-> ts])
      BY <2>7 DEF Groups!SetBegin
    <3>2. ts \in Seq(Tools)
      BY DEF Groups!GroupAssumption
    <3>3. Reads(groups, [op |-> "set", step |-> "look", id |-> g, tools |-> ts])
      BY <3>2 DEF Reads
    <3>. QED
      BY <3>1, <3>3
  <2>. QED
    BY <2>1, <2>2, <2>3, <2>4, <2>5, <2>6, <2>7
<1>. QED
  BY <1>1, Opens DEF PlacesInv

\* The steps that look or count, and change nothing but the step.
LEMMA LooksStep ==
  ASSUME Groups!GroupAssumption, PlacesInv, NEW r \in Requests,
         \/ Groups!CreateLook(r) \/ Groups!CreateCount(r) \/ Groups!RenameLook(r) \/ Groups!RenameCheck(r)
         \/ Groups!DeleteLook(r) \/ Groups!AddLook(r) \/ Groups!AddCount(r) \/ Groups!RemoveLook(r)
         \/ Groups!Reread(r)
  PROVE  OneByOne'
<1>. DEFINE q == groupReq[r]
<1>1. q # Groups!Closed
  BY DEF Groups!CreateLook, Groups!CreateCount, Groups!RenameLook, Groups!RenameCheck, Groups!DeleteLook,
     Groups!AddLook, Groups!AddCount, Groups!RemoveLook, Groups!Reread, Groups!At, Groups!Closed
<1>2. {"op", "step"} \subseteq DOMAIN q
  BY <1>1 DEF PlacesInv, CapInv, Requested
<1>3. ~raced => Reads(groups, q)
  BY DEF PlacesInv, OneByOne
<1>4. CASE Groups!End(r)
  BY <1>1, <1>4, Ends DEF PlacesInv
<1>5. CASE Groups!CreateLook(r) \/ Groups!CreateCount(r)
  <2>1. q.op = "create"
    BY <1>5 DEF Groups!CreateLook, Groups!CreateCount, Groups!At
  <2>2. ~raced => {"id", "tools"} \subseteq DOMAIN q /\ q.id \in Int /\ q.tools \in Seq(Tools)
    BY <1>3, <2>1, <1>1 DEF Reads
  <2>3. CASE Groups!Proceed(r, "count")
    <3>1. ~raced => Reads(groups, [q EXCEPT !.step = "count"])
      BY <1>2, <2>1, <2>2 DEF Reads
    <3>. QED
      BY <1>1, <2>3, <3>1, GoesOnTo DEF PlacesInv
  <2>4. CASE Groups!Proceed(r, "rank") /\ ~(Groups!Cardinality(DOMAIN groups) >= MAX_TOOL_GROUPS_PER_USER)
    <3>1. Cardinality(DOMAIN groups) \in Nat /\ MAX_TOOL_GROUPS_PER_USER \in Nat
      BY FS_CardinalityType, Sizes DEF PlacesInv, CapInv, RoomSeen
    <3>2. Cardinality(DOMAIN groups) < MAX_TOOL_GROUPS_PER_USER
      BY <2>4, <3>1, GroupSets
    <3>3. ~raced => Reads(groups, [q EXCEPT !.step = "rank"])
      BY <1>2, <2>1, <2>2, <3>2 DEF Reads
    <3>. QED
      BY <1>1, <2>4, <3>3, GoesOnTo DEF PlacesInv
  <2>. QED
    BY <1>4, <1>5, <2>3, <2>4 DEF Groups!CreateLook, Groups!CreateCount
<1>6. CASE Groups!RenameLook(r) \/ Groups!RenameCheck(r) \/ Groups!DeleteLook(r) \/ Groups!RemoveLook(r)
  <2>1. q.op \in {"rename", "delete", "remove"}
    BY <1>6 DEF Groups!RenameLook, Groups!RenameCheck, Groups!DeleteLook, Groups!RemoveLook, Groups!At
  <2>2. ASSUME NEW step, Groups!Proceed(r, step) PROVE OneByOne'
    <3>1. Reads(groups, [q EXCEPT !.step = step])
      BY <1>2, <2>1 DEF Reads
    <3>. QED
      BY <1>1, <2>2, <3>1, GoesOnTo DEF PlacesInv
  <2>. QED
    BY <1>4, <1>6, <2>2 DEF Groups!RenameLook, Groups!RenameCheck, Groups!DeleteLook, Groups!RemoveLook
<1>7. CASE Groups!AddLook(r) \/ Groups!AddCount(r)
  <2>1. q.op = "add"
    BY <1>7 DEF Groups!AddLook, Groups!AddCount, Groups!At
  <2>2. ~raced => "id" \in DOMAIN q
    BY <1>3, <2>1, <1>1 DEF Reads
  <2>3. CASE Groups!Proceed(r, "count")
    <3>1. ~raced => Reads(groups, [q EXCEPT !.step = "count"])
      BY <1>2, <2>1, <2>2 DEF Reads
    <3>. QED
      BY <1>1, <2>3, <3>1, GoesOnTo DEF PlacesInv
  <2>4. CASE /\ Groups!Proceed(r, "rank")
             /\ ~(Groups!Cardinality(DOMAIN Groups!Items(q.id)) >= MAX_TOOLS_PER_GROUP)
    <3>1. Groups!Items(q.id) = ItemsOf(groups, q.id)
      BY DEF Groups!Items, Groups!Exists, ItemsOf
    <3>2. ~raced => IsFiniteSet(DOMAIN ItemsOf(groups, q.id))
      <4>1. DOMAIN <<>> = {}
        OBVIOUS
      <4>. QED
        BY <4>1, FS_EmptySet DEF PlacesInv, OneByOne, Placed, Spread, Good, ItemsOf
    <3>3. ~raced => Cardinality(DOMAIN ItemsOf(groups, q.id)) < MAX_TOOLS_PER_GROUP
      BY <2>4, <3>1, <3>2, FS_CardinalityType, Sizes, GroupSets
    <3>4. ~raced => Reads(groups, [q EXCEPT !.step = "rank"])
      BY <1>2, <2>1, <2>2, <3>3 DEF Reads
    <3>. QED
      BY <1>1, <2>4, <3>4, GoesOnTo DEF PlacesInv
  <2>. QED
    BY <1>4, <1>7, <2>3, <2>4 DEF Groups!AddLook, Groups!AddCount
<1>. QED
  BY <1>4, <1>5, <1>6, <1>7 DEF Groups!Reread

LEMMA ValuesFinite ==
  ASSUME NEW f, IsFiniteSet(DOMAIN f)
  PROVE  IsFiniteSet({f[k] : k \in DOMAIN f})
<1>. DEFINE D == DOMAIN f
            T == {f[k] : k \in D}
            h == [k \in D |-> f[k]]
<1>1. h \in [D -> T] /\ \A t \in T : \E k \in D : h[k] = t
  OBVIOUS
<1>2. h \in Surjection(D, T)
  <2>. HIDE DEF D, T, h
  <2>. QED
    BY <1>1, Fun_IsSurj
<1>. HIDE DEF h
<1>. QED
  BY <1>2, FS_Surjection

\* A new group or tool is given a place after the others.
LEMMA RankStep ==
  ASSUME Groups!GroupAssumption, PlacesInv, NEW r \in Requests,
         Groups!CreateRank(r) \/ Groups!AddRank(r)
  PROVE  OneByOne'
<1>. DEFINE old == groupReq[r]
<1>1. ~raced => Reads(groups, old) /\ Placed(groups)
  BY DEF PlacesInv, OneByOne
<1>2. CASE Groups!CreateRank(r)
  <2>. DEFINE n == Groups!NextOrder(Groups!Orders(groups))
              q == [op |-> "create", step |-> "write", id |-> old.id, name |-> old.name,
                    tools |-> old.tools, order |-> n]
  <2>1. old.op = "create" /\ old.step = "rank" /\ old # Groups!Closed
    BY <1>2, Working DEF Groups!CreateRank, Groups!At
  <2>2. groupReq' = [groupReq EXCEPT ![r] = q] /\ groups' = groups /\ raced' = raced
    BY <1>2 DEF Groups!CreateRank
  <2>3. ~raced => n \in Int /\ \A g \in DOMAIN groups : groups[g].order < n
    <3>1. SUFFICES ASSUME ~raced PROVE n \in Int /\ \A g \in DOMAIN groups : groups[g].order < n
      OBVIOUS
    <3>. DEFINE f == [k \in DOMAIN groups |-> groups[k].order]
    <3>2. IsFiniteSet(DOMAIN groups) /\ \A g \in DOMAIN groups : groups[g].order \in Int
      BY <1>1, <3>1 DEF Placed, Spread
    <3>3. Groups!Orders(groups) = {f[k] : k \in DOMAIN f} /\ DOMAIN f = DOMAIN groups
      BY DEF Groups!Orders
    <3>. HIDE DEF f
    <3>4. IsFiniteSet(Groups!Orders(groups))
      BY <3>2, <3>3, ValuesFinite
    <3>5. Groups!Orders(groups) \subseteq Int
      BY <3>2 DEF Groups!Orders
    <3>6. n \in Int /\ \A k \in Groups!Orders(groups) : k < n
      BY <3>4, <3>5, NextIsLast
    <3>. QED
      BY <3>6 DEF Groups!Orders
  <2>. HIDE DEF n
  <2>4. ~raced => Reads(groups, q)
    BY <1>1, <2>1, <2>3 DEF Reads
  <2>. HIDE DEF q
  <2>. QED
    BY <1>1, <2>1, <2>2, <2>4, Onward DEF PlacesInv
<1>3. CASE Groups!AddRank(r)
  <2>. DEFINE items == ItemsOf(groups, old.id)
              n == Groups!NextOrder(Groups!ItemOrders(Groups!Items(old.id)))
              q == [op |-> "add", step |-> "write", id |-> old.id, tool |-> old.tool, order |-> n]
  <2>1. old.op = "add" /\ old.step = "rank" /\ old # Groups!Closed
    BY <1>3, Working DEF Groups!AddRank, Groups!At
  <2>2. groupReq' = [groupReq EXCEPT ![r] = q] /\ groups' = groups /\ raced' = raced
    BY <1>3 DEF Groups!AddRank
  <2>3. ~raced => n \in Int /\ \A t \in DOMAIN items : items[t] < n
    <3>1. SUFFICES ASSUME ~raced PROVE n \in Int /\ \A t \in DOMAIN items : items[t] < n
      OBVIOUS
    <3>2. IsFiniteSet(DOMAIN items) /\ \A t \in DOMAIN items : items[t] \in Int
      <4>1. DOMAIN <<>> = {}
        OBVIOUS
      <4>. QED
        BY <1>1, <3>1, <4>1, FS_EmptySet DEF Placed, Spread, Good, ItemsOf
    <3>3. Groups!Items(old.id) = items
      BY DEF Groups!Items, Groups!Exists, ItemsOf
    <3>. HIDE DEF items
    <3>4. Groups!ItemOrders(items) = {items[k] : k \in DOMAIN items}
      BY DEF Groups!ItemOrders
    <3>5. IsFiniteSet(Groups!ItemOrders(items)) /\ Groups!ItemOrders(items) \subseteq Int
      BY <3>2, <3>4, ValuesFinite
    <3>6. n \in Int /\ \A k \in Groups!ItemOrders(items) : k < n
      BY <3>3, <3>5, NextIsLast
    <3>. QED
      BY <3>4, <3>6
  <2>. HIDE DEF n
  <2>4. ~raced => Cardinality(DOMAIN items) < MAX_TOOLS_PER_GROUP
    BY <1>1, <2>1 DEF Reads
  <2>5. ~raced => Reads(groups, q)
    <3>1. q.op = "add" /\ "id" \in DOMAIN q /\ q.id = old.id /\ q.order = n
      OBVIOUS
    <3>. HIDE DEF q
    <3>. QED
      BY <2>3, <2>4, <3>1 DEF Reads
  <2>. HIDE DEF q
  <2>. QED
    BY <1>1, <2>1, <2>2, <2>5, Onward DEF PlacesInv
<1>. QED
  BY <1>2, <1>3

\* A reordering and a new list of tools are worked out from what is there.
LEMMA ReorderLookStep ==
  ASSUME Groups!GroupAssumption, PlacesInv, NEW r \in Requests, Groups!ReorderLook(r)
  PROVE  OneByOne'
<1>. DEFINE old == groupReq[r]
            place == Groups!Ordered(groups, old.list)
            moved == {g \in DOMAIN groups : groups[g].order # place[g]}
            m == [g \in moved |-> place[g]]
            q == [op |-> "reorder", step |-> "write", place |-> m]
<1>1. old.op = "reorder" /\ old.step = "look" /\ old # Groups!Closed
  BY Working DEF Groups!ReorderLook, Groups!At
<1>2. groupReq' = [groupReq EXCEPT ![r] = q] /\ groups' = groups /\ raced' = raced
  BY DEF Groups!ReorderLook
<1>3. ~raced => Placed(groups) /\ old.list \in Seq(Int)
  BY <1>1 DEF PlacesInv, OneByOne, Reads
<1>4. ~raced => Spread(Groups!Reordered(groups, m))
  <2>1. SUFFICES ASSUME ~raced PROVE Spread(Groups!Reordered(groups, m))
    OBVIOUS
  <2>. DEFINE new == Groups!Reordered(groups, m)
  <2>2. \A g, h \in DOMAIN groups : place[g] \in Int /\ (place[g] = place[h] => g = h)
    BY <1>3, <2>1, OrderedApart DEF Placed, Spread
  <2>3. DOMAIN new = DOMAIN groups
    BY DEF Groups!Reordered
  <2>4. ASSUME NEW g \in DOMAIN groups PROVE new[g].order = place[g] /\ new[g].items = groups[g].items
    <3>1. GroupRow(groups[g])
      BY DEF PlacesInv, CapInv
    <3>. HIDE DEF place
    <3>2. CASE g \in moved
      BY <3>1, <3>2 DEF Groups!Reordered, GroupRow
    <3>3. CASE g \notin moved
      BY <3>1, <3>3 DEF Groups!Reordered, GroupRow
    <3>. QED
      BY <3>2, <3>3
  <2>. HIDE DEF m, moved, place
  <2>. QED
    BY <1>3, <2>1, <2>2, <2>3, <2>4 DEF Placed, Spread
<1>. HIDE DEF m
<1>5. ~raced => Reads(groups, q)
  BY <1>4 DEF Reads
<1>. HIDE DEF q
<1>. QED
  BY <1>1, <1>2, <1>3, <1>5, Onward DEF PlacesInv

LEMMA SetLookStep ==
  ASSUME Groups!GroupAssumption, PlacesInv, NEW r \in Requests, Groups!SetLook(r)
  PROVE  OneByOne'
<1>. DEFINE arg == groupReq[r]
            wanted == Groups!Positions(arg.tools)
            old == groups[arg.id].items
            kept == DOMAIN old \cap DOMAIN wanted
            q == [op |-> "set", step |-> "write", id |-> arg.id,
                  gone  |-> DOMAIN old \ DOMAIN wanted,
                  moved |-> [t \in {k \in kept : old[k] # wanted[k]} |-> wanted[t]],
                  added |-> [t \in DOMAIN wanted \ DOMAIN old |-> wanted[t]]]
<1>1. arg.op = "set" /\ arg.step = "look" /\ arg # Groups!Closed
  BY Working DEF Groups!SetLook, Groups!At
<1>2. CASE Groups!End(r)
  BY <1>1, <1>2, Ends DEF PlacesInv
<1>3. CASE ~Groups!End(r)
  <2>1. /\ groupReq' = [groupReq EXCEPT ![r] = q] /\ groups' = groups /\ raced' = raced
        /\ arg.id \in DOMAIN groups
    BY <1>3 DEF Groups!SetLook, Groups!Exists
  <2>2. ~raced => Placed(groups) /\ Good(wanted)
    BY <1>1, PositionsGood DEF PlacesInv, OneByOne, Reads
  <2>3. ItemsOf(groups, arg.id) = old
    BY <2>1 DEF ItemsOf
  <2>. HIDE DEF wanted, old
  <2>4. /\ q.op = "set" /\ q.step = "write" /\ q.id = arg.id
        /\ q.gone = DOMAIN old \ DOMAIN wanted
        /\ q.moved = [t \in {k \in kept : old[k] # wanted[k]} |-> wanted[t]]
        /\ q.added = [t \in DOMAIN wanted \ DOMAIN old |-> wanted[t]]
    OBVIOUS
  <2>. HIDE DEF q
  <2>5. DOMAIN Groups!Updated(old, q) = DOMAIN wanted
    BY <2>4 DEF Groups!Updated
  <2>6. \A t \in DOMAIN wanted : Groups!Updated(old, q)[t] = wanted[t]
    BY <2>4 DEF Groups!Updated
  <2>7. ~raced => Good(Groups!Updated(old, q))
    BY <2>2, <2>5, <2>6 DEF Good
  <2>8. ~raced => Reads(groups, q)
    BY <2>3, <2>4, <2>7 DEF Reads
  <2>. QED
    BY <1>1, <2>1, <2>2, <2>8, Onward DEF PlacesInv
<1>. QED
  BY <1>2, <1>3

-----------------------------------------------------------------------------
(* Places: the writes *)

\* Rows that keep their place, with tools that have places of their own.
LEMMA SamePlaces ==
  ASSUME Groups!GroupAssumption, Placed(groups), DOMAIN groups' \subseteq DOMAIN groups,
         \A g \in DOMAIN groups' : groups'[g].order = groups[g].order /\ Good(groups'[g].items)
  PROVE  Placed(groups')
<1>1. /\ IsFiniteSet(DOMAIN groups') /\ Cardinality(DOMAIN groups') <= Cardinality(DOMAIN groups)
      /\ Cardinality(DOMAIN groups') \in Nat /\ Cardinality(DOMAIN groups) \in Nat
  BY FS_Subset, FS_CardinalityType DEF Placed
<1>2. Cardinality(DOMAIN groups') <= MAX_TOOL_GROUPS_PER_USER
  <2>1. MAX_TOOL_GROUPS_PER_USER \in Nat /\ Cardinality(DOMAIN groups) <= MAX_TOOL_GROUPS_PER_USER
    BY Sizes DEF Placed
  <2>. QED
    BY <1>1, <2>1
<1>3. Spread(groups')
  BY DEF Placed, Spread
<1>. QED
  BY <1>1, <1>2, <1>3 DEF Placed

LEMMA CreatePlaced ==
  ASSUME Groups!GroupAssumption, PlacesInv, NEW r \in Requests, Groups!CreateWrite(r)
  PROVE  OneByOne'
<1>. DEFINE q == groupReq[r]
            id == q.id
            new == Groups!NewGroup(q)
            again == [op |-> "reread", step |-> "reread"]
<1>1. q.op = "create" /\ q.step = "write" /\ q # Groups!Closed
  BY Working DEF Groups!CreateWrite, Groups!At
<1>2. CASE Groups!End(r)
  BY <1>1, <1>2, Ends DEF PlacesInv
<1>3. CASE ~Groups!End(r)
  <2>1. /\ groups' = [g \in DOMAIN groups \cup {id} |-> IF g = id THEN new ELSE groups[g]]
        /\ Writes(r, again)
    BY <1>3 DEF Groups!CreateWrite, Groups!Commit, Writes
  <2>2. ~raced => Placed(groups')
    <3>1. SUFFICES ASSUME ~raced PROVE Placed(groups')
      OBVIOUS
    <3>2. /\ Placed(groups) /\ id \in Int /\ q.tools \in Seq(Tools)
          /\ Cardinality(DOMAIN groups) < MAX_TOOL_GROUPS_PER_USER
          /\ q.order \in Int /\ \A g \in DOMAIN groups : groups[g].order < q.order
      BY <1>1, <3>1 DEF PlacesInv, OneByOne, Reads
    <3>3. new.order = q.order /\ Good(new.items)
      BY <3>2, PositionsGood DEF Groups!NewGroup
    <3>. HIDE DEF new, id, q
    <3>4. DOMAIN groups' = DOMAIN groups \cup {id}
      BY <2>1
    <3>5. IsFiniteSet(DOMAIN groups') /\ Cardinality(DOMAIN groups') <= MAX_TOOL_GROUPS_PER_USER
      <4>1. Cardinality(DOMAIN groups) \in Nat /\ MAX_TOOL_GROUPS_PER_USER \in Nat
        BY <3>2, FS_CardinalityType, Sizes DEF Placed
      <4>2. CASE id \in DOMAIN groups
        <5>1. DOMAIN groups' = DOMAIN groups
          BY <3>4, <4>2
        <5>. QED
          BY <3>2, <5>1 DEF Placed
      <4>3. CASE id \notin DOMAIN groups
        <5>1. /\ IsFiniteSet(DOMAIN groups \cup {id})
              /\ Cardinality(DOMAIN groups \cup {id}) = Cardinality(DOMAIN groups) + 1
          BY <3>2, <4>3, FS_AddElement DEF Placed
        <5>. QED
          BY <3>2, <3>4, <4>1, <5>1
      <4>. QED
        BY <4>2, <4>3
    <3>6. DOMAIN groups' \subseteq Int
      BY <3>2, <3>4 DEF Placed
    <3>7. Spread(groups')
      BY <2>1, <3>2, <3>3, <3>4 DEF Placed, Spread
    <3>. QED
      BY <3>5, <3>6, <3>7 DEF Placed
  <2>. QED
    BY <1>1, <2>1, <2>2, Committed DEF PlacesInv
<1>. QED
  BY <1>2, <1>3

LEMMA RenamePlaced ==
  ASSUME Groups!GroupAssumption, PlacesInv, NEW r \in Requests,
         Groups!RenameWrite(r) \/ Groups!DeleteWrite(r)
  PROVE  OneByOne'
<1>1. groupReq[r] # Groups!Closed
  BY Working DEF Groups!RenameWrite, Groups!DeleteWrite
<1>2. CASE Groups!End(r)
  BY <1>1, <1>2, Ends DEF PlacesInv
<1>3. CASE ~Groups!End(r)
  <2>1. PICK q : Writes(r, q)
    BY <1>3 DEF Groups!RenameWrite, Groups!DeleteWrite, Groups!Commit, Writes
  <2>2. /\ DOMAIN groups' \subseteq DOMAIN groups
        /\ \A g \in DOMAIN groups' : groups'[g].order = groups[g].order /\ groups'[g].items = groups[g].items
    <3>1. \A g \in DOMAIN groups : GroupRow(groups[g])
      BY DEF PlacesInv, CapInv
    <3>2. CASE Groups!RenameWrite(r)
      BY <1>3, <3>1, <3>2 DEF Groups!RenameWrite, Groups!Commit, GroupRow
    <3>3. CASE Groups!DeleteWrite(r)
      BY <3>3 DEF Groups!DeleteWrite, Groups!Commit, Groups!Without
    <3>. QED
      BY <3>2, <3>3
  <2>3. ~raced => Placed(groups')
    <3>1. SUFFICES ASSUME ~raced PROVE Placed(groups')
      OBVIOUS
    <3>2. Placed(groups) /\ \A g \in DOMAIN groups : Good(groups[g].items)
      BY <3>1 DEF PlacesInv, OneByOne, Placed, Spread
    <3>. QED
      BY <2>2, <3>2, SamePlaces
  <2>. QED
    BY <1>1, <2>1, <2>3, Committed DEF PlacesInv
<1>. QED
  BY <1>2, <1>3

LEMMA ReorderPlaced ==
  ASSUME Groups!GroupAssumption, PlacesInv, NEW r \in Requests, Groups!ReorderWrite(r)
  PROVE  OneByOne'
<1>1. groupReq[r].op = "reorder" /\ groupReq[r].step = "write" /\ groupReq[r] # Groups!Closed
  BY Working DEF Groups!ReorderWrite, Groups!At
<1>2. CASE Groups!End(r)
  BY <1>1, <1>2, Ends DEF PlacesInv
<1>3. CASE ~Groups!End(r)
  <2>1. Writes(r, Groups!Closed) /\ groups' = Groups!Reordered(groups, groupReq[r].place)
    BY <1>3 DEF Groups!ReorderWrite, Groups!Commit, Writes
  <2>2. DOMAIN groups' = DOMAIN groups
    BY <2>1 DEF Groups!Reordered
  <2>3. ~raced => Placed(groups) /\ Spread(groups')
    BY <1>1, <2>1 DEF PlacesInv, OneByOne, Reads
  <2>4. ~raced => Placed(groups')
    BY <2>2, <2>3 DEF Placed
  <2>. QED
    BY <1>1, <2>1, <2>4, Committed DEF PlacesInv
<1>. QED
  BY <1>2, <1>3

\* One more tool after the others, and one tool less.
LEMMA GoodWith ==
  ASSUME Groups!GroupAssumption, NEW f, Good(f), NEW t, NEW n \in Int,
         Cardinality(DOMAIN f) < MAX_TOOLS_PER_GROUP, \A u \in DOMAIN f : f[u] < n
  PROVE  Good([u \in DOMAIN f \cup {t} |-> IF u = t THEN n ELSE f[u]])
<1>. DEFINE g == [u \in DOMAIN f \cup {t} |-> IF u = t THEN n ELSE f[u]]
<1>1. DOMAIN g = DOMAIN f \cup {t} /\ \A u \in DOMAIN g : g[u] = IF u = t THEN n ELSE f[u]
  OBVIOUS
<1>. HIDE DEF g
<1>2. IsFiniteSet(DOMAIN g) /\ Cardinality(DOMAIN g) <= MAX_TOOLS_PER_GROUP
  <2>1. Cardinality(DOMAIN f) \in Nat /\ MAX_TOOLS_PER_GROUP \in Nat
    BY FS_CardinalityType, Sizes DEF Good
  <2>. QED
    BY <1>1, <2>1, FS_AddElement DEF Good
<1>3. \A u, v \in DOMAIN g : g[u] = g[v] => u = v
  BY <1>1 DEF Good
<1>4. \A u \in DOMAIN g : g[u] \in Int
  BY <1>1 DEF Good
<1>5. Good(g)
  BY <1>2, <1>3, <1>4 DEF Good
<1>. QED
  BY <1>5 DEF g

LEMMA GoodWithout ==
  ASSUME Groups!GroupAssumption, NEW f, Good(f), NEW t
  PROVE  Good(Groups!Without(f, {t}))
<1>1. /\ DOMAIN Groups!Without(f, {t}) \in SUBSET (DOMAIN f)
      /\ \A u \in DOMAIN Groups!Without(f, {t}) : Groups!Without(f, {t})[u] = f[u]
  BY DEF Groups!Without
<1>2. /\ IsFiniteSet(DOMAIN Groups!Without(f, {t}))
      /\ Cardinality(DOMAIN Groups!Without(f, {t})) <= Cardinality(DOMAIN f)
      /\ Cardinality(DOMAIN Groups!Without(f, {t})) \in Nat /\ Cardinality(DOMAIN f) \in Nat
  BY <1>1, FS_Subset, FS_CardinalityType DEF Good
<1>3. MAX_TOOLS_PER_GROUP \in Nat /\ Cardinality(DOMAIN f) <= MAX_TOOLS_PER_GROUP
  BY Sizes DEF Good
<1>4. Cardinality(DOMAIN Groups!Without(f, {t})) <= MAX_TOOLS_PER_GROUP
  BY <1>2, <1>3
<1>. QED
  BY <1>1, <1>2, <1>4 DEF Good

LEMMA ItemsPlaced ==
  ASSUME Groups!GroupAssumption, PlacesInv, NEW r \in Requests,
         Groups!AddWrite(r) \/ Groups!RemoveWrite(r) \/ Groups!SetWrite(r)
  PROVE  OneByOne'
<1>. DEFINE q == groupReq[r]
            old == groups[q.id].items
<1>1. q.op \in {"add", "remove", "set"} /\ q.step = "write" /\ q # Groups!Closed
  BY Working DEF Groups!AddWrite, Groups!RemoveWrite, Groups!SetWrite, Groups!At
<1>2. CASE Groups!End(r)
  BY <1>1, <1>2, Ends DEF PlacesInv
<1>3. CASE ~Groups!End(r)
  <2>1. PICK next : Writes(r, next)
    BY <1>3 DEF Groups!AddWrite, Groups!RemoveWrite, Groups!SetWrite, Groups!Commit, Writes
  <2>2. ~raced => Placed(groups) /\ Reads(groups, q) /\ \A g \in DOMAIN groups : Good(groups[g].items)
    BY DEF PlacesInv, OneByOne, Placed, Spread
  <2>3. q.id \in DOMAIN groups => ItemsOf(groups, q.id) = old /\ Groups!Items(q.id) = old
    BY DEF ItemsOf, Groups!Items, Groups!Exists
  <2>4. \/ groups' = groups
        \/ /\ q.id \in DOMAIN groups
           /\ \E items : /\ groups' = [groups EXCEPT ![q.id].items = items]
                         /\ ~raced => Good(items)
    <3>1. CASE Groups!AddWrite(r)
      <4>. DEFINE items == [t \in DOMAIN old \cup {q.tool} |-> IF t = q.tool THEN q.order ELSE old[t]]
      <4>1. q.op = "add"
        BY <3>1 DEF Groups!AddWrite, Groups!At
      <4>2. q.id \in DOMAIN groups /\ groups' = [groups EXCEPT ![q.id].items = items]
        BY <1>3, <3>1 DEF Groups!AddWrite, Groups!Commit, Groups!Exists
      <4>3. ~raced => /\ Cardinality(DOMAIN old) < MAX_TOOLS_PER_GROUP
                      /\ q.order \in Int /\ \A t \in DOMAIN old : old[t] < q.order
        BY <1>1, <2>2, <2>3, <4>1, <4>2 DEF Reads
      <4>4. ~raced => Good(old)
        BY <2>2, <4>2
      <4>5. ~raced => Good(items)
        <5>. HIDE DEF old, q
        <5>. QED
          BY <4>3, <4>4, GoodWith
      <4>. HIDE DEF items
      <4>. QED
        BY <4>2, <4>5
    <3>2. CASE Groups!RemoveWrite(r)
      <4>1. \/ groups' = groups
            \/ q.id \in DOMAIN groups /\ groups' = [groups EXCEPT ![q.id].items = Groups!Without(old, {q.tool})]
        BY <3>2 DEF Groups!RemoveWrite, Groups!Commit, Groups!Exists
      <4>2. ~raced /\ q.id \in DOMAIN groups => Good(Groups!Without(old, {q.tool}))
        BY <2>2, GoodWithout
      <4>. QED
        BY <4>1, <4>2
    <3>3. CASE Groups!SetWrite(r)
      <4>1. q.op = "set"
        BY <3>3 DEF Groups!SetWrite, Groups!At
      <4>2. \/ groups' = groups
            \/ /\ q.id \in DOMAIN groups
               /\ groups' = [groups EXCEPT ![q.id].items = Groups!Updated(Groups!Items(q.id), q)]
        BY <1>3, <3>3 DEF Groups!SetWrite, Groups!Commit, Groups!Exists
      <4>3. ~raced => Good(Groups!Updated(ItemsOf(groups, q.id), q))
        BY <1>1, <2>2, <4>1 DEF Reads
      <4>4. q.id \in DOMAIN groups => Groups!Items(q.id) = ItemsOf(groups, q.id)
        BY <2>3
      <4>. HIDE DEF old, q
      <4>. QED
        BY <4>2, <4>3, <4>4
    <3>. QED
      BY <3>1, <3>2, <3>3
  <2>5. ~raced => Placed(groups')
    <3>1. SUFFICES ASSUME ~raced PROVE Placed(groups')
      OBVIOUS
    <3>2. CASE groups' = groups
      BY <2>2, <3>1, <3>2
    <3>3. CASE groups' # groups
      <4>1. PICK items : /\ groups' = [groups EXCEPT ![q.id].items = items]
                         /\ Good(items) /\ q.id \in DOMAIN groups
        BY <2>4, <3>1, <3>3
      <4>2. \A g \in DOMAIN groups : GroupRow(groups[g])
        BY DEF PlacesInv, CapInv
      <4>. HIDE DEF q
      <4>3. /\ DOMAIN groups' = DOMAIN groups
            /\ \A g \in DOMAIN groups : groups'[g].order = groups[g].order
        BY <4>1, <4>2 DEF GroupRow
      <4>4. \A g \in DOMAIN groups : groups'[g].items = IF g = q.id THEN items ELSE groups[g].items
        BY <4>1, <4>2 DEF GroupRow
      <4>5. \A g \in DOMAIN groups : Good(groups'[g].items)
        BY <2>2, <3>1, <4>1, <4>4
      <4>. QED
        BY <2>2, <3>1, <4>3, <4>5, SamePlaces
    <3>. QED
      BY <3>2, <3>3
  <2>. QED
    BY <1>1, <2>1, <2>5, Committed DEF PlacesInv
<1>. QED
  BY <1>2, <1>3

LEMMA MadeStep ==
  ASSUME made \in Nat, [Groups!Next]_Groups!gvars
  PROVE  made' \in Nat
<1>1. made' \in {made, made + 1}
  BY DEF Groups!Next, Groups!gvars, Groups!CreateBegin, Groups!CreateLook, Groups!CreateCount, Groups!CreateRank,
     Groups!CreateWrite, Groups!RenameBegin, Groups!RenameLook, Groups!RenameCheck, Groups!RenameWrite,
     Groups!DeleteBegin, Groups!DeleteLook, Groups!DeleteWrite, Groups!ReorderBegin, Groups!ReorderLook,
     Groups!ReorderWrite, Groups!AddBegin, Groups!AddLook, Groups!AddCount, Groups!AddRank, Groups!AddWrite,
     Groups!RemoveBegin, Groups!RemoveLook, Groups!RemoveWrite, Groups!SetBegin, Groups!SetLook,
     Groups!SetWrite, Groups!Reread, Groups!End, Groups!Proceed, Groups!Commit
<1>. QED
  BY <1>1

(* As long as the requests of a user come one after the other, no two groups *)
(* and no two tools of a group share a place, and neither cap is exceeded,   *)
(* whatever is created, reordered, added, replaced or removed.  (Every route *)
(* that hands out or rewrites sort_order.)                                   *)
THEOREM PlacesApart == Groups!GroupAssumption /\ Groups!Spec => []PlacesDistinct
<1>. SUFFICES ASSUME Groups!GroupAssumption PROVE Groups!Spec => []PlacesDistinct
  OBVIOUS
<1>1. Groups!Init => PlacesInv
  BY PlacesInit
<1>2. PlacesInv /\ [Groups!Next]_Groups!gvars => PlacesInv'
  <2>. SUFFICES ASSUME PlacesInv, [Groups!Next]_Groups!gvars PROVE PlacesInv'
    OBVIOUS
  <2>1. ASSUME UNCHANGED Groups!gvars PROVE OneByOne'
    BY <2>1 DEF PlacesInv, OneByOne, Groups!gvars
  <2>2. OneByOne'
    BY <2>1, OpenStep, LooksStep, RankStep, ReorderLookStep, SetLookStep, CreatePlaced, RenamePlaced,
       ReorderPlaced, ItemsPlaced DEF Groups!Next
  <2>. QED
    BY <2>2, CapStep, MadeStep DEF PlacesInv
<1>3. PlacesInv => PlacesDistinct
  BY GroupSets DEF PlacesInv, OneByOne, Placed, Spread, Good, PlacesDistinct, Groups!PlacesDistinct
<1>. QED
  BY <1>1, <1>2, <1>3, PTL DEF Groups!Spec

-----------------------------------------------------------------------------
(* Orders: the invariant *)

\* What is wanted of Razorpay: a pass for tools has as many as it is for.
ToolsFit(w) ==
  /\ w.item \notin Shop!Passes => w.tools = <<>>
  /\ Strict /\ w.item \in Scoped => Len(w.tools) = Picks[w.item]

\* An order keeps what it was made for, which its receipt tells apart.
Genuine(o) ==
  /\ o = [want |-> o.want, status |-> o.status]
  /\ o.want.receipt = Shop!Receipt(o.want.item, o.want.tools)
  /\ ToolsFit(o.want)

\* A request as it goes from step to step.
Asking(q) ==
  \/ q = Shop!Idle
  \/ /\ {"step", "item", "tools"} \subseteq DOMAIN q
     /\ q.item \notin Shop!Passes => q.tools = <<>>
     /\ q.step \in {"list", "create"} => ToolsFit(q)

\* The answer a and the order it names.
Serves(w, a) ==
  /\ w.item = a.item
  /\ w.amount = Shop!Price(a.item, a.region, a.release)
  /\ w.currency = a.region
  /\ Shop!ToSet(w.tools) = Shop!ToSet(a.tools)

ShopInv ==
  /\ \E S : orders \in Seq(S)
  /\ \A id \in DOMAIN orders : Genuine(orders[id])
  /\ ask = [r \in Requests |-> ask[r]]
  /\ \A r \in Requests : Asking(ask[r])
  /\ \A a \in answers : a.id \in DOMAIN orders /\ Serves(orders[a.id].want, a)

LEMMA ShopInit == Shop!Init => ShopInv
<1>. SUFFICES ASSUME Shop!Init PROVE ShopInv
  OBVIOUS
<1>1. orders \in Seq({})
  BY DEF Shop!Init
<1>2. DOMAIN orders = {}
  BY DEF Shop!Init
<1>. QED
  BY <1>1, <1>2 DEF Shop!Init, ShopInv, Asking

\* A request goes on, and orders and answers stay.
LEMMA GoesOn ==
  ASSUME ShopInv, NEW r \in Requests, NEW q, Shop!Set(r, q), Asking(q), UNCHANGED <<orders, answers>>
  PROVE  ShopInv'
<1>1. ask'[r] = q /\ \A p \in Requests \ {r} : ask'[p] = ask[p]
  BY DEF ShopInv, Shop!Set
<1>2. ask' = [p \in Requests |-> ask'[p]]
  BY DEF ShopInv, Shop!Set
<1>. QED
  BY <1>1, <1>2 DEF ShopInv, Serves, Shop!Price

LEMMA Dropped ==
  ASSUME ShopInv, NEW r \in Requests, Shop!Drop(r), UNCHANGED <<orders, answers>>
  PROVE  ShopInv'
<1>1. Asking(Shop!Idle)
  BY DEF Asking
<1>. QED
  BY <1>1, GoesOn DEF Shop!Drop

LEMMA NextStep ==
  ASSUME ShopInv, NEW r \in Requests, ask[r].step # "idle", NEW step, Shop!Go(r, step),
         step \in {"list", "create"} => ask[r].step \in {"list", "create"},
         UNCHANGED <<orders, answers>>
  PROVE  ShopInv'
<1>. DEFINE q == [ask[r] EXCEPT !.step = step]
<1>1. Asking(ask[r]) /\ ask[r] # Shop!Idle
  BY DEF ShopInv, Shop!Idle
<1>2. {"step", "item", "tools"} \subseteq DOMAIN ask[r]
  BY <1>1 DEF Asking
<1>3. q.step = step /\ q.item = ask[r].item /\ q.tools = ask[r].tools /\ {"step", "item", "tools"} \subseteq DOMAIN q
  BY <1>2
<1>4. Shop!Set(r, q)
  BY DEF Shop!Go
<1>. HIDE DEF q
<1>5. Asking(q)
  BY <1>1, <1>3 DEF Asking, ToolsFit
<1>. QED
  BY <1>4, <1>5, GoesOn

\* The receipt of a pass tells its tools, and an order for anything else has none.
LEMMA SameReceipt ==
  ASSUME NEW v, NEW w, ToolsFit(v), ToolsFit(w),
         Shop!Receipt(v.item, v.tools) = Shop!Receipt(w.item, w.tools)
  PROVE  v.item = w.item /\ Shop!ToSet(v.tools) = Shop!ToSet(w.tools)
<1>1. v.item = w.item
  BY DEF Shop!Receipt
<1>2. CASE v.item \in Shop!Passes
  <2>1. Shop!SortedForm(v.tools) = Shop!SortedForm(w.tools)
    BY <1>1, <1>2 DEF Shop!Receipt
  <2>2. \A s : DOMAIN Shop!SortedForm(s) = Shop!ToSet(s)
    BY DEF Shop!SortedForm
  <2>. QED
    BY <1>1, <2>1, <2>2
<1>3. CASE v.item \notin Shop!Passes
  BY <1>1, <1>3 DEF ToolsFit
<1>. QED
  BY <1>2, <1>3

\* An answer names an order that serves the request.
LEMMA Answered ==
  ASSUME ShopInv, NEW r \in Requests, ask[r].step \in {"list", "create"}, NEW id,
         Shop!Answer(r, id),
         \E S : orders' \in Seq(S),
         DOMAIN orders \subseteq DOMAIN orders',
         \A k \in DOMAIN orders : orders'[k].want = orders[k].want,
         \A k \in DOMAIN orders' : Genuine(orders'[k]),
         id \in DOMAIN orders',
         orders'[id].want.receipt = Shop!Receipt(ask[r].item, ask[r].tools),
         orders'[id].want.amount = Shop!Price(ask[r].item, ask[r].region, ask[r].release),
         orders'[id].want.currency = Shop!Currency(ask[r].region)
  PROVE  ShopInv'
<1>. DEFINE a == [id |-> id, item |-> ask[r].item, tools |-> ask[r].tools,
                  region |-> ask[r].region, release |-> ask[r].release]
            w == orders'[id].want
<1>1. ToolsFit(ask[r])
  BY DEF ShopInv, Asking, Shop!Idle
<1>2. ToolsFit(w) /\ w.receipt = Shop!Receipt(w.item, w.tools)
  BY DEF Genuine
<1>3. w.item = ask[r].item /\ Shop!ToSet(w.tools) = Shop!ToSet(ask[r].tools)
  BY <1>1, <1>2, SameReceipt
<1>4. Serves(w, a)
  BY <1>3 DEF Serves, Shop!Currency
<1>5. answers' = answers \cup {a}
  BY DEF Shop!Answer
<1>. HIDE DEF a
<1>6. a.id = id
  BY DEF a
<1>7. \A b \in answers : b.id \in DOMAIN orders' /\ Serves(orders'[b.id].want, b)
  BY DEF ShopInv
<1>8. \A b \in answers' : b.id \in DOMAIN orders' /\ Serves(orders'[b.id].want, b)
  BY <1>4, <1>5, <1>6, <1>7
<1>9. (\A b \in answers : b.id \in DOMAIN orders /\ Serves(orders[b.id].want, b))'
  BY <1>8 DEF Serves, Shop!Price
<1>10. ask'[r] = Shop!Idle /\ \A p \in Requests \ {r} : ask'[p] = ask[p]
  BY DEF ShopInv, Shop!Answer, Shop!Drop, Shop!Set
<1>11. ask' = [p \in Requests |-> ask'[p]]
  BY DEF ShopInv, Shop!Answer, Shop!Drop, Shop!Set
<1>12. \A p \in Requests : Asking(ask'[p])
  BY <1>10 DEF ShopInv, Asking
<1>. QED
  BY <1>9, <1>11, <1>12 DEF ShopInv

\* A new order is what the request wants.
LEMMA Appended ==
  ASSUME ShopInv, NEW r \in Requests, ask[r].step = "create", orders' = Shop!NewOrder(r)
  PROVE  /\ \E S : orders' \in Seq(S)
         /\ DOMAIN orders' = DOMAIN orders \cup {Len(orders) + 1}
         /\ \A k \in DOMAIN orders : orders'[k] = orders[k]
         /\ orders'[Len(orders) + 1].want = Shop!Wanted(r)
         /\ \A k \in DOMAIN orders' : Genuine(orders'[k])
<1>. DEFINE new == [want |-> Shop!Wanted(r), status |-> "created"]
<1>1. PICK S : orders \in Seq(S)
  BY DEF ShopInv
<1>2. orders \in Seq(S \cup {new})
  BY <1>1
<1>3. orders' = Append(orders, new)
  BY DEF Shop!NewOrder
<1>4. ToolsFit(ask[r])
  BY DEF ShopInv, Asking, Shop!Idle
<1>5. Genuine(new)
  BY <1>4 DEF Genuine, Shop!Wanted, ToolsFit
<1>6. new.want = Shop!Wanted(r)
  OBVIOUS
<1>. HIDE DEF new
<1>7. /\ orders' \in Seq(S \cup {new})
      /\ DOMAIN orders' = DOMAIN orders \cup {Len(orders) + 1}
      /\ orders'[Len(orders) + 1] = new
      /\ \A k \in DOMAIN orders : orders'[k] = orders[k]
  BY <1>2, <1>3
<1>. QED
  BY <1>5, <1>6, <1>7 DEF ShopInv

LEMMA ShopStep ==
  ASSUME Shop!StorefrontAssumption, ShopInv, [Shop!Next]_Shop!ovars
  PROVE  ShopInv'
<1>1. ASSUME NEW r \in Requests, Shop!Arrive(r) PROVE ShopInv'
  <2>1. PICK item, tools, explicit :
          /\ item \notin Shop!Passes => tools = <<>>
          /\ Shop!Set(r, [step |-> "incr", item |-> item, tools |-> tools, explicit |-> explicit,
                          stored |-> region, release |-> release])
    BY <1>1 DEF Shop!Arrive
  <2>2. Asking([step |-> "incr", item |-> item, tools |-> tools, explicit |-> explicit,
                stored |-> region, release |-> release])
    BY <2>1 DEF Asking
  <2>. QED
    BY <1>1, <2>1, <2>2, GoesOn DEF Shop!Arrive
<1>2. ASSUME NEW r \in Requests, Shop!Count(r) \/ Shop!Expire(r) PROVE ShopInv'
  BY <1>2, NextStep, Dropped DEF Shop!Count, Shop!Expire, Shop!At
<1>3. ASSUME NEW r \in Requests, Shop!Prepare(r) PROVE ShopInv'
  <2>. DEFINE q == ask[r]
              tools == IF q.item \in Shop!Passes /\ Strict THEN Shop!Selection(q.item, q.tools) ELSE q.tools
              reg == IF q.item = Pro THEN Shop!ProRegion(q.stored) ELSE Shop!Resolved(q.explicit, q.stored)
              new == [step |-> "list", item |-> q.item, tools |-> tools, stored |-> q.stored,
                      region |-> reg, release |-> q.release]
  <2>1. CASE Shop!Drop(r)
    BY <1>3, <2>1, Dropped DEF Shop!Prepare
  <2>2. CASE tools # None /\ Shop!Set(r, new)
    <3>1. Asking(q) /\ q # Shop!Idle
      BY <1>3 DEF ShopInv, Shop!Prepare, Shop!At, Shop!Idle
    <3>2. q.item \notin Shop!Passes => q.tools = <<>>
      BY <3>1 DEF Asking
    <3>3. /\ q.item \notin Shop!Passes => tools = <<>>
          /\ Strict /\ q.item \in Scoped => Len(tools) = Picks[q.item]
      BY <2>2, <3>2 DEF Shop!Selection, Shop!Passes
    <3>. HIDE DEF tools, reg
    <3>4. Asking(new)
      BY <3>3 DEF Asking, ToolsFit
    <3>. QED
      BY <1>3, <2>2, <3>4, GoesOn DEF Shop!Prepare
  <2>. QED
    BY <1>3, <2>1, <2>2 DEF Shop!Prepare
<1>4. ASSUME NEW r \in Requests, Shop!FindOrder(r) PROVE ShopInv'
  <2>1. CASE Shop!Go(r, "create") /\ UNCHANGED answers
    BY <1>4, <2>1, NextStep DEF Shop!FindOrder, Shop!At
  <2>2. ASSUME NEW id \in DOMAIN orders, Shop!Reusable(orders[id], Shop!Wanted(r)), Shop!Answer(r, id)
        PROVE  ShopInv'
    <3>1. orders' = orders /\ ask[r].step = "list"
      BY <1>4 DEF Shop!FindOrder, Shop!At
    <3>2. /\ orders[id].want.receipt = Shop!Receipt(ask[r].item, ask[r].tools)
          /\ orders[id].want.amount = Shop!Price(ask[r].item, ask[r].region, ask[r].release)
          /\ orders[id].want.currency = Shop!Currency(ask[r].region)
      BY <2>2 DEF Shop!Reusable, Shop!Wanted
    <3>3. (\E S : orders \in Seq(S)) /\ \A k \in DOMAIN orders : Genuine(orders[k])
      BY DEF ShopInv
    <3>. QED
      BY <2>2, <3>1, <3>2, <3>3, Answered
  <2>. QED
    BY <1>4, <2>1, <2>2 DEF Shop!FindOrder
<1>5. ASSUME NEW r \in Requests, Shop!CreateOrder(r) PROVE ShopInv'
  <2>. DEFINE id == Len(orders) + 1
  <2>1. ask[r].step = "create" /\ orders' = Shop!NewOrder(r) /\ Shop!Answer(r, id)
    BY <1>5 DEF Shop!CreateOrder, Shop!At
  <2>2. /\ Shop!Wanted(r).receipt = Shop!Receipt(ask[r].item, ask[r].tools)
        /\ Shop!Wanted(r).amount = Shop!Price(ask[r].item, ask[r].region, ask[r].release)
        /\ Shop!Wanted(r).currency = Shop!Currency(ask[r].region)
    BY DEF Shop!Wanted
  <2>. HIDE DEF id
  <2>. QED
    BY <2>1, <2>2, Appended, Answered DEF id
<1>6. ASSUME NEW r \in Requests, Shop!CreateFails(r) PROVE ShopInv'
  <2>1. CASE orders' = orders
    BY <1>6, <2>1, Dropped DEF Shop!CreateFails
  <2>2. CASE orders' = Shop!NewOrder(r)
    <3>1. ask[r].step = "create" /\ answers' = answers /\ ask' = [ask EXCEPT ![r] = Shop!Idle]
      BY <1>6 DEF Shop!CreateFails, Shop!At, Shop!Drop, Shop!Set
    <3>2. /\ \E S : orders' \in Seq(S)
          /\ DOMAIN orders \subseteq DOMAIN orders'
          /\ \A k \in DOMAIN orders : orders'[k] = orders[k]
          /\ \A k \in DOMAIN orders' : Genuine(orders'[k])
      BY <2>2, <3>1, Appended
    <3>3. ask' = [p \in Requests |-> ask'[p]] /\ \A p \in Requests : Asking(ask'[p])
      BY <3>1 DEF ShopInv, Asking
    <3>. QED
      BY <3>1, <3>2, <3>3 DEF ShopInv, Serves, Shop!Price
  <2>. QED
    BY <1>6, <2>1, <2>2 DEF Shop!CreateFails
<1>7. ASSUME NEW r \in Requests, Shop!Crash(r) PROVE ShopInv'
  BY <1>7, Dropped DEF Shop!Crash
<1>8. ASSUME NEW id \in DOMAIN orders, NEW status, Shop!Checkout(id, status) PROVE ShopInv'
  <2>1. orders' = [orders EXCEPT ![id].status = status] /\ UNCHANGED <<ask, answers>>
    BY <1>8 DEF Shop!Checkout
  <2>2. DOMAIN orders' = DOMAIN orders
    BY <2>1
  <2>3. PICK S : orders \in Seq(S)
    BY DEF ShopInv
  <2>. DEFINE new == [want |-> orders[id].want, status |-> status]
  <2>4. orders' = [orders EXCEPT ![id] = new]
    <3>1. orders[id] = [want |-> orders[id].want, status |-> orders[id].status]
      BY DEF ShopInv, Genuine
    <3>2. [orders[id] EXCEPT !.status = status] = new
      BY <3>1
    <3>3. orders' = [orders EXCEPT ![id] = [orders[id] EXCEPT !.status = status]]
      BY <2>1
    <3>. QED
      BY <3>2, <3>3
  <2>5. orders \in Seq(S \cup {new})
    BY <2>3
  <2>6. orders' \in Seq(S \cup {new})
    BY <2>4, <2>5
  <2>7. Genuine(new)
    BY DEF ShopInv, Genuine
  <2>8. \A k \in DOMAIN orders : Genuine(orders'[k]) /\ orders'[k].want = orders[k].want
    BY <2>4, <2>7 DEF ShopInv
  <2>. QED
    BY <2>1, <2>2, <2>6, <2>8 DEF ShopInv, Serves, Shop!Price
<1>9. ASSUME Shop!Release \/ Shop!Minute \/ UNCHANGED Shop!ovars PROVE ShopInv'
  BY <1>9 DEF Shop!Release, Shop!Minute, Shop!ovars, ShopInv, Serves, Shop!Price
<1>. QED
  BY <1>1, <1>2, <1>3, <1>4, <1>5, <1>6, <1>7, <1>8, <1>9 DEF Shop!Next

(* An answered order is for the item, the tools and the price that were      *)
(* asked, whichever order was found with its receipt, and with the strict    *)
(* check paying it grants just those tools.  (idempotency_key, create_order, *)
(* validate_tool_selection, validate_order_scope_and_amount)                 *)
THEOREM OrdersAreAsAsked == Shop!StorefrontAssumption /\ Shop!Spec => []OrderAsAsked
<1>. SUFFICES ASSUME Shop!StorefrontAssumption PROVE Shop!Spec => []OrderAsAsked
  OBVIOUS
<1>1. Shop!Init => ShopInv
  BY ShopInit
<1>2. ShopInv /\ [Shop!Next]_Shop!ovars => ShopInv'
  BY ShopStep
<1>3. ShopInv => OrderAsAsked
  <2>. SUFFICES ASSUME ShopInv, NEW a \in answers, NEW w, w = orders[a.id].want
                PROVE  /\ w.item = a.item
                       /\ w.amount = Shop!Price(a.item, a.region, a.release)
                       /\ Shop!ToSet(w.tools) = Shop!ToSet(a.tools)
                       /\ Strict => Shop!Scope(w, a.release)
                            = CASE a.item \in Unscoped -> {"*"}
                                [] a.item \in Scoped -> Shop!ToSet(a.tools)
                                [] OTHER -> {}
    BY DEF OrderAsAsked, Shop!OrderAsAsked
  <2>1. Serves(w, a) /\ ToolsFit(w)
    BY DEF ShopInv, Genuine
  <2>2. w.amount = Shop!Price(w.item, w.currency, a.release)
    BY <2>1 DEF Serves
  <2>3. Scoped \cap Unscoped = {}
    BY DEF Shop!StorefrontAssumption
  <2>. QED
    BY <2>1, <2>2, <2>3 DEF Serves, ToolsFit, Shop!Scope
<1>. QED
  BY <1>1, <1>2, <1>3, PTL DEF Shop!Spec

-----------------------------------------------------------------------------
(* Orders: the counter of the rate limit *)

\* The counter has no expiry, and no request is about to set one.
Stuck ==
  /\ counter # None
  /\ counter.expires = Shop!Never
  /\ \A r \in Requests : ~Shop!At(r, "expire")

\* An expiry is set on the counter that its own request began.
OwnWindow ==
  \A r \in Requests : Shop!At(r, "expire") =>
    /\ counter # None /\ counter.expires = Shop!Never
    /\ \A q \in Requests : Shop!At(q, "expire") => q = r

Counters == [n : Nat \ {0}, expires : Nat \cup {-1}]

WindowInv ==
  /\ minute \in Nat
  /\ ask = [r \in Requests |-> ask[r]]
  /\ \A r \in Requests : "step" \in DOMAIN ask[r]
  /\ counter = None \/ counter \in Counters
  /\ OwnWindow

\* No request comes to its EXPIRE in this step, and the counter is as it was.
LEMMA WindowKept ==
  ASSUME WindowInv, UNCHANGED <<minute, counter>>,
         NEW r \in Requests, NEW q, ask' = [ask EXCEPT ![r] = q],
         "step" \in DOMAIN q, q.step # "expire"
  PROVE  WindowInv' /\ (Stuck => Stuck')
<1>1. ask' = [p \in Requests |-> ask'[p]]
  BY DEF WindowInv
<1>2. \A p \in Requests : Shop!At(p, "expire")' => Shop!At(p, "expire")
  BY DEF WindowInv, Shop!At
<1>3. OwnWindow'
  BY <1>2 DEF WindowInv, OwnWindow
<1>. QED  BY <1>1, <1>2, <1>3 DEF WindowInv, Stuck

\* What a step does to the counter.
CounterStep ==
  /\ Stuck => Stuck' /\ counter'.n >= counter.n
  /\ ~Stuck /\ Stuck' =>
       /\ UNCHANGED counter
       /\ \E r \in Requests : Shop!At(r, "expire") /\ ~Shop!At(r, "expire")'

LEMMA CounterKept ==
  ASSUME WindowInv, counter' = counter, Stuck => Stuck', WindowInv'
  PROVE  CounterStep
<1>1. Stuck => counter'.n >= counter.n
  BY DEF Stuck, WindowInv, Counters
<1>2. ASSUME ~Stuck, Stuck'
      PROVE  \E r \in Requests : Shop!At(r, "expire") /\ ~Shop!At(r, "expire")'
  BY <1>2 DEF Stuck
<1>. QED  BY <1>1, <1>2 DEF CounterStep

\* A step of another kind, after which the counter is as it was.
LEMMA CounterAside ==
  ASSUME WindowInv, UNCHANGED <<minute, counter>>,
         NEW r \in Requests, NEW q, ask' = [ask EXCEPT ![r] = q],
         "step" \in DOMAIN q, q.step # "expire"
  PROVE  WindowInv' /\ CounterStep
BY WindowKept, CounterKept

LEMMA Goes ==
  ASSUME WindowInv, NEW r \in Requests, NEW label, Shop!Go(r, label)
  PROVE  \E q : ask' = [ask EXCEPT ![r] = q] /\ "step" \in DOMAIN q /\ q.step = label
<1>. DEFINE q == [ask[r] EXCEPT !.step = label]
<1>1. "step" \in DOMAIN ask[r]
  BY DEF WindowInv
<1>2. "step" \in DOMAIN q /\ q.step = label
  BY <1>1
<1>. QED  BY <1>2 DEF Shop!Go, Shop!Set

LEMMA Leaves ==
  ASSUME WindowInv, NEW r \in Requests, Shop!Drop(r)
  PROVE  \E q : ask' = [ask EXCEPT ![r] = q] /\ "step" \in DOMAIN q /\ q.step = "idle"
<1>. DEFINE q == Shop!Idle
<1>1. "step" \in DOMAIN q /\ q.step = "idle"
  BY DEF Shop!Idle
<1>2. ask' = [ask EXCEPT ![r] = q]
  BY DEF Shop!Drop, Shop!Set
<1>. HIDE DEF q
<1>. QED  BY <1>1, <1>2

LEMMA CountingStep ==
  ASSUME None \notin Counters, WindowInv, NEW r \in Requests, Shop!Count(r)
  PROVE  WindowInv' /\ CounterStep
<1>. DEFINE n == IF counter = None THEN 1 ELSE counter.n + 1
            c == [n |-> n, expires |-> IF counter = None THEN Shop!Never ELSE counter.expires]
<1>0. minute' = minute /\ Shop!At(r, "incr")
  BY DEF Shop!Count
<1>1. CASE counter' = counter /\ Shop!Go(r, "order")
  BY <1>0, <1>1, Goes, CounterAside
<1>2. CASE /\ counter' = c
           /\ IF n = 1 THEN Shop!Go(r, "expire")
              ELSE IF n > ORDER_RATE_LIMIT_PER_MINUTE THEN Shop!Drop(r)
              ELSE Shop!Go(r, "order")
  <2>1. PICK q : /\ ask' = [ask EXCEPT ![r] = q] /\ "step" \in DOMAIN q
                 /\ q.step = "expire" <=> n = 1
    <3>1. CASE n = 1
      BY <1>2, <3>1, Goes
    <3>2. CASE n # 1
      BY <1>2, <3>2, Goes, Leaves
    <3>. QED  BY <3>1, <3>2
  <2>2. c \in Counters /\ c # None /\ c.n = n
    BY DEF WindowInv, Counters, Shop!Never
  <2>3. n = 1 <=> counter = None
    BY DEF WindowInv, Counters
  <2>. HIDE DEF c, n
  <2>4. /\ ask' = [p \in Requests |-> ask'[p]]
        /\ ask'[r] = q
        /\ \A p \in Requests \ {r} : ask'[p] = ask[p]
    BY <2>1 DEF WindowInv
  <2>5. CASE counter = None
    <3>1. \A p \in Requests : ~Shop!At(p, "expire")
      BY <2>5 DEF WindowInv, OwnWindow
    <3>2. Shop!At(r, "expire")' /\ \A p \in Requests \ {r} : ~Shop!At(p, "expire")'
      BY <2>1, <2>3, <2>4, <2>5, <3>1 DEF Shop!At
    <3>3. counter'.expires = Shop!Never
      BY <1>2, <2>5 DEF c
    <3>4. WindowInv'
      BY <1>0, <1>2, <2>1, <2>2, <2>4, <3>2, <3>3 DEF WindowInv, OwnWindow
    <3>. QED  BY <2>5, <3>2, <3>4 DEF CounterStep, Stuck
  <2>6. CASE counter # None
    <3>1. \A p \in Requests : Shop!At(p, "expire")' => Shop!At(p, "expire")
      BY <2>1, <2>3, <2>4, <2>6 DEF Shop!At
    <3>2. counter'.expires = counter.expires /\ counter'.n = counter.n + 1 /\ counter' # None
      BY <1>2, <2>2, <2>6 DEF c, n
    <3>3. WindowInv'
      BY <1>0, <1>2, <2>1, <2>2, <2>4, <3>1, <3>2 DEF WindowInv, OwnWindow
    <3>4. Stuck => Stuck' /\ counter'.n >= counter.n
      BY <2>6, <3>1, <3>2 DEF Stuck, WindowInv, Counters
    <3>5. ~Shop!At(r, "expire")
      BY <1>0 DEF Shop!At
    <3>6. \A p \in Requests : Shop!At(p, "expire") => Shop!At(p, "expire")'
      BY <2>4, <3>5 DEF Shop!At
    <3>7. Stuck' => Stuck
      BY <2>6, <3>2, <3>6 DEF Stuck
    <3>. QED  BY <3>3, <3>4, <3>7 DEF CounterStep
  <2>. QED  BY <2>5, <2>6
<1>. QED  BY <1>1, <1>2 DEF Shop!Count

LEMMA ExpiringStep ==
  ASSUME None \notin Counters, WindowInv, NEW r \in Requests, Shop!Expire(r)
  PROVE  WindowInv' /\ CounterStep
<1>0. minute' = minute /\ Shop!At(r, "expire")
  BY DEF Shop!Expire
<1>1. counter # None /\ counter \in Counters /\ ~Stuck
      /\ \A p \in Requests : Shop!At(p, "expire") => p = r
  BY <1>0 DEF WindowInv, OwnWindow, Stuck
<1>2. PICK q : ask' = [ask EXCEPT ![r] = q] /\ "step" \in DOMAIN q /\ q.step = "order"
  BY Goes DEF Shop!Expire
<1>3. CASE counter' = counter
  BY <1>0, <1>2, <1>3, CounterAside
<1>4. CASE counter' = [counter EXCEPT !.expires = minute + 1]
  <2>1. counter' \in Counters /\ counter'.expires = minute + 1
    BY <1>1, <1>4 DEF WindowInv, Counters
  <2>2. counter'.expires # Shop!Never
    BY <2>1 DEF WindowInv, Shop!Never
  <2>3. /\ ask' = [p \in Requests |-> ask'[p]]
        /\ ask'[r] = q
        /\ \A p \in Requests \ {r} : ask'[p] = ask[p]
    BY <1>2 DEF WindowInv
  <2>4. \A p \in Requests : ~Shop!At(p, "expire")'
    BY <1>1, <1>2, <2>3 DEF Shop!At
  <2>5. WindowInv'
    BY <1>0, <1>2, <2>1, <2>3, <2>4 DEF WindowInv, OwnWindow
  <2>. QED  BY <1>1, <2>2, <2>5 DEF CounterStep, Stuck
<1>. QED  BY <1>1, <1>3, <1>4 DEF Shop!Expire

LEMMA MinuteStep ==
  ASSUME WindowInv, Shop!Minute
  PROVE  WindowInv' /\ CounterStep
<1>1. minute' = minute + 1 /\ minute' \in Nat /\ ask' = ask
      /\ \A r \in Requests : Shop!At(r, "expire")' <=> Shop!At(r, "expire")
  BY DEF Shop!Minute, WindowInv, Shop!At
<1>2. counter' = counter \/ counter' = None
  BY DEF Shop!Minute
<1>3. counter # None /\ counter.expires = Shop!Never => counter' = counter
  BY <1>1 DEF Shop!Minute, Shop!Never
<1>4. WindowInv'
  BY <1>1, <1>2, <1>3 DEF WindowInv, OwnWindow
<1>5. (Stuck => Stuck') /\ (Stuck' => Stuck)
  BY <1>1, <1>2, <1>3 DEF Stuck
<1>. QED  BY <1>2, <1>3, <1>4, <1>5, CounterKept DEF CounterStep, Stuck

LEMMA WindowStep ==
  ASSUME None \notin Counters, WindowInv, [Shop!Next]_Shop!ovars
  PROVE  WindowInv' /\ CounterStep
<1>1. ASSUME NEW r \in Requests, Shop!Arrive(r)  PROVE WindowInv' /\ CounterStep
  <2>1. PICK item, tools, explicit :
          ask' = [ask EXCEPT ![r] = [step |-> "incr", item |-> item, tools |-> tools,
                    explicit |-> explicit, stored |-> region, release |-> release]]
    BY <1>1 DEF Shop!Arrive, Shop!Set
  <2>. DEFINE q == [step |-> "incr", item |-> item, tools |-> tools,
                    explicit |-> explicit, stored |-> region, release |-> release]
  <2>2. "step" \in DOMAIN q /\ q.step # "expire"
    OBVIOUS
  <2>3. UNCHANGED <<minute, counter>>
    BY <1>1 DEF Shop!Arrive
  <2>. HIDE DEF q
  <2>4. ask' = [ask EXCEPT ![r] = q]
    BY <2>1 DEF q
  <2>. QED  BY <2>2, <2>3, <2>4, CounterAside
<1>2. ASSUME NEW r \in Requests, Shop!Prepare(r)  PROVE WindowInv' /\ CounterStep
  <2>1. PICK q : ask' = [ask EXCEPT ![r] = q] /\ "step" \in DOMAIN q /\ q.step \in {"idle", "list"}
    <3>. DEFINE q(i, x, s, g, p) == [step |-> "list", item |-> i, tools |-> x, stored |-> s,
                                     region |-> g, release |-> p]
    <3>1. Shop!Drop(r) \/ \E i, x, s, g, p : Shop!Set(r, q(i, x, s, g, p))
      BY <1>2 DEF Shop!Prepare
    <3>2. \A i, x, s, g, p : "step" \in DOMAIN q(i, x, s, g, p) /\ q(i, x, s, g, p).step = "list"
      OBVIOUS
    <3>. HIDE DEF q
    <3>3. CASE Shop!Drop(r)
      BY <3>3, Leaves
    <3>4. CASE \E i, x, s, g, p : Shop!Set(r, q(i, x, s, g, p))
      <4>1. PICK i, x, s, g, p : Shop!Set(r, q(i, x, s, g, p))
        BY <3>4
      <4>2. "step" \in DOMAIN q(i, x, s, g, p) /\ q(i, x, s, g, p).step = "list"
        BY <3>2
      <4>. QED  BY <4>1, <4>2 DEF Shop!Set
    <3>. QED  BY <3>1, <3>3, <3>4
  <2>. QED  BY <1>2, <2>1, CounterAside DEF Shop!Prepare
<1>3. ASSUME NEW r \in Requests, Shop!FindOrder(r)  PROVE WindowInv' /\ CounterStep
  <2>1. PICK q : ask' = [ask EXCEPT ![r] = q] /\ "step" \in DOMAIN q /\ q.step \in {"idle", "create"}
    BY <1>3, Leaves, Goes DEF Shop!FindOrder, Shop!Answer
  <2>. QED  BY <1>3, <2>1, CounterAside DEF Shop!FindOrder
<1>4. ASSUME NEW r \in Requests, Shop!CreateOrder(r) \/ Shop!CreateFails(r) \/ Shop!Crash(r)
      PROVE  WindowInv' /\ CounterStep
  <2>1. Shop!Drop(r) /\ UNCHANGED <<minute, counter>>
    BY <1>4 DEF Shop!CreateOrder, Shop!CreateFails, Shop!Crash, Shop!Answer
  <2>. QED  BY <2>1, Leaves, CounterAside
<1>5. ASSUME UNCHANGED <<minute, counter, ask>>  PROVE WindowInv' /\ CounterStep
  <2>1. WindowInv' /\ (Stuck' <=> Stuck)
    BY <1>5 DEF WindowInv, OwnWindow, Shop!At, Stuck
  <2>. QED  BY <1>5, <2>1, CounterKept
<1>6. Shop!Release \/ (\E id, status : Shop!Checkout(id, status)) \/ UNCHANGED Shop!ovars
        => UNCHANGED <<minute, counter, ask>>
  BY DEF Shop!Release, Shop!Checkout, Shop!ovars
<1>. QED
  BY <1>1, <1>2, <1>3, <1>4, <1>5, <1>6, CountingStep, ExpiringStep, MinuteStep DEF Shop!Next

\* One request at most has the expiry of the counter to set, and it is the one
\* that began the window: a slow EXPIRE never falls into a later window.
\* (check_rate_limit of rate_limit.py: INCR, then EXPIRE if the count is 1)
THEOREM ExpiryOfOwnWindow == None \notin Counters /\ Shop!Spec => []OwnWindow
<1>. SUFFICES ASSUME None \notin Counters  PROVE Shop!Spec => []OwnWindow
  OBVIOUS
<1>1. Shop!Init => WindowInv
  BY DEF Shop!Init, WindowInv, OwnWindow, Shop!At, Shop!Idle
<1>2. WindowInv /\ [Shop!Next]_Shop!ovars => WindowInv'
  BY WindowStep
<1>3. WindowInv => OwnWindow
  BY DEF WindowInv
<1>. QED  BY <1>1, <1>2, <1>3, PTL DEF Shop!Spec

\* A counter is left without an expiry only by a request that does not come to
\* its EXPIRE, or whose EXPIRE fails; then nothing ever takes the counter away
\* or lowers it, and once it is at the limit the user gets no more orders while
\* Redis answers.  (check_rate_limit)
THEOREM CounterStuckForGood == None \notin Counters /\ Shop!Spec => [][CounterStep]_Shop!ovars
<1>. SUFFICES ASSUME None \notin Counters  PROVE Shop!Spec => [][CounterStep]_Shop!ovars
  OBVIOUS
<1>1. Shop!Init => WindowInv
  BY DEF Shop!Init, WindowInv, OwnWindow, Shop!At, Shop!Idle
<1>2. WindowInv /\ [Shop!Next]_Shop!ovars => WindowInv'
  BY WindowStep
<1>3. WindowInv /\ [Shop!Next]_Shop!ovars => [CounterStep]_Shop!ovars
  BY WindowStep
<1>. QED  BY <1>1, <1>2, <1>3, PTL DEF Shop!Spec

-----------------------------------------------------------------------------
(* Favorites *)

FavoritesInv ==
  /\ \A t \in DOMAIN favorites : favorites[t] = 0
  /\ open = [r \in Requests |-> open[r]]
  /\ \A r \in Requests : Rows!Doing(r, "favorite") => open[r].order = 0

\* The highest order is 0 or missing, and so the next one is 0.
LEMMA OrderZero ==
  ASSUME FavoritesInv
  PROVE  Rows!MaxOrder(favorites) + 1 = 0
<1>. DEFINE S == {favorites[t] : t \in DOMAIN favorites}
            max == IF S = {} THEN 0 ELSE CHOOSE n \in S : \A k \in S : k <= n
<1>1. S \subseteq {0}
  BY DEF FavoritesInv
<1>2. max = 0
  <2>1. CASE S = {}
    BY <2>1
  <2>2. CASE S # {}
    <3>1. S = {0}
      BY <1>1, <2>2
    <3>2. \E n \in S : \A k \in S : k <= n
      BY <3>1
    <3>. QED  BY <2>2, <3>1, <3>2
  <2>. QED  BY <2>1, <2>2
<1>. QED  BY <1>2 DEF Rows!MaxOrder

\* Any other step leaves the favorites, and opens no request for one.
LEMMA OtherThanFavorites ==
  ASSUME FavoritesInv, favorites' = favorites,
         open' = open \/ \E r \in Requests : \E q : /\ open' = [open EXCEPT ![r] = q]
                                                    /\ q.op = "favorite" => q.order = 0
  PROVE  FavoritesInv'
<1>1. open' = [r \in Requests |-> open'[r]]
  BY DEF FavoritesInv
<1>2. \A r \in Requests : Rows!Doing(r, "favorite")' => open'[r].order = 0
  BY DEF FavoritesInv, Rows!Doing
<1>. QED  BY <1>1, <1>2 DEF FavoritesInv

LEMMA FavoritesStep ==
  ASSUME FavoritesInv, [Rows!Next]_Rows!wvars
  PROVE  FavoritesInv'
<1>1. ASSUME NEW r \in Requests, Rows!FavoriteGet(r)  PROVE FavoritesInv'
  <2>1. favorites' = favorites
    BY <1>1 DEF Rows!FavoriteGet, Rows!Begin, Rows!rows
  <2>. DEFINE add(t) == [op |-> "favorite", tool |-> t, order |-> Rows!MaxOrder(favorites) + 1]
              remove(t) == [op |-> "favorite-remove", tool |-> t]
  <2>2. PICK t : open' = [open EXCEPT ![r] = add(t)] \/ open' = [open EXCEPT ![r] = remove(t)]
    BY <1>1 DEF Rows!FavoriteGet, Rows!Begin
  <2>3. add(t).order = 0 /\ remove(t).op # "favorite"
    BY OrderZero
  <2>. HIDE DEF add, remove
  <2>. QED  BY <2>1, <2>2, <2>3, OtherThanFavorites
<1>2. ASSUME NEW r \in Requests, Rows!FavoriteAdd(r)  PROVE FavoritesInv'
  <2>1. open' = [open EXCEPT ![r] = Rows!Closed] /\ Rows!Closed.op = "none"
        /\ open[r].order = 0
    BY <1>2 DEF Rows!FavoriteAdd, Rows!End, Rows!Closed, FavoritesInv
  <2>2. /\ open' = [q \in Requests |-> open'[q]]
        /\ \A q \in Requests : Rows!Doing(q, "favorite")' => open'[q].order = 0
    BY <2>1 DEF FavoritesInv, Rows!Doing
  <2>3. \A t \in DOMAIN favorites' : favorites'[t] = 0
    BY <1>2, <2>1 DEF Rows!FavoriteAdd, FavoritesInv
  <2>. QED  BY <2>2, <2>3 DEF FavoritesInv
<1>3. ASSUME NEW r \in Requests, Rows!FavoriteRemove(r)  PROVE FavoritesInv'
  <2>1. open' = [open EXCEPT ![r] = Rows!Closed] /\ Rows!Closed.op = "none"
    BY <1>3 DEF Rows!FavoriteRemove, Rows!End, Rows!Closed
  <2>2. /\ open' = [q \in Requests |-> open'[q]]
        /\ \A q \in Requests : Rows!Doing(q, "favorite")' => open'[q].order = 0
    BY <2>1 DEF FavoritesInv, Rows!Doing
  <2>3. \A t \in DOMAIN favorites' : favorites'[t] = 0
    BY <1>3 DEF Rows!FavoriteRemove, FavoritesInv
  <2>. QED  BY <2>2, <2>3 DEF FavoritesInv
<1>4. ASSUME NEW r \in Requests, NEW q, Rows!Begin(r, q), q.op # "favorite"  PROVE FavoritesInv'
  BY <1>4, OtherThanFavorites DEF Rows!Begin, Rows!rows
<1>5. ASSUME NEW r \in Requests, Rows!End(r), favorites' = favorites  PROVE FavoritesInv'
  <2>1. Rows!Closed.op = "none"
    BY DEF Rows!Closed
  <2>. QED  BY <1>5, <2>1, OtherThanFavorites DEF Rows!End
<1>6. ASSUME UNCHANGED <<favorites, open>>  PROVE FavoritesInv'
  BY <1>6, OtherThanFavorites
<1>7. ASSUME NEW r \in Requests,
             Rows!SettingsGet(r) \/ Rows!TemplateGet(r) \/ Rows!PipelineGet(r)
               \/ Rows!HistoryGet(r) \/ Rows!ShareGet(r)
      PROVE  \E q : Rows!Begin(r, q) /\ q.op # "favorite"
  <2>1. CASE Rows!SettingsGet(r)
    <3>. DEFINE q(u) == [op |-> "settings", old |-> settings, set |-> u]
    <3>1. PICK u : Rows!Begin(r, q(u))
      BY <2>1 DEF Rows!SettingsGet
    <3>2. q(u).op # "favorite"
      OBVIOUS
    <3>. HIDE DEF q
    <3>. QED  BY <3>1, <3>2
  <2>2. CASE Rows!TemplateGet(r)
    <3>. DEFINE q(u) == [op |-> "template", old |-> template, set |-> u]
                d == [op |-> "template-delete"]
    <3>1. PICK u : Rows!Begin(r, q(u)) \/ Rows!Begin(r, d)
      BY <2>2 DEF Rows!TemplateGet
    <3>2. q(u).op # "favorite" /\ d.op # "favorite"
      OBVIOUS
    <3>. HIDE DEF q, d
    <3>. QED  BY <3>1, <3>2
  <2>3. CASE Rows!PipelineGet(r)
    <3>. DEFINE q(u) == [op |-> "pipeline", old |-> pipeline.steps, list |-> u, by |-> begun + 1]
                d == [op |-> "pipeline-delete"]
    <3>1. PICK u : Rows!Begin(r, q(u)) \/ Rows!Begin(r, d)
      BY <2>3 DEF Rows!PipelineGet
    <3>2. q(u).op # "favorite" /\ d.op # "favorite"
      OBVIOUS
    <3>. HIDE DEF q, d
    <3>. QED  BY <3>1, <3>2
  <2>4. CASE Rows!HistoryGet(r)
    <3>. DEFINE q == [op |-> "history"]
    <3>1. Rows!Begin(r, q) /\ q.op # "favorite"
      BY <2>4 DEF Rows!HistoryGet
    <3>. HIDE DEF q
    <3>. QED  BY <3>1
  <2>5. CASE Rows!ShareGet(r)
    <3>. DEFINE q == [op |-> "share", seen |-> share.view_count]
    <3>1. Rows!Begin(r, q) /\ q.op # "favorite"
      BY <2>5 DEF Rows!ShareGet
    <3>. HIDE DEF q
    <3>. QED  BY <3>1
  <2>. QED  BY <1>7, <2>1, <2>2, <2>3, <2>4, <2>5
<1>8. ASSUME NEW r \in Requests,
             Rows!SettingsPut(r) \/ Rows!TemplatePut(r) \/ Rows!TemplateDelete(r)
               \/ Rows!PipelinePut(r) \/ Rows!PipelineDelete(r) \/ Rows!HistoryDelete(r)
               \/ Rows!ShareView(r)
      PROVE  Rows!End(r) /\ favorites' = favorites
  BY <1>8 DEF Rows!SettingsPut, Rows!TemplatePut, Rows!TemplateDelete, Rows!PipelinePut,
     Rows!PipelineDelete, Rows!HistoryDelete, Rows!ShareView
<1>9. ASSUME NEW r \in Requests,
             Rows!TemplateCreate(r) \/ Rows!PipelineCreate(r) \/ Rows!HistoryRecord(r)
               \/ Rows!HistoryClear(r) \/ Rows!ShareCreate(r)
      PROVE  UNCHANGED <<favorites, open>>
  BY <1>9 DEF Rows!TemplateCreate, Rows!PipelineCreate, Rows!HistoryRecord,
     Rows!HistoryClear, Rows!ShareCreate
<1>10. Rows!Tick \/ UNCHANGED Rows!wvars => UNCHANGED <<favorites, open>>
  BY DEF Rows!Tick, Rows!rows, Rows!wvars
<1>. QED
  BY <1>1, <1>2, <1>3, <1>4, <1>5, <1>6, <1>7, <1>8, <1>9, <1>10 DEF Rows!Next

\* Every favorite has sort_order 0, however many a user adds and in whatever
\* order requests read and write: the next order is computed as
\* "max(...) or -1" + 1, which is 0 when the highest is 0.  (add_favorite)
THEOREM FavoritesAllFirst ==
  Rows!Spec => [](\A t \in DOMAIN favorites : favorites[t] = 0)
<1>1. Rows!Init => FavoritesInv
  BY DEF Rows!Init, FavoritesInv, Rows!Doing, Rows!Closed
<1>2. FavoritesInv /\ [Rows!Next]_Rows!wvars => FavoritesInv'
  BY FavoritesStep
<1>3. FavoritesInv => \A t \in DOMAIN favorites : favorites[t] = 0
  BY DEF FavoritesInv
<1>. QED  BY <1>1, <1>2, <1>3, PTL DEF Rows!Spec

=============================================================================
