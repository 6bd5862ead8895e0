----------------------------- MODULE Workspace ------------------------------
(***************************************************************************)
(* The rows a user keeps in account-svc besides the tool groups            *)
(* (endpoints/user_data.py, history.py, share.py): preferences and UI      *)
(* settings, templates, favorites, pipelines, the operation history and    *)
(* share links.  A request reads in one step and writes in another; what   *)
(* it writes is computed from what it read.                                *)
(***************************************************************************)
EXTENDS Integers, FiniteSets, SequencesExt

CONSTANTS
  Requests,      \* the requests that may be open at the same time
  Fields,        \* columns of a settings row or a template
  Required,      \* the columns that may not be NULL
  Values,        \* values of a column
  Null,          \* an explicit null in a request
  Tools,         \* tools that can be favorites
  StepLists,     \* the lists of <<step_order, tool>> that pipeline requests carry
  SHARE_EXPIRE_DAYS,
  MaxDays,       \* bound: days that pass
  MaxRequests    \* bound: requests in all

WorkspaceAssumption ==
  /\ Required \subseteq Fields
  /\ Null \notin Values
  /\ StepLists \subseteq Seq(Int \X Tools)
  /\ SHARE_EXPIRE_DAYS \in Nat

VARIABLES
  kind,       \* the rows this behaviour is about: different ones are independent
  settings,   \* the row of user_preferences or user_ui_settings, or NoRow
  template,   \* a row of user_templates, or NoRow
  favorites,  \* user_favorite_tools: sort_order by tool
  pipeline,   \* a row of user_pipelines and its steps, or NoRow
  entry,      \* a row of operation_history, or NoRow
  share,      \* a row of shared_results, or NoRow
  day,        \* the clock
  open,       \* the open requests with what they have read
  begun,      \* number of requests so far (bound)
  views       \* history: views of the share that were answered 200

rows == <<kind, settings, template, favorites, pipeline, entry, share>>
wvars == <<rows, day, open, begun, views>>

NoRow == [row |-> "none"]
Deleted == [row |-> "deleted"]
Closed == [op |-> "none"]
Default == CHOOSE v \in Values : TRUE

(* A partial update: the fields the body names (model_dump(exclude_unset)). *)
Updates == UNION {[S -> Values \cup {Null}] : S \in SUBSET Fields \ {{}}}

(* setattr on every named field.  An UPDATE with a NULL in a required column *)
(* is refused by the database; an INSERT leaves such a field out, so that it *)
(* takes its default.                                                        *)
Refused(u) == \E f \in DOMAIN u \cap Required : u[f] = Null
Defaults == [f \in Fields |-> IF f \in Required THEN Default ELSE Null]
FirstRow(u) == [f \in Fields |-> IF f \in DOMAIN u /\ u[f] # Null THEN u[f] ELSE Defaults[f]]

(* Only the columns whose value differs from the one that was loaded are     *)
(* in the UPDATE.                                                            *)
Changed(old, u) == {f \in DOMAIN u : u[f] # old[f]}

\* Variant: the UPDATE writes the whole row as it was loaded.
Apply_Whole(row, old, u) == [f \in Fields |-> IF f \in DOMAIN u THEN u[f] ELSE old[f]]
Apply(row, old, u) == [f \in Fields |-> IF f \in Changed(old, u) THEN u[f] ELSE row[f]]

-----------------------------------------------------------------------------
Kinds == {"settings", "template", "favorite", "pipeline", "history", "share"}

Init ==
  /\ kind \in Kinds
  /\ settings = NoRow
  /\ template = NoRow
  /\ favorites = <<>>
  /\ pipeline = NoRow
  /\ entry = NoRow
  /\ share = NoRow
  /\ day = 0
  /\ open = [r \in Requests |-> Closed]
  /\ begun = 0
  /\ views = 0

Begin(r, request) ==
  /\ open[r] = Closed
  /\ begun < MaxRequests
  /\ open' = [open EXCEPT ![r] = request]
  /\ begun' = begun + 1
  /\ UNCHANGED <<rows, day, views>>

Doing(r, op) == open[r].op = op
End(r) == open' = [open EXCEPT ![r] = Closed]
Frame == UNCHANGED <<kind, day, begun>>

Tick ==
  /\ kind = "share"
  /\ share # NoRow
  /\ day < MaxDays
  /\ day' = day + 1
  /\ UNCHANGED <<rows, open, begun, views>>

-----------------------------------------------------------------------------
(* update_preferences and update_ui_settings: the row is made by the first   *)
(* update; two first updates collide on its primary key.                     *)
SettingsGet(r) ==
  /\ kind = "settings"
  /\ \E u \in Updates : Begin(r, [op |-> "settings", old |-> settings, set |-> u])

SettingsPut(r) ==
  /\ Doing(r, "settings")
  /\ LET q == open[r]
         first == q.old = NoRow IN
     IF IF first THEN settings # NoRow ELSE Refused(q.set)
     THEN UNCHANGED settings                                             \* 500
     ELSE settings' = IF first THEN FirstRow(q.set) ELSE Apply(settings, q.old, q.set)
  /\ End(r)
  /\ Frame
  /\ UNCHANGED <<template, favorites, pipeline, entry, share, views>>

-----------------------------------------------------------------------------
(* create_template, update_template, delete_template *)
TemplateCreate(r) ==
  /\ kind = "template"
  /\ template = NoRow
  /\ open[r] = Closed
  /\ begun < MaxRequests
  /\ begun' = begun + 1
  /\ template' = Defaults
  /\ UNCHANGED <<kind, settings, favorites, pipeline, entry, share, day, open, views>>

TemplateGet(r) ==
  /\ kind = "template"
  /\ template \notin {NoRow, Deleted}                                     \* or 404
  /\ \/ \E u \in Updates : Begin(r, [op |-> "template", old |-> template, set |-> u])
     \/ Begin(r, [op |-> "template-delete"])

(* A row deleted meanwhile fails the UPDATE, or the refresh after it. *)
TemplatePut(r) ==
  /\ Doing(r, "template")
  /\ LET q == open[r] IN
     template' = IF template = Deleted \/ Refused(q.set) THEN template ELSE Apply(template, q.old, q.set)
  /\ End(r)
  /\ Frame
  /\ UNCHANGED <<settings, favorites, pipeline, entry, share, views>>

TemplateDelete(r) ==
  /\ Doing(r, "template-delete")
  /\ template' = Deleted
  /\ End(r)
  /\ Frame
  /\ UNCHANGED <<settings, favorites, pipeline, entry, share, views>>

-----------------------------------------------------------------------------
(* add_favorite: a highest order of 0 is falsy, and so counts as none. *)
MaxOrder(f) ==
  LET S == {f[t] : t \in DOMAIN f}
      max == IF S = {} THEN 0 ELSE CHOOSE n \in S : \A k \in S : k <= n
  IN  IF max = 0 THEN -1 ELSE max

FavoriteGet(r) ==
  /\ kind = "favorite"
  /\ \E t \in Tools :
       \/ /\ t \notin DOMAIN favorites                                   \* or 200
          /\ Begin(r, [op |-> "favorite", tool |-> t, order |-> MaxOrder(favorites) + 1])
       \/ /\ t \in DOMAIN favorites
          /\ Begin(r, [op |-> "favorite-remove", tool |-> t])

FavoriteAdd(r) ==
  /\ Doing(r, "favorite")
  /\ LET q == open[r] IN
     favorites' = IF q.tool \in DOMAIN favorites THEN favorites            \* primary key: 500
                  ELSE [t \in DOMAIN favorites \cup {q.tool} |->
                          IF t = q.tool THEN q.order ELSE favorites[t]]
  /\ End(r)
  /\ Frame
  /\ UNCHANGED <<settings, template, pipeline, entry, share, views>>

FavoriteRemove(r) ==
  /\ Doing(r, "favorite-remove")
  /\ favorites' = [t \in DOMAIN favorites \ {open[r].tool} |-> favorites[t]]
  /\ End(r)
  /\ Frame
  /\ UNCHANGED <<settings, template, pipeline, entry, share, views>>

-----------------------------------------------------------------------------
(* create_pipeline, update_pipeline, delete_pipeline.  Steps are rows of     *)
(* their own under the unique index uq_pipeline_step_order; a step carries   *)
(* the number of the request that wrote it.                                  *)
OrdersOf(steps) == {s.order : s \in steps}

(* The rows for the list of a request, or a unique violation. *)
StepRows(list, by) == {[order |-> list[i][1], tool |-> list[i][2], by |-> by] : i \in DOMAIN list}

\* Variant: no unique index on the order of the steps.
Collide_NoIndex(list, kept) == FALSE
Collide(list, kept) ==
  \/ Cardinality({list[i][1] : i \in DOMAIN list}) < Len(list)
  \/ {list[i][1] : i \in DOMAIN list} \cap OrdersOf(kept) # {}

PipelineCreate(r) ==
  /\ kind = "pipeline"
  /\ pipeline = NoRow
  /\ open[r] = Closed
  /\ begun < MaxRequests
  /\ begun' = begun + 1
  /\ \E list \in StepLists :
       pipeline' = IF Collide(list, {}) THEN NoRow                       \* 500
                   ELSE [active |-> TRUE, steps |-> StepRows(list, begun')]
  /\ UNCHANGED <<kind, settings, template, favorites, entry, share, day, open, views>>

(* An update finds an inactive pipeline as well as an active one. *)
PipelineGet(r) ==
  /\ kind = "pipeline"
  /\ pipeline # NoRow
  /\ \/ \E list \in StepLists :
          Begin(r, [op |-> "pipeline", old |-> pipeline.steps, list |-> list, by |-> begun + 1])
     \/ Begin(r, [op |-> "pipeline-delete"])

(* The steps that were read are deleted (if they are still there) and flushed *)
(* before the new ones are inserted.                                         *)
PipelinePut(r) ==
  /\ Doing(r, "pipeline")
  /\ LET q == open[r]
         kept == pipeline.steps \ q.old IN
     pipeline' = IF Collide(q.list, kept) THEN pipeline                  \* 500
                 ELSE [pipeline EXCEPT !.steps = kept \cup StepRows(q.list, q.by)]
  /\ End(r)
  /\ Frame
  /\ UNCHANGED <<settings, template, favorites, entry, share, views>>

PipelineDelete(r) ==
  /\ Doing(r, "pipeline-delete")
  /\ pipeline' = [pipeline EXCEPT !.active = FALSE]
  /\ End(r)
  /\ Frame
  /\ UNCHANGED <<settings, template, favorites, entry, share, views>>

-----------------------------------------------------------------------------
(* record_operation; clear_history is one UPDATE, delete_history_entry reads *)
(* the row before it marks it.                                               *)
HistoryRecord(r) ==
  /\ kind = "history"
  /\ entry = NoRow
  /\ open[r] = Closed
  /\ begun < MaxRequests
  /\ begun' = begun + 1
  /\ entry' = [is_deleted |-> FALSE]
  /\ UNCHANGED <<kind, settings, template, favorites, pipeline, share, day, open, views>>

HistoryClear(r) ==
  /\ kind = "history"
  /\ entry # NoRow
  /\ open[r] = Closed
  /\ begun < MaxRequests
  /\ begun' = begun + 1
  /\ entry' = [is_deleted |-> TRUE]
  /\ UNCHANGED <<kind, settings, template, favorites, pipeline, share, day, open, views>>

HistoryGet(r) ==
  /\ kind = "history"
  /\ entry # NoRow
  /\ ~entry.is_deleted                                                   \* or 404
  /\ Begin(r, [op |-> "history"])

HistoryDelete(r) ==
  /\ Doing(r, "history")
  /\ entry' = [is_deleted |-> TRUE]
  /\ End(r)
  /\ Frame
  /\ UNCHANGED <<settings, template, favorites, pipeline, share, views>>

-----------------------------------------------------------------------------
(* create_share and get_share.  The age of a link is judged on the row that  *)
(* was read; the counter is raised by the database.                          *)
ShareCreate(r) ==
  /\ kind = "share"
  /\ share = NoRow
  /\ open[r] = Closed
  /\ begun < MaxRequests
  /\ begun' = begun + 1
  /\ share' = [created |-> day, view_count |-> 0]
  /\ UNCHANGED <<kind, settings, template, favorites, pipeline, entry, day, open, views>>

ShareGet(r) ==
  /\ kind = "share"
  /\ share # NoRow
  /\ share.created >= day - SHARE_EXPIRE_DAYS                            \* or 410
  /\ Begin(r, [op |-> "share", seen |-> share.view_count])

ShareView(r) ==
  /\ Doing(r, "share")
  /\ share' = [share EXCEPT !.view_count = @ + 1]
  /\ views' = views + 1
  /\ End(r)
  /\ Frame
  /\ UNCHANGED <<settings, template, favorites, pipeline, entry>>

-----------------------------------------------------------------------------
Next ==
  \/ Tick
  \/ \E r \in Requests :
       \/ SettingsGet(r) \/ SettingsPut(r)
       \/ TemplateCreate(r) \/ TemplateGet(r) \/ TemplatePut(r) \/ TemplateDelete(r)
       \/ FavoriteGet(r) \/ FavoriteAdd(r) \/ FavoriteRemove(r)
       \/ PipelineCreate(r) \/ PipelineGet(r) \/ PipelinePut(r) \/ PipelineDelete(r)
       \/ HistoryRecord(r) \/ HistoryClear(r) \/ HistoryGet(r) \/ HistoryDelete(r)
       \/ ShareCreate(r) \/ ShareGet(r) \/ ShareView(r)

Spec == Init /\ [][Next]_wvars

-----------------------------------------------------------------------------
(* A pipeline runs the steps of one request, never a mixture of two that     *)
(* replaced them at the same time (update_pipeline: delete what was read,    *)
(* insert what was asked; the lists number their steps from 0, as clients    *)
(* do), and every share view that was answered is counted (get_share).       *)
StepsWhole ==
  /\ pipeline # NoRow => \A s, t \in pipeline.steps : s.by = t.by
  /\ share # NoRow => share.view_count = views

(* A partial update changes no field it does not name, whatever it read and  *)
(* whoever wrote in between, and a field it names and changes takes the      *)
(* value it asked for.  (update_preferences, update_ui_settings,             *)
(* update_template: load, setattr, flush.)                                   *)
Names(r, op, f, v) == Doing(r, op) /\ f \in DOMAIN open[r].set /\ open[r].set[f] = v
OnlyNamedFields ==
  [][/\ settings # NoRow =>
          \A f \in Fields : settings'[f] # settings[f] =>
             \E r \in Requests : Names(r, "settings", f, settings'[f])
     /\ {template, template'} \cap {NoRow, Deleted} = {} =>
          \A f \in Fields : template'[f] # template[f] =>
             \E r \in Requests : Names(r, "template", f, template'[f])]_wvars

=============================================================================
