---------------------------- MODULE BootstrapSteps ----------------------------
(***************************************************************************)
(* The bootstrap of one catalog: run_all, which creates or reuses every    *)
(* Databricks artefact, the two drivers around it (a wizard user's and a   *)
(* connection's), the marks that keep two of them apart, and the progress  *)
(* the wizard polls.  Who may bootstrap the catalog is the subject of      *)
(* CatalogClaims.                                                          *)
(*                                                                         *)
(* bootstrap_service has two copies of the steps, run_all of               *)
(* bootstrap_steps and _provision_catalog_legacy.  They make the same      *)
(* calls in the same order; the actions below are both.                    *)
(***************************************************************************)
EXTENDS Naturals, FiniteSets

CONSTANTS
    Threads,        \* request threads, and the background thread each starts
    Ids,            \* bound: ids Databricks can give out
    MaxFaults,      \* bound: calls that fail, answers that are lost, restarts
    Null            \* SQL NULL, Python None

ASSUME BootstrapAssumption == MaxFaults \in Nat /\ Null \notin Ids

VARIABLES
    driver,         \* "user" (bootstrap_service) or "connection" (connection_bootstrap)
    create_workflows,
    objects,        \* what exists at Databricks and is reused by its name
    visible,        \* the volume has appeared on the Files API
    named,          \* ids at Databricks of the pipelines and jobs of each name
    row,            \* the stored artefact ids
    status,         \* onboarding_status of a connection
    progress,       \* what /bootstrap/status says
    in_flight,
    thread,         \* local state of every thread
    faults,
    doubled,        \* history: job creations whose answer was lost, per name
    escaped,        \* history: an exception left the driver without a word in progress
    broken          \* history: a bootstrap broke off after it had deleted a workflow

vars == <<driver, create_workflows, objects, visible, named, row, status, progress, in_flight,
          thread, faults, doubled, escaped, broken>>
settings == <<driver, create_workflows>>
databricks == <<objects, visible, named>>
stored == <<row, status>>
history == <<doubled, escaped, broken>>

-----------------------------------------------------------------------------
(* Types and helpers *)

Pipelines == {"A", "B"}             \* snapshot_pipeline, cdc_pipeline
Workflows == {"S", "C"}             \* snapshot_workflow, cdc_workflow
Names == Pipelines \cup Workflows   \* artifact_names of the catalog
Objects == {"schema", "volume", "tables", "pk_config", "notebooks"}

NoIds == [n \in Names |-> Null]
Free == [pc |-> "free", ids |-> NoIds, found |-> Null, deleted |-> FALSE]

\* What run_all does, in order; the steps of one artefact are named after it.
Checks == {"validate_workspace", "warehouse", "metastore", "catalog"}
RunAll == Checks \cup {"schema", "volume", "path", "path again", "tables", "pk_config", "notebooks",
           "find A", "put A", "find B", "put B", "find S", "delete S", "create S",
           "find C", "delete C", "create C", "create C again", "create C classic"}
Persist == {"save", "pipeline_ids", "artifacts", "mark_ready", "done"}
Running == {"claim"} \cup RunAll \cup Persist
Thread == [pc: {"free", "progress", "begin", "status", "end"} \cup Running,
           ids: [Names -> Ids \cup {Null}], found: Ids \cup {Null}, deleted: BOOLEAN]

\* Databricks never gives an id out twice; an id that nothing names any more is as good as new.
InUse == UNION {named[n] : n \in Names} \cup {row[n] : n \in Names}
         \cup UNION {{thread[t].ids[n] : n \in Names} : t \in Threads} \cup {thread[t].found : t \in Threads}
NewId == CHOOSE i \in Ids : i \notin InUse
IdLeft == Ids \ InUse # {}

Init ==
    /\ driver \in {"user", "connection"}
    /\ create_workflows \in BOOLEAN /\ (driver = "connection" => create_workflows)
    /\ objects = {} /\ visible = FALSE
    /\ named = [n \in Names |-> {}]
    /\ row = NoIds /\ status = "pending"
    /\ progress = "none" /\ in_flight = FALSE
    /\ thread = [t \in Threads |-> Free]
    /\ faults = 0
    /\ doubled = [n \in Names |-> 0] /\ escaped = FALSE /\ broken = FALSE

Goto(t, pc) == thread' = [thread EXCEPT ![t].pc = pc]

\* An exception inside run_all.  _fail has told the wizard; the driver of a connection
\* then resets its status.  Before, and after it in _persist, only the user's driver says so.
Abort(t, told) ==
    /\ thread' = [thread EXCEPT ![t] =
                    [Free EXCEPT !.pc = IF driver = "connection" /\ told THEN "status" ELSE "end"]]
    /\ progress' = IF told \/ driver = "user" THEN "error" ELSE progress
    /\ escaped' = (escaped \/ (~told /\ driver = "connection"))

Raise(t, told) == Abort(t, told) /\ broken' = (broken \/ thread[t].deleted)

Fault == faults < MaxFaults /\ faults' = faults + 1

-----------------------------------------------------------------------------
(* Requests *)

\* POST /bootstrap/start marks the user and starts the thread; POST
\* /api/connections/<id>/bootstrap only looks at the mark.
request(t) ==
    /\ thread[t].pc = "free" /\ ~in_flight
    /\ IF driver = "user"
       THEN in_flight' = TRUE /\ progress' = "running" /\ Goto(t, "claim")
       ELSE Goto(t, "progress") /\ UNCHANGED <<in_flight, progress>>
    /\ UNCHANGED <<settings, databricks, stored, faults, history>>

reset_progress(t) ==
    /\ thread[t].pc = "progress"
    /\ progress' = "running"
    /\ Goto(t, "begin")
    /\ UNCHANGED <<settings, databricks, stored, in_flight, faults, history>>

\* Seeded bug: only the route looks at the mark.
BeginUnchecked(t) ==
    /\ thread[t].pc = "begin"
    /\ in_flight' = TRUE /\ Goto(t, "claim")
    /\ UNCHANGED <<settings, databricks, stored, progress, faults, history>>

\* BootstrapInFlight is caught by the worker, which only logs it.
try_begin(t) ==
    /\ thread[t].pc = "begin"
    /\ IF in_flight
       THEN thread' = [thread EXCEPT ![t] = Free] /\ escaped' = TRUE /\ UNCHANGED in_flight
       ELSE in_flight' = TRUE /\ Goto(t, "claim") /\ UNCHANGED escaped
    /\ UNCHANGED <<settings, databricks, stored, progress, faults, doubled, broken>>

\* The claim is looked at again and a token is fetched; run_all starts by saying so.
run_all(t) ==
    /\ thread[t].pc = "claim"
    /\ progress' = "running"
    /\ Goto(t, "validate_workspace")
    /\ UNCHANGED <<settings, databricks, stored, in_flight, faults, history>>

-----------------------------------------------------------------------------
(* The steps of run_all *)

\* A step that only reads.
Check(t, from, to) ==
    /\ thread[t].pc = from
    /\ Goto(t, to)
    /\ UNCHANGED <<settings, databricks, stored, progress, in_flight, faults, history>>

validate_workspace(t) == Check(t, "validate_workspace", "warehouse")
ensure_warehouse_running(t) == Check(t, "warehouse", "metastore")
validate_metastore(t) == Check(t, "metastore", "catalog")
verify_catalog(t) == Check(t, "catalog", "schema")

\* A step that makes something exist; it was there before, it is created, or it
\* is created and the answer is lost.
Ensure(t, from, object, to) ==
    /\ thread[t].pc = from
    /\ objects' = objects \cup {object}
    /\ \/ Goto(t, to) /\ UNCHANGED <<progress, faults, history>>
       \/ Fault /\ Raise(t, TRUE) /\ UNCHANGED doubled
    /\ UNCHANGED <<settings, visible, named, stored, in_flight>>

ensure_bronze_schema(t) == Ensure(t, "schema", "schema", "volume")
ensure_volume(t) == "schema" \in objects /\ Ensure(t, "volume", "volume", "path")

\* Two looks, three seconds apart.
validate_volume_path(t) ==
    /\ thread[t].pc \in {"path", "path again"}
    /\ IF visible THEN Goto(t, "tables") /\ UNCHANGED <<progress, escaped, broken>>
       ELSE IF thread[t].pc = "path" THEN Goto(t, "path again") /\ UNCHANGED <<progress, escaped, broken>>
       ELSE Raise(t, TRUE)
    /\ UNCHANGED <<settings, databricks, stored, in_flight, faults, doubled>>

ensure_meta_tables(t) == "schema" \in objects /\ Ensure(t, "tables", "tables", "pk_config")
upload_pk_config(t) == visible /\ Ensure(t, "pk_config", "pk_config", "notebooks")
upload_notebooks(t) == Ensure(t, "notebooks", "notebooks", "find A")

\* get_pipeline_by_name, _find_job_id_by_name: some id of that name.
Find(t, from, n, to) ==
    /\ thread[t].pc = from
    /\ IF named[n] = {} THEN thread' = [thread EXCEPT ![t].pc = to, ![t].found = Null]
       ELSE \E i \in named[n] : thread' = [thread EXCEPT ![t].pc = to, ![t].found = i]
    /\ UNCHANGED <<settings, databricks, stored, progress, in_flight, faults, history>>

\* A POST that creates a pipeline or a job of name n.  The answer may be lost.
Create(t, n, to) ==
    /\ IdLeft
    /\ named' = [named EXCEPT ![n] = @ \cup {NewId}]
    /\ thread' = [thread EXCEPT ![t].pc = to, ![t].ids[n] = NewId, ![t].found = Null]
    /\ UNCHANGED <<progress, faults, history>>

CreateLost(t, n) ==
    /\ Fault /\ IdLeft
    /\ named' = [named EXCEPT ![n] = @ \cup {NewId}]
    /\ doubled' = [doubled EXCEPT ![n] = @ + 1]

\* Seeded bug: the pipeline is created without looking for one of its name, which
\* Databricks refuses when there is one.
CreateBlindly(t, from, n, to) ==
    /\ thread[t].pc = from
    /\ IF named[n] # {} THEN Raise(t, TRUE) /\ UNCHANGED <<named, faults, doubled>>
       ELSE Create(t, n, to) \/ (CreateLost(t, n) /\ Raise(t, TRUE))
    /\ UNCHANGED <<settings, objects, visible, stored, in_flight>>

\* PUT on the one that was found, else POST.
get_or_create_pipeline(t, from, n, to) ==
    /\ thread[t].pc = from
    /\ \/ /\ thread[t].found # Null
          /\ thread' = [thread EXCEPT ![t].pc = to, ![t].ids[n] = thread[t].found, ![t].found = Null]
          /\ UNCHANGED <<named, progress, faults, history>>
       \/ thread[t].found = Null /\ Create(t, n, to)
       \/ thread[t].found = Null /\ CreateLost(t, n) /\ Raise(t, TRUE)
    /\ UNCHANGED <<settings, objects, visible, stored, in_flight>>

ensure_pipelines(t) ==
    \/ Find(t, "find A", "A", "put A") \/ Find(t, "find B", "B", "put B")
    \/ get_or_create_pipeline(t, "put A", "A", "find B")
    \/ get_or_create_pipeline(t, "put B", "B", IF create_workflows THEN "find S" ELSE "save")

\* Seeded bug: the id of the deleted job is kept.
KeepDeleted(t, from, n, to) ==
    /\ thread[t].pc = from
    /\ named' = [named EXCEPT ![n] = @ \ {thread[t].found}]
    /\ thread' = [thread EXCEPT ![t].pc = IF n = "S" THEN "find C" ELSE "save",
                                ![t].ids[n] = thread[t].found]
    /\ UNCHANGED <<settings, objects, visible, stored, progress, in_flight, faults, history>>

\* delete_job; the answer may be lost here too.
delete_job(t, from, n, to) ==
    /\ thread[t].pc = from
    /\ named' = [named EXCEPT ![n] = @ \ {thread[t].found}]
    /\ LET gone == thread[t].found # Null IN
       \/ /\ thread' = [thread EXCEPT ![t].pc = to, ![t].found = Null, ![t].deleted = @ \/ gone]
          /\ UNCHANGED <<progress, faults, history>>
       \/ gone /\ Fault /\ Abort(t, TRUE) /\ broken' = TRUE /\ UNCHANGED doubled
    /\ UNCHANGED <<settings, objects, visible, stored, in_flight>>

\* One try; create_combined_snapshot_workflow has no other.
create_combined_snapshot_workflow(t) ==
    /\ thread[t].pc = "create S"
    /\ Create(t, "S", "find C") \/ (CreateLost(t, "S") /\ Raise(t, TRUE))
    /\ UNCHANGED <<settings, objects, visible, stored, in_flight>>

\* Another path of the notebook, and a classic cluster, are tried after any exception.
create_sync_workflow(t) ==
    /\ thread[t].pc \in {"create C", "create C again", "create C classic"}
    /\ \/ Create(t, "C", "save")
       \/ /\ CreateLost(t, "C") \/ (Fault /\ UNCHANGED <<named, doubled>>)
          /\ CASE thread[t].pc = "create C" -> Goto(t, "create C again") /\ UNCHANGED <<progress, escaped, broken>>
               [] thread[t].pc = "create C again" -> Goto(t, "create C classic") /\ UNCHANGED <<progress, escaped, broken>>
               [] OTHER -> Raise(t, TRUE)
    /\ UNCHANGED <<settings, objects, visible, stored, in_flight>>

ensure_sync_workflows(t) ==
    \/ Find(t, "find S", "S", "delete S") \/ Find(t, "find C", "C", "delete C")
    \/ delete_job(t, "delete S", "S", "create S") \/ delete_job(t, "delete C", "C", "create C")
    \/ create_combined_snapshot_workflow(t)
    \/ create_sync_workflow(t)

-----------------------------------------------------------------------------
(* Step 11, _persist_bootstrap and _persist, and the end *)

\* Seeded bug: the stored row is inserted, and not updated on a conflict.
SaveOnce(t, from, names, to) ==
    /\ thread[t].pc = from
    /\ row' = [n \in Names |-> IF n \in names /\ row[n] = Null THEN thread[t].ids[n] ELSE row[n]]
    /\ broken' = IF Workflows \subseteq names THEN FALSE ELSE broken
    /\ thread' = [thread EXCEPT ![t].pc = to, ![t].deleted = FALSE]
    /\ UNCHANGED <<settings, databricks, status, progress, in_flight, faults, doubled, escaped>>

\* save_bootstrap_state of a user has all ids; save_bootstrap of a connection
\* those of its workflows, and set_pipeline_ids the others.
Save(t, from, names, to) ==
    /\ thread[t].pc = from
    /\ row' = [n \in Names |-> IF n \in names THEN thread[t].ids[n] ELSE row[n]]
    /\ broken' = IF Workflows \subseteq names THEN FALSE ELSE broken
    /\ thread' = [thread EXCEPT ![t].pc = to, ![t].deleted = FALSE]
    /\ UNCHANGED <<settings, databricks, status, progress, in_flight, faults, doubled, escaped>>

save_bootstrap(t) ==
    IF driver = "user" THEN Save(t, "save", Names, "artifacts")
    ELSE Save(t, "save", Workflows, "pipeline_ids")

set_pipeline_ids(t) == Save(t, "pipeline_ids", Pipelines, "artifacts")

\* update_claim_artifacts; then the project defaults, whose failure is logged only.
update_claim_artifacts(t) ==
    Check(t, "artifacts", IF driver = "user" THEN "done" ELSE "mark_ready")

mark_ready(t) ==
    /\ thread[t].pc = "mark_ready"
    /\ status' = "ready"
    /\ Goto(t, "done")
    /\ UNCHANGED <<settings, databricks, row, progress, in_flight, faults, history>>

Complete(t) ==
    /\ thread[t].pc = "done"
    /\ progress' = "complete"
    /\ thread' = [thread EXCEPT ![t] = [Free EXCEPT !.pc = "end"]]
    /\ UNCHANGED <<settings, databricks, stored, in_flight, faults, history>>

\* update_status(..., 'pending_bootstrap') in the except clause.
ResetStatus(t) ==
    /\ thread[t].pc = "status"
    /\ status' = "pending"
    /\ Goto(t, "end")
    /\ UNCHANGED <<settings, databricks, row, progress, in_flight, faults, history>>

end_bootstrap(t) ==
    /\ thread[t].pc = "end"
    /\ in_flight' = FALSE
    /\ thread' = [thread EXCEPT ![t] = Free]
    /\ UNCHANGED <<settings, databricks, stored, progress, faults, history>>

\* Seeded bug: the step raises and says nothing.
FailSilently(t) ==
    /\ thread[t].pc \in Running \ {"done"} /\ Fault
    /\ thread' = [thread EXCEPT ![t] = [Free EXCEPT !.pc = "end"]]
    /\ UNCHANGED <<settings, databricks, stored, progress, in_flight, history>>

\* Any step raises before it has changed anything.
Fail(t) ==
    /\ thread[t].pc \in Running \ {"done", "create C", "create C again", "create C classic"}
    /\ Fault
    /\ Raise(t, thread[t].pc \in RunAll)
    /\ UNCHANGED <<settings, databricks, stored, in_flight, doubled>>

-----------------------------------------------------------------------------
(* External *)

\* The process is restarted: threads, marks and progress are gone.
Restart ==
    /\ Fault
    /\ broken' = (broken \/ \E t \in Threads : thread[t].deleted)
    /\ thread' = [t \in Threads |-> Free]
    /\ progress' = "none" /\ in_flight' = FALSE
    /\ UNCHANGED <<settings, databricks, stored, doubled, escaped>>

\* A new volume takes a moment to appear on the Files API.
VolumeAppears ==
    /\ "volume" \in objects /\ ~visible
    /\ visible' = TRUE
    /\ UNCHANGED <<settings, objects, named, stored, progress, in_flight, thread, faults, history>>

ThreadStep(t) ==
    \/ reset_progress(t) \/ try_begin(t) \/ run_all(t)
    \/ validate_workspace(t) \/ ensure_warehouse_running(t) \/ validate_metastore(t) \/ verify_catalog(t)
    \/ ensure_bronze_schema(t) \/ ensure_volume(t) \/ validate_volume_path(t)
    \/ ensure_meta_tables(t) \/ upload_pk_config(t) \/ upload_notebooks(t)
    \/ ensure_pipelines(t) \/ ensure_sync_workflows(t)
    \/ save_bootstrap(t) \/ set_pipeline_ids(t) \/ update_claim_artifacts(t) \/ mark_ready(t)
    \/ Complete(t) \/ ResetStatus(t) \/ end_bootstrap(t)

Next ==
    \/ \E t \in Threads : request(t) \/ ThreadStep(t) \/ Fail(t)
    \/ Restart \/ VolumeAppears

Spec == Init /\ [][Next]_vars

\* Threads run, the volume appears, and somebody keeps asking until the bootstrap is complete.
Retry == progress # "complete" /\ \E t \in Threads : request(t)
FairSpec ==
    /\ Spec /\ \A t \in Threads : WF_vars(ThreadStep(t))
    /\ WF_vars(VolumeAppears) /\ SF_vars(Retry)

-----------------------------------------------------------------------------
(* Properties *)

Exists(n) == row[n] \in named[n]

\* When the wizard says "Bootstrap complete!", everything a sync relies on exists: the
\* stored pipelines and workflows are those of Databricks, whatever broke off before,
\* and however many requests came in.
CompleteMeansUsable ==
    progress = "complete" =>
        /\ objects = Objects /\ visible
        /\ \A n \in Pipelines : Exists(n)
        /\ create_workflows => \A n \in Workflows : Exists(n)
        /\ driver = "connection" => status = "ready"

\* Artefacts are found again by their name, so there is one pipeline of each; a job may
\* have one more for each creation whose answer was lost.
OneOfEachName ==
    /\ \A n \in Pipelines : Cardinality(named[n]) <= 1
    /\ \A n \in Workflows : Cardinality(named[n]) <= 1 + doubled[n]

\* A stored workflow that does not exist at Databricks is being replaced right now, or
\* its replacement broke off; the next bootstrap that is saved repairs it.
MissingOnlyWhenReplaced ==
    \A n \in Workflows : row[n] # Null /\ ~Exists(n) =>
        broken \/ \E t \in Threads : thread[t].deleted

\* The wizard never polls a bootstrap that is over as "running", but for exceptions
\* of a connection's driver outside run_all, which are only logged.
EndIsShown ==
    progress = "running" => escaped \/ \E t \in Threads : thread[t].pc \notin {"free", "end"}

\* No partial state keeps a retry from completing.
RetryCompletes == []<>(progress = "complete")
=============================================================================
