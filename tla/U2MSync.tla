------------------------------- MODULE U2MSync -------------------------------
(***************************************************************************)
(* Sync runs of a wizard user (U2M): the orchestrator's background         *)
(* threads, the status poll that reconciles rows whose thread has died     *)
(* with what Databricks says, and the reaper of rows that have not moved   *)
(* for two hours.  One user and one project; nothing here guards against a *)
(* second run starting while one is going on, only the pipelines have to   *)
(* be idle.                                                                *)
(*                                                                         *)
(* sync_orchestrator has two copies of the export, sync_steps.run_export   *)
(* behind _run_dc_export_shared, and _run_dc_export_legacy.  They make the *)
(* same state changes in the same order; the actions below are both.       *)
(***************************************************************************)
EXTENDS Naturals, Sequences

CONSTANTS
    Threads,        \* threads that run a sync
    MaxRuns,        \* bound: rows of sync_runs
    MaxFaults,      \* bound: restarts and lost writes
    Null            \* SQL NULL, Python None

ASSUME U2MAssumption == MaxRuns \in Nat /\ MaxFaults \in Nat /\ Null \notin {"A", "B", "W"}

VARIABLES
    notebook,       \* _ENABLE_NOTEBOOK_DOWNLOAD, fixed when the process starts
    baseline,       \* an older snapshot run is complete, fixed at the start
    daily,          \* acc_config.daily_cdc_enabled
    full,           \* the manual-full watermark was written, less than 24 hours ago
    rows,           \* sync_runs
    lastRun,        \* the last run_id handed out
    thread,         \* local state of every sync thread
    poll,           \* the status poll: what is left of its two rows
    upd,            \* pipeline updates at Databricks, by run and pipeline
    wf,             \* workflow runs at Databricks, by run
    faults          \* faults so far

vars == <<notebook, baseline, daily, full, rows, lastRun, thread, poll, upd, wf, faults>>
settings == <<notebook, baseline>>
databricks == <<upd, wf>>

-----------------------------------------------------------------------------
(* Types and helpers *)

RunIds == 1..MaxRuns
Created == 1..lastRun
Modes == {"snapshot", "cdc"}
Pipes == {"A", "B"}     \* A: snapshot pipeline, B: CDC pipeline

_TERMINAL == {"complete", "failed"}
_WORKFLOW_STATES == {"workflow_triggered", "workflow_running"}
_PIPELINE_STATES == {"bronze_job_running"}
States == {"running", "dc_job_submitted", "uploading_files", "bronze_job_triggered"} \cup _WORKFLOW_STATES \cup _PIPELINE_STATES \cup _TERMINAL

\* A row of sync_runs; bronze names the update or workflow run of this run that
\* bronze_run_id holds, stale that it has not moved for SYNC_STALE_SECONDS.
Row == [mode: Modes, state: States, bronze: {Null, "A", "B", "W"}, stale: BOOLEAN]

Export == {"submit", "upload", "trigger", "start", "record", "poll", "complete", "commit"}
Idle == [pc |-> "free", mode |-> "cdc", run |-> 0, pipe |-> "A"]
Thread == [pc: {"free", "create"} \cup Export, mode: Modes, run: 0..MaxRuns, pipe: Pipes]

\* The status poll works through copies of rows it read at its start.
NoPoll == [pc |-> "free", copies |-> <<>>, verdict |-> "none"]

NoUpdate == [state |-> "none", born |-> 0]
NoWorkflow == [state |-> "none", todo |-> <<>>]

Ended(r) == rows[r].state \in _TERMINAL
PipelineBusy(p) == \E r \in Created : upd[r][p].state = "active"
Latest(m) == {r \in Created : rows[r].mode = m /\ \A i \in r + 1 .. lastRun : rows[i].mode # m}

\* A complete run whose record_counts names the snapshot mode.
has_successful_snapshot ==
    baseline \/ \E r \in Created : rows[r].mode = "snapshot" /\ rows[r].state = "complete"

\* update_sync_run: an unconditional UPDATE, which also renews updated_at.
Write(r, s, b) == [rows EXCEPT ![r].state = s, ![r].bronze = b, ![r].stale = FALSE]

Init ==
    /\ notebook \in BOOLEAN /\ baseline \in BOOLEAN
    /\ daily = FALSE /\ full = FALSE
    /\ rows = [r \in RunIds |-> Null] /\ lastRun = 0
    /\ thread = [t \in Threads |-> Idle]
    /\ poll = NoPoll
    /\ upd = [r \in RunIds |-> [p \in Pipes |-> NoUpdate]]
    /\ wf = [r \in RunIds |-> NoWorkflow]
    /\ faults = 0

-----------------------------------------------------------------------------
(* Requests, and what the orchestrator checks before there is a row *)

sync_auto(enabled) ==
    /\ enabled # daily     \* else it changes nothing
    /\ enabled => has_successful_snapshot
    /\ daily' = enabled
    /\ UNCHANGED <<settings, full, rows, lastRun, thread, poll, databricks, faults>>

\* start_sync_snapshot, start_sync_cdc (which first wants a complete snapshot run
\* and Auto CDC enabled) and the tick of the daily timer (which does not) start a
\* thread; it makes the mode's own checks, _assert_snapshot_pipelines_idle, and for
\* a snapshot run _assert_manual_full_rate_limit.  A refusal changes nothing.  A
\* snapshot run is always manual, and of a cdc run the trigger decides nothing more.
start_sync(t, mode) ==
    /\ thread[t].pc = "free"
    /\ mode = "cdc" => daily
    /\ \A p \in Pipes : ~PipelineBusy(p)
    /\ mode = "snapshot" => ~full
    /\ thread' = [thread EXCEPT ![t] = [Idle EXCEPT !.pc = "create", !.mode = mode,
                    !.pipe = IF mode = "snapshot" THEN "A" ELSE "B"]]
    /\ UNCHANGED <<settings, daily, full, rows, lastRun, poll, databricks, faults>>

\* The row could not be inserted.
Refused(t) ==
    /\ thread[t].pc = "create"
    /\ thread' = [thread EXCEPT ![t] = Idle]
    /\ UNCHANGED <<settings, daily, full, rows, lastRun, poll, databricks, faults>>

\* Inserted as pending, and written as running at once.
create_sync_run(t) ==
    /\ thread[t].pc = "create"
    /\ lastRun < MaxRuns
    /\ lastRun' = lastRun + 1
    /\ rows' = [rows EXCEPT ![lastRun + 1] =
                  [mode |-> thread[t].mode, state |-> "running", bronze |-> Null, stale |-> FALSE]]
    /\ thread' = [thread EXCEPT ![t].pc = "submit", ![t].run = lastRun + 1]
    /\ UNCHANGED <<settings, daily, full, poll, databricks, faults>>

-----------------------------------------------------------------------------
(* The export *)

\* The run is at `from`, writes state s to its row and goes on at `to`.
Step(t, from, s, to) ==
    /\ thread[t].pc = from
    /\ rows' = Write(thread[t].run, s, rows[thread[t].run].bronze)
    /\ thread' = [thread EXCEPT ![t].pc = to]
    /\ UNCHANGED <<settings, daily, full, lastRun, poll, databricks, faults>>

DcExport(t) == Step(t, "submit", "dc_job_submitted", "upload")

\* The files are landed; of a snapshot run the cdc* baseline is then exported and
\* landed too, which writes no state.
Upload(t) == Step(t, "upload", "uploading_files", "trigger")

\* bronze_written, and at once the state of the path taken.
Trigger(t) == Step(t, "trigger",
                   IF notebook THEN "workflow_triggered" ELSE "bronze_job_triggered", "start")

\* run_combined_workflow or run_workflow: a workflow admits one run at a time.
StartWorkflow(t) ==
    LET m == thread[t].mode IN
    /\ thread[t].pc = "start" /\ notebook
    /\ wf' = [wf EXCEPT ![thread[t].run] =
                IF \E r \in Created : rows[r].mode = m /\ wf[r].state = "running"
                THEN [state |-> "failed", todo |-> <<>>]
                ELSE [state |-> "running",
                      todo |-> IF m = "snapshot" THEN <<"A", "B">> ELSE <<"B">>]]
    /\ thread' = [thread EXCEPT ![t].pc = "record"]
    /\ UNCHANGED <<settings, daily, full, rows, lastRun, poll, upd, faults>>

Started == [state |-> "active", born |-> lastRun]

\* apply_and_start_pipeline_update: refused while the pipeline is busy.
StartUpdate(t) ==
    /\ thread[t].pc = "start" /\ ~notebook /\ ~PipelineBusy(thread[t].pipe)
    /\ upd' = [upd EXCEPT ![thread[t].run][thread[t].pipe] = Started]
    /\ thread' = [thread EXCEPT ![t].pc = "record"]
    /\ UNCHANGED <<settings, daily, full, rows, lastRun, poll, wf, faults>>

\* The id of the workflow run or update goes into the row.
Record(t) ==
    /\ thread[t].pc = "record"
    /\ rows' = IF notebook THEN Write(thread[t].run, "workflow_running", "W")
               ELSE Write(thread[t].run, "bronze_job_running", thread[t].pipe)
    /\ thread' = [thread EXCEPT ![t].pc = "poll"]
    /\ UNCHANGED <<settings, daily, full, lastRun, poll, databricks, faults>>

Succeeded(t) ==
    IF notebook THEN wf[thread[t].run].state = "success"
    ELSE upd[thread[t].run][thread[t].pipe].state = "completed"

\* The poll sees success: on to Pipeline B after Pipeline A, else to completion.
PollSuccess(t) ==
    /\ thread[t].pc = "poll" /\ Succeeded(t)
    /\ thread' = [thread EXCEPT ![t] =
                    IF ~notebook /\ thread[t].pipe = "A"
                    THEN [thread[t] EXCEPT !.pc = "start", !.pipe = "B"]
                    ELSE [thread[t] EXCEPT !.pc = "complete"]]
    /\ UNCHANGED <<settings, daily, full, rows, lastRun, poll, databricks, faults>>

Complete(t) == Step(t, "complete", "complete", "commit")

\* commit_successful_watermarks_u2m; of the keys only manual-full matters here.
Watermarks(mode) == full' = (full \/ mode = "snapshot")

Commit(t) ==
    /\ thread[t].pc = "commit"
    /\ Watermarks(thread[t].mode)
    /\ thread' = [thread EXCEPT ![t] = Idle]
    /\ UNCHANGED <<settings, daily, rows, lastRun, poll, databricks, faults>>

\* The except clause: the row becomes failed, whatever it says by now.
FailRun(t) ==
    /\ rows' = Write(thread[t].run, "failed", rows[thread[t].run].bronze)
    /\ thread' = [thread EXCEPT ![t] = Idle]
    /\ UNCHANGED <<settings, daily, full, lastRun, poll, databricks, faults>>

\* Any step after the row is "running" may raise.
Fail(t) == thread[t].pc \in Export /\ FailRun(t)

StartRefused(t) ==
    /\ thread[t].pc = "start" /\ ~notebook /\ PipelineBusy(thread[t].pipe)
    /\ FailRun(t)

\* The job failed, or it is still going on when the wait limit passes.
PollGivesUp(t) == thread[t].pc = "poll" /\ ~Succeeded(t) /\ FailRun(t)

-----------------------------------------------------------------------------
(* The status poll: two rows are read, reconciled one after the other, and *)
(* then the reaper looks at all of them.                                   *)

\* In a state of the job phase, with the id of what to look up.
Reconcilable(r) ==
    rows[r].state \in _WORKFLOW_STATES \cup _PIPELINE_STATES /\ rows[r].bronze # Null

\* The newest row of each mode, as get_latest_snapshot_run and get_latest_cdc_run
\* return it, if reconcile_u2m_sync_run does not leave it alone.
Copy(m) ==
    IF \E r \in Latest(m) : Reconcilable(r)
    THEN LET r == CHOOSE r \in Latest(m) : TRUE IN <<[run |-> r, bronze |-> rows[r].bronze]>>
    ELSE <<>>

\* Goes on with the rows left; after the last one the poll is over.
Polling(copies) ==
    IF copies = <<>> THEN NoPoll ELSE [pc |-> "lookup", copies |-> copies, verdict |-> "none"]

sync_status ==
    /\ poll.pc = "free"
    /\ Copy("snapshot") \o Copy("cdc") # <<>>
    /\ poll' = Polling(Copy("snapshot") \o Copy("cdc"))
    /\ UNCHANGED <<settings, daily, full, rows, lastRun, thread, databricks, faults>>

_reconcile_workflow_run(copy) ==
    CASE wf[copy.run].state = "success" -> "complete"
      [] wf[copy.run].state = "failed" -> "failed"
      [] OTHER -> "none"

\* Run i completed an update of Pipeline B that was started after run r was.
CompletedSince(i, r) == upd[i]["B"].state = "completed" /\ upd[i]["B"].born >= r

\* The update the row names is looked up on both pipelines.
Update(copy) == upd[copy.run][copy.bronze].state

\* Seeded bug: the snapshot pipeline's update alone completes the run.
ReconcileSnapshotAlone(copy) ==
    IF Update(copy) = "failed" THEN "failed"
    ELSE IF Update(copy) = "completed" THEN "complete" ELSE "none"

\* A completed update of Pipeline A completes the run only if some update of
\* Pipeline B, of whatever run, has completed since the run was created.
_reconcile_pipeline_run(copy) ==
    IF Update(copy) = "failed" THEN "failed"
    ELSE IF Update(copy) = "completed"
            /\ (copy.bronze = "A" => \E i \in Created : CompletedSince(i, copy.run))
    THEN "complete" ELSE "none"

\* Databricks is asked about the row as it was read.
Reconcile ==
    LET copy == Head(poll.copies) IN
    /\ poll.pc = "lookup"
    /\ LET v == IF copy.bronze = "W" THEN _reconcile_workflow_run(copy)
                ELSE _reconcile_pipeline_run(copy)
       IN  poll' = IF v = "none" THEN Polling(Tail(poll.copies))
                   ELSE [poll EXCEPT !.pc = "write", !.verdict = v]
    /\ UNCHANGED <<settings, daily, full, rows, lastRun, thread, databricks, faults>>

\* Databricks could not be asked, or the row was looked at within the last minute.
ReconcileSkip ==
    /\ poll.pc = "lookup"
    /\ poll' = Polling(Tail(poll.copies))
    /\ UNCHANGED <<settings, daily, full, rows, lastRun, thread, databricks, faults>>

\* _complete_u2m_run, _fail_u2m_run: the row's state by now is not looked at.
ReconcileWrite ==
    LET r == Head(poll.copies).run IN
    /\ poll.pc = "write"
    /\ rows' = Write(r, poll.verdict, rows[r].bronze)
    /\ poll' = IF poll.verdict = "complete" THEN [poll EXCEPT !.pc = "commit"]
               ELSE Polling(Tail(poll.copies))
    /\ UNCHANGED <<settings, daily, full, lastRun, thread, databricks, faults>>

ReconcileCommit ==
    LET r == Head(poll.copies).run IN
    /\ poll.pc = "commit"
    /\ Watermarks(rows[r].mode)
    /\ poll' = Polling(Tail(poll.copies))
    /\ UNCHANGED <<settings, daily, rows, lastRun, thread, databricks, faults>>

\* Seeded bug: old rows that have ended are reaped as well.
ReapAll == {r \in Created : rows[r].stale \/ Ended(r)}

\* Seeded bug: only rows of the job phase are reaped.
ReapJobs == {r \in Created : rows[r].stale /\ rows[r].state \in _PIPELINE_STATES \cup _WORKFLOW_STATES}

\* The rows has_in_flight_sync_run marks failed.
Stale == {r \in Created : rows[r].stale /\ ~Ended(r)}

\* The last step of a status poll, and the only one when nothing is to be reconciled.
has_in_flight_sync_run ==
    /\ poll.pc = "free" /\ Stale # {}
    /\ rows' = [r \in RunIds |-> IF r \in Stale
                   THEN [rows[r] EXCEPT !.state = "failed", !.stale = FALSE] ELSE rows[r]]
    /\ UNCHANGED <<settings, daily, full, lastRun, thread, poll, databricks, faults>>

-----------------------------------------------------------------------------
(* Faults, time and Databricks (external) *)

\* The process is restarted: its threads and the poll are gone.
Restart ==
    /\ faults < MaxFaults /\ faults' = faults + 1
    /\ thread' = [t \in Threads |-> Idle]
    /\ poll' = NoPoll
    /\ UNCHANGED <<settings, daily, full, rows, lastRun, databricks>>

\* A write nothing retries is refused: "running", before the try block, or
\* "failed", in the except clause.
WriteLost(t) ==
    /\ thread[t].pc \in Export
    /\ faults < MaxFaults /\ faults' = faults + 1
    /\ thread' = [thread EXCEPT ![t] = Idle]
    /\ UNCHANGED <<settings, daily, full, rows, lastRun, poll, databricks>>

\* Nothing moves for two hours; of rows that have ended the age is not kept.
TwoHoursPass ==
    /\ \E r \in Created : ~Ended(r) /\ ~rows[r].stale
    /\ rows' = [r \in RunIds |-> IF r \in Created /\ ~Ended(r)
                   THEN [rows[r] EXCEPT !.stale = TRUE] ELSE rows[r]]
    /\ UNCHANGED <<settings, daily, full, lastRun, thread, poll, databricks, faults>>

\* The next task of a workflow; the downloads before it touch no pipeline.
WorkflowTask(r) ==
    LET p == Head(wf[r].todo) IN
    /\ wf[r].state = "running" /\ wf[r].todo # <<>>
    /\ \A q \in Pipes : upd[r][q].state # "active"
    /\ IF PipelineBusy(p)
       THEN wf' = [wf EXCEPT ![r] = [state |-> "failed", todo |-> <<>>]] /\ UNCHANGED upd
       ELSE /\ wf' = [wf EXCEPT ![r].todo = Tail(wf[r].todo)]
            /\ upd' = [upd EXCEPT ![r][p] = Started]
    /\ UNCHANGED <<settings, daily, full, rows, lastRun, thread, poll, faults>>

UpdateEnds(r, p, ok) ==
    /\ upd[r][p].state = "active"
    /\ upd' = [upd EXCEPT ![r][p].state = IF ok THEN "completed" ELSE "failed"]
    /\ wf' = IF wf[r].state # "running" THEN wf
             ELSE IF ~ok THEN [wf EXCEPT ![r] = [state |-> "failed", todo |-> <<>>]]
             ELSE IF wf[r].todo = <<>> THEN [wf EXCEPT ![r].state = "success"] ELSE wf
    /\ UNCHANGED <<settings, daily, full, rows, lastRun, thread, poll, faults>>

ThreadStep(t) ==
    \/ Refused(t) \/ create_sync_run(t)
    \/ DcExport(t) \/ Upload(t) \/ Trigger(t) \/ StartWorkflow(t) \/ StartUpdate(t) \/ StartRefused(t) \/ Record(t)
    \/ PollSuccess(t) \/ PollGivesUp(t) \/ Complete(t) \/ Commit(t)

PollStep ==
    \/ sync_status \/ Reconcile \/ ReconcileSkip \/ ReconcileWrite \/ ReconcileCommit
    \/ has_in_flight_sync_run

Next ==
    \/ \E enabled \in BOOLEAN : sync_auto(enabled)
    \/ \E t \in Threads :
          \/ \E m \in Modes : start_sync(t, m)
          \/ ThreadStep(t) \/ Fail(t) \/ WriteLost(t)
    \/ PollStep
    \/ Restart \/ TwoHoursPass
    \/ \E r \in RunIds :
          \/ WorkflowTask(r)
          \/ \E p \in Pipes, ok \in BOOLEAN : UpdateEnds(r, p, ok)

Spec == Init /\ [][Next]_vars

\* A thread that was started runs until it returns, somebody keeps the status
\* page open (every poll ends with the reaper), and time passes.  Nothing is
\* assumed of Databricks, nor of requests.
FairSpec ==
    /\ Spec /\ \A t \in Threads : WF_vars(ThreadStep(t))
    /\ WF_vars(PollStep) /\ SF_vars(has_in_flight_sync_run) /\ WF_vars(TwoHoursPass)

-----------------------------------------------------------------------------
(* Properties *)

\* A run that is complete has had its rows ingested by Pipeline B, with one
\* exception: a snapshot run that lost its thread after Pipeline A, and that the
\* reconciler completed on a Pipeline B update of another run.
CompleteMeansIngested ==
    \A r \in Created : rows[r].state = "complete" =>
        \/ upd[r]["B"].state = "completed"
        \/ /\ rows[r].mode = "snapshot" /\ upd[r]["A"].state = "completed"
           /\ \E i \in Created \ {r} : CompletedSince(i, r)

\* A CDC run reaches Pipeline B only after a snapshot baseline was ingested there:
\* Auto CDC can only be enabled after a complete snapshot run, and neither the
\* reconciler's exception above nor a row that changes afterwards breaks that.
CdcAfterBaseline ==
    \A r \in Created : rows[r].mode = "cdc" /\ upd[r]["B"].state # "none" =>
        \/ baseline
        \/ \E i \in Created : rows[i].mode = "snapshot" /\ upd[i]["B"].state = "completed"

\* The state of a row that has ended is changed only by its own thread, when that
\* was slow but alive, or by a status poll that had read the row before it ended.
\* Neither the reaper nor another run touches it.
EndedIsLeftAlone ==
    [][\A r \in Created : Ended(r) /\ rows'[r].state # rows[r].state =>
          \/ \E t \in Threads : thread[t].run = r
          \/ poll.pc = "write" /\ Head(poll.copies).run = r]_vars

\* Whatever its thread, the process and Databricks do, every run is in a terminal
\* state for good in the end: a row without a thread is reconciled or reaped.
EveryRunSettles == \A r \in RunIds : <>[](r > lastRun \/ Ended(r))

=============================================================================
