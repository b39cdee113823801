--------------------------- MODULE ConnectionSync ---------------------------
(***************************************************************************)
(* Headless (M2M) synchronisation of ACC connections into Databricks.      *)
(*                                                                         *)
(* A worker is one thread of the Flask control plane.  It is either the    *)
(* background thread of a manual sync (connection_routes._start_sync) or   *)
(* the request thread of a scheduler tick (scheduler.scheduled_cdc_tick).  *)
(* Both call connection_runner.run_connection_sync, which drives           *)
(* sync_steps.run_export.  Every action below is one database transaction  *)
(* or one remote call of that code, so the interleavings of the model are  *)
(* those of the threads.                                                   *)
(*                                                                         *)
(* Databricks is external: a run has at most one remote job, which runs    *)
(* its pipeline updates on its own and outlives the thread that polls it.  *)
(***************************************************************************)
EXTENDS Naturals, Sequences, FiniteSets

CONSTANTS
    Connections,        \* connection ids
    Workers,            \* threads of the control plane
    MaxRuns,            \* bound: rows of connection_sync_runs
    MaxTime,            \* bound: last value of the clock
    MaxCrashes,         \* bound: threads or state writes lost to a failure
    CdcInterval,        \* connection_service.CDC_INTERVAL_SEC
    NotebookDownload,   \* sync_config._ENABLE_NOTEBOOK_DOWNLOAD
    Null                \* SQL NULL, Python None

ASSUME BoundsAssumption ==
    /\ MaxRuns \in Nat
    /\ MaxTime \in Nat
    /\ MaxCrashes \in Nat
    /\ CdcInterval \in Nat \ {0}
    /\ NotebookDownload \in BOOLEAN

ASSUME NullAssumption == Null \notin Nat /\ Null \notin Connections /\ Null # "A" /\ Null # "B"

VARIABLES
    conn,       \* connections: [ready, sp, cdc_enabled, next_run_at]
    runs,       \* connection_sync_runs, by run_id
    lastRun,    \* the last run_id handed out
    worker,     \* local state of every thread
    job,        \* the Databricks job of a run
    config,     \* acc.dc_*_path in each pipeline's resource: the run it names
    now,        \* the clock
    crashes,    \* threads and state writes lost so far
    hist        \* history of a run: what its guards had seen at its creation

vars == <<conn, runs, lastRun, worker, job, config, now, crashes, hist>>

-----------------------------------------------------------------------------
(* Types *)

RunIds == 1..MaxRuns
Modes == {"snapshot", "cdc"}
Pipes == {"A", "B"}     \* A: AUTO CDC FROM SNAPSHOT, B: Delta CDC
IN_FLIGHT_STATES == {"pending", "exporting", "downloading", "pipeline_running"}
TERMINAL_STATES == {"success", "failed"}

PreRun == {"entry", "idle", "create"}
Export == {"export", "land", "baseline", "apply", "start", "poll", "complete", "commit"}
Times == 0..(MaxTime + CdcInterval)

Connection == [ready: BOOLEAN, sp: BOOLEAN, cdc_enabled: BOOLEAN,
               next_run_at: Times \cup {Null}]

Run == [conn: Connections, mode: Modes, trigger: {"manual", "scheduled"},
        state: IN_FLIGHT_STATES \cup TERMINAL_STATES]

Worker == [pc: {"free", "tick", "claim"} \cup PreRun \cup Export,
           conn: Connections \cup {Null},
           mode: Modes, trigger: {"manual", "scheduled"},
           run: 0..MaxRuns,         \* 0 until the row exists
           pipe: Pipes,             \* the pipeline the Flask path works on
           due: SUBSET Connections, \* what is left of the tick's due list
           slot: [Connections -> Times \cup {Null}], \* next_run_at as listed
           tick_at: 0..MaxTime,
           seen: 0..MaxRuns]        \* history: lastRun when the guard passed

Tasks == {"download", "A", "B"}
Todo == {<<>>, <<"A">>, <<"B">>, <<"A", "B">>, <<"download", "B">>,
         <<"download", "A", "B">>}
Job == [todo: Todo, active: Pipes \cup {Null},
        result: {"none", "running", "success", "failed"},
        read: SUBSET (0..MaxRuns)]  \* history: whose folder its updates read

History == [seen: 0..MaxRuns, rivals: SUBSET RunIds, slot: Times \cup {Null}]

NoJob == [todo |-> <<>>, active |-> Null, result |-> "none", read |-> {}]
FreeWorker == [pc |-> "free", conn |-> Null, mode |-> "cdc", trigger |-> "manual",
               run |-> 0, pipe |-> "A", due |-> {},
               slot |-> [c \in Connections |-> Null], tick_at |-> 0, seen |-> 0]

-----------------------------------------------------------------------------
(* Helpers *)

Created == 1..lastRun
InFlight(r) == runs[r].state \in IN_FLIGHT_STATES

\* The rows has_in_flight_run selects for a connection.
has_in_flight_run(c) == {r \in Created : runs[r].conn = c /\ InFlight(r)}

\* Runs with an update that Databricks reports as not terminal.
UpdatesOf(c) == {r \in Created : runs[r].conn = c /\ job[r].active # Null}

\* Seeded bug: only the snapshot pipeline is asked.
AssertSnapshotIdle(c) == \A r \in UpdatesOf(c) : job[r].active # "A"

\* pipeline_has_active_update, asked of both pipelines of the connection.
assert_pipelines_idle(c) == UpdatesOf(c) = {}

\* The rows list_due_for_cdc selects at time t.
list_due_for_cdc(t) ==
    {c \in Connections :
        /\ conn[c].ready /\ conn[c].cdc_enabled /\ conn[c].sp
        /\ conn[c].next_run_at # Null => conn[c].next_run_at <= t}

\* A worker whose call of run_connection_sync has returned or raised: a manual
\* thread ends, a tick goes on with the rest of its list.
Returned(w) ==
    LET rest == worker[w].due \ {worker[w].conn}
    IN  IF worker[w].trigger = "manual" \/ rest = {}
        THEN FreeWorker
        ELSE [worker[w] EXCEPT !.pc = "tick", !.conn = Null, !.run = 0, !.due = rest]

Init ==
    /\ conn = [c \in Connections |-> [ready |-> FALSE, sp |-> FALSE,
                                      cdc_enabled |-> FALSE, next_run_at |-> Null]]
    /\ runs = [r \in RunIds |-> Null]
    /\ lastRun = 0
    /\ worker = [w \in Workers |-> FreeWorker]
    /\ job = [r \in RunIds |-> NoJob]
    /\ config = [c \in Connections |-> [p \in Pipes |-> 0]]
    /\ now = 0
    /\ crashes = 0
    /\ hist = [r \in RunIds |-> Null]

-----------------------------------------------------------------------------
(* Setting a connection up, and its schedule *)

\* connection_bootstrap._persist: both pipelines are created or replaced, which
\* drops any per-run path from their configuration, then mark_ready.
BootstrapDone(c) ==
    /\ conn' = [conn EXCEPT ![c].ready = TRUE]
    /\ config' = [config EXCEPT ![c] = [p \in Pipes |-> 0]]
    /\ UNCHANGED <<runs, lastRun, worker, job, now, crashes, hist>>

\* A failed (re-)bootstrap puts the connection back to pending_bootstrap,
\* whether or not a sync of it is running.
BootstrapFailed(c) ==
    /\ conn' = [conn EXCEPT ![c].ready = FALSE]
    /\ UNCHANGED <<runs, lastRun, worker, job, config, now, crashes, hist>>

save_dbx_credentials(c) ==
    /\ ~conn[c].sp
    /\ conn' = [conn EXCEPT ![c].sp = TRUE]
    /\ UNCHANGED <<runs, lastRun, worker, job, config, now, crashes, hist>>

\* The robot-on-project probe may refuse; refusing changes nothing.
enable_cdc(c) ==
    /\ conn[c].ready /\ conn[c].sp
    /\ conn' = [conn EXCEPT ![c].cdc_enabled = TRUE,
                            ![c].next_run_at = now + CdcInterval]
    /\ UNCHANGED <<runs, lastRun, worker, job, config, now, crashes, hist>>

disable_cdc(c) ==
    /\ conn' = [conn EXCEPT ![c].cdc_enabled = FALSE, ![c].next_run_at = Null]
    /\ UNCHANGED <<runs, lastRun, worker, job, config, now, crashes, hist>>

-----------------------------------------------------------------------------
(* A manual request and a scheduler tick *)

\* The route answers 409 while a run is in flight and 400 unless the connection
\* is ready; otherwise the sync runs on a thread of its own.
start_sync(w, c, m) ==
    /\ worker[w].pc = "free"
    /\ has_in_flight_run(c) = {} /\ conn[c].ready
    /\ worker' = [worker EXCEPT ![w] =
                     [FreeWorker EXCEPT !.pc = "entry", !.conn = c, !.mode = m]]
    /\ UNCHANGED <<conn, runs, lastRun, job, config, now, crashes, hist>>

\* A tick reads the clock and the due connections once.
TickList(w) ==
    /\ worker[w].pc = "free"
    /\ list_due_for_cdc(now) # {}
    /\ worker' = [worker EXCEPT ![w] =
                     [FreeWorker EXCEPT !.pc = "tick", !.trigger = "scheduled",
                         !.due = list_due_for_cdc(now), !.tick_at = now,
                         !.slot = [c \in Connections |->
                                     IF c \in list_due_for_cdc(now)
                                     THEN conn[c].next_run_at ELSE Null]]]
    /\ UNCHANGED <<conn, runs, lastRun, job, config, now, crashes, hist>>

\* The tick leaves a connection with a run in flight for the next tick.
TickSkip(w) ==
    /\ worker[w].pc = "tick"
    /\ \E c \in worker[w].due :
          /\ has_in_flight_run(c) # {}
          /\ worker' = [worker EXCEPT ![w] =
                 IF worker[w].due = {c} THEN FreeWorker
                 ELSE [worker[w] EXCEPT !.due = worker[w].due \ {c}]]
    /\ UNCHANGED <<conn, runs, lastRun, job, config, now, crashes, hist>>

TickPick(w) ==
    /\ worker[w].pc = "tick"
    /\ \E c \in worker[w].due :
          /\ has_in_flight_run(c) = {}
          /\ worker' = [worker EXCEPT ![w].pc = "claim", ![w].conn = c]
    /\ UNCHANGED <<conn, runs, lastRun, job, config, now, crashes, hist>>

\* Seeded bug: the interval is added twice.
TickClaimTwice(w) ==
    LET c == worker[w].conn IN
    /\ worker[w].pc = "claim"
    /\ conn' = [conn EXCEPT ![c].cdc_enabled = TRUE,
                            ![c].next_run_at = worker[w].tick_at + CdcInterval + CdcInterval]
    /\ worker' = [worker EXCEPT ![w].pc = "entry"]
    /\ UNCHANGED <<runs, lastRun, job, config, now, crashes, hist>>

\* Seeded bug: the next run time is left for the end of the run.
TickClaimLate(w) ==
    LET c == worker[w].conn IN
    /\ worker[w].pc = "claim"
    /\ conn' = [conn EXCEPT ![c].cdc_enabled = TRUE]
    /\ worker' = [worker EXCEPT ![w].pc = "entry"]
    /\ UNCHANGED <<runs, lastRun, job, config, now, crashes, hist>>

\* The next run time is claimed, and the schedule written as enabled, whatever
\* the row says by now.
TickClaim(w) ==
    LET c == worker[w].conn IN
    /\ worker[w].pc = "claim"
    /\ conn' = [conn EXCEPT ![c].cdc_enabled = TRUE,
                            ![c].next_run_at = worker[w].tick_at + CdcInterval]
    /\ worker' = [worker EXCEPT ![w].pc = "entry"]
    /\ UNCHANGED <<runs, lastRun, job, config, now, crashes, hist>>

-----------------------------------------------------------------------------
(* run_connection_sync and run_export *)

\* Seeded bug: the runner leaves the in-flight guard to its callers.
AdmitUnguarded(w) ==
    /\ worker[w].pc = "entry"
    /\ conn[worker[w].conn].ready
    /\ worker' = [worker EXCEPT ![w].pc = "idle", ![w].seen = lastRun]
    /\ UNCHANGED <<conn, runs, lastRun, job, config, now, crashes, hist>>

\* The runner's own readiness test and in-flight guard.
Admit(w) ==
    /\ worker[w].pc = "entry"
    /\ conn[worker[w].conn].ready
    /\ has_in_flight_run(worker[w].conn) = {}
    /\ worker' = [worker EXCEPT ![w].pc = "idle", ![w].seen = lastRun]
    /\ UNCHANGED <<conn, runs, lastRun, job, config, now, crashes, hist>>

\* _resolve_token (a person's token only for a manual run), then
\* assert_pipelines_idle.
CheckIdle(w) ==
    /\ worker[w].pc = "idle"
    /\ conn[worker[w].conn].sp \/ worker[w].trigger = "manual"
    /\ assert_pipelines_idle(worker[w].conn)
    /\ worker' = [worker EXCEPT ![w].pc = "create"]
    /\ UNCHANGED <<conn, runs, lastRun, job, config, now, crashes, hist>>

\* SyncNotReady, SyncInFlight, SyncNotAuthorised, "Sync blocked", or a failed
\* remote call before there is a run row to mark.
Refused(w) ==
    /\ worker[w].pc \in PreRun
    /\ worker' = [worker EXCEPT ![w] = Returned(w)]
    /\ UNCHANGED <<conn, runs, lastRun, job, config, now, crashes, hist>>

create_run(w) ==
    LET c == worker[w].conn
        r == lastRun + 1 IN
    /\ worker[w].pc = "create"
    /\ lastRun < MaxRuns
    /\ lastRun' = r
    /\ runs' = [runs EXCEPT ![r] = [conn |-> c, mode |-> worker[w].mode,
                                    trigger |-> worker[w].trigger,
                                    state |-> "pending"]]
    /\ hist' = [hist EXCEPT ![r] = [seen |-> worker[w].seen,
                                    rivals |-> has_in_flight_run(c) \cup UpdatesOf(c),
                                    slot |-> worker[w].slot[c]]]
    /\ worker' = [worker EXCEPT ![w].pc = "export", ![w].run = r,
                                ![w].pipe = IF worker[w].mode = "snapshot" THEN "A" ELSE "B"]
    /\ UNCHANGED <<conn, job, config, now, crashes>>

\* A step of run_export at program point `from` that records run state `s`.
Step(w, from, s, to) ==
    /\ worker[w].pc = from
    /\ runs' = [runs EXCEPT ![worker[w].run].state = s]
    /\ worker' = [worker EXCEPT ![w].pc = to]

run_dc_job(w) ==
    /\ Step(w, "export", "exporting", "land")
    /\ UNCHANGED <<conn, lastRun, job, config, now, crashes, hist>>

\* Files into the volume, then the registry seed, whose errors are swallowed.
land_files(w) ==
    /\ Step(w, "land", "downloading",
            IF worker[w].mode = "snapshot" THEN "baseline" ELSE "apply")
    /\ UNCHANGED <<conn, lastRun, job, config, now, crashes, hist>>

\* Snapshot only: the cdc baseline is exported and landed too.
land_baseline(w) ==
    /\ Step(w, "baseline", "downloading", "apply")
    /\ UNCHANGED <<conn, lastRun, job, config, now, crashes, hist>>

\* Seeded bug: a pipeline that has a path keeps it.
ApplyOnce(w) ==
    LET c == worker[w].conn
        p == worker[w].pipe IN
    /\ Step(w, "apply", "pipeline_running", "start")
    /\ config' = [config EXCEPT ![c][p] = IF config[c][p] = 0 THEN worker[w].run ELSE config[c][p]]
    /\ UNCHANGED <<conn, lastRun, job, now, crashes, hist>>

\* The run's folder goes into the configuration of the pipeline about to be
\* updated (Flask path) or of every pipeline of the workflow (notebook path).
apply_pipeline_configuration(w) ==
    LET pipes == IF ~NotebookDownload THEN {worker[w].pipe}
                 ELSE IF worker[w].mode = "snapshot" THEN Pipes ELSE {"B"} IN
    /\ Step(w, "apply", "pipeline_running", "start")
    /\ config' = [config EXCEPT ![worker[w].conn] =
                     [p \in Pipes |-> IF p \in pipes THEN worker[w].run ELSE config[worker[w].conn][p]]]
    /\ UNCHANGED <<conn, lastRun, job, now, crashes, hist>>

\* A workflow admits one run at a time (max_concurrent_runs): the next is skipped.
WorkflowBusy(c, m) ==
    \E r \in Created : runs[r].conn = c /\ runs[r].mode = m /\ job[r].result = "running"

\* Databricks runs one update of a pipeline at a time.
PipelineBusy(c, p) == \E r \in UpdatesOf(c) : job[r].active = p

\* start_pipeline_update, or run-now of the workflow, whose first tasks download.
start_pipeline_update(w) ==
    LET r == worker[w].run
        p == worker[w].pipe IN
    /\ NotebookDownload \/ ~PipelineBusy(worker[w].conn, p)
    /\ Step(w, "start", "pipeline_running", "poll")
    /\ job' = [job EXCEPT ![r] =
          IF NotebookDownload /\ WorkflowBusy(worker[w].conn, worker[w].mode)
          THEN [job[r] EXCEPT !.result = "failed"]
          ELSE IF NotebookDownload
          THEN [job[r] EXCEPT !.result = "running", !.todo =
                   IF worker[w].mode = "snapshot" THEN <<"download", "A", "B">>
                   ELSE <<"download", "B">>]
          ELSE [job[r] EXCEPT !.result = "running", !.active = p,
                   !.read = job[r].read \cup {config[worker[w].conn][p]}]]
    /\ UNCHANGED <<conn, lastRun, config, now, crashes, hist>>

\* The poll sees success: on to Pipeline B after A, else to completion.
PollSuccess(w) ==
    /\ worker[w].pc = "poll"
    /\ job[worker[w].run].result = "success"
    /\ worker' = [worker EXCEPT ![w] =
          IF ~NotebookDownload /\ worker[w].pipe = "A"
          THEN [worker[w] EXCEPT !.pc = "apply", !.pipe = "B"]
          ELSE [worker[w] EXCEPT !.pc = "complete"]]
    /\ UNCHANGED <<conn, runs, lastRun, job, config, now, crashes, hist>>

Complete(w) ==
    /\ Step(w, "complete", "success", "commit")
    /\ UNCHANGED <<conn, lastRun, job, config, now, crashes, hist>>

\* commit_watermarks ends the run (its keys are the subject of SyncWindow).
Commit(w) ==
    /\ worker[w].pc = "commit"
    /\ worker' = [worker EXCEPT ![w] = Returned(w)]
    /\ UNCHANGED <<conn, runs, lastRun, job, config, now, crashes, hist>>

\* Seeded bug: the exception leaves the run as it is.
FailRunUnmarked(w) ==
    /\ worker' = [worker EXCEPT ![w] = Returned(w)]
    /\ UNCHANGED <<conn, runs, lastRun, job, config, now, crashes, hist>>

\* The except clause: the run is marked failed and the error raised again.
FailRun(w) ==
    /\ runs' = [runs EXCEPT ![worker[w].run].state = "failed"]
    /\ worker' = [worker EXCEPT ![w] = Returned(w)]
    /\ UNCHANGED <<conn, lastRun, job, config, now, crashes, hist>>

\* Any step may raise, the commit of the watermarks included.
Fail(w) == worker[w].pc \in Export /\ FailRun(w)

StartRefused(w) ==
    /\ worker[w].pc = "start"
    /\ ~NotebookDownload /\ PipelineBusy(worker[w].conn, worker[w].pipe)
    /\ FailRun(w)

\* Seeded bug: the poll has no wait limit.
PollForever(w) ==
    /\ worker[w].pc = "poll"
    /\ job[worker[w].run].result = "failed"
    /\ FailRun(w)

\* The poll sees a failed job, or its wait limit passes while the job goes on.
PollGivesUp(w) ==
    /\ worker[w].pc = "poll"
    /\ job[worker[w].run].result # "success"
    /\ FailRun(w)

\* The process is restarted under the thread.
Crash(w) ==
    /\ worker[w].pc # "free"
    /\ crashes < MaxCrashes
    /\ crashes' = crashes + 1
    /\ worker' = [worker EXCEPT ![w] = FreeWorker]
    /\ UNCHANGED <<conn, runs, lastRun, job, config, now, hist>>

\* The database refuses a write of the run's state that nothing retries: "running",
\* written before the try block, or "failed", written in its except clause.
WriteLost(w) ==
    /\ worker[w].pc \in Export
    /\ crashes < MaxCrashes
    /\ crashes' = crashes + 1
    /\ worker' = [worker EXCEPT ![w] = Returned(w)]
    /\ UNCHANGED <<conn, runs, lastRun, job, config, now, hist>>

-----------------------------------------------------------------------------
(* Databricks (external) and time *)

\* The next task of a workflow: the downloads end, or a pipeline update starts
\* and reads the folder named by the pipeline's configuration.
JobTask(r) ==
    /\ r \in Created
    /\ job[r].result = "running" /\ job[r].active = Null /\ job[r].todo # <<>>
    /\ LET t == Head(job[r].todo)
           rest == Tail(job[r].todo) IN
       job' = [job EXCEPT ![r] =
          IF t = "download" THEN [job[r] EXCEPT !.todo = rest]
          ELSE IF PipelineBusy(runs[r].conn, t)
          THEN [job[r] EXCEPT !.todo = <<>>, !.result = "failed"]
          ELSE [job[r] EXCEPT !.todo = rest, !.active = t,
                   !.read = job[r].read \cup {config[runs[r].conn][t]}]]
    /\ UNCHANGED <<conn, runs, lastRun, worker, config, now, crashes, hist>>

UpdateCompleted(r) ==
    /\ job[r].active # Null
    /\ job' = [job EXCEPT ![r].active = Null,
                          ![r].result = IF job[r].todo = <<>> THEN "success" ELSE "running"]
    /\ UNCHANGED <<conn, runs, lastRun, worker, config, now, crashes, hist>>

JobFailed(r) ==
    /\ job[r].result = "running"
    /\ job' = [job EXCEPT ![r].active = Null, ![r].todo = <<>>, ![r].result = "failed"]
    /\ UNCHANGED <<conn, runs, lastRun, worker, config, now, crashes, hist>>

Tock ==
    /\ now < MaxTime
    /\ now' = now + 1
    /\ UNCHANGED <<conn, runs, lastRun, worker, job, config, crashes, hist>>

WorkerStep(w) ==
    \/ TickSkip(w) \/ TickPick(w) \/ TickClaim(w)
    \/ Admit(w) \/ CheckIdle(w) \/ Refused(w) \/ create_run(w)
    \/ run_dc_job(w) \/ land_files(w) \/ land_baseline(w)
    \/ apply_pipeline_configuration(w) \/ start_pipeline_update(w)
    \/ StartRefused(w) \/ PollSuccess(w) \/ PollGivesUp(w) \/ Complete(w) \/ Commit(w)

Next ==
    \/ \E c \in Connections :
          \/ BootstrapDone(c) \/ BootstrapFailed(c) \/ save_dbx_credentials(c)
          \/ enable_cdc(c) \/ disable_cdc(c)
    \/ \E w \in Workers :
          \/ \E c \in Connections, m \in Modes : start_sync(w, c, m)
          \/ TickList(w) \/ WorkerStep(w) \/ Fail(w) \/ Crash(w) \/ WriteLost(w)
    \/ \E r \in RunIds : JobTask(r) \/ UpdateCompleted(r) \/ JobFailed(r)
    \/ Tock

Spec == Init /\ [][Next]_vars

\* A thread that was started runs until it returns.  Nothing is assumed of
\* requests, of Databricks, of errors or of crashes.
FairSpec == Spec /\ \A w \in Workers : WF_vars(WorkerStep(w))

-----------------------------------------------------------------------------
(* Properties *)

\* The type invariant: rows, threads, jobs and pipeline configurations.
TypeOK ==
    /\ conn \in [Connections -> Connection]
    /\ lastRun \in 0..MaxRuns
    /\ DOMAIN runs = RunIds /\ \A r \in Created : runs[r] \in Run
    /\ DOMAIN hist = RunIds /\ \A r \in Created : hist[r] \in History
    /\ worker \in [Workers -> Worker]
    /\ job \in [RunIds -> Job]
    /\ config \in [Connections -> [Pipes -> 0..MaxRuns]]
    /\ now \in 0..MaxTime
    /\ crashes \in 0..MaxCrashes

\* Two runs of one connection that are in flight together passed the in-flight
\* guard before either of them had a row: the guard of run j ran when only the
\* runs 1..seen existed, and every earlier run still in flight came after that.
\* This is exactly what has_in_flight_run guarantees, checked as it is in a
\* transaction of its own before create_run.
OverlapOnlyInGuardWindow ==
    \A i, j \in Created :
        (i < j /\ runs[i].conn = runs[j].conn /\ InFlight(i) /\ InFlight(j))
            => i > hist[j].seen

\* On the Flask download path two pipeline updates of one connection are active
\* together only for runs that raced through the guard, so an update left
\* behind by a timed out run never meets one of a later run: the later run's
\* assert_pipelines_idle has waited it out.
CollideOnlyInGuardWindow ==
    ~NotebookDownload =>
        \A i, j \in Created :
            (i < j /\ runs[i].conn = runs[j].conn
                /\ job[i].active # Null /\ job[j].active # Null)
                    => i > hist[j].seen

\* Runs of which one was in flight, or had an active update, when the other's
\* row was created.
Overlapped(i, j) == i \in hist[j].rivals \/ j \in hist[i].rivals

\* On the Flask path a pipeline update ingests the folder of its own run, or the
\* defaults of a bootstrap, unless the run whose folder it reads overlapped it:
\* apply_pipeline_configuration and start_pipeline_update are two calls on a
\* resource shared by all runs of the connection.
ReadsOwnFolder ==
    ~NotebookDownload =>
        \A r \in Created : \A i \in job[r].read \ {0, r} : i \in Created /\ Overlapped(i, r)

\* A run that is in flight although no thread executes it was orphaned by a
\* failure, a restart or a lost state write: each leaves at most one such run, and
\* no exception, refusal or time limit does.
OrphansComeFromCrashes ==
    Cardinality({r \in Created : InFlight(r)
                    /\ \A w \in Workers : worker[w].run # r}) <= crashes

\* No two scheduled runs answer the same due time of a connection.
OneRunPerDueTime ==
    \A i, j \in Created :
        (i # j /\ runs[i].conn = runs[j].conn
            /\ runs[i].trigger = "scheduled" /\ runs[j].trigger = "scheduled")
                => hist[i].slot # hist[j].slot

\* Unless a thread or a write of its state is lost, every run ends, even when its
\* Databricks job hangs: the wait limit of the poll turns that into a failed run.
\* (There are finitely many runs, so it is enough that none is in flight again and again.)
EveryRunEnds ==
    []<>(crashes > 0 \/ \A r \in Created : ~InFlight(r))
=============================================================================
