------------------------ MODULE ConnectionSyncProofs ------------------------
(***************************************************************************)
(* What the in-flight guard of the M2M runner guarantees, for any number   *)
(* of connections, threads, runs and crashes and on both download paths.   *)
(*                                                                         *)
(* OverlapOnlyInGuardWindow is not inductive.  The argument needs three    *)
(* facts: a thread inside run_export owns its run, no other thread does,   *)
(* and the run is in flight until the thread completes it (Owned); when    *)
(* the guard has passed, no run that existed then is in flight again       *)
(* (Guarded, for the thread); and this still holds once the thread has     *)
(* turned what it saw into a row (Guarded, for the row).                   *)
(***************************************************************************)
EXTENDS ConnectionSync, FiniteSetTheorems, TLAPS

\* A run in one of the in-flight states.
Going(row) == row.state \in IN_FLIGHT_STATES

\* A thread in state x, with the runs rs[1..n], works on a connection; inside
\* run_export it has a run of that connection, going until it is completed.
OwnsWell(x, rs, n) ==
    /\ x.pc \in {"claim"} \cup PreRun \cup Export => x.conn \in Connections
    /\ x.pc \notin Export => x.run = 0
    /\ x.pc \in Export => x.run \in 1..n /\ rs[x.run].conn = x.conn
    /\ x.pc \in Export \ {"commit"} => Going(rs[x.run])

\* No two threads have the same run.
Owned ==
    /\ \A w \in Workers : OwnsWell(worker[w], runs, lastRun)
    /\ \A v, w \in Workers :
          (v # w /\ worker[v].pc \in Export /\ worker[w].pc \in Export)
              => worker[v].run # worker[w].run

\* Of the runs rs[1..n], none of the first k is a run of c that is going.
NoneUpTo(k, c, rs, n) ==
    \A i \in 1..n : i <= k /\ rs[i].conn = c => ~Going(rs[i])

\* What the guard saw stays true: for a thread that is about to make a run, and
\* for the run it made.
Guarded ==
    /\ \A w \in Workers : worker[w].pc \in {"idle", "create"} =>
          worker[w].seen <= lastRun
          /\ NoneUpTo(worker[w].seen, worker[w].conn, runs, lastRun)
    /\ \A j \in Created :
          hist[j].seen < j /\ NoneUpTo(hist[j].seen, runs[j].conn, runs, lastRun)

IInv == TypeOK /\ Owned /\ Guarded

-----------------------------------------------------------------------------
(* Facts about the pieces *)

\* Taking the first task off a job's list leaves a list of tasks.
LEMMA TodoTail ==
    ASSUME NEW t \in Todo, t # <<>>
    PROVE  Tail(t) \in Todo /\ Head(t) \in Tasks
<1>1. CASE t = <<"A">>  BY <1>1 DEF Todo, Tasks
<1>2. CASE t = <<"B">>  BY <1>2 DEF Todo, Tasks
<1>3. CASE t = <<"A", "B">>
  <2>1. Tail(t) = <<"B">> /\ Head(t) = "A"  BY <1>3
  <2>2. QED  BY <2>1 DEF Todo, Tasks
<1>4. CASE t = <<"download", "B">>
  <2>1. Tail(t) = <<"B">> /\ Head(t) = "download"  BY <1>4
  <2>2. QED  BY <2>1 DEF Todo, Tasks
<1>5. CASE t = <<"download", "A", "B">>
  <2>1. Tail(t) = <<"A", "B">> /\ Head(t) = "download"  BY <1>5
  <2>2. QED  BY <2>1 DEF Todo, Tasks
<1>6. QED  BY <1>1, <1>2, <1>3, <1>4, <1>5 DEF Todo

\* A free thread is a well-formed thread.
LEMMA FreeType == FreeWorker \in Worker
BY BoundsAssumption DEF FreeWorker, Worker, Modes, Pipes, PreRun, Export, Times

\* A thread that returns owns no run and is free, or a tick with a shorter list.
LEMMA ReturnedType ==
    ASSUME NEW w \in Workers, worker[w] \in Worker
    PROVE  /\ Returned(w) \in Worker
           /\ Returned(w).pc \in {"free", "tick"}
           /\ Returned(w).run = 0
<1>1. FreeWorker \in Worker /\ FreeWorker.pc = "free" /\ FreeWorker.run = 0
  BY FreeType DEF FreeWorker
<1> DEFINE rest == worker[w].due \ {worker[w].conn}
<1> DEFINE t == [worker[w] EXCEPT !.pc = "tick", !.conn = Null, !.run = 0, !.due = rest]
<1>2. t \in Worker /\ t.pc = "tick" /\ t.run = 0
  <2>1. 0 \in 0..MaxRuns  BY BoundsAssumption
  <2>2. rest \in SUBSET Connections  BY DEF Worker
  <2> HIDE DEF rest
  <2>3. QED  BY <2>1, <2>2 DEF Worker
<1>3. Returned(w) = FreeWorker \/ Returned(w) = t
  BY DEF Returned
<1>4. QED  BY <1>1, <1>2, <1>3

-----------------------------------------------------------------------------
(* The type invariant is preserved *)

\* Every action keeps every variable's type; a thread inside run_export needs to
\* own a run for that, because it writes to the row and the job of its run.
LEMMA TypeStep ==
    ASSUME TypeOK, Owned, Next
    PROVE  TypeOK'
<1> USE BoundsAssumption
<1>a. /\ conn \in [Connections -> Connection] /\ lastRun \in 0..MaxRuns
      /\ job \in [RunIds -> Job] /\ worker \in [Workers -> Worker]
      /\ config \in [Connections -> [Pipes -> 0..MaxRuns]]
      /\ now \in 0..MaxTime
  BY DEF TypeOK
<1>b. \A w \in Workers : worker[w] \in Worker  BY <1>a
<1>c. DOMAIN runs = RunIds /\ \A r \in Created : runs[r] \in Run  BY DEF TypeOK
<1> USE <1>a, <1>b, <1>c
<1>1. ASSUME NEW c \in Connections, BootstrapDone(c)  PROVE TypeOK'
  <2>1. [conn[c] EXCEPT !.ready = TRUE] \in Connection  BY DEF Connection
  <2>2. conn' \in [Connections -> Connection]  BY <2>1, <1>1 DEF BootstrapDone
  <2>3. config' \in [Connections -> [Pipes -> 0..MaxRuns]]  BY <1>1 DEF BootstrapDone
  <2>4. QED  BY <2>2, <2>3, <1>1 DEF TypeOK, BootstrapDone, Created
<1>2. ASSUME NEW c \in Connections, BootstrapFailed(c)  PROVE TypeOK'
  BY <1>2 DEF TypeOK, BootstrapFailed, Connection, Created, RunIds, Times
<1>3. ASSUME NEW c \in Connections, save_dbx_credentials(c)  PROVE TypeOK'
  BY <1>3 DEF TypeOK, save_dbx_credentials, Connection, Created, RunIds, Times
<1>4. ASSUME NEW c \in Connections, enable_cdc(c)  PROVE TypeOK'
  <2>1. now + CdcInterval \in Times  BY DEF Times
  <2>2. [conn[c] EXCEPT !.cdc_enabled = TRUE, !.next_run_at = now + CdcInterval]
          \in Connection
    BY <2>1 DEF Connection
  <2>3. conn' \in [Connections -> Connection]  BY <2>2, <1>4 DEF enable_cdc
  <2>4. QED  BY <2>3, <1>4 DEF TypeOK, enable_cdc, Created
<1>5. ASSUME NEW c \in Connections, disable_cdc(c)  PROVE TypeOK'
  BY <1>5, ZenonT(30) DEF TypeOK, disable_cdc, Connection, Created, RunIds, Times
<1>6. ASSUME NEW w \in Workers, NEW c \in Connections, NEW m \in Modes, start_sync(w, c, m)
      PROVE TypeOK'
  <2>1. [FreeWorker EXCEPT !.pc = "entry", !.conn = c, !.mode = m] \in Worker
    BY FreeType DEF Worker, PreRun
  <2>2. QED  BY <2>1, <1>6 DEF TypeOK, start_sync, Created
<1>7. ASSUME NEW w \in Workers, TickList(w)  PROVE TypeOK'
  <2> DEFINE slot == [c \in Connections |->
                        IF c \in list_due_for_cdc(now) THEN conn[c].next_run_at ELSE Null]
  <2>1. slot \in [Connections -> Times \cup {Null}]  BY DEF Connection
  <2>2. list_due_for_cdc(now) \in SUBSET Connections  BY DEF list_due_for_cdc
  <2>3. now \in 0..MaxTime  OBVIOUS
  <2> HIDE DEF slot
  <2>4. [FreeWorker EXCEPT !.pc = "tick", !.trigger = "scheduled",
            !.due = list_due_for_cdc(now), !.tick_at = now, !.slot = slot] \in Worker
    BY <2>1, <2>2, <2>3, FreeType DEF Worker
  <2>5. QED  BY <2>4, <1>7 DEF TypeOK, TickList, Created, slot
<1>8. ASSUME NEW w \in Workers, TickSkip(w)  PROVE TypeOK'
  <2>1. PICK c \in worker[w].due :
           worker' = [worker EXCEPT ![w] = IF worker[w].due = {c} THEN FreeWorker
                         ELSE [worker[w] EXCEPT !.due = worker[w].due \ {c}]]
    BY <1>8 DEF TickSkip
  <2>2. worker[w].due \ {c} \in SUBSET Connections  BY DEF Worker
  <2> DEFINE d == worker[w].due \ {c}
  <2> HIDE DEF d
  <2>5. [worker[w] EXCEPT !.due = d] \in Worker  BY <2>2, ZenonT(30) DEF Worker, d
  <2>3. worker' \in [Workers -> Worker]  BY <2>1, <2>5, FreeType DEF d
  <2>4. QED  BY <2>3, <1>8 DEF TypeOK, TickSkip, Created
<1>9. ASSUME NEW w \in Workers, TickPick(w)  PROVE TypeOK'
  <2>1. PICK c \in worker[w].due :
           worker' = [worker EXCEPT ![w].pc = "claim", ![w].conn = c]
    BY <1>9 DEF TickPick
  <2>2. c \in Connections  BY DEF Worker
  <2>5. [worker[w] EXCEPT !.pc = "claim", !.conn = c] \in Worker  BY <2>2, ZenonT(30) DEF Worker
  <2>3. worker' \in [Workers -> Worker]  BY <2>1, <2>5
  <2>4. QED  BY <2>3, <1>9 DEF TypeOK, TickPick, Created
<1>10. ASSUME NEW w \in Workers, TickClaim(w)  PROVE TypeOK'
  <2>1. [worker[w] EXCEPT !.pc = "entry"] \in Worker  BY ZenonT(30) DEF Worker, PreRun
  <2>2. worker[w].tick_at + CdcInterval \in Times  BY DEF Worker, Times
  <2>3. conn' \in [Connections -> Connection]
    BY <2>2, <1>10, ZenonT(30) DEF TickClaim, Connection
  <2>4. QED  BY <2>1, <2>3, <1>10 DEF TypeOK, TickClaim, Created
<1>11. ASSUME NEW w \in Workers, Admit(w)  PROVE TypeOK'
  <2>1. [worker[w] EXCEPT !.pc = "idle", !.seen = lastRun] \in Worker  BY ZenonT(30) DEF Worker, PreRun
  <2>2. QED  BY <2>1, <1>11 DEF TypeOK, Admit, Created
<1>12. ASSUME NEW w \in Workers, CheckIdle(w)  PROVE TypeOK'
  <2>1. [worker[w] EXCEPT !.pc = "create"] \in Worker  BY ZenonT(30) DEF Worker, PreRun
  <2>2. QED  BY <2>1, <1>12 DEF TypeOK, CheckIdle, Created
<1>13. ASSUME NEW w \in Workers, Refused(w)  PROVE TypeOK'
  BY <1>13, ReturnedType DEF TypeOK, Refused, Created
<1>14. ASSUME NEW w \in Workers, create_run(w)  PROVE TypeOK'
  <2> DEFINE r == lastRun + 1
             row == [conn |-> worker[w].conn, mode |-> worker[w].mode,
                     trigger |-> worker[w].trigger, state |-> "pending"]
             h == [seen |-> worker[w].seen,
                   rivals |-> has_in_flight_run(worker[w].conn) \cup UpdatesOf(worker[w].conn),
                   slot |-> worker[w].slot[worker[w].conn]]
  <2>1. r \in RunIds /\ Created' = Created \cup {r} /\ r \in 0..MaxRuns
    BY <1>14 DEF create_run, RunIds, Created
  <2>2. worker[w].conn \in Connections  BY <1>14 DEF create_run, Owned, OwnsWell, PreRun
  <2>3. row \in Run  BY <2>2 DEF Run, Worker, IN_FLIGHT_STATES
  <2>4. h \in History
    BY <2>2 DEF History, Worker, has_in_flight_run, UpdatesOf, Created, RunIds
  <2>5. \A p \in Pipes : [worker[w] EXCEPT !.pc = "export", !.run = r, !.pipe = p] \in Worker
    BY <2>1, ZenonT(30) DEF Worker, Export
  <2>6. worker' \in [Workers -> Worker]  BY <2>5, <1>14 DEF create_run, Pipes
  <2> HIDE DEF row, h
  <2>7. runs' = [runs EXCEPT ![r] = row] /\ hist' = [hist EXCEPT ![r] = h]
    BY <1>14 DEF create_run, row, h
  <2>8. QED  BY <2>1, <2>3, <2>4, <2>6, <2>7, <1>14 DEF TypeOK, create_run, RunIds
<1>15. ASSUME NEW w \in Workers, NEW from \in Export, NEW to \in Export,
              NEW st \in IN_FLIGHT_STATES \cup TERMINAL_STATES, Step(w, from, st, to)
       PROVE  /\ runs' = [runs EXCEPT ![worker[w].run].state = st]
              /\ DOMAIN runs' = RunIds
              /\ \A r \in Created : runs'[r] \in Run
              /\ worker' \in [Workers -> Worker]
  <2>1. worker[w].run \in Created  BY <1>15 DEF Step, Owned, OwnsWell, Created
  <2>2. [worker[w] EXCEPT !.pc = to] \in Worker  BY DEF Worker
  <2>3. [runs[worker[w].run] EXCEPT !.state = st] \in Run  BY <2>1 DEF Run
  <2>4. QED  BY <2>1, <2>2, <2>3, <1>15 DEF Step, RunIds, Created
<1>16. ASSUME NEW w \in Workers, run_dc_job(w)  PROVE TypeOK'
  BY <1>15, <1>16 DEF TypeOK, run_dc_job, Export, IN_FLIGHT_STATES, Created
<1>17. ASSUME NEW w \in Workers, land_files(w)  PROVE TypeOK'
  BY <1>15, <1>17 DEF TypeOK, land_files, Export, IN_FLIGHT_STATES, Created
<1>18. ASSUME NEW w \in Workers, land_baseline(w)  PROVE TypeOK'
  BY <1>15, <1>18 DEF TypeOK, land_baseline, Export, IN_FLIGHT_STATES, Created
<1>19. ASSUME NEW w \in Workers, apply_pipeline_configuration(w)  PROVE TypeOK'
  <2>1. worker[w].run \in 0..MaxRuns  BY DEF Worker
  <2>2. config' \in [Connections -> [Pipes -> 0..MaxRuns]]
    BY <2>1, <1>19 DEF apply_pipeline_configuration
  <2>3. QED  BY <2>2, <1>15, <1>19
              DEF TypeOK, apply_pipeline_configuration, Export, IN_FLIGHT_STATES, Created
<1>20. ASSUME NEW w \in Workers, start_pipeline_update(w)  PROVE TypeOK'
  <2> DEFINE r == worker[w].run
  <2>1. r \in Created /\ r \in RunIds /\ worker[w].conn \in Connections
    BY <1>20 DEF start_pipeline_update, Step, Owned, OwnsWell, Export, Created, RunIds, Run
  <2>2. job[r] \in Job /\ worker[w].pipe \in Pipes  BY <2>1 DEF Worker
  <2>3. config[worker[w].conn][worker[w].pipe] \in 0..MaxRuns  BY <2>1, <2>2
  <2>4. [job[r] EXCEPT !.result = "failed"] \in Job  BY <2>2 DEF Job
  <2>5. \A t \in Todo : [job[r] EXCEPT !.result = "running", !.todo = t] \in Job
    BY <2>2 DEF Job
  <2>6. <<"download", "A", "B">> \in Todo /\ <<"download", "B">> \in Todo  BY DEF Todo
  <2>7. \A p \in Pipes, x \in 0..MaxRuns :
           [job[r] EXCEPT !.result = "running", !.active = p, !.read = job[r].read \cup {x}] \in Job
    BY <2>2 DEF Job
  <2>8. job' \in [RunIds -> Job]
    <3>1. PICK j \in Job : job' = [job EXCEPT ![r] = j]
      BY <2>2, <2>3, <2>4, <2>5, <2>6, <2>7, <1>20 DEF start_pipeline_update
    <3>2. QED  BY <3>1, <2>1
  <2>9. QED  BY <2>8, <1>15, <1>20
              DEF TypeOK, start_pipeline_update, Export, IN_FLIGHT_STATES, Created
<1>21. ASSUME NEW w \in Workers, PollSuccess(w)  PROVE TypeOK'
  <2>1. [worker[w] EXCEPT !.pc = "apply", !.pipe = "B"] \in Worker
    BY ZenonT(30) DEF Worker, Export, Pipes
  <2>2. [worker[w] EXCEPT !.pc = "complete"] \in Worker  BY ZenonT(30) DEF Worker, Export
  <2>3. worker' \in [Workers -> Worker]  BY <2>1, <2>2, <1>21 DEF PollSuccess
  <2>4. QED  BY <2>3, <1>21 DEF TypeOK, PollSuccess, Created
<1>22. ASSUME NEW w \in Workers, Complete(w)  PROVE TypeOK'
  BY <1>15, <1>22 DEF TypeOK, Complete, Export, TERMINAL_STATES, Created
<1>23. ASSUME NEW w \in Workers, Commit(w)  PROVE TypeOK'
  BY <1>23, ReturnedType DEF TypeOK, Commit, Created
<1>24. ASSUME NEW w \in Workers, worker[w].pc \in Export, FailRun(w)  PROVE TypeOK'
  <2>1. worker[w].run \in Created  BY <1>24 DEF Owned, OwnsWell, Created
  <2>2. [runs[worker[w].run] EXCEPT !.state = "failed"] \in Run
    BY <2>1 DEF Run, TERMINAL_STATES
  <2>3. QED  BY <2>1, <2>2, ReturnedType, <1>24 DEF TypeOK, FailRun, Created, RunIds
<1>25. ASSUME NEW w \in Workers, Crash(w)  PROVE TypeOK'
  BY <1>25, FreeType DEF TypeOK, Crash, Created
<1>31. ASSUME NEW w \in Workers, WriteLost(w)  PROVE TypeOK'
  BY <1>31, ReturnedType DEF TypeOK, WriteLost, Created
<1>26. ASSUME NEW r \in RunIds, JobTask(r)  PROVE TypeOK'
  <2>1. job[r] \in Job /\ Tail(job[r].todo) \in Todo /\ Head(job[r].todo) \in Tasks
    BY TodoTail, <1>26 DEF JobTask, Job
  <2> DEFINE t == Head(job[r].todo)
             rest == Tail(job[r].todo)
  <2>2. runs[r].conn \in Connections  BY <1>26 DEF JobTask, Run
  <2>3. [job[r] EXCEPT !.todo = rest] \in Job  BY <2>1 DEF Job
  <2>4. [job[r] EXCEPT !.todo = <<>>, !.result = "failed"] \in Job  BY <2>1 DEF Job, Todo
  <2>5. t # "download" => t \in Pipes  BY <2>1 DEF Tasks, Pipes
  <2>6. \A p \in Pipes, x \in 0..MaxRuns :
           [job[r] EXCEPT !.todo = rest, !.active = p, !.read = job[r].read \cup {x}] \in Job
    BY <2>1 DEF Job
  <2>7. t # "download" => config[runs[r].conn][t] \in 0..MaxRuns  BY <2>2, <2>5
  <2> HIDE DEF t, rest
  <2>8. PICK j \in Job : job' = [job EXCEPT ![r] = j]
    <3>1. CASE t = "download"  BY <3>1, <2>3, <1>26 DEF JobTask, t, rest
    <3>2. CASE t # "download" /\ PipelineBusy(runs[r].conn, t)
      BY <3>2, <2>4, <1>26 DEF JobTask, t, rest
    <3>3. CASE t # "download" /\ ~PipelineBusy(runs[r].conn, t)
      <4>1. job' = [job EXCEPT ![r] =
               [job[r] EXCEPT !.todo = rest, !.active = t,
                         !.read = job[r].read \cup {config[runs[r].conn][t]}]]
        BY <3>3, <1>26 DEF JobTask, t, rest
      <4>2. QED  BY <4>1, <3>3, <2>5, <2>6, <2>7
    <3>4. QED  BY <3>1, <3>2, <3>3
  <2>9. QED  BY <2>8, <1>26 DEF TypeOK, JobTask, Created
<1>27. ASSUME NEW r \in RunIds, UpdateCompleted(r)  PROVE TypeOK'
  <2>1. \A x \in {"success", "running"} :
           [job[r] EXCEPT !.active = Null, !.result = x] \in Job
    BY DEF Job
  <2>2. job' \in [RunIds -> Job]  BY <2>1, <1>27 DEF UpdateCompleted
  <2>3. QED  BY <2>2, <1>27 DEF TypeOK, UpdateCompleted, Created
<1>28. ASSUME NEW r \in RunIds, JobFailed(r)  PROVE TypeOK'
  <2>1. [job[r] EXCEPT !.active = Null, !.todo = <<>>, !.result = "failed"] \in Job
    BY DEF Job, Todo
  <2>2. QED  BY <2>1, <1>28 DEF TypeOK, JobFailed, Created
<1>29. CASE Tock
  BY <1>29 DEF TypeOK, Tock, Created
<1>30. QED
  <2>1. ASSUME NEW w \in Workers, WorkerStep(w)  PROVE TypeOK'
    <3>1. worker[w].pc \in Export /\ FailRun(w) => TypeOK'  BY <1>24
    <3>2. StartRefused(w) => TypeOK'  BY <3>1 DEF StartRefused, Export
    <3>3. PollGivesUp(w) => TypeOK'  BY <3>1 DEF PollGivesUp, Export
    <3>4. QED  BY <2>1, <3>2, <3>3, <1>8, <1>9, <1>10, <1>11, <1>12, <1>13, <1>14, <1>16,
                  <1>17, <1>18, <1>19, <1>20, <1>21, <1>22, <1>23 DEF WorkerStep
  <2>2. ASSUME NEW w \in Workers, Fail(w)  PROVE TypeOK'
    BY <2>2, <1>24 DEF Fail
  <2>3. QED  BY <2>1, <2>2, <1>1, <1>2, <1>3, <1>4, <1>5, <1>6, <1>7, <1>25, <1>31, <1>26, <1>27,
                <1>28, <1>29 DEF Next

-----------------------------------------------------------------------------
(* Ownership and the guard are preserved *)

\* Only thread w moves.
Only(w) == \A v \in Workers \ {w} : worker'[v] = worker[v]

\* Thread w moves.  Of the runs, it may only have changed its own, and has put
\* none back in flight.
LEMMA Moves ==
    ASSUME TypeOK, Owned, Guarded, NEW w \in Workers, Only(w),
           lastRun' = lastRun, hist' = hist,
           \A r \in Created :
              /\ runs'[r].conn = runs[r].conn
              /\ Going(runs'[r]) => Going(runs[r])
              /\ r # worker[w].run => runs'[r] = runs[r],
           OwnsWell(worker'[w], runs', lastRun'),
           worker'[w].pc \in Export =>
              worker[w].pc \in Export /\ worker'[w].run = worker[w].run,
           worker[w].pc \notin Export => runs' = runs,
           worker'[w].pc \in {"idle", "create"} =>
              worker'[w].seen <= lastRun
              /\ NoneUpTo(worker'[w].seen, worker'[w].conn, runs, lastRun)
    PROVE  Owned' /\ Guarded'
<1> USE DEF Created
<1>1. \A v \in Workers : v # w => worker'[v] = worker[v]  BY DEF Only
<1>3. \A n, c : NoneUpTo(n, c, runs, lastRun) => NoneUpTo(n, c, runs', lastRun')
  BY DEF NoneUpTo
<1>4. Owned'
  <2>1. ASSUME NEW v \in Workers, v # w  PROVE OwnsWell(worker'[v], runs', lastRun')
    <3>1. OwnsWell(worker[v], runs, lastRun) /\ worker'[v] = worker[v]
      BY <1>1, <2>1 DEF Owned
    <3>2. ASSUME worker[v].pc \in Export
          PROVE  worker[v].run \in Created /\ runs'[worker[v].run] = runs[worker[v].run]
      <4>1. worker[v].run \in Created  BY <3>1, <3>2 DEF OwnsWell
      <4>2. CASE worker[w].pc \in Export
        BY <4>1, <4>2, <3>2, <2>1 DEF Owned
      <4>3. CASE worker[w].pc \notin Export
        BY <4>1, <4>3
      <4>4. QED  BY <4>2, <4>3
    <3>3. QED  BY <3>1, <3>2 DEF OwnsWell
  <2>2. \A v \in Workers : OwnsWell(worker'[v], runs', lastRun')  BY <2>1
  <2>3. ASSUME NEW u \in Workers, NEW v \in Workers, u # v,
               worker'[u].pc \in Export, worker'[v].pc \in Export
        PROVE  worker'[u].run # worker'[v].run
    BY <1>1, <2>3 DEF Owned
  <2>4. QED  BY <2>2, <2>3 DEF Owned
<1>5. Guarded'
  <2>1. \A v \in Workers : worker'[v].pc \in {"idle", "create"} =>
          worker'[v].seen <= lastRun' /\ NoneUpTo(worker'[v].seen, worker'[v].conn, runs', lastRun')
    BY <1>1, <1>3 DEF Guarded
  <2>2. \A j \in Created :
          hist'[j].seen < j /\ NoneUpTo(hist'[j].seen, runs'[j].conn, runs', lastRun')
    BY <1>3 DEF Guarded
  <2>3. QED  BY <2>1, <2>2 DEF Guarded
<1>6. QED  BY <1>4, <1>5

\* A thread that stops, or goes back to its tick, gives its run up.
LEMMA Leaves ==
    ASSUME NEW x, x.pc \in {"free", "tick"}, x.run = 0
    PROVE  /\ OwnsWell(x, runs', lastRun')
           /\ x.pc \notin Export
           /\ x.pc \notin {"idle", "create"}
BY DEF OwnsWell, PreRun, Export

\* Every action keeps ownership of runs, and what the guard of a thread or of a row
\* has seen: nothing puts a finished run back in flight.
LEMMA GuardStep ==
    ASSUME IInv, Next
    PROVE  Owned' /\ Guarded'
<1> USE DEF IInv, Created
<1>a. \A w \in Workers : worker[w] \in Worker /\ OwnsWell(worker[w], runs, lastRun)
  BY DEF TypeOK, Owned
<1>b. ASSUME UNCHANGED <<runs, lastRun, worker, hist>>  PROVE Owned' /\ Guarded'
  BY <1>b DEF Owned, Guarded, OwnsWell, NoneUpTo, Going, Created
<1>c. ASSUME UNCHANGED <<runs, lastRun>>
      PROVE  \A r \in Created :
                runs'[r].conn = runs[r].conn /\ (Going(runs'[r]) => Going(runs[r]))
                /\ runs'[r] = runs[r]
  BY <1>c
<1>d. ASSUME NEW w \in Workers, NEW x, x.pc \in {"free", "tick"}, x.run = 0,
             worker'[w] = x /\ Only(w), UNCHANGED <<runs, lastRun, hist>>
      PROVE  Owned' /\ Guarded'
  BY <1>d, <1>c, Leaves, Moves
<1>e. ASSUME NEW w \in Workers, NEW from \in Export \ {"commit"}, NEW st, NEW to \in Export,
             Step(w, from, st, to), UNCHANGED <<lastRun, hist>>,
             st \in IN_FLIGHT_STATES \/ to = "commit"
      PROVE  Owned' /\ Guarded'
  <2> DEFINE x == [worker[w] EXCEPT !.pc = to]
             r == worker[w].run
  <2>1. worker[w].pc = from /\ r \in Created /\ Going(runs[r]) /\ runs[r].conn = worker[w].conn
        /\ worker[w].conn \in Connections
    BY <1>e, <1>a DEF Step, OwnsWell
  <2>2. x.pc = to /\ x.run = r /\ x.conn = worker[w].conn  BY <1>a DEF Worker
  <2>3. worker'[w] = x /\ Only(w) /\ runs' = [runs EXCEPT ![r].state = st]
    BY <1>e DEF TypeOK, Only, Step
  <2>4. DOMAIN runs = RunIds /\ Created \subseteq RunIds /\ runs[r] \in Run
    BY <2>1, BoundsAssumption DEF TypeOK, RunIds
  <2>5. runs'[r].state = st /\ runs'[r].conn = runs[r].conn
        /\ \A i \in Created \ {r} : runs'[i] = runs[i]
    BY <2>1, <2>3, <2>4 DEF Run
  <2>6. Created' = Created  BY <1>e DEF Created
  <2> HIDE DEF x, r
  <2>7. OwnsWell(x, runs', lastRun')  BY <2>1, <2>2, <2>5, <2>6, <1>e DEF OwnsWell, Going, Export
  <2>8. x.pc \notin {"idle", "create"}  BY <2>2 DEF Export
  <2>9. \A i \in Created : runs'[i].conn = runs[i].conn /\ (Going(runs'[i]) => Going(runs[i]))
                           /\ (i # r => runs'[i] = runs[i])
    BY <2>1, <2>5 DEF Going
  <2>10. worker[w].pc \in Export  BY <2>1
  <2>11. QED  BY <2>2, <2>3, <2>7, <2>8, <2>9, <2>10, <1>e, Moves DEF r
<1>f. ASSUME NEW w \in Workers, worker[w].pc \in Export, FailRun(w)  PROVE Owned' /\ Guarded'
  <2> DEFINE x == Returned(w)
             r == worker[w].run
  <2>1. r \in Created /\ DOMAIN runs = RunIds /\ Created \subseteq RunIds /\ runs[r] \in Run
    BY <1>f, <1>a, BoundsAssumption DEF OwnsWell, TypeOK, Created, RunIds
  <2>2. worker'[w] = x /\ Only(w) /\ runs' = [runs EXCEPT ![r].state = "failed"]
        /\ UNCHANGED <<lastRun, hist>>
    BY <1>f DEF TypeOK, Only, FailRun
  <2>3. x.pc \in {"free", "tick"} /\ x.run = 0  BY <1>a, ReturnedType
  <2> HIDE DEF x
  <2>4. \A i \in Created : runs'[i].conn = runs[i].conn /\ (Going(runs'[i]) => Going(runs[i]))
                           /\ (i # r => runs'[i] = runs[i])
    BY <2>1, <2>2 DEF Run, Going, IN_FLIGHT_STATES
  <2>5. /\ OwnsWell(worker'[w], runs', lastRun')
        /\ worker'[w].pc \notin Export
        /\ worker'[w].pc \notin {"idle", "create"}
    BY <2>2, <2>3 DEF OwnsWell, PreRun, Export
  <2>6. worker[w].pc \in Export  BY <1>f
  <2> HIDE DEF r
  <2>7. QED  BY <2>2, <2>4, <2>5, <2>6, Moves DEF r
<1>1. ASSUME NEW w \in Workers, NEW c \in Connections, NEW m \in Modes, start_sync(w, c, m)
      PROVE  Owned' /\ Guarded'
  <2> DEFINE x == [FreeWorker EXCEPT !.pc = "entry", !.conn = c, !.mode = m]
  <2>1. x.pc = "entry" /\ x.conn = c /\ x.run = 0  BY DEF FreeWorker
  <2>2. worker'[w] = x /\ Only(w) /\ UNCHANGED <<runs, lastRun, hist>>
    BY <1>1 DEF TypeOK, Only, start_sync
  <2> HIDE DEF x
  <2>3. OwnsWell(x, runs', lastRun') /\ x.pc \notin Export /\ x.pc \notin {"idle", "create"}
    BY <2>1 DEF OwnsWell, PreRun, Export
  <2>4. QED  BY <2>2, <2>3, <1>c, Moves
<1>2. ASSUME NEW w \in Workers, TickList(w)  PROVE Owned' /\ Guarded'
  <2> DEFINE x == [FreeWorker EXCEPT !.pc = "tick", !.trigger = "scheduled",
                      !.due = list_due_for_cdc(now), !.tick_at = now,
                      !.slot = [c \in Connections |-> IF c \in list_due_for_cdc(now)
                                                      THEN conn[c].next_run_at ELSE Null]]
  <2>1. x.pc = "tick" /\ x.run = 0  BY DEF FreeWorker
  <2>2. worker'[w] = x /\ Only(w) /\ UNCHANGED <<runs, lastRun, hist>>
    BY <1>2 DEF TypeOK, Only, TickList
  <2> HIDE DEF x
  <2>3. QED  BY <2>1, <2>2, <1>d
<1>3. ASSUME NEW w \in Workers, TickSkip(w)  PROVE Owned' /\ Guarded'
  <2>1. worker[w].run = 0 /\ worker[w].pc = "tick"
    BY <1>3, <1>a DEF TickSkip, OwnsWell, Export
  <2>2. PICK c \in worker[w].due :
           worker' = [worker EXCEPT ![w] = IF worker[w].due = {c} THEN FreeWorker
                         ELSE [worker[w] EXCEPT !.due = worker[w].due \ {c}]]
    BY <1>3 DEF TickSkip
  <2> DEFINE x == IF worker[w].due = {c} THEN FreeWorker
                  ELSE [worker[w] EXCEPT !.due = worker[w].due \ {c}]
  <2>3. x.pc \in {"free", "tick"} /\ x.run = 0  BY <2>1, <1>a DEF FreeWorker, Worker
  <2>4. worker'[w] = x /\ Only(w) /\ UNCHANGED <<runs, lastRun, hist>>
    BY <2>2, <1>3 DEF TypeOK, Only, TickSkip
  <2> HIDE DEF x
  <2>5. QED  BY <2>3, <2>4, <1>d
<1>4. ASSUME NEW w \in Workers, TickPick(w)  PROVE Owned' /\ Guarded'
  <2>1. worker[w].run = 0 /\ worker[w].due \subseteq Connections
    BY <1>4, <1>a DEF TickPick, OwnsWell, Export, Worker
  <2>2. PICK c \in worker[w].due : worker' = [worker EXCEPT ![w].pc = "claim", ![w].conn = c]
    BY <1>4 DEF TickPick
  <2> DEFINE x == [worker[w] EXCEPT !.pc = "claim", !.conn = c]
  <2>3. x.pc = "claim" /\ x.run = 0 /\ x.conn = c  BY <2>1, <1>a DEF Worker
  <2>4. worker'[w] = x /\ Only(w) /\ UNCHANGED <<runs, lastRun, hist>>
    BY <2>2, <1>4 DEF TypeOK, Only, TickPick
  <2> HIDE DEF x
  <2>5. OwnsWell(x, runs', lastRun') /\ x.pc \notin Export /\ x.pc \notin {"idle", "create"}
    BY <2>1, <2>3 DEF OwnsWell, PreRun, Export
  <2>6. QED  BY <2>4, <2>5, <1>c, Moves
<1>5. ASSUME NEW w \in Workers, TickClaim(w)  PROVE Owned' /\ Guarded'
  <2> DEFINE x == [worker[w] EXCEPT !.pc = "entry"]
  <2>1. worker[w].run = 0 /\ worker[w].conn \in Connections
    BY <1>5, <1>a DEF TickClaim, OwnsWell, Export
  <2>2. x.pc = "entry" /\ x.run = 0 /\ x.conn = worker[w].conn  BY <2>1, <1>a DEF Worker
  <2>3. worker'[w] = x /\ Only(w) /\ UNCHANGED <<runs, lastRun, hist>>
    BY <1>5 DEF TypeOK, Only, TickClaim
  <2> HIDE DEF x
  <2>4. OwnsWell(x, runs', lastRun') /\ x.pc \notin Export /\ x.pc \notin {"idle", "create"}
    BY <2>1, <2>2 DEF OwnsWell, PreRun, Export
  <2>5. QED  BY <2>3, <2>4, <1>c, Moves
<1>6. ASSUME NEW w \in Workers, Admit(w)  PROVE Owned' /\ Guarded'
  <2> DEFINE x == [worker[w] EXCEPT !.pc = "idle", !.seen = lastRun]
  <2>1. worker[w].run = 0 /\ worker[w].conn \in Connections
    BY <1>6, <1>a DEF Admit, OwnsWell, PreRun, Export
  <2>2. x.pc = "idle" /\ x.run = 0 /\ x.conn = worker[w].conn /\ x.seen = lastRun
    BY <2>1, <1>a DEF Worker
  <2>3. worker'[w] = x /\ Only(w) /\ UNCHANGED <<runs, lastRun, hist>>
    BY <1>6 DEF TypeOK, Only, Admit
  <2>4. NoneUpTo(lastRun, worker[w].conn, runs, lastRun)
    BY <1>6 DEF Admit, has_in_flight_run, NoneUpTo, InFlight, Going
  <2> HIDE DEF x
  <2>5. OwnsWell(x, runs', lastRun') /\ x.pc \notin Export
    BY <2>1, <2>2 DEF OwnsWell, PreRun, Export
  <2>6. x.seen <= lastRun /\ NoneUpTo(x.seen, x.conn, runs, lastRun)  BY <2>2, <2>4 DEF TypeOK
  <2>7. QED  BY <2>3, <2>5, <2>6, <1>c, Moves
<1>7. ASSUME NEW w \in Workers, CheckIdle(w)  PROVE Owned' /\ Guarded'
  <2> DEFINE x == [worker[w] EXCEPT !.pc = "create"]
  <2>1. worker[w].run = 0 /\ worker[w].conn \in Connections
        /\ worker[w].seen <= lastRun /\ NoneUpTo(worker[w].seen, worker[w].conn, runs, lastRun)
    BY <1>7, <1>a DEF CheckIdle, OwnsWell, PreRun, Export, Guarded
  <2>2. x.pc = "create" /\ x.run = 0 /\ x.conn = worker[w].conn /\ x.seen = worker[w].seen
    BY <2>1, <1>a DEF Worker
  <2>3. worker'[w] = x /\ Only(w) /\ UNCHANGED <<runs, lastRun, hist>>
    BY <1>7 DEF TypeOK, Only, CheckIdle
  <2> HIDE DEF x
  <2>4. OwnsWell(x, runs', lastRun') /\ x.pc \notin Export
    BY <2>1, <2>2 DEF OwnsWell, PreRun, Export
  <2>5. x.seen <= lastRun /\ NoneUpTo(x.seen, x.conn, runs, lastRun)  BY <2>1, <2>2
  <2>6. QED  BY <2>3, <2>4, <2>5, <1>c, Moves
<1>8. ASSUME NEW w \in Workers, Refused(w)  PROVE Owned' /\ Guarded'
  <2>1. worker'[w] = Returned(w) /\ Only(w) /\ UNCHANGED <<runs, lastRun, hist>>
    BY <1>8 DEF Refused, TypeOK, Only
  <2>2. QED  BY <2>1, <1>a, <1>d, ReturnedType
<1>9. ASSUME NEW w \in Workers, create_run(w)  PROVE Owned' /\ Guarded'
  <2> DEFINE r == lastRun + 1
             c == worker[w].conn
  <2>1. c \in Connections /\ worker[w].seen \in 0..MaxRuns /\ worker[w].seen <= lastRun
        /\ NoneUpTo(worker[w].seen, c, runs, lastRun)
    BY <1>9, <1>a DEF create_run, OwnsWell, PreRun, Guarded, Worker
  <2>2. lastRun \in Nat /\ lastRun' = r /\ r \in RunIds /\ r \notin Created
        /\ Created' = Created \cup {r} /\ Created \subseteq RunIds
    BY <1>9, BoundsAssumption DEF create_run, TypeOK, Created, RunIds
  <2>3. /\ runs'[r].conn = c /\ runs'[r].state = "pending"
        /\ hist'[r].seen = worker[w].seen
        /\ \A i \in Created : runs'[i] = runs[i] /\ hist'[i] = hist[i]
    BY <1>9, <2>2 DEF create_run, TypeOK
  <2>4. /\ worker'[w].pc = "export" /\ worker'[w].run = r /\ worker'[w].conn = c
        /\ \A v \in Workers \ {w} : worker'[v] = worker[v]
    BY <1>9, <1>a DEF create_run, TypeOK, Worker
  <2> HIDE DEF r, c
  <2>5. OwnsWell(worker'[w], runs', lastRun')
    BY <2>1, <2>2, <2>3, <2>4 DEF OwnsWell, Going, IN_FLIGHT_STATES, PreRun, Export
  <2>6. ASSUME NEW v \in Workers \ {w}  PROVE OwnsWell(worker'[v], runs', lastRun')
    BY <1>a, <2>2, <2>3, <2>4, <2>6 DEF OwnsWell, Going
  <2>7. ASSUME NEW v \in Workers \ {w}, worker[v].pc \in Export
        PROVE  worker[v].run # r
    BY <1>a, <2>2, <2>7 DEF OwnsWell
  <2>8. Owned'
    <3>1. \A v \in Workers : OwnsWell(worker'[v], runs', lastRun')  BY <2>5, <2>6
    <3>2. ASSUME NEW u \in Workers, NEW v \in Workers, u # v,
                 worker'[u].pc \in Export, worker'[v].pc \in Export
          PROVE  worker'[u].run # worker'[v].run
      BY <2>4, <2>7, <3>2 DEF Owned
    <3>3. QED  BY <3>1, <3>2 DEF Owned
  <2>9. ASSUME NEW n \in Nat, n <= lastRun, NEW d, NoneUpTo(n, d, runs, lastRun)  PROVE NoneUpTo(n, d, runs', lastRun')
    <3>1. ~(r <= n)  BY <2>2, <2>9 DEF r
    <3>2. QED  BY <3>1, <2>2, <2>3, <2>9 DEF NoneUpTo, Going
  <2>10. ASSUME NEW v \in Workers, worker'[v].pc \in {"idle", "create"}
         PROVE  worker'[v].seen <= lastRun' /\ NoneUpTo(worker'[v].seen, worker'[v].conn, runs', lastRun')
    <3>1. v # w  BY <2>4, <2>10
    <3>2. worker[v].seen \in Nat /\ worker[v].seen <= lastRun
          /\ NoneUpTo(worker[v].seen, worker[v].conn, runs, lastRun) /\ worker'[v] = worker[v]
      BY <3>1, <2>4, <2>10, <1>a DEF Guarded, Worker
    <3>3. QED  BY <3>2, <2>9, <2>2 DEF r
  <2>11. ASSUME NEW j \in Created
         PROVE  hist'[j].seen < j /\ NoneUpTo(hist'[j].seen, runs'[j].conn, runs', lastRun')
    <3>1. hist[j].seen \in Nat /\ hist[j].seen < j /\ NoneUpTo(hist[j].seen, runs[j].conn, runs, lastRun)
      BY DEF Guarded, TypeOK, History
    <3>2. hist[j].seen <= lastRun  BY <3>1, <2>2 DEF Created
    <3>3. QED  BY <3>1, <3>2, <2>3, <2>9
  <2>12. hist'[r].seen < r /\ NoneUpTo(hist'[r].seen, runs'[r].conn, runs', lastRun')
    BY <2>1, <2>2, <2>3, <2>9 DEF r
  <2>13. Guarded'  BY <2>2, <2>10, <2>11, <2>12 DEF Guarded
  <2>14. QED  BY <2>8, <2>13
<1>10. ASSUME NEW w \in Workers, PollSuccess(w)  PROVE Owned' /\ Guarded'
  <2>1. PICK p \in {"apply", "complete"}, q \in Pipes :
           worker' = [worker EXCEPT ![w] = [worker[w] EXCEPT !.pc = p, !.pipe = q]]
    <3>1. [worker[w] EXCEPT !.pc = "complete"]
            = [worker[w] EXCEPT !.pc = "complete", !.pipe = worker[w].pipe]
      BY <1>a DEF Worker
    <3>2. QED  BY <3>1, <1>10, <1>a DEF PollSuccess, Worker, Pipes
  <2> DEFINE x == [worker[w] EXCEPT !.pc = p, !.pipe = q]
  <2>2. worker[w].pc = "poll" /\ OwnsWell(worker[w], runs, lastRun)  BY <1>10, <1>a DEF PollSuccess
  <2>3. x.pc = p /\ x.run = worker[w].run /\ x.conn = worker[w].conn  BY <1>a DEF Worker
  <2>4. worker'[w] = x /\ Only(w) /\ UNCHANGED <<runs, lastRun, hist>>
    BY <2>1, <1>10 DEF TypeOK, Only, PollSuccess
  <2> HIDE DEF x
  <2>5. OwnsWell(x, runs', lastRun') /\ x.pc \in Export /\ worker[w].pc \in Export /\ x.pc \notin {"idle", "create"}
    BY <2>2, <2>3, <2>4 DEF OwnsWell, PreRun, Export, Created, Going
  <2>6. QED  BY <2>3, <2>4, <2>5, <1>c, Moves
<1>11. ASSUME NEW w \in Workers, Commit(w)  PROVE Owned' /\ Guarded'
  <2>1. worker'[w] = Returned(w) /\ Only(w) /\ UNCHANGED <<runs, lastRun, hist>>
    BY <1>11 DEF Commit, TypeOK, Only
  <2>2. QED  BY <2>1, <1>a, <1>d, ReturnedType
<1>12. ASSUME NEW w \in Workers, Crash(w)  PROVE Owned' /\ Guarded'
  <2>1. FreeWorker.pc = "free" /\ FreeWorker.run = 0  BY DEF FreeWorker
  <2>2. worker'[w] = FreeWorker /\ Only(w) /\ UNCHANGED <<runs, lastRun, hist>>
    BY <1>12 DEF Crash, TypeOK, Only
  <2>3. QED  BY <1>d, <2>1, <2>2
<1>20. ASSUME NEW w \in Workers, WriteLost(w)  PROVE Owned' /\ Guarded'
  <2>1. worker'[w] = Returned(w) /\ Only(w) /\ UNCHANGED <<runs, lastRun, hist>>
    BY <1>20 DEF WriteLost, TypeOK, Only
  <2>2. QED  BY <2>1, <1>a, <1>d, ReturnedType
<1>13. ASSUME NEW w \in Workers,
              run_dc_job(w) \/ land_files(w) \/ land_baseline(w)
              \/ apply_pipeline_configuration(w) \/ start_pipeline_update(w) \/ Complete(w)
       PROVE  Owned' /\ Guarded'
  <2>1. CASE run_dc_job(w)
    BY <2>1, <1>e DEF run_dc_job, Export, IN_FLIGHT_STATES
  <2>2. CASE land_files(w)
    BY <2>2, <1>e DEF land_files, Export, IN_FLIGHT_STATES
  <2>3. CASE land_baseline(w)
    BY <2>3, <1>e DEF land_baseline, Export, IN_FLIGHT_STATES
  <2>4. CASE apply_pipeline_configuration(w)
    BY <2>4, <1>e DEF apply_pipeline_configuration, Export, IN_FLIGHT_STATES
  <2>5. CASE start_pipeline_update(w)
    BY <2>5, <1>e DEF start_pipeline_update, Export, IN_FLIGHT_STATES
  <2>6. CASE Complete(w)
    BY <2>6, <1>e DEF Complete, Export
  <2>7. QED  BY <1>13, <2>1, <2>2, <2>3, <2>4, <2>5, <2>6
<1>14. ASSUME NEW w \in Workers, WorkerStep(w)  PROVE Owned' /\ Guarded'
  <2>1. StartRefused(w) => Owned' /\ Guarded'  BY <1>f DEF StartRefused, Export
  <2>2. PollGivesUp(w) => Owned' /\ Guarded'  BY <1>f DEF PollGivesUp, Export
  <2>3. QED  BY <1>14, <2>1, <2>2, <1>3, <1>4, <1>5, <1>6, <1>7, <1>8, <1>9, <1>10, <1>11,
                <1>13 DEF WorkerStep
<1>15. ASSUME NEW c \in Connections,
              BootstrapDone(c) \/ BootstrapFailed(c) \/ save_dbx_credentials(c)
              \/ enable_cdc(c) \/ disable_cdc(c)
       PROVE  Owned' /\ Guarded'
  BY <1>15, <1>b
     DEF BootstrapDone, BootstrapFailed, save_dbx_credentials, enable_cdc, disable_cdc
<1>16. ASSUME NEW r \in RunIds, JobTask(r) \/ UpdateCompleted(r) \/ JobFailed(r)
       PROVE  Owned' /\ Guarded'
  BY <1>16, <1>b DEF JobTask, UpdateCompleted, JobFailed
<1>17. Tock => Owned' /\ Guarded'  BY <1>b DEF Tock
<1>18. \A w \in Workers : Fail(w) => Owned' /\ Guarded'  BY <1>f DEF Fail
<1>19. QED  BY <1>1, <1>2, <1>12, <1>20, <1>14, <1>15, <1>16, <1>17, <1>18 DEF Next

-----------------------------------------------------------------------------
(* The theorems *)

\* The invariant holds before the first request.
LEMMA InitInv == Init => IInv
<1> SUFFICES ASSUME Init PROVE IInv
  OBVIOUS
<1> USE BoundsAssumption DEF Init
<1>1. Created = {}  BY DEF Created
<1>2. TypeOK
  BY <1>1, FreeType DEF TypeOK, NoJob, Job, Todo, Connection, RunIds, Pipes
<1>3. \A w \in Workers : worker[w] = FreeWorker  OBVIOUS
<1>4. FreeWorker.pc = "free" /\ FreeWorker.run = 0  BY DEF FreeWorker
<1>5. Owned  BY <1>3, <1>4 DEF Owned, OwnsWell, PreRun, Export
<1>6. Guarded  BY <1>1, <1>3, <1>4 DEF Guarded
<1>7. QED  BY <1>2, <1>5, <1>6 DEF IInv

\* The invariant is inductive.
LEMMA StepInv == IInv /\ [Next]_vars => IInv'
<1> SUFFICES ASSUME IInv, [Next]_vars PROVE IInv'
  OBVIOUS
<1>1. CASE Next  BY <1>1, TypeStep, GuardStep DEF IInv
<1>2. CASE UNCHANGED vars
  BY <1>2 DEF vars, IInv, TypeOK, Owned, Guarded, OwnsWell, NoneUpTo, Going, Created
<1>3. QED  BY <1>1, <1>2

\* The invariant holds in every reachable state.
LEMMA Invariance == Spec => []IInv
<1>1. QED  BY InitInv, StepInv, PTL DEF Spec

\* Every variable keeps its type: the rows of the run table are well formed up to
\* the last id handed out, and no bound of the model is exceeded.
THEOREM TypeCorrect == Spec => []TypeOK
<1>1. IInv => TypeOK  BY DEF IInv
<1>2. QED  BY <1>1, Invariance, PTL

\* The guarantee of has_in_flight_run, as run_connection_sync uses it: runs of one
\* connection overlap only when the later one passed the guard before the earlier
\* one had a row.
THEOREM GuardHolds == Spec => []OverlapOnlyInGuardWindow
<1>1. IInv => OverlapOnlyInGuardWindow
  <2> SUFFICES ASSUME IInv, NEW i \in Created, NEW j \in Created, i < j,
                      runs[i].conn = runs[j].conn, InFlight(i), InFlight(j)
               PROVE  i > hist[j].seen
    BY DEF OverlapOnlyInGuardWindow
  <2>1. i \in Nat /\ hist[j].seen \in Nat  BY DEF IInv, TypeOK, History, Created
  <2>2. ~(i <= hist[j].seen)  BY DEF IInv, Guarded, NoneUpTo, Going, InFlight, Created
  <2>3. QED  BY <2>1, <2>2
<1>2. QED  BY <1>1, Invariance, PTL

-----------------------------------------------------------------------------
(***************************************************************************)
(* What runs of one connection do to each other's pipeline updates, for    *)
(* any number of connections, threads, runs and crashes, and what a run    *)
(* that nobody executes any more is due to.                                *)
(*                                                                         *)
(* On top of IInv: what was idle when a thread looked stays idle           *)
(* (Drained), a run in flight is a rival of every later run of its         *)
(* connection (Rivals), and the folder a pipeline is about to read is the  *)
(* run's own or a rival's (Placed).  For one tick of the scheduler at a    *)
(* time, what the tick has listed is a due time not answered yet (Ticks),  *)
(* before the next one of the connection (Alarmed).                        *)
(***************************************************************************)

\* Outside the notebook path a job has no tasks but the update it was started with.
NoTasks == ~NotebookDownload => \A r \in RunIds : job[r].todo = <<>>

\* Of the runs 1..n, none of the first k is a run of c with an active update.
IdleUpTo(k, c, rs, n, jb) ==
    \A i \in 1..n : i <= k /\ rs[i].conn = c => jb[i].active = Null

\* What assert_pipelines_idle has seen stays true.
Drained ==
    ~NotebookDownload =>
        /\ \A w \in Workers : worker[w].pc = "create" =>
              IdleUpTo(worker[w].seen, worker[w].conn, runs, lastRun, job)
        /\ \A j \in Created : IdleUpTo(hist[j].seen, runs[j].conn, runs, lastRun, job)

\* A run in flight has been in flight since its creation, so every later run saw it.
Rivals ==
    \A i, j \in Created :
        i < j /\ runs[i].conn = runs[j].conn /\ Going(runs[i]) => i \in hist[j].rivals

\* The run i may have put its folder where the run r reads.
Theirs(i, r, n, hs) == i = 0 \/ i = r \/ (i \in 1..n /\ (i \in hs[r].rivals \/ r \in hs[i].rivals))

\* The pipeline that a thread is about to start reads the run's own folder, or that
\* of a run that overlapped it.
Placed ==
    ~NotebookDownload =>
        /\ \A w \in Workers : worker[w].pc = "start" =>
              Theirs(config[worker[w].conn][worker[w].pipe], worker[w].run, lastRun, hist)
        /\ \A r \in Created : \A i \in job[r].read : Theirs(i, r, lastRun, hist)
        /\ \A r \in RunIds \ Created : job[r].read = {}

\* A run that is committed is no longer in flight.
Ended == \A w \in Workers : worker[w].pc = "commit" => ~Going(runs[worker[w].run])

\* Runs in flight that no thread executes.
Orphans == {r \in Created : InFlight(r) /\ \A w \in Workers : worker[w].run # r}

UInv == IInv /\ NoTasks /\ Drained /\ Rivals /\ Placed /\ Ended /\ OrphansComeFromCrashes

-----------------------------------------------------------------------------
(* What a step does to threads, rows and jobs *)

\* Thread w goes from x to y while the rows go from rs to rs2.
ThreadMoves(w, x, y, rs2) ==
    /\ y.pc \in {"free", "tick", "claim", "entry", "idle", "create", "land", "baseline",
                 "apply", "start", "poll", "complete", "commit"}
    /\ y.pc = "create" => y.seen = x.seen /\ y.conn = x.conn
    /\ y.pc = "start" => y.run = x.run /\ y.conn = x.conn /\ y.pipe = x.pipe
    /\ y.pc \in Export => x.pc \in Export /\ y.run = x.run
    /\ y.pc \notin Export => y.run = 0
    /\ x.pc \in Export /\ y.pc \notin Export => ~Going(rs2[x.run])
    /\ y.pc = "commit" => ~Going(rs2[x.run])

\* The rows of the first n runs that change end.
RowsEnd(rs, rs2, n) ==
    \A r \in 1..n : /\ rs2[r].conn = rs[r].conn /\ rs2[r].trigger = rs[r].trigger
                    /\ Going(rs2[r]) => Going(rs[r])

LEMMA Basics ==
    ASSUME IInv
    PROVE  /\ \A w \in Workers : worker[w] \in Worker /\ OwnsWell(worker[w], runs, lastRun)
           /\ DOMAIN runs = RunIds /\ Created \subseteq RunIds /\ \A r \in Created : runs[r] \in Run
           /\ \A w \in Workers : worker[w].pc \in Export => worker[w].run \in Created
           /\ lastRun \in Nat
<1>1. Created \subseteq RunIds /\ lastRun \in Nat
  BY BoundsAssumption DEF IInv, TypeOK, Created, RunIds
<1>2. \A w \in Workers : OwnsWell(worker[w], runs, lastRun)
  BY DEF IInv, Owned
<1>3. \A w \in Workers : worker[w].pc \in Export => worker[w].run \in Created
  BY <1>2 DEF OwnsWell, Created
<1> QED
  BY <1>1, <1>2, <1>3 DEF IInv, TypeOK

\* A step of run_export.
LEMMA ExportStep ==
    ASSUME IInv, NEW w \in Workers, NEW from \in Export, NEW to \in Export \ {"export"}, NEW st,
           Step(w, from, st, to), st \in IN_FLIGHT_STATES \/ to = "commit", from # "commit",
           to = "commit" => st \notin IN_FLIGHT_STATES
    PROVE  /\ worker[w].pc = from /\ Only(w) /\ ThreadMoves(w, worker[w], worker'[w], runs')
           /\ worker'[w].pc = to /\ worker'[w].run = worker[w].run
           /\ worker'[w].conn = worker[w].conn /\ worker'[w].pipe = worker[w].pipe
           /\ RowsEnd(runs, runs', lastRun)
<1> DEFINE r == worker[w].run
<1>1. worker[w] \in Worker /\ worker[w].pc = from /\ r \in Created /\ Going(runs[r])
  BY Basics DEF Step, OwnsWell
<1>2. worker' = [worker EXCEPT ![w] = [worker[w] EXCEPT !.pc = to]]
  BY DEF Step
<1>3. /\ worker'[w].pc = to /\ worker'[w].run = r /\ worker'[w].conn = worker[w].conn
      /\ worker'[w].pipe = worker[w].pipe /\ worker'[w].seen = worker[w].seen /\ Only(w)
  BY <1>1, <1>2 DEF IInv, TypeOK, Only, Worker
<1>4. runs[r] \in Run /\ r \in RunIds /\ DOMAIN runs = RunIds
  BY <1>1, Basics
<1>5. runs'[r].state = st /\ runs'[r].conn = runs[r].conn /\ runs'[r].trigger = runs[r].trigger
      /\ \A i \in Created \ {r} : runs'[i] = runs[i]
  <2>1. runs' = [runs EXCEPT ![r] = [runs[r] EXCEPT !.state = st]]
    BY DEF Step
  <2>2. runs'[r] = [runs[r] EXCEPT !.state = st]
    BY <1>4, <2>1
  <2>3. \A i \in Created \ {r} : runs'[i] = runs[i]
    BY <2>1, Basics
  <2> QED
    BY <1>4, <2>2, <2>3 DEF Run
<1>6. RowsEnd(runs, runs', lastRun)
  BY <1>1, <1>5 DEF RowsEnd, Going, Created
<1>7. ThreadMoves(w, worker[w], worker'[w], runs')
  BY <1>1, <1>3, <1>5 DEF ThreadMoves, Going, Export
<1> QED
  BY <1>1, <1>3, <1>6, <1>7

\* The run fails.
LEMMA FailStep ==
    ASSUME IInv, NEW w \in Workers, worker[w].pc \in Export, FailRun(w)
    PROVE  /\ Only(w) /\ ThreadMoves(w, worker[w], worker'[w], runs')
           /\ worker'[w].pc \in {"free", "tick"} /\ RowsEnd(runs, runs', lastRun)
           /\ UNCHANGED <<conn, lastRun, job, config, now, crashes, hist>>
<1> DEFINE r == worker[w].run
<1>1. worker[w] \in Worker /\ r \in Created /\ runs[r] \in Run /\ r \in RunIds /\ DOMAIN runs = RunIds
  BY Basics
<1>2. worker'[w] = Returned(w) /\ Only(w)
  BY DEF FailRun, IInv, TypeOK, Only
<1>3. worker'[w].pc \in {"free", "tick"} /\ worker'[w].run = 0
  BY <1>1, <1>2, ReturnedType
<1>4. runs'[r].state = "failed" /\ runs'[r].conn = runs[r].conn /\ runs'[r].trigger = runs[r].trigger
      /\ \A i \in Created \ {r} : runs'[i] = runs[i]
  <2>1. runs' = [runs EXCEPT ![r] = [runs[r] EXCEPT !.state = "failed"]]
    BY DEF FailRun
  <2>2. runs'[r] = [runs[r] EXCEPT !.state = "failed"]
    BY <1>1, <2>1
  <2>3. \A i \in Created \ {r} : runs'[i] = runs[i]
    BY <2>1, Basics
  <2> QED
    BY <1>1, <2>2, <2>3 DEF Run
<1>5. RowsEnd(runs, runs', lastRun)
  BY <1>1, <1>4 DEF RowsEnd, Going, Created, IN_FLIGHT_STATES
<1>6. ThreadMoves(w, worker[w], worker'[w], runs')
  BY <1>3, <1>4 DEF ThreadMoves, Going, Export, IN_FLIGHT_STATES
<1> QED
  BY <1>2, <1>3, <1>5, <1>6 DEF FailRun

\* A step before there is a row.
LEMMA PreStep ==
    ASSUME IInv, NEW w \in Workers,
           \/ \E c \in Connections, m \in Modes : start_sync(w, c, m)
           \/ TickList(w) \/ TickSkip(w) \/ TickPick(w) \/ TickClaim(w)
           \/ Admit(w) \/ CheckIdle(w) \/ Refused(w)
    PROVE  /\ Only(w) /\ ThreadMoves(w, worker[w], worker'[w], runs')
           /\ UNCHANGED <<runs, lastRun, job, config, crashes, hist>>
           /\ worker'[w].pc = "create" => CheckIdle(w)
<1> DEFINE x == worker[w]
<1> DEFINE y == worker'[w]
<1>1. x \in Worker /\ OwnsWell(x, runs, lastRun)
  BY Basics
<1>2. ASSUME x.pc \notin Export, y.run = 0, y.pc \in {"free", "tick", "claim", "entry", "idle"}
      PROVE  ThreadMoves(w, x, y, runs') /\ y.pc # "create"
  BY <1>2 DEF ThreadMoves, Export
<1>3. FreeWorker.pc = "free" /\ FreeWorker.run = 0
  BY DEF FreeWorker
<1> USE DEF IInv, TypeOK, Only
<1>4. ASSUME NEW c \in Connections, NEW m \in Modes, start_sync(w, c, m)
      PROVE  /\ Only(w) /\ ThreadMoves(w, x, y, runs') /\ y.pc # "create"
             /\ UNCHANGED <<runs, lastRun, job, config, crashes, hist>>
  <2>1. worker' = [worker EXCEPT ![w] = [FreeWorker EXCEPT !.pc = "entry", !.conn = c, !.mode = m]]
    BY <1>4 DEF start_sync
  <2> DEFINE z == [FreeWorker EXCEPT !.pc = "entry", !.conn = c, !.mode = m]
  <2>2. z.pc = "entry" /\ z.run = 0
    BY DEF FreeWorker
  <2> HIDE DEF z
  <2>3. y = z /\ Only(w)
    BY <2>1 DEF z
  <2> QED
    BY <1>2, <1>4, <2>2, <2>3 DEF start_sync, Export
<1>5. ASSUME TickList(w)
      PROVE  /\ Only(w) /\ ThreadMoves(w, x, y, runs') /\ y.pc # "create"
             /\ UNCHANGED <<runs, lastRun, job, config, crashes, hist>>
  <2> DEFINE z == [FreeWorker EXCEPT !.pc = "tick", !.trigger = "scheduled",
                      !.due = list_due_for_cdc(now), !.tick_at = now,
                      !.slot = [c \in Connections |-> IF c \in list_due_for_cdc(now)
                                                      THEN conn[c].next_run_at ELSE Null]]
  <2>1. z.pc = "tick" /\ z.run = 0
    BY DEF FreeWorker
  <2>2. worker' = [worker EXCEPT ![w] = z]
    BY <1>5 DEF TickList
  <2> HIDE DEF z
  <2> QED
    BY <1>2, <1>5, <2>1, <2>2 DEF TickList, Export
<1>6. ASSUME TickSkip(w)
      PROVE  /\ Only(w) /\ ThreadMoves(w, x, y, runs') /\ y.pc # "create"
             /\ UNCHANGED <<runs, lastRun, job, config, crashes, hist>>
  <2>1. x.run = 0 /\ x.pc = "tick"
    BY <1>1, <1>6 DEF TickSkip, OwnsWell, Export
  <2>2. PICK c \in x.due : worker' = [worker EXCEPT ![w] = IF x.due = {c} THEN FreeWorker
                                         ELSE [x EXCEPT !.due = x.due \ {c}]]
    BY <1>6 DEF TickSkip
  <2> DEFINE z == IF x.due = {c} THEN FreeWorker ELSE [x EXCEPT !.due = x.due \ {c}]
  <2>3. z.pc \in {"free", "tick"} /\ z.run = 0
    BY <1>1, <1>3, <2>1 DEF Worker
  <2>4. worker' = [worker EXCEPT ![w] = z]
    BY <2>2
  <2> HIDE DEF z
  <2>5. y = z /\ Only(w)
    BY <2>4
  <2>6. UNCHANGED <<runs, lastRun, job, config, crashes, hist>>
    BY <1>6 DEF TickSkip
  <2> QED
    BY <1>2, <2>1, <2>3, <2>5, <2>6 DEF Export
<1>7. ASSUME TickPick(w)
      PROVE  /\ Only(w) /\ ThreadMoves(w, x, y, runs') /\ y.pc # "create"
             /\ UNCHANGED <<runs, lastRun, job, config, crashes, hist>>
  <2>1. x.run = 0 /\ x.pc = "tick"
    BY <1>1, <1>7 DEF TickPick, OwnsWell, Export
  <2>2. PICK c \in x.due : worker' = [worker EXCEPT ![w].pc = "claim", ![w].conn = c]
    BY <1>7 DEF TickPick
  <2>3. y.pc = "claim" /\ y.run = 0 /\ Only(w)
    BY <1>1, <2>1, <2>2 DEF Worker
  <2>4. UNCHANGED <<runs, lastRun, job, config, crashes, hist>>
    BY <1>7 DEF TickPick
  <2> QED
    BY <1>2, <2>1, <2>3, <2>4 DEF Export
<1>8. ASSUME TickClaim(w)
      PROVE  /\ Only(w) /\ ThreadMoves(w, x, y, runs') /\ y.pc # "create"
             /\ UNCHANGED <<runs, lastRun, job, config, crashes, hist>>
  <2>1. x.run = 0 /\ x.pc = "claim"
    BY <1>1, <1>8 DEF TickClaim, OwnsWell, Export
  <2>2. y.pc = "entry" /\ y.run = 0 /\ Only(w)
    BY <1>1, <1>8, <2>1 DEF TickClaim, Worker
  <2>3. UNCHANGED <<runs, lastRun, job, config, crashes, hist>>
    BY <1>8 DEF TickClaim
  <2> QED
    BY <1>2, <2>1, <2>2, <2>3 DEF Export
<1>9. ASSUME Admit(w)
      PROVE  /\ Only(w) /\ ThreadMoves(w, x, y, runs') /\ y.pc # "create"
             /\ UNCHANGED <<runs, lastRun, job, config, crashes, hist>>
  <2>1. x.run = 0 /\ x.pc = "entry"
    BY <1>1, <1>9 DEF Admit, OwnsWell, Export
  <2>2. y.pc = "idle" /\ y.run = 0 /\ Only(w)
    BY <1>1, <1>9, <2>1 DEF Admit, Worker
  <2>3. UNCHANGED <<runs, lastRun, job, config, crashes, hist>>
    BY <1>9 DEF Admit
  <2> QED
    BY <1>2, <2>1, <2>2, <2>3 DEF Export
<1>10. ASSUME CheckIdle(w)
       PROVE  /\ Only(w) /\ ThreadMoves(w, x, y, runs')
              /\ UNCHANGED <<runs, lastRun, job, config, crashes, hist>>
  <2>1. x.run = 0 /\ x.pc = "idle"
    BY <1>1, <1>10 DEF CheckIdle, OwnsWell, Export
  <2>2. y.pc = "create" /\ y.run = 0 /\ y.seen = x.seen /\ y.conn = x.conn /\ Only(w)
    BY <1>1, <1>10, <2>1 DEF CheckIdle, Worker
  <2>3. UNCHANGED <<runs, lastRun, job, config, crashes, hist>>
    BY <1>10 DEF CheckIdle
  <2> QED
    BY <2>1, <2>2, <2>3 DEF ThreadMoves, Export
<1>11. ASSUME Refused(w)
       PROVE  /\ Only(w) /\ ThreadMoves(w, x, y, runs') /\ y.pc # "create"
              /\ UNCHANGED <<runs, lastRun, job, config, crashes, hist>>
  <2>1. x.pc \notin Export
    BY <1>11 DEF Refused, PreRun, Export
  <2>2. y = Returned(w) /\ Only(w)
    BY <1>11 DEF Refused
  <2>3. y.pc \in {"free", "tick"} /\ y.run = 0
    BY <1>1, <2>2, ReturnedType
  <2>4. UNCHANGED <<runs, lastRun, job, config, crashes, hist>>
    BY <1>11 DEF Refused
  <2> QED
    BY <1>2, <2>1, <2>2, <2>3, <2>4
<1> QED
  BY <1>4, <1>5, <1>6, <1>7, <1>8, <1>9, <1>10, <1>11

\* A run that ends well.
LEMMA PollStep ==
    ASSUME IInv, NEW w \in Workers, PollSuccess(w)
    PROVE  /\ Only(w) /\ ThreadMoves(w, worker[w], worker'[w], runs')
           /\ worker'[w].pc \in {"apply", "complete"}
           /\ UNCHANGED <<conn, runs, lastRun, job, config, now, crashes, hist>>
<1> DEFINE x == worker[w]
<1>1. x \in Worker /\ x.pc = "poll"
  BY Basics DEF PollSuccess
<1>2. PICK p \in {"apply", "complete"}, q \in Pipes :
         worker' = [worker EXCEPT ![w] = [x EXCEPT !.pc = p, !.pipe = q]]
  <2>1. [x EXCEPT !.pc = "complete"] = [x EXCEPT !.pc = "complete", !.pipe = x.pipe]
    BY <1>1 DEF Worker
  <2>2. x.pipe \in Pipes
    BY <1>1 DEF Worker
  <2> QED
    BY <2>1, <2>2 DEF PollSuccess, Pipes
<1> DEFINE z == [x EXCEPT !.pc = p, !.pipe = q]
<1>3. z.pc = p /\ z.run = x.run
  BY <1>1 DEF Worker
<1>4. worker'[w] = z /\ Only(w)
  BY <1>2 DEF IInv, TypeOK, Only
<1> HIDE DEF z
<1>5. ThreadMoves(w, x, worker'[w], runs')
  BY <1>1, <1>3, <1>4 DEF ThreadMoves, Export
<1> QED
  BY <1>3, <1>4, <1>5 DEF PollSuccess

LEMMA CommitStep ==
    ASSUME IInv, Ended, NEW w \in Workers, Commit(w)
    PROVE  /\ Only(w) /\ ThreadMoves(w, worker[w], worker'[w], runs')
           /\ worker'[w].pc \in {"free", "tick"}
           /\ UNCHANGED <<conn, runs, lastRun, job, config, now, crashes, hist>>
<1>1. worker[w] \in Worker /\ worker[w].pc = "commit" /\ ~Going(runs[worker[w].run])
  BY Basics DEF Commit, Ended
<1>2. worker'[w] = Returned(w) /\ Only(w) /\ runs' = runs
  BY DEF Commit, IInv, TypeOK, Only
<1>3. worker'[w].pc \in {"free", "tick"} /\ worker'[w].run = 0
  BY <1>1, <1>2, ReturnedType
<1>4. ThreadMoves(w, worker[w], worker'[w], runs')
  BY <1>1, <1>2, <1>3 DEF ThreadMoves, Export
<1> QED
  BY <1>2, <1>3, <1>4 DEF Commit

\* A thread is lost, or a write of the state of its run.
LEMMA LossStep ==
    ASSUME IInv, NEW w \in Workers, Crash(w) \/ WriteLost(w)
    PROVE  /\ Only(w) /\ worker'[w].pc \in {"free", "tick"} /\ worker'[w].run = 0
           /\ crashes' = crashes + 1
           /\ UNCHANGED <<conn, runs, lastRun, job, config, now, hist>>
<1>1. worker[w] \in Worker
  BY Basics
<1>2. CASE Crash(w)
  BY <1>2 DEF Crash, IInv, TypeOK, Only, FreeWorker
<1>3. CASE WriteLost(w)
  <2>1. worker'[w] = Returned(w) /\ Only(w)
    BY <1>3 DEF WriteLost, IInv, TypeOK, Only
  <2> QED
    BY <1>1, <1>3, <2>1, ReturnedType DEF WriteLost
<1> QED
  BY <1>2, <1>3

\* Thread w moves on, or stops, and of the runs only its own may end.
Moved(w) ==
    /\ Only(w) /\ ThreadMoves(w, worker[w], worker'[w], runs')
    /\ RowsEnd(runs, runs', lastRun)
    /\ UNCHANGED <<lastRun, hist, crashes>>
    /\ worker'[w].pc = "create" => CheckIdle(w)
    /\ worker'[w].pc = "start" => apply_pipeline_configuration(w)

\* Every step, as far as threads and rows go.
LEMMA Summary ==
    ASSUME IInv, Ended, Next
    PROVE  \/ \E w \in Workers : create_run(w)
           \/ \E w \in Workers : Crash(w) \/ WriteLost(w)
           \/ \E w \in Workers : Moved(w)
           \/ UNCHANGED <<worker, runs, lastRun, hist, crashes>>
<1>1. RowsEnd(runs, runs, lastRun)
  BY DEF RowsEnd
<1>2. ASSUME NEW w \in Workers,
             \/ \E c \in Connections, m \in Modes : start_sync(w, c, m)
             \/ TickList(w) \/ TickSkip(w) \/ TickPick(w) \/ TickClaim(w)
             \/ Admit(w) \/ CheckIdle(w) \/ Refused(w)
      PROVE  Moved(w)
  <2>1. worker[w].pc \notin Export
    BY <1>2 DEF start_sync, TickList, TickSkip, TickPick, TickClaim, Admit, CheckIdle, Refused, PreRun, Export
  <2>2. worker'[w].pc # "start"
    BY <1>2, <2>1, PreStep DEF ThreadMoves, Export
  <2> QED
    BY <1>1, <1>2, <2>2, PreStep DEF Moved
<1>3. ASSUME NEW w \in Workers,
             run_dc_job(w) \/ land_files(w) \/ land_baseline(w)
             \/ apply_pipeline_configuration(w) \/ start_pipeline_update(w) \/ Complete(w)
      PROVE  Moved(w)
  <2>1. CASE run_dc_job(w)
    BY <2>1, ExportStep DEF run_dc_job, Export, IN_FLIGHT_STATES, Moved
  <2>2. CASE land_files(w)
    <3>1. PICK to \in {"baseline", "apply"} : Step(w, "land", "downloading", to)
      BY <2>2 DEF land_files
    <3>2. to \in Export \ {"export"} /\ to # "commit" /\ "land" \in Export
      BY DEF Export
    <3> QED
      BY <2>2, <3>1, <3>2, ExportStep DEF land_files, IN_FLIGHT_STATES, Moved
  <2>3. CASE land_baseline(w)
    BY <2>3, ExportStep DEF land_baseline, Export, IN_FLIGHT_STATES, Moved
  <2>4. CASE apply_pipeline_configuration(w)
    BY <2>4, ExportStep DEF apply_pipeline_configuration, Export, IN_FLIGHT_STATES, Moved
  <2>5. CASE start_pipeline_update(w)
    BY <2>5, ExportStep DEF start_pipeline_update, Export, IN_FLIGHT_STATES, Moved
  <2>6. CASE Complete(w)
    BY <2>6, ExportStep DEF Complete, Export, IN_FLIGHT_STATES, Moved
  <2> QED
    BY <1>3, <2>1, <2>2, <2>3, <2>4, <2>5, <2>6
<1>4. ASSUME NEW w \in Workers, PollSuccess(w)
      PROVE  Moved(w)
  BY <1>1, <1>4, PollStep DEF Moved
<1>5. ASSUME NEW w \in Workers, Commit(w)
      PROVE  Moved(w)
  BY <1>1, <1>5, CommitStep DEF Moved
<1>6. ASSUME NEW w \in Workers, StartRefused(w) \/ PollGivesUp(w) \/ Fail(w)
      PROVE  Moved(w)
  <2>1. worker[w].pc \in Export /\ FailRun(w)
    BY <1>6 DEF StartRefused, PollGivesUp, Fail, Export
  <2> QED
    BY <2>1, FailStep DEF Moved
<1>7. ASSUME NEW c \in Connections,
             BootstrapDone(c) \/ BootstrapFailed(c) \/ save_dbx_credentials(c) \/ enable_cdc(c) \/ disable_cdc(c)
      PROVE  UNCHANGED <<worker, runs, lastRun, hist, crashes>>
  BY <1>7 DEF BootstrapDone, BootstrapFailed, save_dbx_credentials, enable_cdc, disable_cdc
<1>8. ASSUME NEW r \in RunIds, JobTask(r) \/ UpdateCompleted(r) \/ JobFailed(r)
      PROVE  UNCHANGED <<worker, runs, lastRun, hist, crashes>>
  BY <1>8 DEF JobTask, UpdateCompleted, JobFailed
<1>9. CASE Tock
  BY <1>9 DEF Tock
<1>10. ASSUME NEW w \in Workers, WorkerStep(w)
       PROVE  create_run(w) \/ Moved(w)
  BY <1>2, <1>3, <1>4, <1>5, <1>6, <1>10 DEF WorkerStep
<1> QED
  BY <1>2, <1>6, <1>7, <1>8, <1>9, <1>10 DEF Next

\* The run that a thread creates.
LEMMA CreateStep ==
    ASSUME IInv, NEW w \in Workers, create_run(w), NEW r, r = lastRun + 1
    PROVE  /\ worker[w].pc = "create" /\ worker'[w].pc = "export" /\ worker'[w].run = r /\ Only(w)
           /\ lastRun' = r /\ Created' = Created \cup {r} /\ r \notin Created /\ r \in RunIds
           /\ runs'[r].conn = worker[w].conn /\ Going(runs'[r]) /\ runs'[r].trigger = worker[w].trigger
           /\ hist'[r].seen = worker[w].seen
           /\ hist'[r].slot = worker[w].slot[worker[w].conn]
           /\ hist'[r].rivals = has_in_flight_run(worker[w].conn) \cup UpdatesOf(worker[w].conn)
           /\ \A i \in Created : runs'[i] = runs[i] /\ hist'[i] = hist[i]
           /\ UNCHANGED <<conn, job, config, now, crashes>>
<1>1. worker[w] \in Worker /\ worker[w].pc = "create" /\ Created \subseteq RunIds /\ lastRun \in Nat
  BY Basics DEF create_run
<1>2. lastRun' = r /\ r \in RunIds /\ r \notin Created /\ Created' = Created \cup {r}
  BY <1>1, BoundsAssumption DEF create_run, RunIds, Created
<1>3. /\ runs'[r] = [conn |-> worker[w].conn, mode |-> worker[w].mode,
                     trigger |-> worker[w].trigger, state |-> "pending"]
      /\ hist'[r] = [seen |-> worker[w].seen,
                     rivals |-> has_in_flight_run(worker[w].conn) \cup UpdatesOf(worker[w].conn),
                     slot |-> worker[w].slot[worker[w].conn]]
      /\ \A i \in Created : runs'[i] = runs[i] /\ hist'[i] = hist[i]
  BY <1>2 DEF create_run, IInv, TypeOK
<1>4. worker'[w].pc = "export" /\ worker'[w].run = r /\ Only(w)
  BY <1>1 DEF create_run, IInv, TypeOK, Worker, Only
<1> QED
  BY <1>1, <1>2, <1>3, <1>4 DEF create_run, Going, IN_FLIGHT_STATES

-----------------------------------------------------------------------------
(* Rivals, and runs that nobody executes *)

LEMMA RivalsStep ==
    ASSUME IInv, Ended, Rivals, Next
    PROVE  Rivals'
<1>1. ASSUME NEW w \in Workers, create_run(w)
      PROVE  Rivals'
  <2> DEFINE r == lastRun + 1
  <2> DEFINE c == worker[w].conn
  <2>1. /\ Created' = Created \cup {r} /\ r \notin Created
        /\ runs'[r].conn = c /\ hist'[r].rivals = has_in_flight_run(c) \cup UpdatesOf(c)
        /\ \A i \in Created : runs'[i] = runs[i] /\ hist'[i] = hist[i]
    BY <1>1, CreateStep
  <2>2. \A i \in Created : i < r /\ i \in Int
    BY Basics DEF Created
  <2>3. r \in Int
    BY Basics
  <2> HIDE DEF r
  <2> SUFFICES ASSUME NEW i \in Created', NEW j \in Created',
                      i < j, runs'[i].conn = runs'[j].conn, Going(runs'[i])
               PROVE  i \in hist'[j].rivals
    BY DEF Rivals
  <2>4. i # r
    BY <2>1, <2>2, <2>3
  <2>5. CASE j = r
    BY <2>1, <2>4, <2>5 DEF has_in_flight_run, InFlight, Going
  <2>6. CASE j # r
    BY <2>1, <2>4, <2>6 DEF Rivals
  <2> QED
    BY <2>5, <2>6
<1>2. ASSUME NEW w \in Workers, Moved(w)
      PROVE  Rivals'
  BY <1>2 DEF Rivals, Moved, RowsEnd, Created
<1>3. ASSUME NEW w \in Workers, Crash(w) \/ WriteLost(w)
      PROVE  Rivals'
  BY <1>3, LossStep DEF Rivals, Created
<1>4. CASE UNCHANGED <<worker, runs, lastRun, hist, crashes>>
  BY <1>4 DEF Rivals, Created
<1> QED
  BY <1>1, <1>2, <1>3, <1>4, Summary

LEMMA EndedStep ==
    ASSUME IInv, Ended, Next
    PROVE  Ended'
<1>1. ASSUME NEW w \in Workers, create_run(w)
      PROVE  Ended'
  <2> SUFFICES ASSUME NEW v \in Workers, worker'[v].pc = "commit"
               PROVE  ~Going(runs'[worker'[v].run])
    BY DEF Ended
  <2>1. v # w /\ worker'[v] = worker[v]
    BY <1>1, CreateStep DEF Only
  <2>2. worker[v].run \in Created
    BY <2>1, Basics DEF Export
  <2> QED
    BY <1>1, <2>1, <2>2, CreateStep DEF Ended
<1>2. ASSUME NEW w \in Workers, Moved(w)
      PROVE  Ended'
  <2> SUFFICES ASSUME NEW v \in Workers, worker'[v].pc = "commit"
               PROVE  ~Going(runs'[worker'[v].run])
    BY DEF Ended
  <2>1. CASE v = w
    BY <1>2, <2>1 DEF Moved, ThreadMoves, Export
  <2>2. CASE v # w
    <3>1. worker'[v] = worker[v] /\ worker[v].run \in Created
      BY <1>2, <2>2, Basics DEF Moved, Only, Export
    <3> QED
      BY <1>2, <3>1 DEF Moved, RowsEnd, Ended, Created
  <2> QED
    BY <2>1, <2>2
<1>3. ASSUME NEW w \in Workers, Crash(w) \/ WriteLost(w)
      PROVE  Ended'
  BY <1>3, LossStep DEF Ended, Only
<1>4. CASE UNCHANGED <<worker, runs, lastRun, hist, crashes>>
  BY <1>4 DEF Ended
<1> QED
  BY <1>1, <1>2, <1>3, <1>4, Summary

LEMMA FewOrphans == TypeOK => IsFiniteSet(Orphans)
<1> SUFFICES ASSUME TypeOK PROVE IsFiniteSet(Orphans)
  OBVIOUS
<1>1. IsFiniteSet(1..lastRun)
  BY FS_Interval, BoundsAssumption DEF TypeOK
<1> QED
  BY <1>1, FS_Subset DEF Orphans, Created

\* A step makes at most one orphan, and only a loss makes one.
LEMMA OrphansStep ==
    ASSUME IInv, Ended, OrphansComeFromCrashes, Next
    PROVE  OrphansComeFromCrashes'
<1>1. IsFiniteSet(Orphans) /\ Cardinality(Orphans) \in Nat /\ Cardinality(Orphans) <= crashes
  BY FewOrphans, FS_CardinalityType DEF OrphansComeFromCrashes, Orphans, IInv
<1>2. crashes \in Nat
  BY BoundsAssumption DEF IInv, TypeOK
<1>3. ASSUME Orphans' \subseteq Orphans, crashes' = crashes
      PROVE  OrphansComeFromCrashes'
  <2>1. Cardinality(Orphans') <= Cardinality(Orphans) /\ Cardinality(Orphans') \in Nat
    BY <1>1, <1>3, FS_Subset, FS_CardinalityType
  <2>2. Cardinality(Orphans') <= crashes'
    BY <1>1, <1>2, <1>3, <2>1
  <2> QED
    BY <2>2 DEF OrphansComeFromCrashes, Orphans
<1>4. ASSUME NEW w \in Workers, create_run(w)
      PROVE  OrphansComeFromCrashes'
  <2> DEFINE r == lastRun + 1
  <2>1. /\ Created' = Created \cup {r} /\ worker'[w].run = r /\ crashes' = crashes
        /\ worker[w].pc = "create" /\ Only(w)
        /\ \A i \in Created : runs'[i] = runs[i]
    BY <1>4, CreateStep
  <2>2. worker[w].run = 0 /\ 0 \notin Created
    BY <2>1 DEF IInv, Owned, OwnsWell, Export, Created
  <2>3. Orphans' \subseteq Orphans
    BY <2>1, <2>2 DEF Orphans, Only, InFlight
  <2> QED
    BY <1>3, <2>1, <2>3
<1>5. ASSUME NEW w \in Workers, Moved(w)
      PROVE  OrphansComeFromCrashes'
  <2>1. ASSUME NEW r \in Created', InFlight(r)', \A v \in Workers : worker'[v].run # r
        PROVE  r \in Orphans
    <3>1. r \in Created /\ r # 0 /\ Going(runs'[r]) /\ Going(runs[r])
      BY <1>5, <2>1 DEF Moved, RowsEnd, Created, InFlight, Going
    <3>2. \A v \in Workers \ {w} : worker[v].run # r
      BY <1>5, <2>1 DEF Moved, Only
    <3>3. worker[w].run # r
      <4>1. CASE worker[w].pc \notin Export
        BY <3>1, <4>1 DEF IInv, Owned, OwnsWell
      <4>2. CASE worker[w].pc \in Export /\ worker'[w].pc \in Export
        BY <1>5, <2>1, <4>2 DEF Moved, ThreadMoves
      <4>3. CASE worker[w].pc \in Export /\ worker'[w].pc \notin Export
        BY <1>5, <3>1, <4>3 DEF Moved, ThreadMoves
      <4> QED
        BY <4>1, <4>2, <4>3
    <3> QED
      BY <3>1, <3>2, <3>3 DEF Orphans, InFlight, Going
  <2>2. Orphans' \subseteq Orphans
    BY <2>1 DEF Orphans
  <2> QED
    BY <1>3, <1>5, <2>2 DEF Moved
<1>6. ASSUME NEW w \in Workers, Crash(w) \/ WriteLost(w)
      PROVE  OrphansComeFromCrashes'
  <2> DEFINE more == Orphans \cup {worker[w].run}
  <2>1. /\ Only(w) /\ worker'[w].run = 0 /\ crashes' = crashes + 1
        /\ UNCHANGED <<runs, lastRun>>
    BY <1>6, LossStep
  <2>2. Orphans' \subseteq more
    BY <2>1 DEF Orphans, Only, InFlight, Created
  <2>3. IsFiniteSet(more) /\ Cardinality(more) \in Nat /\ Cardinality(more) <= Cardinality(Orphans) + 1
    BY <1>1, FS_AddElement, FS_CardinalityType
  <2>4. Cardinality(Orphans') <= Cardinality(more) /\ Cardinality(Orphans') \in Nat
    BY <2>2, <2>3, FS_Subset, FS_CardinalityType
  <2>5. Cardinality(Orphans') <= crashes'
    BY <1>1, <1>2, <2>1, <2>3, <2>4
  <2> QED
    BY <2>5 DEF OrphansComeFromCrashes, Orphans
<1>7. CASE UNCHANGED <<worker, runs, lastRun, hist, crashes>>
  BY <1>3, <1>7 DEF Orphans, InFlight, Created
<1> QED
  BY <1>4, <1>5, <1>6, <1>7, Summary

-----------------------------------------------------------------------------
(* Jobs and folders on the Flask path *)

\* Job j goes on to j2 by itself: no update starts, and nothing is read.
JobEbbs(j, j2) == j2.todo = <<>> /\ (j2.active # Null => j.active # Null) /\ j2.read = j.read

\* What happens to jobs.
LEMMA JobsStep ==
    ASSUME IInv, ~NotebookDownload, NoTasks, Next
    PROVE  \/ \A r \in RunIds : JobEbbs(job[r], job'[r])
           \/ \E w \in Workers :
                 /\ start_pipeline_update(w) /\ worker[w].run \in Created
                 /\ job'[worker[w].run].todo = <<>>
                 /\ job'[worker[w].run].read
                        = job[worker[w].run].read \cup {config[worker[w].conn][worker[w].pipe]}
                 /\ \A r \in RunIds \ {worker[w].run} : JobEbbs(job[r], job'[r])
<1>1. job \in [RunIds -> Job] /\ \A r \in RunIds : job[r].todo = <<>>
  BY DEF IInv, TypeOK, NoTasks
<1>2. ASSUME job' = job
      PROVE  \A r \in RunIds : JobEbbs(job[r], job'[r])
  BY <1>1, <1>2 DEF JobEbbs
<1>3. ASSUME NEW w \in Workers, start_pipeline_update(w)
      PROVE  \/ \A r \in RunIds : JobEbbs(job[r], job'[r])
             \/ /\ start_pipeline_update(w) /\ worker[w].run \in Created
                /\ job'[worker[w].run].todo = <<>>
                /\ job'[worker[w].run].read
                       = job[worker[w].run].read \cup {config[worker[w].conn][worker[w].pipe]}
                /\ \A r \in RunIds \ {worker[w].run} : JobEbbs(job[r], job'[r])
  <2> DEFINE q == worker[w].run
  <2> DEFINE j == job[q]
  <2> DEFINE p == worker[w].pipe
  <2> DEFINE read == j.read \cup {config[worker[w].conn][p]}
  <2>1. q \in Created /\ q \in RunIds
    BY <1>3, Basics DEF start_pipeline_update, Step, Export
  <2>2. job' = [job EXCEPT ![q] = [j EXCEPT !.result = "running", !.active = p, !.read = read]]
    BY <1>3 DEF start_pipeline_update
  <2>3. j \in Job
    BY <1>1, <2>1
  <2>4. /\ [j EXCEPT !.result = "running", !.active = p, !.read = read].todo = j.todo
        /\ [j EXCEPT !.result = "running", !.active = p, !.read = read].read = read
    BY <2>3 DEF Job
  <2>5. job'[q].todo = <<>> /\ job'[q].read = read
    BY <1>1, <2>1, <2>2, <2>4
  <2>6. \A r \in RunIds \ {q} : job'[r] = job[r]
    BY <1>1, <2>2
  <2>7. \A r \in RunIds \ {q} : JobEbbs(job[r], job'[r])
    BY <1>1, <2>6 DEF JobEbbs
  <2> QED
    BY <1>3, <2>1, <2>5, <2>7
<1>4. ASSUME NEW r \in RunIds, UpdateCompleted(r) \/ JobFailed(r)
      PROVE  \A q \in RunIds : JobEbbs(job[q], job'[q])
  <2> DEFINE j == job[r]
  <2>1. j \in Job /\ j.todo = <<>>
    BY <1>1
  <2>2. CASE UpdateCompleted(r)
    <3>1. job' = [job EXCEPT ![r] = [j EXCEPT !.active = Null,
                                              !.result = IF j.todo = <<>> THEN "success" ELSE "running"]]
      BY <2>2 DEF UpdateCompleted
    <3>2. job' = [job EXCEPT ![r] = [j EXCEPT !.active = Null, !.result = "success"]]
      BY <2>1, <3>1
    <3>3. JobEbbs(j, [j EXCEPT !.active = Null, !.result = "success"])
      BY <2>1 DEF Job, JobEbbs
    <3> QED
      BY <1>1, <3>2, <3>3 DEF JobEbbs
  <2>3. CASE JobFailed(r)
    <3>1. job' = [job EXCEPT ![r] = [j EXCEPT !.active = Null, !.todo = <<>>, !.result = "failed"]]
      BY <2>3 DEF JobFailed
    <3>2. JobEbbs(j, [j EXCEPT !.active = Null, !.todo = <<>>, !.result = "failed"])
      BY <2>1 DEF Job, JobEbbs
    <3> QED
      BY <1>1, <3>1, <3>2 DEF JobEbbs
  <2> QED
    BY <1>4, <2>2, <2>3
<1>5. ASSUME NEW r \in RunIds, JobTask(r)
      PROVE  FALSE
  BY <1>1, <1>5 DEF JobTask
<1>6. ASSUME NEW w \in Workers, WorkerStep(w) \/ Fail(w), ~start_pipeline_update(w)
      PROVE  job' = job
  BY <1>6 DEF WorkerStep, TickSkip, TickPick, TickClaim, Admit, CheckIdle, Refused, create_run,
              run_dc_job, land_files, land_baseline, apply_pipeline_configuration,
              StartRefused, PollSuccess, PollGivesUp, Complete, Commit, Fail, FailRun
<1>7. ASSUME NEW w \in Workers,
             \/ \E c \in Connections, m \in Modes : start_sync(w, c, m)
             \/ TickList(w) \/ Crash(w) \/ WriteLost(w)
      PROVE  job' = job
  BY <1>7 DEF start_sync, TickList, Crash, WriteLost
<1>8. ASSUME NEW c \in Connections,
             BootstrapDone(c) \/ BootstrapFailed(c) \/ save_dbx_credentials(c) \/ enable_cdc(c) \/ disable_cdc(c)
      PROVE  job' = job
  BY <1>8 DEF BootstrapDone, BootstrapFailed, save_dbx_credentials, enable_cdc, disable_cdc
<1>9. Tock => job' = job
  BY DEF Tock
<1> QED
  BY <1>2, <1>3, <1>4, <1>5, <1>6, <1>7, <1>8, <1>9 DEF Next

LEMMA NoTasksStep ==
    ASSUME IInv, NoTasks, Next
    PROVE  NoTasks'
<1> SUFFICES ASSUME ~NotebookDownload
             PROVE  \A r \in RunIds : job'[r].todo = <<>>
  BY DEF NoTasks
<1> QED
  BY JobsStep, Basics DEF JobEbbs

\* Only a run in flight gets an update.
LEMMA OnlyGoingStir ==
    ASSUME IInv, ~NotebookDownload, NoTasks, Next, NEW r \in Created, job'[r].active # Null
    PROVE  job[r].active # Null \/ Going(runs[r])
<1>1. r \in RunIds
  BY Basics
<1>2. ASSUME NEW w \in Workers, start_pipeline_update(w)
      PROVE  Going(runs[worker[w].run])
  BY <1>2, Basics DEF start_pipeline_update, Step, OwnsWell, Export
<1> QED
  BY <1>1, <1>2, JobsStep DEF JobEbbs

\* What has been idle stays so, for the runs up to k, which are not in flight.
LEMMA StaysIdle ==
    ASSUME IInv, ~NotebookDownload, NoTasks, Ended, Next, NEW k \in Nat, k <= lastRun, NEW c,
           NoneUpTo(k, c, runs, lastRun), IdleUpTo(k, c, runs, lastRun, job)
    PROVE  IdleUpTo(k, c, runs', lastRun', job')
<1> SUFFICES ASSUME NEW i \in 1..lastRun', i <= k, runs'[i].conn = c
             PROVE  job'[i].active = Null
  BY DEF IdleUpTo
<1>1. i \in Created
  BY Basics DEF Created
<1>2. runs'[i].conn = runs[i].conn
  <2>1. \A w \in Workers : create_run(w) => runs'[i] = runs[i]
    BY <1>1, CreateStep
  <2>2. \A w \in Workers : Moved(w) => runs'[i].conn = runs[i].conn
    BY <1>1 DEF Moved, RowsEnd, Created
  <2>3. \A w \in Workers : Crash(w) \/ WriteLost(w) => runs' = runs
    BY LossStep
  <2> QED
    BY <2>1, <2>2, <2>3, Summary
<1>3. job[i].active = Null /\ ~Going(runs[i])
  BY <1>1, <1>2 DEF IdleUpTo, NoneUpTo, Created
<1> QED
  BY <1>1, <1>3, OnlyGoingStir

LEMMA DrainedStep ==
    ASSUME IInv, NoTasks, Ended, Drained, Next
    PROVE  Drained'
<1> SUFFICES ASSUME ~NotebookDownload
             PROVE  /\ \A w \in Workers : worker'[w].pc = "create" =>
                          IdleUpTo(worker'[w].seen, worker'[w].conn, runs', lastRun', job')
                    /\ \A j \in Created' : IdleUpTo(hist'[j].seen, runs'[j].conn, runs', lastRun', job')
  BY DEF Drained
<1>1. ASSUME NEW w \in Workers, worker[w].pc = "create"
      PROVE  IdleUpTo(worker[w].seen, worker[w].conn, runs', lastRun', job')
  <2>1. worker[w].seen \in Nat /\ worker[w].seen <= lastRun
        /\ NoneUpTo(worker[w].seen, worker[w].conn, runs, lastRun)
    BY <1>1, Basics DEF Worker, IInv, Guarded
  <2>2. IdleUpTo(worker[w].seen, worker[w].conn, runs, lastRun, job)
    BY <1>1 DEF Drained
  <2> QED
    BY <2>1, <2>2, StaysIdle
<1>2. ASSUME NEW j \in Created
      PROVE  IdleUpTo(hist[j].seen, runs[j].conn, runs', lastRun', job')
  <2>1. hist[j].seen \in Nat /\ hist[j].seen <= lastRun
        /\ NoneUpTo(hist[j].seen, runs[j].conn, runs, lastRun)
    BY Basics DEF IInv, TypeOK, History, Guarded, Created
  <2>2. IdleUpTo(hist[j].seen, runs[j].conn, runs, lastRun, job)
    BY DEF Drained
  <2> QED
    BY <2>1, <2>2, StaysIdle
<1>3. ASSUME NEW w \in Workers, CheckIdle(w)
      PROVE  IdleUpTo(worker'[w].seen, worker'[w].conn, runs', lastRun', job')
  <2>1. UNCHANGED <<runs, lastRun, job>> /\ worker'[w].conn = worker[w].conn
    BY <1>3, Basics DEF CheckIdle, IInv, TypeOK, Worker
  <2>2. \A r \in Created : runs[r].conn = worker[w].conn => job[r].active = Null
    BY <1>3 DEF CheckIdle, assert_pipelines_idle, UpdatesOf
  <2> QED
    BY <2>1, <2>2 DEF IdleUpTo, Created
<1>4. ASSUME NEW w \in Workers, create_run(w)
      PROVE  /\ \A v \in Workers : worker'[v].pc = "create" =>
                    IdleUpTo(worker'[v].seen, worker'[v].conn, runs', lastRun', job')
             /\ \A j \in Created' : IdleUpTo(hist'[j].seen, runs'[j].conn, runs', lastRun', job')
  <2> DEFINE r == lastRun + 1
  <2>1. /\ worker[w].pc = "create" /\ worker'[w].pc = "export" /\ Only(w)
        /\ Created' = Created \cup {r} /\ runs'[r].conn = worker[w].conn /\ hist'[r].seen = worker[w].seen
        /\ \A i \in Created : runs'[i] = runs[i] /\ hist'[i] = hist[i]
    BY <1>4, CreateStep
  <2> HIDE DEF r
  <2> QED
    BY <1>1, <1>2, <2>1 DEF Only
<1>5. ASSUME NEW w \in Workers, Moved(w)
      PROVE  /\ \A v \in Workers : worker'[v].pc = "create" =>
                    IdleUpTo(worker'[v].seen, worker'[v].conn, runs', lastRun', job')
             /\ \A j \in Created' : IdleUpTo(hist'[j].seen, runs'[j].conn, runs', lastRun', job')
  BY <1>1, <1>2, <1>3, <1>5 DEF Moved, Only, RowsEnd, Created
<1>6. ASSUME NEW w \in Workers, Crash(w) \/ WriteLost(w)
      PROVE  /\ \A v \in Workers : worker'[v].pc = "create" =>
                    IdleUpTo(worker'[v].seen, worker'[v].conn, runs', lastRun', job')
             /\ \A j \in Created' : IdleUpTo(hist'[j].seen, runs'[j].conn, runs', lastRun', job')
  BY <1>1, <1>2, <1>6, LossStep DEF Only, Created
<1>7. CASE UNCHANGED <<worker, runs, lastRun, hist, crashes>>
  BY <1>1, <1>2, <1>7 DEF Created
<1> QED
  BY <1>4, <1>5, <1>6, <1>7, Summary

\* What happens to the folder a pipeline is set to.
LEMMA ConfigStep ==
    ASSUME IInv, ~NotebookDownload, Next, NEW c \in Connections, NEW p \in Pipes
    PROVE  \/ config'[c][p] = config[c][p]
           \/ config'[c][p] = 0
           \/ \E w \in Workers : /\ apply_pipeline_configuration(w)
                                 /\ c = worker[w].conn /\ p = worker[w].pipe
                                 /\ config'[c][p] = worker[w].run
<1>1. config \in [Connections -> [Pipes -> 0..MaxRuns]]
  BY DEF IInv, TypeOK
<1>2. ASSUME NEW w \in Workers, apply_pipeline_configuration(w)
      PROVE  \/ config'[c][p] = config[c][p]
             \/ /\ apply_pipeline_configuration(w) /\ c = worker[w].conn /\ p = worker[w].pipe
                /\ config'[c][p] = worker[w].run
  <2> DEFINE q == worker[w].pipe
  <2>1. config' = [config EXCEPT ![worker[w].conn] =
                      [a \in Pipes |-> IF a \in {q} THEN worker[w].run ELSE config[worker[w].conn][a]]]
    BY <1>2 DEF apply_pipeline_configuration
  <2>2. CASE c = worker[w].conn
    <3>1. config'[c] = [a \in Pipes |-> IF a \in {q} THEN worker[w].run ELSE config[c][a]]
      BY <1>1, <2>1, <2>2
    <3>2. config'[c][p] = IF p \in {q} THEN worker[w].run ELSE config[c][p]
      BY <3>1
    <3> QED
      BY <1>2, <2>2, <3>2
  <2>3. CASE c # worker[w].conn
    BY <1>1, <2>1, <2>3
  <2> QED
    BY <2>2, <2>3
<1>3. ASSUME NEW w \in Workers, WorkerStep(w) \/ Fail(w), ~apply_pipeline_configuration(w)
      PROVE  config' = config
  BY <1>3 DEF WorkerStep, TickSkip, TickPick, TickClaim, Admit, CheckIdle, Refused, create_run,
              run_dc_job, land_files, land_baseline, start_pipeline_update,
              StartRefused, PollSuccess, PollGivesUp, Complete, Commit, Fail, FailRun
<1>4. ASSUME NEW w \in Workers,
             \/ \E d \in Connections, m \in Modes : start_sync(w, d, m)
             \/ TickList(w) \/ Crash(w) \/ WriteLost(w)
      PROVE  config' = config
  BY <1>4 DEF start_sync, TickList, Crash, WriteLost
<1>5. ASSUME NEW d \in Connections, BootstrapDone(d)
      PROVE  config'[c][p] = 0 \/ config'[c][p] = config[c][p]
  BY <1>1, <1>5 DEF BootstrapDone
<1>6. ASSUME NEW d \in Connections,
             BootstrapFailed(d) \/ save_dbx_credentials(d) \/ enable_cdc(d) \/ disable_cdc(d)
      PROVE  config' = config
  BY <1>6 DEF BootstrapFailed, save_dbx_credentials, enable_cdc, disable_cdc
<1>7. ASSUME NEW r \in RunIds, JobTask(r) \/ UpdateCompleted(r) \/ JobFailed(r)
      PROVE  config' = config
  BY <1>7 DEF JobTask, UpdateCompleted, JobFailed
<1>8. Tock => config' = config
  BY DEF Tock
<1> QED
  BY <1>2, <1>3, <1>4, <1>5, <1>6, <1>7, <1>8 DEF Next

\* Who overlapped whom does not change.
LEMMA TheirsStays ==
    ASSUME IInv, Ended, Next, NEW r \in Created, NEW i, Theirs(i, r, lastRun, hist)
    PROVE  Theirs(i, r, lastRun', hist')
<1>1. \/ lastRun' = lastRun /\ hist' = hist
      \/ Created' = Created \cup {lastRun + 1} /\ \A j \in Created : hist'[j] = hist[j]
  <2>1. \A w \in Workers :
           create_run(w) => Created' = Created \cup {lastRun + 1} /\ \A j \in Created : hist'[j] = hist[j]
    BY CreateStep
  <2>2. \A w \in Workers : Moved(w) => lastRun' = lastRun /\ hist' = hist
    BY DEF Moved
  <2>3. \A w \in Workers : Crash(w) \/ WriteLost(w) => lastRun' = lastRun /\ hist' = hist
    BY LossStep
  <2> QED
    BY <2>1, <2>2, <2>3, Summary
<1>2. CASE lastRun' = lastRun /\ hist' = hist
  BY <1>2
<1>3. CASE Created' = Created \cup {lastRun + 1} /\ \A j \in Created : hist'[j] = hist[j]
  <2>1. i \in Created => i \in Created'
    BY <1>3
  <2>2. i \in Created => hist'[i] = hist[i] /\ hist'[r] = hist[r]
    BY <1>3
  <2> QED
    BY <2>1, <2>2 DEF Theirs, Created
<1> QED
  BY <1>1, <1>2, <1>3

\* Two runs of a connection that are in flight together overlapped.
LEMMA BothGoing ==
    ASSUME IInv, Rivals, NEW i \in Created, NEW r \in Created, runs[i].conn = runs[r].conn,
           Going(runs[i]), Going(runs[r])
    PROVE  Theirs(i, r, lastRun, hist)
<1>1. i \in Int /\ r \in Int
  BY DEF Created
<1>2. i < r \/ i = r \/ r < i
  BY <1>1
<1> QED
  BY <1>2 DEF Theirs, Rivals, Created

LEMMA PlacedStep ==
    ASSUME IInv, NoTasks, Ended, Rivals, Placed, Next
    PROVE  Placed'
<1> SUFFICES ASSUME ~NotebookDownload
             PROVE  /\ \A w \in Workers : worker'[w].pc = "start" =>
                          Theirs(config'[worker'[w].conn][worker'[w].pipe], worker'[w].run, lastRun', hist')
                    /\ \A r \in Created' : \A i \in job'[r].read : Theirs(i, r, lastRun', hist')
                    /\ \A r \in RunIds \ Created' : job'[r].read = {}
  BY DEF Placed
<1>1. ASSUME NEW w \in Workers, worker'[w].pc = "start"
      PROVE  (worker[w].pc = "start" /\ worker'[w] = worker[w]) \/ apply_pipeline_configuration(w)
  <2>1. \A v \in Workers : create_run(v) => worker'[w] = worker[w]
    BY <1>1, CreateStep DEF Only
  <2>2. \A v \in Workers : Moved(v) => worker'[w] = worker[w] \/ apply_pipeline_configuration(w)
    BY <1>1 DEF Moved, Only
  <2>3. \A v \in Workers : Crash(v) \/ WriteLost(v) => worker'[w] = worker[w]
    BY <1>1, LossStep DEF Only
  <2> QED
    BY <1>1, <2>1, <2>2, <2>3, Summary
<1>2. ASSUME NEW w \in Workers, apply_pipeline_configuration(w)
      PROVE  /\ worker[w].pc = "apply" /\ worker'[w].run = worker[w].run /\ worker'[w].conn = worker[w].conn
             /\ worker'[w].pipe = worker[w].pipe
             /\ worker[w].run \in Created /\ Going(runs[worker[w].run])
             /\ runs[worker[w].run].conn = worker[w].conn
  <2>1. Step(w, "apply", "pipeline_running", "start")
    BY <1>2 DEF apply_pipeline_configuration
  <2>2. worker[w].pc = "apply" /\ worker'[w].run = worker[w].run /\ worker'[w].conn = worker[w].conn
        /\ worker'[w].pipe = worker[w].pipe
    BY <2>1, ExportStep DEF Export, IN_FLIGHT_STATES
  <2> QED
    BY <2>2, Basics DEF OwnsWell, Export
<1>3. ASSUME NEW w \in Workers, worker'[w].pc = "start"
      PROVE  Theirs(config'[worker'[w].conn][worker'[w].pipe], worker'[w].run, lastRun', hist')
  <2> DEFINE c == worker'[w].conn
  <2> DEFINE p == worker'[w].pipe
  <2> DEFINE r == worker'[w].run
  <2>1. CASE apply_pipeline_configuration(w)
    <3>1. c \in Connections /\ p \in Pipes
      BY <1>2, <2>1, Basics DEF OwnsWell, Export, Worker
    <3>2. config'[c][p] = r
      <4>1. config' = [config EXCEPT ![worker[w].conn] =
                          [a \in Pipes |-> IF a \in {worker[w].pipe} THEN worker[w].run
                                           ELSE config[worker[w].conn][a]]]
        BY <2>1 DEF apply_pipeline_configuration
      <4>2. config'[c] = [a \in Pipes |-> IF a \in {worker[w].pipe} THEN worker[w].run
                                          ELSE config[worker[w].conn][a]]
        BY <1>2, <2>1, <3>1, <4>1 DEF IInv, TypeOK
      <4> QED
        BY <1>2, <2>1, <3>1, <4>2
    <3> QED
      BY <3>2 DEF Theirs
  <2>2. CASE worker[w].pc = "start" /\ worker'[w] = worker[w]
    <3>1. c \in Connections /\ p \in Pipes /\ r \in Created /\ Going(runs[r]) /\ runs[r].conn = c
      BY <2>2, Basics DEF OwnsWell, Export, Worker, PreRun
    <3>2. Theirs(config[c][p], r, lastRun, hist)
      BY <2>2 DEF Placed
    <3>3. ASSUME NEW v \in Workers, apply_pipeline_configuration(v), c = worker[v].conn, config'[c][p] = worker[v].run
          PROVE  Theirs(config'[c][p], r, lastRun, hist)
      BY <1>2, <3>1, <3>3, BothGoing
    <3>4. Theirs(config'[c][p], r, lastRun, hist)
      <4>1. Theirs(0, r, lastRun, hist)
        BY DEF Theirs
      <4> QED
        BY <3>1, <3>2, <3>3, <4>1, ConfigStep
    <3> QED
      BY <3>1, <3>4, TheirsStays
  <2> QED
    BY <1>1, <1>3, <2>1, <2>2
<1>4. ASSUME NEW r \in Created, NEW i \in job'[r].read
      PROVE  Theirs(i, r, lastRun', hist')
  <2>1. Theirs(i, r, lastRun, hist)
    <3>1. CASE i \in job[r].read
      BY <3>1 DEF Placed
    <3>2. CASE i \notin job[r].read
      <4>1. r \in RunIds
        BY Basics
      <4>2. PICK w \in Workers :
               /\ start_pipeline_update(w) /\ worker[w].run = r
               /\ job'[r].read = job[r].read \cup {config[worker[w].conn][worker[w].pipe]}
        BY <1>4, <3>2, <4>1, JobsStep DEF JobEbbs
      <4>3. worker[w].pc = "start" /\ i = config[worker[w].conn][worker[w].pipe]
        BY <1>4, <3>2, <4>2 DEF start_pipeline_update, Step
      <4> QED
        BY <4>2, <4>3 DEF Placed
    <3> QED
      BY <3>1, <3>2
  <2> QED
    BY <2>1, TheirsStays
<1>5. ASSUME NEW r \in RunIds \ Created
      PROVE  job'[r].read = {}
  <2>1. job[r].read = {}
    BY DEF Placed
  <2> QED
    BY <2>1, JobsStep DEF JobEbbs
<1>6. Created' \subseteq RunIds /\ Created \subseteq Created'
  <2>1. \A w \in Workers : create_run(w) => Created' = Created \cup {lastRun + 1} /\ lastRun + 1 \in RunIds
    BY CreateStep
  <2>2. \A w \in Workers : Moved(w) => Created' = Created
    BY DEF Moved, Created
  <2>3. \A w \in Workers : Crash(w) \/ WriteLost(w) => Created' = Created
    BY LossStep DEF Created
  <2>4. lastRun' = lastRun => Created' = Created
    BY DEF Created
  <2> QED
    BY <2>1, <2>2, <2>3, <2>4, Summary, Basics
<1>7. \A r \in Created' : \A i \in job'[r].read : Theirs(i, r, lastRun', hist')
  BY <1>4, <1>5, <1>6
<1>8. \A r \in RunIds \ Created' : job'[r].read = {}
  BY <1>5, <1>6
<1> QED
  BY <1>3, <1>7, <1>8

-----------------------------------------------------------------------------
(* The theorems *)

\* The invariant holds before the first request.
LEMMA InitU == Init => UInv
<1> SUFFICES ASSUME Init PROVE UInv
  OBVIOUS
<1>1. IInv
  BY InitInv
<1>2. Created = {} /\ lastRun = 0
  BY DEF Init, Created
<1>3. \A w \in Workers : worker[w].pc = "free"
  BY DEF Init, FreeWorker
<1>4. \A r \in RunIds : job[r].todo = <<>> /\ job[r].read = {}
  BY DEF Init, NoJob
<1>5. NoTasks /\ Drained /\ Rivals /\ Placed /\ Ended
  BY <1>2, <1>3, <1>4 DEF NoTasks, Drained, Rivals, Placed, Ended
<1>6. OrphansComeFromCrashes
  <2>1. Orphans = {}
    BY <1>2 DEF Orphans
  <2>2. Cardinality(Orphans) = 0
    BY <2>1, FS_EmptySet
  <2>3. crashes = 0
    BY DEF Init
  <2> QED
    BY <2>2, <2>3 DEF OrphansComeFromCrashes, Orphans
<1> QED
  BY <1>1, <1>5, <1>6 DEF UInv

\* The invariant is inductive.
LEMMA StepU == UInv /\ [Next]_vars => UInv'
<1> SUFFICES ASSUME UInv, [Next]_vars PROVE UInv'
  OBVIOUS
<1>1. IInv'
  BY StepInv DEF UInv
<1>2. CASE Next
  <2>1. NoTasks'
    BY <1>2, NoTasksStep DEF UInv
  <2>2. Drained'
    BY <1>2, DrainedStep DEF UInv
  <2>3. Rivals'
    BY <1>2, RivalsStep DEF UInv
  <2>4. Placed'
    BY <1>2, PlacedStep DEF UInv
  <2>5. Ended'
    BY <1>2, EndedStep DEF UInv
  <2>6. OrphansComeFromCrashes'
    BY <1>2, OrphansStep DEF UInv
  <2> QED
    BY <1>1, <2>1, <2>2, <2>3, <2>4, <2>5, <2>6 DEF UInv
<1>3. CASE UNCHANGED vars
  <2>1. NoTasks' /\ Drained' /\ Rivals' /\ Placed' /\ Ended'
    BY <1>3 DEF vars, UInv, NoTasks, Drained, IdleUpTo, Rivals, Placed, Theirs, Ended, Created
  <2>2. Orphans' = Orphans /\ crashes' = crashes
    BY <1>3 DEF vars, Orphans, InFlight, Created
  <2>3. OrphansComeFromCrashes'
    BY <2>2 DEF UInv, OrphansComeFromCrashes, Orphans
  <2> QED
    BY <1>1, <2>1, <2>3 DEF UInv
<1> QED
  BY <1>2, <1>3

\* The invariant holds in every reachable state.
THEOREM UpdatesHold == Spec => []UInv
<1> QED
  BY InitU, StepU, PTL DEF Spec

\* What assert_pipelines_idle is for, on the Flask path: two pipeline updates of one
\* connection are active together only for runs that raced through the guard.
THEOREM UpdatesKeepApart == Spec => []CollideOnlyInGuardWindow
<1>1. UInv => CollideOnlyInGuardWindow
  <2> SUFFICES ASSUME UInv, ~NotebookDownload, NEW i \in Created, NEW j \in Created, i < j,
                      runs[i].conn = runs[j].conn, job[i].active # Null, job[j].active # Null
               PROVE  i > hist[j].seen
    BY DEF CollideOnlyInGuardWindow
  <2>1. i \in Nat /\ hist[j].seen \in Nat
    BY DEF UInv, IInv, TypeOK, History, Created
  <2>2. ~(i <= hist[j].seen)
    BY DEF UInv, Drained, IdleUpTo, Created
  <2> QED
    BY <2>1, <2>2
<1> QED
  BY <1>1, UpdatesHold, PTL

\* What apply_pipeline_configuration and start_pipeline_update, two calls on a
\* resource shared by all runs of a connection, still guarantee: an update reads the
\* folder of its own run, a bootstrap's default, or that of a run it overlapped.
THEOREM FoldersAreOwn == Spec => []ReadsOwnFolder
<1>1. UInv => ReadsOwnFolder
  <2> SUFFICES ASSUME UInv, ~NotebookDownload, NEW r \in Created, NEW i \in job[r].read \ {0, r}
               PROVE  i \in Created /\ Overlapped(i, r)
    BY DEF ReadsOwnFolder
  <2>1. Theirs(i, r, lastRun, hist)
    BY DEF UInv, Placed
  <2> QED
    BY <2>1 DEF Theirs, Overlapped, Created
<1> QED
  BY <1>1, UpdatesHold, PTL

\* A run in flight that no thread executes is due to a failure, a restart or a lost
\* write, and each of these leaves at most one.
THEOREM OrphansCounted == Spec => []OrphansComeFromCrashes
<1>1. UInv => OrphansComeFromCrashes
  BY DEF UInv
<1> QED
  BY <1>1, UpdatesHold, PTL

-----------------------------------------------------------------------------
(* Due times: one tick of the scheduler at a time *)

\* No two ticks run together; manual threads may.
OneTick ==
    \A v, w \in Workers : worker[v].trigger = "scheduled" /\ worker[w].trigger = "scheduled" => v = w

Scheduled(c) == {r \in Created : runs[r].conn = c /\ runs[r].trigger = "scheduled"}

\* The due times answered so far are past, and before the next one.
Alarmed(c) ==
    /\ conn[c].cdc_enabled => conn[c].next_run_at # Null
    /\ \A r \in Scheduled(c) :
          /\ hist[r].slot \in Times /\ hist[r].slot <= now
          /\ conn[c].next_run_at # Null => hist[r].slot < conn[c].next_run_at

\* The due time that a tick listed for c is a past one, not answered yet.
Due(x, c) ==
    /\ x.slot[c] \in Times /\ x.slot[c] <= x.tick_at
    /\ \A r \in Scheduled(c) : hist[r].slot < x.slot[c]

\* What a tick still has to answer; what it has claimed is before the next due time.
Ticks(x) ==
    /\ x.tick_at <= now
    /\ x.pc \in {"claim"} \cup PreRun => x.conn \in x.due
    /\ \A c \in x.due : (x.pc \in Export /\ x.conn = c) \/ Due(x, c)
    /\ x.pc \in PreRun /\ conn[x.conn].next_run_at # Null => x.slot[x.conn] < conn[x.conn].next_run_at

\* Only a tick works on a list.
Ticking == \A w \in Workers : worker[w].pc \in {"tick", "claim"} => worker[w].trigger = "scheduled"

TInv ==
    /\ UInv /\ Ticking
    /\ \A c \in Connections : Alarmed(c)
    /\ \A w \in Workers : worker[w].trigger = "scheduled" => Ticks(worker[w])
    /\ OneRunPerDueTime

\* A tick goes from x to y with the list it has.
Carried(w, x, y) ==
    /\ x.trigger = "scheduled" /\ y.trigger = "scheduled"
    /\ y.slot = x.slot /\ y.tick_at = x.tick_at /\ y.due \subseteq x.due
    /\ y.pc \in PreRun => y.conn = x.conn /\ y.due = x.due /\ (x.pc \in PreRun \/ TickClaim(w))
    /\ y.pc = "claim" => y.conn \in y.due
    /\ x.pc \in Export /\ x.conn \in y.due => y.pc \in Export /\ y.conn = x.conn

Plain(y) == y.trigger = "manual" /\ y.pc \notin {"tick", "claim"}

\* A step that only moves the thread on.
LEMMA Onward ==
    ASSUME NEW w \in Workers, NEW x \in Worker, NEW y,
           y.trigger = x.trigger, y.slot = x.slot, y.tick_at = x.tick_at, y.due = x.due, y.conn = x.conn,
           y.pc \notin {"tick", "claim"}, y.pc \in PreRun => x.pc \in PreRun \/ TickClaim(w),
           x.pc \in Export => y.pc \in Export
    PROVE  Plain(y) \/ Carried(w, x, y)
<1>1. x.trigger = "manual" \/ x.trigger = "scheduled"
  BY DEF Worker
<1> QED
  BY <1>1 DEF Plain, Carried

\* A thread whose call of run_connection_sync is over.
LEMMA Return ==
    ASSUME NEW w \in Workers, worker[w] \in Worker
    PROVE  Plain(Returned(w)) \/ Carried(w, worker[w], Returned(w))
<1> DEFINE x == worker[w]
<1> DEFINE rest == x.due \ {x.conn}
<1>1. CASE x.trigger = "manual" \/ rest = {}
  BY <1>1 DEF Returned, FreeWorker, Plain
<1>2. CASE ~(x.trigger = "manual" \/ rest = {})
  <2> DEFINE y == [x EXCEPT !.pc = "tick", !.conn = Null, !.run = 0, !.due = rest]
  <2>1. Returned(w) = y
    BY <1>2 DEF Returned
  <2>2. y.pc = "tick" /\ y.due = rest /\ y.trigger = x.trigger /\ y.slot = x.slot /\ y.tick_at = x.tick_at
    BY DEF Worker
  <2>3. x.trigger = "scheduled"
    BY <1>2 DEF Worker
  <2> HIDE DEF y
  <2> QED
    BY <2>1, <2>2, <2>3 DEF Carried, PreRun
<1> QED
  BY <1>1, <1>2

\* Every step, as far as one thread's list goes.
LEMMA ListStep ==
    ASSUME IInv, Ticking, NEW w \in Workers, Next
    PROVE  \/ worker'[w] = worker[w]
           \/ TickList(w)
           \/ Plain(worker'[w])
           \/ Carried(w, worker[w], worker'[w])
<1> DEFINE x == worker[w]
<1> DEFINE y == worker'[w]
<1> DEFINE Goal == y = x \/ TickList(w) \/ Plain(y) \/ Carried(w, x, y)
<1>1. x \in Worker /\ worker \in [Workers -> Worker]
  BY DEF IInv, TypeOK
<1>2. Plain(Returned(w)) \/ Carried(w, x, Returned(w))
  BY <1>1, Return
<1>3. ASSUME NEW c \in Connections, NEW m \in Modes, start_sync(w, c, m)
      PROVE  Goal
  BY <1>1, <1>3 DEF start_sync, FreeWorker, Plain
<1>4. ASSUME TickSkip(w)
      PROVE  Goal
  <2>1. x.trigger = "scheduled" /\ x.pc = "tick"
    BY <1>4 DEF TickSkip, Ticking
  <2>2. PICK c \in x.due : y = IF x.due = {c} THEN FreeWorker ELSE [x EXCEPT !.due = x.due \ {c}]
    BY <1>1, <1>4 DEF TickSkip
  <2>3. CASE y = FreeWorker
    BY <2>3 DEF FreeWorker, Plain
  <2>4. CASE y = [x EXCEPT !.due = x.due \ {c}]
    <3>1. y.pc = "tick" /\ y.trigger = x.trigger /\ y.slot = x.slot /\ y.tick_at = x.tick_at
          /\ y.due \subseteq x.due
      BY <1>1, <2>1, <2>4 DEF Worker
    <3> QED
      BY <2>1, <3>1 DEF Carried, PreRun, Export
  <2> QED
    BY <2>2, <2>3, <2>4
<1>5. ASSUME TickPick(w)
      PROVE  Goal
  <2>1. x.trigger = "scheduled" /\ x.pc = "tick"
    BY <1>5 DEF TickPick, Ticking
  <2>2. PICK c \in x.due : y = [x EXCEPT !.pc = "claim", !.conn = c]
    BY <1>1, <1>5 DEF TickPick
  <2>3. y.pc = "claim" /\ y.conn = c /\ y.trigger = x.trigger /\ y.slot = x.slot /\ y.tick_at = x.tick_at
        /\ y.due = x.due
    BY <1>1, <2>2 DEF Worker
  <2> QED
    BY <2>1, <2>2, <2>3 DEF Carried, PreRun, Export
<1>6. ASSUME TickClaim(w) \/ Admit(w) \/ CheckIdle(w) \/ create_run(w)
      PROVE  Goal
  <2>1. /\ y.trigger = x.trigger /\ y.slot = x.slot /\ y.tick_at = x.tick_at /\ y.due = x.due /\ y.conn = x.conn
        /\ y.pc \in {"entry", "idle", "create", "export"}
    <3>1. CASE TickClaim(w)
      BY <1>1, <3>1 DEF TickClaim, Worker
    <3>2. CASE Admit(w)
      BY <1>1, <3>2 DEF Admit, Worker
    <3>3. CASE CheckIdle(w)
      BY <1>1, <3>3 DEF CheckIdle, Worker
    <3>4. CASE create_run(w)
      BY <1>1, <3>4 DEF create_run, Worker
    <3> QED
      BY <1>6, <3>1, <3>2, <3>3, <3>4
  <2>2. x.pc \notin Export /\ (x.pc \in PreRun \/ TickClaim(w))
    BY <1>6 DEF TickClaim, Admit, CheckIdle, create_run, Export, PreRun
  <2> HIDE DEF x, y
  <2>3. y.pc \notin {"tick", "claim"}
    BY <2>1
  <2> QED
    BY <1>1, <2>1, <2>2, <2>3, Onward
<1>7. ASSUME Refused(w) \/ Commit(w) \/ WriteLost(w)
      PROVE  Goal
  BY <1>1, <1>2, <1>7 DEF Refused, Commit, WriteLost
<1>8. ASSUME FailRun(w)
      PROVE  Goal
  BY <1>1, <1>2, <1>8 DEF FailRun
<1>9. ASSUME NEW from, NEW st, NEW to \in Export, Step(w, from, st, to), from \in Export
      PROVE  Goal
  <2>1. /\ y.trigger = x.trigger /\ y.slot = x.slot /\ y.tick_at = x.tick_at /\ y.due = x.due /\ y.conn = x.conn
        /\ y.pc = to /\ x.pc \in Export
    BY <1>1, <1>9 DEF Step, Worker
  <2>2. y.pc \notin {"tick", "claim"} /\ y.pc \notin PreRun
    BY <2>1 DEF Export, PreRun
  <2> HIDE DEF x, y
  <2> QED
    BY <1>1, <2>1, <2>2, Onward
<1>10. ASSUME run_dc_job(w) \/ land_files(w) \/ land_baseline(w) \/ apply_pipeline_configuration(w)
              \/ start_pipeline_update(w) \/ Complete(w)
       PROVE  Goal
  <2>1. \E from, st : \E to \in Export : Step(w, from, st, to) /\ from \in Export
    BY <1>10 DEF run_dc_job, land_files, land_baseline, apply_pipeline_configuration,
                 start_pipeline_update, Complete, Export
  <2> QED
    BY <1>9, <2>1
<1>11. ASSUME PollSuccess(w)
       PROVE  Goal
  <2>1. y = [x EXCEPT !.pc = "apply", !.pipe = "B"] \/ y = [x EXCEPT !.pc = "complete"]
    BY <1>1, <1>11 DEF PollSuccess
  <2>2. /\ y.trigger = x.trigger /\ y.slot = x.slot /\ y.tick_at = x.tick_at /\ y.due = x.due /\ y.conn = x.conn
        /\ y.pc \in {"apply", "complete"}
    BY <1>1, <2>1 DEF Worker
  <2>3. y.pc \notin {"tick", "claim"} /\ y.pc \notin PreRun /\ y.pc \in Export
    BY <2>2 DEF Export, PreRun
  <2> HIDE DEF x, y
  <2> QED
    BY <1>1, <2>2, <2>3, Onward
<1>12. ASSUME Crash(w)
       PROVE  Goal
  BY <1>1, <1>12 DEF Crash, FreeWorker, Plain
<1>13. ASSUME NEW v \in Workers, v # w,
              \/ \E c \in Connections, m \in Modes : start_sync(v, c, m)
              \/ TickList(v) \/ WorkerStep(v) \/ Fail(v) \/ Crash(v) \/ WriteLost(v)
       PROVE  y = x
  BY <1>1, <1>13
     DEF start_sync, TickList, TickSkip, TickPick, TickClaim, Admit, CheckIdle, Refused, create_run,
         run_dc_job, land_files, land_baseline, apply_pipeline_configuration, start_pipeline_update,
         StartRefused, PollSuccess, PollGivesUp, Complete, Commit, Fail, FailRun, Crash, WriteLost,
         WorkerStep, Step
<1>14. WorkerStep(w) \/ Fail(w) => Goal
  BY <1>4, <1>5, <1>6, <1>7, <1>8, <1>10, <1>11 DEF WorkerStep, Fail, StartRefused, PollGivesUp
<1>15. ASSUME NEW c \in Connections,
              BootstrapDone(c) \/ BootstrapFailed(c) \/ save_dbx_credentials(c) \/ enable_cdc(c) \/ disable_cdc(c)
       PROVE  y = x
  BY <1>15 DEF BootstrapDone, BootstrapFailed, save_dbx_credentials, enable_cdc, disable_cdc
<1>16. ASSUME NEW r \in RunIds, JobTask(r) \/ UpdateCompleted(r) \/ JobFailed(r)
       PROVE  y = x
  BY <1>16 DEF JobTask, UpdateCompleted, JobFailed
<1>17. Tock => y = x
  BY DEF Tock
<1> QED
  <2>1. ASSUME NEW v \in Workers,
               \/ \E c \in Connections, m \in Modes : start_sync(v, c, m)
               \/ TickList(v) \/ WorkerStep(v) \/ Fail(v) \/ Crash(v) \/ WriteLost(v)
        PROVE  Goal
    BY <1>3, <1>7, <1>12, <1>13, <1>14, <2>1
  <2> HIDE DEF Goal
  <2>2. y = x => Goal
    BY DEF Goal
  <2>3. Goal
    BY <1>15, <1>16, <1>17, <2>1, <2>2 DEF Next
  <2> QED
    BY <2>3 DEF Goal

LEMMA TickingStep ==
    ASSUME IInv, Ticking, Next
    PROVE  Ticking'
<1> SUFFICES ASSUME NEW w \in Workers, worker'[w].pc \in {"tick", "claim"}
             PROVE  worker'[w].trigger = "scheduled"
  BY DEF Ticking
<1>1. TickList(w) => worker'[w].trigger = "scheduled"
  BY DEF TickList, FreeWorker, IInv, TypeOK
<1> QED
  BY <1>1, ListStep DEF Ticking, Plain, Carried

\* What happens to the schedule of a connection.
LEMMA ScheduleStep ==
    ASSUME IInv, Next, NEW c \in Connections
    PROVE  LET k == conn[c]
               k2 == conn'[c]
           IN  \/ k2.cdc_enabled = k.cdc_enabled /\ k2.next_run_at = k.next_run_at
               \/ ~k2.cdc_enabled /\ k2.next_run_at = Null
               \/ k2.next_run_at = now + CdcInterval
               \/ \E w \in Workers : /\ TickClaim(w) /\ worker[w].conn = c
                                     /\ k2.next_run_at = worker[w].tick_at + CdcInterval
<1> DEFINE k == conn[c]
<1> DEFINE k2 == conn'[c]
<1> DEFINE Same == k2.cdc_enabled = k.cdc_enabled /\ k2.next_run_at = k.next_run_at
<1>1. conn \in [Connections -> Connection] /\ k \in Connection
  BY DEF IInv, TypeOK
<1>2. conn' = conn => Same
  OBVIOUS
<1>3. ASSUME NEW d \in Connections, BootstrapDone(d) \/ BootstrapFailed(d) \/ save_dbx_credentials(d)
      PROVE  Same
  BY <1>1, <1>3 DEF BootstrapDone, BootstrapFailed, save_dbx_credentials, Connection
<1>4. ASSUME NEW d \in Connections, enable_cdc(d)
      PROVE  Same \/ k2.next_run_at = now + CdcInterval
  BY <1>1, <1>4 DEF enable_cdc, Connection
<1>5. ASSUME NEW d \in Connections, disable_cdc(d)
      PROVE  Same \/ (~k2.cdc_enabled /\ k2.next_run_at = Null)
  BY <1>1, <1>5 DEF disable_cdc, Connection
<1>6. ASSUME NEW w \in Workers, TickClaim(w)
      PROVE  Same \/ (worker[w].conn = c /\ k2.next_run_at = worker[w].tick_at + CdcInterval)
  <2>1. CASE worker[w].conn = c
    BY <1>1, <1>6, <2>1 DEF TickClaim, Connection
  <2>2. CASE worker[w].conn # c
    BY <1>1, <1>6, <2>2 DEF TickClaim
  <2> QED
    BY <2>1, <2>2
<1>7. ASSUME NEW w \in Workers, WorkerStep(w) \/ Fail(w), ~TickClaim(w)
      PROVE  conn' = conn
  BY <1>7 DEF WorkerStep, TickSkip, TickPick, Admit, CheckIdle, Refused, create_run,
              run_dc_job, land_files, land_baseline, apply_pipeline_configuration, start_pipeline_update,
              StartRefused, PollSuccess, PollGivesUp, Complete, Commit, Fail, FailRun
<1>8. ASSUME NEW w \in Workers,
             \/ \E d \in Connections, m \in Modes : start_sync(w, d, m)
             \/ TickList(w) \/ Crash(w) \/ WriteLost(w)
      PROVE  conn' = conn
  BY <1>8 DEF start_sync, TickList, Crash, WriteLost
<1>9. ASSUME NEW r \in RunIds, JobTask(r) \/ UpdateCompleted(r) \/ JobFailed(r)
      PROVE  conn' = conn
  BY <1>9 DEF JobTask, UpdateCompleted, JobFailed
<1>10. Tock => conn' = conn
  BY DEF Tock
<1> HIDE DEF Same, k, k2
<1>11. \/ Same
       \/ ~k2.cdc_enabled /\ k2.next_run_at = Null
       \/ k2.next_run_at = now + CdcInterval
       \/ \E w \in Workers : /\ TickClaim(w) /\ worker[w].conn = c
                             /\ k2.next_run_at = worker[w].tick_at + CdcInterval
  BY <1>2, <1>3, <1>4, <1>5, <1>6, <1>7, <1>8, <1>9, <1>10 DEF Next
<1> QED
  BY <1>11 DEF Same, k, k2

\* The clock does not go back.
LEMMA ClockStep ==
    ASSUME IInv, Next
    PROVE  now \in Nat /\ now' \in Nat /\ now <= now'
<1>1. now \in Nat
  BY BoundsAssumption DEF IInv, TypeOK
<1>2. now' = now \/ now' = now + 1
  <2>1. ASSUME NEW w \in Workers,
               \/ \E d \in Connections, m \in Modes : start_sync(w, d, m)
               \/ TickList(w) \/ WorkerStep(w) \/ Fail(w) \/ Crash(w) \/ WriteLost(w)
        PROVE  now' = now
    BY <2>1
       DEF start_sync, TickList, TickSkip, TickPick, TickClaim, Admit, CheckIdle, Refused, create_run,
           run_dc_job, land_files, land_baseline, apply_pipeline_configuration, start_pipeline_update,
           StartRefused, PollSuccess, PollGivesUp, Complete, Commit, Fail, FailRun, Crash, WriteLost,
           WorkerStep
  <2>2. ASSUME NEW c \in Connections,
               BootstrapDone(c) \/ BootstrapFailed(c) \/ save_dbx_credentials(c) \/ enable_cdc(c) \/ disable_cdc(c)
        PROVE  now' = now
    BY <2>2 DEF BootstrapDone, BootstrapFailed, save_dbx_credentials, enable_cdc, disable_cdc
  <2>3. ASSUME NEW r \in RunIds, JobTask(r) \/ UpdateCompleted(r) \/ JobFailed(r)
        PROVE  now' = now
    BY <2>3 DEF JobTask, UpdateCompleted, JobFailed
  <2>4. Tock => now' = now + 1
    BY DEF Tock
  <2> QED
    BY <2>1, <2>2, <2>3, <2>4 DEF Next
<1> QED
  BY <1>1, <1>2

\* A scheduled run is an old one, or the one that a tick just created.
LEMMA ScheduledStep ==
    ASSUME IInv, Ended, Next, NEW c, NEW r \in Scheduled(c)'
    PROVE  \/ r \in Scheduled(c) /\ hist'[r] = hist[r]
           \/ \E w \in Workers : /\ create_run(w) /\ r = lastRun + 1 /\ worker[w].conn = c
                                 /\ worker[w].trigger = "scheduled" /\ hist'[r].slot = worker[w].slot[c]
                                 /\ worker'[w].trigger = "scheduled" /\ worker'[w].conn = c
                                 /\ worker'[w].pc = "export" /\ conn' = conn
<1>1. r \in Created' /\ runs'[r].conn = c /\ runs'[r].trigger = "scheduled"
  BY DEF Scheduled
<1>2. ASSUME NEW w \in Workers, create_run(w), r \in Created
      PROVE  r \in Scheduled(c) /\ hist'[r] = hist[r]
  BY <1>1, <1>2, CreateStep DEF Scheduled
<1>3. ASSUME NEW w \in Workers, create_run(w), r \notin Created
      PROVE  /\ r = lastRun + 1 /\ worker[w].conn = c
             /\ worker[w].trigger = "scheduled" /\ hist'[r].slot = worker[w].slot[c]
             /\ worker'[w].trigger = "scheduled" /\ worker'[w].conn = c
             /\ worker'[w].pc = "export" /\ conn' = conn
  <2> DEFINE q == lastRun + 1
  <2>1. /\ Created' = Created \cup {q} /\ runs'[q].conn = worker[w].conn
        /\ runs'[q].trigger = worker[w].trigger /\ hist'[q].slot = worker[w].slot[worker[w].conn]
        /\ worker'[w].pc = "export" /\ conn' = conn
    BY <1>3, CreateStep
  <2>2. worker'[w].trigger = worker[w].trigger /\ worker'[w].conn = worker[w].conn
    BY <1>3 DEF create_run, IInv, TypeOK, Worker
  <2> HIDE DEF q
  <2>3. r = q
    BY <1>1, <1>3, <2>1
  <2> QED
    BY <1>1, <2>1, <2>2, <2>3 DEF q
<1>4. ASSUME NEW w \in Workers, Moved(w)
      PROVE  r \in Scheduled(c) /\ hist'[r] = hist[r]
  BY <1>1, <1>4 DEF Moved, RowsEnd, Scheduled, Created
<1>5. ASSUME NEW w \in Workers, Crash(w) \/ WriteLost(w)
      PROVE  r \in Scheduled(c) /\ hist'[r] = hist[r]
  BY <1>1, <1>5, LossStep DEF Scheduled, Created
<1>6. CASE UNCHANGED <<worker, runs, lastRun, hist, crashes>>
  BY <1>1, <1>6 DEF Scheduled, Created
<1> QED
  BY <1>2, <1>3, <1>4, <1>5, <1>6, Summary

\* A tick about to create the run of c answers a due time that is past, not answered
\* yet, and before the next one.
LEMMA Answers ==
    ASSUME TInv, NEW w \in Workers, worker[w].trigger = "scheduled", worker[w].pc \in {"claim"} \cup PreRun,
           NEW c, worker[w].conn = c
    PROVE  /\ c \in Connections /\ Due(worker[w], c) /\ worker[w].tick_at \in Nat /\ worker[w].tick_at <= now
           /\ worker[w].pc \in PreRun /\ conn[c].next_run_at # Null => worker[w].slot[c] < conn[c].next_run_at
<1>1. worker[w] \in Worker
  BY DEF TInv, UInv, IInv, TypeOK
<1>2. Ticks(worker[w])
  BY DEF TInv
<1>3. c \in worker[w].due /\ worker[w].pc \notin Export
  BY <1>2 DEF Ticks, PreRun, Export
<1>4. c \in Connections /\ worker[w].tick_at \in Nat
  BY <1>1, <1>3, BoundsAssumption DEF Worker
<1> QED
  BY <1>2, <1>3, <1>4 DEF Ticks

LEMMA AlarmedStep ==
    ASSUME TInv, Next, NEW c \in Connections
    PROVE  Alarmed(c)'
<1> DEFINE k == conn[c]
<1> DEFINE k2 == conn'[c]
<1>1. IInv /\ Ended /\ Alarmed(c)
  BY DEF TInv, UInv
<1>2. now \in Nat /\ now' \in Nat /\ now <= now' /\ CdcInterval \in Nat \ {0} /\ Null \notin Nat /\ \A t \in Times : t \in Nat
  BY <1>1, ClockStep, BoundsAssumption, NullAssumption DEF Times
<1>3. k.next_run_at \in Nat \cup {Null} /\ k2.next_run_at \in Nat \cup {Null}
  <2>1. conn \in [Connections -> Connection] /\ conn' \in [Connections -> Connection]
    BY <1>1, StepInv DEF IInv, TypeOK
  <2> QED
    BY <1>2, <2>1 DEF Connection
<1>4. ASSUME NEW w \in Workers, TickClaim(w), worker[w].conn = c
      PROVE  /\ worker[w].tick_at \in Nat
             /\ \A r \in Scheduled(c) : hist[r].slot \in Times => hist[r].slot < worker[w].tick_at + CdcInterval
  <2>1. worker[w].trigger = "scheduled" /\ worker[w].pc = "claim"
    BY <1>4 DEF TickClaim, Ticking, TInv
  <2>2. Due(worker[w], c) /\ worker[w].tick_at \in Nat
    BY <1>4, <2>1, Answers
  <2> QED
    BY <1>2, <2>2 DEF Due
<1>5. k2.cdc_enabled => k2.next_run_at # Null
  BY <1>1, <1>2, <1>4, ScheduleStep DEF Alarmed
<1>6. ASSUME NEW r \in Scheduled(c)'
      PROVE  /\ hist'[r].slot \in Times /\ hist'[r].slot <= now'
             /\ k2.next_run_at # Null => hist'[r].slot < k2.next_run_at
  <2>1. CASE r \in Scheduled(c) /\ hist'[r] = hist[r]
    <3> DEFINE s == hist[r].slot
    <3>1. s \in Times /\ s <= now /\ (k.next_run_at # Null => s < k.next_run_at)
      BY <1>1, <2>1 DEF Alarmed
    <3>5. s \in Nat
      BY <1>2, <3>1
    <3>2. \A w \in Workers : TickClaim(w) /\ worker[w].conn = c =>
             s < worker[w].tick_at + CdcInterval
      BY <1>4, <2>1, <3>1
    <3>3. s < now + CdcInterval /\ s <= now'
      BY <1>2, <3>1, <3>5
    <3> HIDE DEF s
    <3>4. k2.next_run_at # Null => s < k2.next_run_at
      BY <1>1, <3>1, <3>2, <3>3, ScheduleStep
    <3> QED
      BY <2>1, <3>1, <3>3, <3>4 DEF s
  <2>2. ASSUME NEW w \in Workers, create_run(w), worker[w].conn = c, worker[w].trigger = "scheduled",
               hist'[r].slot = worker[w].slot[c], conn' = conn
        PROVE  /\ hist'[r].slot \in Times /\ hist'[r].slot <= now'
               /\ k2.next_run_at # Null => hist'[r].slot < k2.next_run_at
    <3>1. worker[w].pc \in PreRun
      BY <2>2 DEF create_run, PreRun
    <3>2. /\ Due(worker[w], c) /\ worker[w].tick_at \in Nat /\ worker[w].tick_at <= now
          /\ conn[c].next_run_at # Null => worker[w].slot[c] < conn[c].next_run_at
      BY <2>2, <3>1, Answers
    <3>3. worker[w].slot[c] \in Nat /\ worker[w].slot[c] \in Times /\ worker[w].slot[c] <= now'
      BY <1>2, <3>2 DEF Due
    <3> QED
      BY <2>2, <3>2, <3>3
  <2> QED
    BY <1>1, <2>1, <2>2, ScheduledStep
<1> QED
  BY <1>5, <1>6 DEF Alarmed

\* Two due times that are answered differ.
LEMMA OnceStep ==
    ASSUME TInv, Next
    PROVE  OneRunPerDueTime'
<1>1. IInv /\ Ended
  BY DEF TInv, UInv
<1> SUFFICES ASSUME NEW c, NEW i \in Scheduled(c)', NEW j \in Scheduled(c)', i # j
             PROVE  hist'[i].slot # hist'[j].slot
  BY DEF OneRunPerDueTime, Scheduled
<1>2. ASSUME NEW a \in Scheduled(c), NEW w \in Workers, create_run(w), worker[w].conn = c,
             worker[w].trigger = "scheduled"
      PROVE  hist[a].slot # worker[w].slot[c]
  <2>1. worker[w].pc \in PreRun
    BY <1>2 DEF create_run, PreRun
  <2>2. c \in Connections /\ Due(worker[w], c)
    BY <1>2, <2>1, Answers
  <2>3. hist[a].slot \in Nat /\ worker[w].slot[c] \in Nat
    BY <2>2, BoundsAssumption DEF TInv, Alarmed, Due, Times
  <2> QED
    BY <2>2, <2>3 DEF Due
<1>3. CASE i \in Scheduled(c) /\ hist'[i] = hist[i] /\ j \in Scheduled(c) /\ hist'[j] = hist[j]
  BY <1>3 DEF TInv, OneRunPerDueTime, Scheduled
<1>4. CASE i \in Scheduled(c) /\ hist'[i] = hist[i] /\ ~(j \in Scheduled(c) /\ hist'[j] = hist[j])
  BY <1>1, <1>2, <1>4, ScheduledStep
<1>5. CASE j \in Scheduled(c) /\ hist'[j] = hist[j] /\ ~(i \in Scheduled(c) /\ hist'[i] = hist[i])
  BY <1>1, <1>2, <1>5, ScheduledStep
<1>6. CASE ~(j \in Scheduled(c) /\ hist'[j] = hist[j]) /\ ~(i \in Scheduled(c) /\ hist'[i] = hist[i])
  BY <1>1, <1>6, ScheduledStep
<1> QED
  BY <1>3, <1>4, <1>5, <1>6

\* What a tick has listed stays unanswered until the tick itself answers it.
LEMMA DueStays ==
    ASSUME TInv, Next, OneTick', NEW w \in Workers, worker[w].trigger = "scheduled",
           worker'[w].trigger = "scheduled", NEW c, Due(worker[w], c),
           worker'[w].slot = worker[w].slot, worker'[w].tick_at = worker[w].tick_at,
           ~(worker'[w].pc \in Export /\ worker'[w].conn = c)
    PROVE  Due(worker[w], c)'
<1>1. IInv /\ Ended
  BY DEF TInv, UInv
<1>2. ASSUME NEW r \in Scheduled(c)'
      PROVE  r \in Scheduled(c) /\ hist'[r] = hist[r]
  BY <1>1, <1>2, ScheduledStep DEF OneTick, Export
<1> QED
  BY <1>2 DEF Due

LEMMA TicksStep ==
    ASSUME TInv, Next, OneTick, OneTick', NEW w \in Workers, worker'[w].trigger = "scheduled"
    PROVE  Ticks(worker[w])'
<1> DEFINE x == worker[w]
<1> DEFINE y == worker'[w]
<1>1. IInv /\ Ended /\ Ticking
  BY DEF TInv, UInv
<1>2. now \in Nat /\ now' \in Nat /\ now <= now' /\ CdcInterval \in Nat \ {0} /\ Null \notin Nat /\ \A t \in Times : t \in Nat
  BY <1>1, ClockStep, BoundsAssumption, NullAssumption DEF Times
<1>3. x \in Worker /\ x.tick_at \in Nat
  BY <1>1, BoundsAssumption DEF IInv, TypeOK, Worker
<1>4. CASE TickList(w)
  <2> DEFINE d == list_due_for_cdc(now)
  <2>1. /\ y.pc = "tick" /\ y.due = d /\ y.tick_at = now
        /\ y.slot = [c \in Connections |-> IF c \in d THEN conn[c].next_run_at ELSE Null]
    BY <1>1, <1>4 DEF TickList, FreeWorker, IInv, TypeOK
  <2>2. UNCHANGED <<runs, lastRun, hist, conn, now>>
    BY <1>4 DEF TickList
  <2>3. ASSUME NEW c \in d
        PROVE  Due(x, c)'
    <3>1. c \in Connections /\ conn[c].cdc_enabled /\ (conn[c].next_run_at # Null => conn[c].next_run_at <= now)
      BY DEF list_due_for_cdc
    <3>2. conn[c].next_run_at \in Times /\ conn[c].next_run_at <= now
      BY <1>1, <3>1 DEF TInv, Alarmed, IInv, TypeOK, Connection
    <3>3. y.slot[c] = conn[c].next_run_at
      BY <2>1, <3>1
    <3>4. \A r \in Scheduled(c) : hist[r].slot < conn[c].next_run_at
      BY <3>1, <3>2, <1>2 DEF TInv, Alarmed
    <3>5. Scheduled(c)' = Scheduled(c) /\ hist' = hist
      BY <2>2 DEF Scheduled, Created
    <3> QED
      BY <2>1, <3>2, <3>3, <3>4, <3>5 DEF Due
  <2> QED
    BY <1>2, <2>1, <2>2, <2>3 DEF Ticks, PreRun
<1>5. ASSUME x.trigger = "scheduled", y.slot = x.slot, y.tick_at = x.tick_at, y.due \subseteq x.due,
             x.pc \in Export /\ x.conn \in y.due => y.pc \in Export /\ y.conn = x.conn,
             NEW c \in y.due
      PROVE  (y.pc \in Export /\ y.conn = c) \/ Due(x, c)'
  <2>1. (x.pc \in Export /\ x.conn = c) \/ Due(x, c)
    BY <1>5 DEF TInv, Ticks
  <2> QED
    BY <1>5, <2>1, DueStays
<1>6. CASE y = x
  <2>1. Ticks(x) /\ x.trigger = "scheduled"
    BY <1>6 DEF TInv
  <2>2. \A c \in y.due : (y.pc \in Export /\ y.conn = c) \/ Due(x, c)'
    BY <1>5, <1>6, <2>1
  <2>3. y.tick_at <= now'
    BY <1>2, <1>3, <1>6, <2>1 DEF Ticks
  <2>4. ASSUME y.pc \in PreRun, conn'[y.conn].next_run_at # Null
        PROVE  y.slot[y.conn] < conn'[y.conn].next_run_at
    <3> DEFINE c == x.conn
    <3> DEFINE s == x.slot[c]
    <3>1. /\ c \in Connections /\ Due(x, c) /\ x.tick_at <= now
          /\ conn[c].next_run_at # Null => s < conn[c].next_run_at
      BY <1>6, <2>1, <2>4, Answers
    <3>2. s \in Nat /\ s <= now
      BY <1>2, <1>3, <3>1 DEF Due
    <3>3. \A v \in Workers : ~TickClaim(v)
      <4>1. ASSUME NEW v \in Workers, TickClaim(v)
            PROVE  FALSE
        <5>1. worker[v].trigger = "scheduled" /\ worker[v].pc = "claim"
          BY <1>1, <4>1 DEF TickClaim, Ticking
        <5>2. v = w
          BY <2>1, <5>1 DEF OneTick
        <5> QED
          BY <1>6, <2>4, <5>1, <5>2 DEF PreRun
      <4> QED
        BY <4>1
    <3>4. s < now + CdcInterval
      BY <1>2, <3>2
    <3> HIDE DEF s
    <3>5. conn'[c].next_run_at # Null => s < conn'[c].next_run_at
      BY <1>1, <3>1, <3>3, <3>4, ScheduleStep
    <3> QED
      BY <1>6, <2>4, <3>5 DEF s
  <2> QED
    BY <1>6, <2>1, <2>2, <2>3, <2>4 DEF Ticks
<1>7. CASE Carried(w, x, y)
  <2>1. Ticks(x)
    BY <1>7 DEF Carried, TInv
  <2>2. \A c \in y.due : (y.pc \in Export /\ y.conn = c) \/ Due(x, c)'
    BY <1>5, <1>7 DEF Carried
  <2>3. y.tick_at <= now'
    BY <1>2, <1>3, <1>7, <2>1 DEF Ticks, Carried
  <2>4. y.pc \in {"claim"} \cup PreRun => y.conn \in y.due
    BY <1>7, <2>1 DEF Ticks, Carried, TickClaim
  <2>5. ASSUME y.pc \in PreRun, conn'[y.conn].next_run_at # Null
        PROVE  y.slot[y.conn] < conn'[y.conn].next_run_at
    <3> DEFINE c == x.conn
    <3> DEFINE s == x.slot[c]
    <3>1. y.conn = c /\ y.slot = x.slot /\ x.trigger = "scheduled" /\ (x.pc \in PreRun \/ TickClaim(w))
      BY <1>7, <2>5 DEF Carried
    <3>2. x.pc \in {"claim"} \cup PreRun
      BY <3>1 DEF TickClaim
    <3>3. /\ c \in Connections /\ Due(x, c) /\ x.tick_at <= now
          /\ x.pc \in PreRun /\ conn[c].next_run_at # Null => s < conn[c].next_run_at
      BY <3>1, <3>2, Answers
    <3>4. s \in Nat /\ s <= x.tick_at /\ s <= now /\ s < now + CdcInterval /\ s < x.tick_at + CdcInterval
      BY <1>2, <1>3, <3>3 DEF Due
    <3>5. ASSUME NEW v \in Workers, TickClaim(v)
          PROVE  v = w
      BY <1>1, <3>1, <3>5 DEF TickClaim, Ticking, OneTick
    <3>6. CASE x.pc \in PreRun
      <4>1. \A v \in Workers : ~TickClaim(v)
        BY <3>5, <3>6 DEF TickClaim, PreRun
      <4> HIDE DEF s
      <4>2. conn'[c].next_run_at # Null => s < conn'[c].next_run_at
        BY <1>1, <3>3, <3>4, <3>6, <4>1, ScheduleStep
      <4> QED
        BY <2>5, <3>1, <4>2 DEF s
    <3>7. CASE TickClaim(w)
      <4>1. conn'[c].next_run_at = x.tick_at + CdcInterval
        BY <1>1, <3>3, <3>7 DEF TickClaim, IInv, TypeOK, Connection
      <4> QED
        BY <3>1, <3>4, <4>1
    <3> QED
      BY <3>1, <3>6, <3>7
  <2> QED
    BY <2>2, <2>3, <2>4, <2>5 DEF Ticks
<1> QED
  BY <1>1, <1>4, <1>6, <1>7, ListStep DEF Plain

-----------------------------------------------------------------------------

\* The invariant of due times, before the first tick and after each step between
\* states with at most one tick.
LEMMA InitT == Init => TInv
<1> SUFFICES ASSUME Init PROVE TInv
  OBVIOUS
<1>1. UInv
  BY InitU
<1>2. Created = {} /\ \A c : Scheduled(c) = {}
  BY DEF Init, Created, Scheduled
<1>3. \A w \in Workers : worker[w].pc = "free" /\ worker[w].trigger = "manual"
  BY DEF Init, FreeWorker
<1>4. \A c \in Connections : ~conn[c].cdc_enabled
  BY DEF Init
<1> QED
  BY <1>1, <1>2, <1>3, <1>4 DEF TInv, Ticking, Alarmed, OneRunPerDueTime

LEMMA StepT == TInv /\ OneTick /\ OneTick' /\ [Next]_vars => TInv'
<1> SUFFICES ASSUME TInv, OneTick, OneTick', [Next]_vars PROVE TInv'
  OBVIOUS
<1>1. UInv'
  BY StepU DEF TInv
<1>2. CASE Next
  <2>1. Ticking'
    BY <1>2, TickingStep DEF TInv, UInv
  <2>2. \A c \in Connections : Alarmed(c)'
    BY <1>2, AlarmedStep
  <2>3. \A w \in Workers : worker'[w].trigger = "scheduled" => Ticks(worker[w])'
    BY <1>2, TicksStep
  <2>4. OneRunPerDueTime'
    BY <1>2, OnceStep
  <2> QED
    BY <1>1, <2>1, <2>2, <2>3, <2>4 DEF TInv
<1>3. CASE UNCHANGED vars
  <2>1. Ticking' /\ OneRunPerDueTime'
    BY <1>3 DEF vars, TInv, Ticking, OneRunPerDueTime, Created
  <2>2. \A c \in Connections : Alarmed(c)'
    BY <1>3 DEF vars, TInv, Alarmed, Scheduled, Created
  <2>3. \A w \in Workers : worker'[w].trigger = "scheduled" => Ticks(worker[w])'
    BY <1>3 DEF vars, TInv, Ticks, Due, Scheduled, Created
  <2> QED
    BY <1>1, <2>1, <2>2, <2>3 DEF TInv
<1> QED
  BY <1>2, <1>3

\* The claim of next_run_at before the run starts: as long as no two ticks run
\* together, whatever manual syncs, refusals, failures and changes of the schedule
\* go on beside them, no due time of a connection is answered twice.
THEOREM DueTimesAreAnsweredOnce == Spec /\ []OneTick => []OneRunPerDueTime
<1>1. TInv => OneRunPerDueTime
  BY DEF TInv
<1>2. Spec /\ []OneTick => []TInv
  BY InitT, StepT, PTL DEF Spec
<1> QED
  BY <1>1, <1>2, PTL

=============================================================================
