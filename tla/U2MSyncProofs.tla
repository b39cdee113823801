---------------------------- MODULE U2MSyncProofs ----------------------------
(***************************************************************************)
(* What a complete run of a wizard user guarantees, for any number of      *)
(* threads, runs, restarts and lost writes and on both download paths.     *)
(*                                                                         *)
(* A run is Ingested for good: no pipeline update that has completed is    *)
(* started again, because a thread, or a workflow, that is about to start  *)
(* one has none yet (Works, Flows).  The status poll decides on a copy     *)
(* of a row, and what it has decided to write stays true (Polled).  That a *)
(* CDC run has a baseline (Based) follows the switch of Auto CDC from the  *)
(* snapshot run that allowed it, although that run may be failed by now.   *)
(***************************************************************************)
EXTENDS U2MSync, SequenceTheorems, TLAPS

Copies == [run: RunIds, bronze: {"A", "B", "W"}]
Updates == [state: {"none", "active", "completed", "failed"}, born: 0..MaxRuns]
Workflows == [state: {"none", "running", "success", "failed"},
              todo: {<<>>, <<"B">>, <<"A", "B">>}]

TypeOK ==
    /\ lastRun \in 0..MaxRuns
    /\ rows \in [RunIds -> Row \cup {Null}] /\ \A r \in Created : rows[r] \in Row
    /\ thread \in [Threads -> Thread]
    /\ poll \in [pc: {"free", "lookup", "write", "commit"}, copies: Seq(Copies),
                 verdict: {"none", "complete", "failed"}]
    /\ upd \in [RunIds -> [Pipes -> Updates]]
    /\ wf \in [RunIds -> Workflows]

\* A thread in state x has its run, and has started of it what its position says:
\* u and w are the updates and workflows, rs[1..n] the runs.
Works(x, n, rs, u, w) ==
    /\ x.pc # "free" /\ x.mode = "cdc" => x.pipe = "B"
    /\ x.pc # "free" /\ x.mode = "snapshot" /\ notebook => x.pipe = "A"
    /\ x.pc \in Export => x.run \in 1..n /\ rs[x.run].mode = x.mode
    /\ x.pc \in {"submit", "upload", "trigger", "start"} =>
          u[x.run][x.pipe].state = "none" /\ u[x.run]["B"].state = "none" /\ w[x.run].state = "none"
    /\ x.pc \in {"record", "poll"} /\ ~notebook /\ x.pipe = "A" => u[x.run]["B"].state = "none"
    /\ x.pc \in {"complete", "commit"} => u[x.run]["B"].state = "completed"

\* Nobody else has its run.
Working ==
    /\ \A t \in Threads : Works(thread[t], lastRun, rows, upd, wf)
    /\ \A s, t \in Threads :
          s # t /\ thread[s].pc \in Export /\ thread[t].pc \in Export => thread[s].run # thread[t].run

\* What a workflow still has to start it has not started yet; u are its updates.
Flows(u, w) ==
    /\ w.state = "running" /\ w.todo = <<"A", "B">> => u["A"].state = "none"
    /\ w.state = "running" /\ w.todo # <<>> => u["B"].state = "none"
    /\ w.state = "running" /\ w.todo = <<>> => u["A"].state # "active" /\ u["B"].state = "active"
    /\ w.state = "success" => u["B"].state = "completed"
    /\ w.state # "none" => notebook

Flowing ==
    /\ \A r \in RunIds : Flows(upd[r], wf[r])
    /\ \A r \in RunIds : r \notin Created =>
          wf[r].state = "none" /\ \A p \in Pipes : upd[r][p].state = "none"

\* What CompleteMeansIngested says of one run.
Ingested(r) ==
    \/ upd[r]["B"].state = "completed"
    \/ /\ rows[r].mode = "snapshot" /\ upd[r]["A"].state = "completed"
       /\ \E i \in Created \ {r} : CompletedSince(i, r)

\* Pipeline A is that of snapshot runs.
Named(r, b) == r \in Created /\ (b = "A" => rows[r].mode = "snapshot")

Polled ==
    /\ poll.pc # "free" => poll.copies # <<>>
    /\ \A i \in 1..Len(poll.copies) : Named(poll.copies[i].run, poll.copies[i].bronze)
    /\ poll.pc = "write" => poll.verdict # "none"
    /\ poll.pc = "write" /\ poll.verdict = "complete" => Ingested(Head(poll.copies).run)

\* Pipeline B has ingested a baseline.
Based ==
    \/ baseline
    \/ \E i \in Created : rows[i].mode = "snapshot" /\ upd[i]["B"].state = "completed"

CdcBased ==
    /\ daily => Based
    /\ \A t \in Threads : thread[t].pc # "free" /\ thread[t].mode = "cdc" => Based
    /\ \A r \in Created : rows[r].mode = "cdc" => Based

\* What the rows say.
Recorded == \A r \in Created : /\ Named(r, rows[r].bronze)
                               /\ rows[r].state = "complete" => Ingested(r)

IInv == TypeOK /\ Working /\ Flowing /\ Polled /\ CdcBased /\ Recorded

-----------------------------------------------------------------------------
(* What stays *)

LEMMA Basics ==
    ASSUME TypeOK
    PROVE  /\ lastRun \in Nat /\ MaxRuns \in Nat /\ Created \subseteq RunIds /\ Pipes = {"A", "B"}
           /\ \A r \in RunIds : r \in Nat /\ upd[r] \in [Pipes -> Updates] /\ wf[r] \in Workflows
           /\ \A r \in RunIds : \A p \in Pipes : upd[r][p] \in Updates
           /\ \A t \in Threads : thread[t] \in Thread
           /\ poll.copies \in Seq(Copies)
           /\ Null \notin {"A", "B", "W"}
BY U2MAssumption DEF TypeOK, Created, RunIds, Pipes

\* No step changes the mode of a run or an update that has completed.
Grows ==
    /\ lastRun <= lastRun' /\ baseline' = baseline
    /\ \A r \in Created : rows'[r].mode = rows[r].mode
    /\ \A r \in RunIds, p \in Pipes : upd[r][p].state = "completed" => upd'[r][p] = upd[r][p]

LEMMA CreatedGrows ==
    ASSUME TypeOK, TypeOK', Grows
    PROVE  Created \subseteq Created'
BY U2MAssumption DEF TypeOK, Grows, Created

LEMMA IngestedStays ==
    ASSUME TypeOK, TypeOK', Grows, NEW r \in Created, Ingested(r)
    PROVE  Ingested(r)'
<1>1. r \in RunIds /\ Pipes = {"A", "B"} /\ Created \subseteq RunIds
  BY Basics
<1>2. CASE upd[r]["B"].state = "completed"
  BY <1>1, <1>2 DEF Grows, Ingested
<1>3. CASE /\ rows[r].mode = "snapshot" /\ upd[r]["A"].state = "completed"
           /\ \E i \in Created \ {r} : CompletedSince(i, r)
  <2>1. PICK i \in Created \ {r} : CompletedSince(i, r)
    BY <1>3
  <2>2. i \in Created' \ {r} /\ CompletedSince(i, r)'
    BY <1>1, <2>1, CreatedGrows DEF Grows, CompletedSince
  <2>3. rows'[r].mode = "snapshot" /\ upd'[r]["A"].state = "completed"
    BY <1>1, <1>3 DEF Grows
  <2> QED
    BY <2>2, <2>3 DEF Ingested
<1> QED
  BY <1>2, <1>3 DEF Ingested

LEMMA BasedStays ==
    ASSUME TypeOK, TypeOK', Grows, Based
    PROVE  Based'
<1>1. CASE baseline
  BY <1>1 DEF Grows, Based
<1>2. CASE \E i \in Created : rows[i].mode = "snapshot" /\ upd[i]["B"].state = "completed"
  <2>1. PICK i \in Created : rows[i].mode = "snapshot" /\ upd[i]["B"].state = "completed"
    BY <1>2
  <2>2. i \in Created' /\ rows'[i].mode = "snapshot" /\ upd'[i]["B"].state = "completed"
    BY <2>1, CreatedGrows, Basics DEF Grows
  <2> QED
    BY <2>2 DEF Based
<1> QED
  BY <1>1, <1>2 DEF Based

\* A poll that goes on as it was.
LEMMA PollStays ==
    ASSUME IInv, TypeOK', Grows, poll' = poll
    PROVE  Polled'
<1>1. \A i \in 1..Len(poll.copies) : Named(poll.copies[i].run, poll.copies[i].bronze)'
  BY CreatedGrows DEF IInv, Polled, Named, Grows
<1>2. ASSUME poll.pc = "write", poll.verdict = "complete"
      PROVE  Ingested(Head(poll.copies).run)'
  <2>1. Ingested(Head(poll.copies).run) /\ poll.copies # <<>>
    BY <1>2 DEF IInv, Polled
  <2>2. PICK r : r = Head(poll.copies).run
    OBVIOUS
  <2>3. r \in Created
    <3>1. poll.copies \in Seq(Copies)
      BY Basics DEF IInv
    <3>2. Head(poll.copies) = poll.copies[1] /\ 1 \in 1..Len(poll.copies)
      BY <2>1, <3>1
    <3> QED
      BY <2>2, <3>2 DEF IInv, Polled, Named
  <2>4. Ingested(r)'
    BY <2>1, <2>2, <2>3, IngestedStays DEF IInv
  <2> QED
    BY <2>2, <2>4 DEF Ingested, CompletedSince
<1>3. poll'.pc = poll.pc /\ poll'.copies = poll.copies /\ poll'.verdict = poll.verdict
  OBVIOUS
<1>4. Head(poll'.copies).run = Head(poll.copies).run
  BY <1>3
<1>5. poll'.pc = "write" /\ poll'.verdict = "complete" => Ingested(Head(poll.copies).run)'
  BY <1>2
<1> QED
  BY <1>1, <1>5 DEF IInv, Polled

\* Rows that say what they said.
LEMMA RecordStays ==
    ASSUME IInv, TypeOK', Grows, lastRun' = lastRun,
           \A r \in Created : /\ rows'[r].bronze = rows[r].bronze
                              /\ rows'[r].state = "complete" => rows[r].state = "complete"
    PROVE  Recorded'
<1>1. Created' = Created
  BY DEF Created
<1> SUFFICES ASSUME NEW r \in Created
             PROVE  Named(r, rows[r].bronze)' /\ (rows'[r].state = "complete" => Ingested(r)')
  BY <1>1 DEF Recorded
<1>2. Named(r, rows[r].bronze)'
  BY <1>1 DEF IInv, Recorded, Named, Grows
<1>3. rows[r].state = "complete" => Ingested(r)'
  BY IngestedStays DEF IInv, Recorded
<1> QED
  BY <1>2, <1>3

\* A write to the row of run r.
LEMMA WriteStep ==
    ASSUME IInv, NEW r \in Created, NEW s \in States, NEW b \in {Null, "A", "B", "W"},
           rows' = Write(r, s, b), lastRun' = lastRun,
           b = "A" => rows[r].mode = "snapshot"
    PROVE  /\ rows' \in [RunIds -> Row \cup {Null}] /\ \A i \in Created' : rows'[i] \in Row
           /\ \A i \in RunIds \ {r} : rows'[i] = rows[i]
           /\ rows'[r].mode = rows[r].mode /\ rows'[r].state = s /\ rows'[r].bronze = b
<1>1. r \in RunIds /\ rows[r] \in Row /\ Created' = Created
  BY Basics DEF IInv, TypeOK, Created
<1>2. PICK row : row = [rows[r] EXCEPT !.state = s, !.bronze = b, !.stale = FALSE]
  OBVIOUS
<1>3. row \in Row /\ row.mode = rows[r].mode /\ row.state = s /\ row.bronze = b
  BY <1>1, <1>2 DEF Row
<1>4. rows' = [rows EXCEPT ![r] = row]
  BY <1>1, <1>2 DEF Write, IInv, TypeOK
<1> QED
  BY <1>1, <1>3, <1>4 DEF IInv, TypeOK

LEMMA WriteRecords ==
    ASSUME IInv, TypeOK', NEW r \in Created, NEW s \in States, NEW b \in {Null, "A", "B", "W"},
           rows' = Write(r, s, b), UNCHANGED <<baseline, lastRun, upd>>,
           b = "A" => rows[r].mode = "snapshot",
           s = "complete" => Ingested(r)
    PROVE  Grows /\ Recorded'
<1>1. /\ \A i \in RunIds \ {r} : rows'[i] = rows[i]
      /\ rows'[r].mode = rows[r].mode /\ rows'[r].state = s /\ rows'[r].bronze = b
  BY WriteStep
<1>2. Created' = Created /\ Created \subseteq RunIds
  BY Basics DEF IInv, Created
<1>3. Grows
  BY <1>1, <1>2, Basics DEF Grows, IInv
<1>4. ASSUME NEW i \in Created
      PROVE  Named(i, rows[i].bronze)' /\ (rows'[i].state = "complete" => Ingested(i)')
  <2>1. Ingested(i) => Ingested(i)'
    BY <1>3, IngestedStays DEF IInv
  <2>2. CASE i = r
    BY <1>1, <1>2, <2>1, <2>2 DEF Named
  <2>3. CASE i # r
    BY <1>1, <1>2, <2>1, <2>3 DEF Named, IInv, Recorded
  <2> QED
    BY <2>2, <2>3
<1> QED
  BY <1>2, <1>3, <1>4 DEF Recorded

\* Whom a baseline is due.
LEMMA BasedStep ==
    ASSUME IInv, TypeOK', Grows, lastRun' = lastRun, daily' => daily \/ Based,
           \A t \in Threads : thread'[t].pc # "free" /\ thread'[t].mode = "cdc" =>
              Based \/ (thread[t].pc # "free" /\ thread[t].mode = "cdc")
    PROVE  CdcBased'
<1>1. Based => Based'
  BY BasedStays DEF IInv
<1>2. Created' = Created
  BY DEF Created
<1> QED
  BY <1>1, <1>2 DEF IInv, CdcBased, Grows

\* Thread t goes on to x; what Databricks has changes at most for its run.
LEMMA ThreadsStep ==
    ASSUME IInv, TypeOK', Grows, notebook' = notebook, NEW t \in Threads, NEW x \in Thread,
           thread' = [thread EXCEPT ![t] = x],
           x.pc \in Export => thread[t].pc \in Export /\ x.run = thread[t].run,
           \A r \in RunIds : (thread[t].pc \in Export /\ r = thread[t].run) \/ (upd'[r] = upd[r] /\ wf'[r] = wf[r]),
           Works(x, lastRun', rows', upd', wf')
    PROVE  Working'
<1>1. thread'[t] = x /\ \A s \in Threads \ {t} : thread'[s] = thread[s]
  BY DEF IInv, TypeOK
<1>3. ASSUME NEW s \in Threads \ {t}
      PROVE  Works(thread[s], lastRun', rows', upd', wf')
  <2>1. Works(thread[s], lastRun, rows, upd, wf)
    BY DEF IInv, Working
  <2>2. CASE thread[s].pc \in Export
    <3>1. thread[s].run \in Created /\ thread[s].run \in Created' /\ thread[s].run \in RunIds
      BY <2>1, <2>2, CreatedGrows, Basics DEF Works, IInv, Created
    <3>2. upd'[thread[s].run] = upd[thread[s].run] /\ wf'[thread[s].run] = wf[thread[s].run]
      BY <2>2, <3>1 DEF IInv, Working
    <3> QED
      BY <2>1, <2>2, <3>1, <3>2 DEF Works, Grows, Created
  <2>3. CASE thread[s].pc \notin Export
    BY <2>1, <2>3 DEF Works, Export
  <2> QED
    BY <2>2, <2>3
<1>4. \A s \in Threads : Works(thread'[s], lastRun', rows', upd', wf')
  BY <1>1, <1>3
<1>5. ASSUME NEW s \in Threads, NEW v \in Threads, s # v, thread'[s].pc \in Export, thread'[v].pc \in Export
      PROVE  thread'[s].run # thread'[v].run
  <2>1. thread[s].pc \in Export /\ thread[s].run = thread'[s].run
    BY <1>1, <1>5
  <2>2. thread[v].pc \in Export /\ thread[v].run = thread'[v].run
    BY <1>1, <1>5
  <2> QED
    BY <1>5, <2>1, <2>2 DEF IInv, Working
<1>6. \A s \in Threads : Works(thread[s], lastRun, rows, upd, wf)'
  BY <1>4 DEF Works
<1> QED
  BY <1>5, <1>6 DEF Working

-----------------------------------------------------------------------------
(* Threads *)

\* A write of state s and the pipeline b to the row of the run of t.
Writes(t, s, b) ==
    /\ thread[t].pc \in Export /\ rows' = Write(thread[t].run, s, b)
    /\ b = "A" => thread[t].mode = "snapshot" \/ rows[thread[t].run].bronze = "A"
    /\ s = "complete" => Ingested(thread[t].run)

\* A step of thread t to x that leaves Databricks alone and writes at most to
\* the row of its run.
Goes(t, x) ==
    /\ thread' = [thread EXCEPT ![t] = x]
    /\ UNCHANGED <<notebook, baseline, daily, lastRun, poll, upd, wf>>
    /\ rows' = rows \/ \E s \in States, b \in {Null, "A", "B", "W"} : Writes(t, s, b)
    /\ x.pc \in Export => thread[t].pc \in Export /\ x.run = thread[t].run
    /\ x.pc # "free" /\ x.mode = "cdc" => Based \/ (thread[t].pc # "free" /\ thread[t].mode = "cdc")

LEMMA ThreadMoves ==
    ASSUME IInv, NEW t \in Threads, NEW x \in Thread, Goes(t, x), Works(x, lastRun, rows, upd, wf)
    PROVE  IInv'
<1>0. /\ thread' = [thread EXCEPT ![t] = x]
      /\ UNCHANGED <<notebook, baseline, daily, lastRun, poll, upd, wf>>
  BY DEF Goes
<1>1. Created' = Created
  BY <1>0 DEF Created
<1>2. ASSUME rows' = rows
      PROVE  TypeOK' /\ Grows /\ Recorded'
  <2>1. TypeOK'
    BY <1>0, <1>1, <1>2 DEF IInv, TypeOK
  <2>2. Grows
    BY <1>0, <1>2, Basics DEF IInv, Grows
  <2>3. Recorded'
    BY <1>0, <1>2, <2>1, <2>2, RecordStays
  <2> QED
    BY <2>1, <2>2, <2>3
<1>3. ASSUME NEW s \in States, NEW b \in {Null, "A", "B", "W"}, Writes(t, s, b)
      PROVE  TypeOK' /\ Grows /\ Recorded'
  <2>1. /\ thread[t].pc \in Export /\ rows' = Write(thread[t].run, s, b)
        /\ b = "A" => thread[t].mode = "snapshot" \/ rows[thread[t].run].bronze = "A"
        /\ s = "complete" => Ingested(thread[t].run)
    BY <1>3 DEF Writes
  <2>2. PICK r : r = thread[t].run
    OBVIOUS
  <2>3. r \in Created /\ rows[r].mode = thread[t].mode
    BY <2>1, <2>2 DEF IInv, Working, Works, Created
  <2>4. b = "A" => rows[r].mode = "snapshot"
    BY <2>1, <2>2, <2>3 DEF IInv, Recorded, Named
  <2>5. rows' \in [RunIds -> Row \cup {Null}] /\ \A i \in Created' : rows'[i] \in Row
    BY <1>0, <2>1, <2>2, <2>3, <2>4, WriteStep
  <2>6. TypeOK'
    BY <1>0, <2>5 DEF IInv, TypeOK
  <2>7. s = "complete" => Ingested(r)
    BY <2>1, <2>2
  <2>8. Grows /\ Recorded'
    BY <1>0, <2>1, <2>2, <2>3, <2>4, <2>6, <2>7, WriteRecords
  <2> QED
    BY <2>6, <2>8
<1>4. TypeOK' /\ Grows /\ Recorded'
  BY <1>2, <1>3 DEF Goes
<1>5. Works(x, lastRun', rows', upd', wf')
  BY <1>0, <1>1, <1>4 DEF Works, Grows, Created
<1>6. Working'
  BY <1>0, <1>4, <1>5, ThreadsStep DEF Goes
<1>7. Flowing'
  BY <1>0, <1>1 DEF IInv, Flowing, Flows
<1>8. Polled'
  BY <1>0, <1>4, PollStays
<1>9. CdcBased'
  <2>1. \A s \in Threads : s # t => thread'[s] = thread[s]
    BY <1>0 DEF IInv, TypeOK
  <2>2. thread'[t] = x
    BY <1>0 DEF IInv, TypeOK
  <2>3. \A s \in Threads : thread'[s].pc # "free" /\ thread'[s].mode = "cdc" =>
              Based \/ (thread[s].pc # "free" /\ thread[s].mode = "cdc")
    BY <2>1, <2>2 DEF Goes
  <2> QED
    BY <1>0, <1>4, <2>3, BasedStep
<1> QED
  BY <1>4, <1>6, <1>7, <1>8, <1>9 DEF IInv

LEMMA IdleWorks ==
    /\ Idle \in Thread /\ Idle.pc = "free"
    /\ \A n, rs, u, w : Works(Idle, n, rs, u, w)
<1>1. Idle \in Thread
  BY U2MAssumption DEF Idle, Thread, Modes, Pipes
<1> QED
  BY <1>1 DEF Idle, Works, Export

\* A thread that returns, after a last write or none.
LEMMA LeaveStep ==
    ASSUME IInv, NEW t \in Threads,
           Refused(t) \/ Commit(t) \/ Fail(t) \/ StartRefused(t) \/ PollGivesUp(t) \/ WriteLost(t)
    PROVE  IInv'
<1>1. /\ thread' = [thread EXCEPT ![t] = Idle]
      /\ UNCHANGED <<notebook, baseline, daily, lastRun, poll, upd, wf>>
  BY DEF Refused, Commit, Fail, StartRefused, PollGivesUp, WriteLost, FailRun, settings, databricks
<1>2. rows' = rows \/ (/\ thread[t].pc \in Export
                       /\ rows' = Write(thread[t].run, "failed", rows[thread[t].run].bronze))
  BY DEF Refused, Commit, Fail, StartRefused, PollGivesUp, WriteLost, FailRun, Export
<1>3. rows' = rows \/ \E s \in States, b \in {Null, "A", "B", "W"} : Writes(t, s, b)
  <2> SUFFICES ASSUME thread[t].pc \in Export,
                      rows' = Write(thread[t].run, "failed", rows[thread[t].run].bronze)
               PROVE  \E s \in States, b \in {Null, "A", "B", "W"} : Writes(t, s, b)
    BY <1>2
  <2>1. thread[t].run \in Created
    BY DEF IInv, Working, Works, Created
  <2>2. rows[thread[t].run].bronze \in {Null, "A", "B", "W"} /\ "failed" \in States
    BY <2>1 DEF IInv, TypeOK, Row, States, _TERMINAL
  <2>3. Writes(t, "failed", rows[thread[t].run].bronze)
    BY DEF Writes
  <2> QED
    BY <2>2, <2>3
<1>4. Goes(t, Idle)
  BY <1>1, <1>3, IdleWorks DEF Goes, Export
<1> QED
  BY <1>4, IdleWorks, ThreadMoves

LEMMA StartStep ==
    ASSUME IInv, NEW t \in Threads, NEW m \in Modes, start_sync(t, m)
    PROVE  IInv'
<1>0. PICK p : p = IF m = "snapshot" THEN "A" ELSE "B"
  OBVIOUS
<1>1. PICK x : x = [Idle EXCEPT !.pc = "create", !.mode = m, !.pipe = p]
  OBVIOUS
<1>2. /\ x \in Thread /\ x.pc = "create" /\ x.mode = m
      /\ m = "cdc" => x.pipe = "B"
      /\ m = "snapshot" => x.pipe = "A"
  <2>1. p \in Pipes /\ (m = "cdc" => p = "B") /\ (m = "snapshot" => p = "A")
    BY <1>0 DEF Pipes
  <2> QED
    BY <1>1, <2>1, IdleWorks DEF Thread
<1>3. Works(x, lastRun, rows, upd, wf)
  BY <1>2 DEF Works, Export
<1>4. m = "cdc" => Based
  BY DEF start_sync, IInv, CdcBased
<1>5. Goes(t, x)
  BY <1>0, <1>1, <1>2, <1>4 DEF Goes, start_sync, Export, settings, databricks
<1> QED
  BY <1>2, <1>3, <1>5, ThreadMoves

\* A step of the export that writes a state, or none.
LEMMA OnwardStep ==
    ASSUME IInv, NEW t \in Threads,
           DcExport(t) \/ Upload(t) \/ Trigger(t) \/ Record(t) \/ PollSuccess(t) \/ Complete(t)
    PROVE  IInv'
<1>1. PICK z, r : z = thread[t] /\ r = z.run
  OBVIOUS
<1>2. /\ z \in Thread /\ z.pc \in Export /\ r \in Created /\ rows[r].mode = z.mode
      /\ Works(z, lastRun, rows, upd, wf)
  BY <1>1, Basics DEF IInv, Working, Works, Created, DcExport, Upload, Trigger, Record, PollSuccess, Complete, Step, Export
<1>3. PICK x \in Thread : /\ thread' = [thread EXCEPT ![t] = x] /\ x.pc \in Export /\ x.run = r /\ x.mode = z.mode
                          /\ Works(x, lastRun, rows, upd, wf)
  <2>1. ASSUME NEW pc \in Export
        PROVE  [z EXCEPT !.pc = pc] \in Thread
    BY <1>2 DEF Thread
  <2>2. CASE DcExport(t) \/ Upload(t) \/ Trigger(t)
    <3>1. PICK pc \in {"upload", "trigger", "start"} :
             z.pc \in {"submit", "upload", "trigger"} /\ thread' = [thread EXCEPT ![t] = [z EXCEPT !.pc = pc]]
      BY <1>1, <2>2 DEF DcExport, Upload, Trigger, Step
    <3>2. PICK x : x = [z EXCEPT !.pc = pc]
      OBVIOUS
    <3>3. x \in Thread /\ x.pc = pc /\ x.run = z.run /\ x.mode = z.mode /\ x.pipe = z.pipe
      BY <1>2, <2>1, <3>1, <3>2 DEF Thread, Export
    <3>4. Works(x, lastRun, rows, upd, wf)
      BY <1>2, <3>1, <3>3 DEF Works, Export
    <3> QED
      BY <1>1, <3>1, <3>2, <3>3, <3>4 DEF Export
  <2>3. CASE Complete(t)
    <3>1. PICK x : x = [z EXCEPT !.pc = "commit"]
      OBVIOUS
    <3>2. x \in Thread /\ x.pc = "commit" /\ x.run = z.run /\ x.mode = z.mode /\ x.pipe = z.pipe
      BY <1>2, <2>1, <3>1 DEF Thread, Export
    <3>3. z.pc = "complete" /\ thread' = [thread EXCEPT ![t] = x]
      BY <1>1, <2>3, <3>1 DEF Complete, Step
    <3>4. Works(x, lastRun, rows, upd, wf)
      BY <1>2, <3>2, <3>3 DEF Works, Export
    <3> QED
      BY <1>1, <3>2, <3>3, <3>4 DEF Export
  <2>4. CASE Record(t)
    <3>1. PICK x : x = [z EXCEPT !.pc = "poll"]
      OBVIOUS
    <3>2. x \in Thread /\ x.pc = "poll" /\ x.run = z.run /\ x.mode = z.mode /\ x.pipe = z.pipe
      BY <1>2, <2>1, <3>1 DEF Thread, Export
    <3>3. z.pc = "record" /\ thread' = [thread EXCEPT ![t] = x]
      BY <1>1, <2>4, <3>1 DEF Record
    <3>4. Works(x, lastRun, rows, upd, wf)
      BY <1>2, <3>2, <3>3 DEF Works, Export
    <3> QED
      BY <1>1, <3>2, <3>3, <3>4 DEF Export
  <2>5. CASE PollSuccess(t) /\ ~notebook /\ z.pipe = "A"
    <3>1. PICK x : x = [z EXCEPT !.pc = "start", !.pipe = "B"]
      OBVIOUS
    <3>2. x \in Thread /\ x.pc = "start" /\ x.run = z.run /\ x.mode = z.mode /\ x.pipe = "B"
      BY <1>2, <3>1 DEF Thread, Export, Pipes
    <3>3. z.pc = "poll" /\ thread' = [thread EXCEPT ![t] = x]
      BY <1>1, <2>5, <3>1 DEF PollSuccess
    <3>4. wf[r].state = "none"
      BY <1>2, <2>5, Basics DEF IInv, Flowing, Flows
    <3>5. Works(x, lastRun, rows, upd, wf)
      BY <1>1, <1>2, <2>5, <3>2, <3>3, <3>4 DEF Works, Export
    <3> QED
      BY <1>1, <3>2, <3>3, <3>5 DEF Export
  <2>6. CASE PollSuccess(t) /\ ~(~notebook /\ z.pipe = "A")
    <3>1. PICK x : x = [z EXCEPT !.pc = "complete"]
      OBVIOUS
    <3>2. x \in Thread /\ x.pc = "complete" /\ x.run = z.run /\ x.mode = z.mode /\ x.pipe = z.pipe
      BY <1>2, <2>1, <3>1 DEF Thread, Export
    <3>3. z.pc = "poll" /\ thread' = [thread EXCEPT ![t] = x] /\ Succeeded(t)
      BY <1>1, <2>6, <3>1 DEF PollSuccess
    <3>4. upd[r]["B"].state = "completed"
      <4>1. CASE notebook
        BY <1>1, <1>2, <3>3, <4>1, Basics DEF Succeeded, IInv, Flowing, Flows
      <4>2. CASE ~notebook
        BY <1>1, <1>2, <2>6, <3>3, <4>2 DEF Succeeded, Thread, Pipes
      <4> QED
        BY <4>1, <4>2
    <3>5. Works(x, lastRun, rows, upd, wf)
      BY <1>1, <1>2, <3>2, <3>3, <3>4 DEF Works, Export
    <3> QED
      BY <1>1, <3>2, <3>3, <3>5 DEF Export
  <2> QED
    BY <2>2, <2>3, <2>4, <2>5, <2>6
<1>4. rows' = rows \/ \E s \in States, b \in {Null, "A", "B", "W"} : Writes(t, s, b)
  <2>1. rows[r].bronze \in {Null, "A", "B", "W"}
    BY <1>2 DEF IInv, TypeOK, Row
  <2>2. ASSUME NEW s \in States, s # "complete" \/ Ingested(r), rows' = Write(r, s, rows[r].bronze)
        PROVE  Writes(t, s, rows[r].bronze)
    BY <1>1, <1>2, <2>2 DEF Writes
  <2>3. CASE DcExport(t) \/ Upload(t) \/ Trigger(t)
    <3>1. \E s \in States : s # "complete" /\ rows' = Write(r, s, rows[r].bronze)
      <4>1. {"dc_job_submitted", "uploading_files", "workflow_triggered", "bronze_job_triggered"} \subseteq States
        BY DEF States, _WORKFLOW_STATES
      <4>2. \E s \in {"dc_job_submitted", "uploading_files", "workflow_triggered", "bronze_job_triggered"} :
               rows' = Write(r, s, rows[r].bronze)
        BY <1>1, <2>3 DEF DcExport, Upload, Trigger, Step
      <4> QED
        BY <4>1, <4>2
    <3> QED
      BY <2>1, <2>2, <3>1
  <2>4. CASE Complete(t)
    <3>1. Ingested(r) /\ rows' = Write(r, "complete", rows[r].bronze) /\ "complete" \in States
      BY <1>1, <1>2, <2>4 DEF Complete, Step, Works, Ingested, States, _TERMINAL
    <3> QED
      BY <2>1, <2>2, <3>1
  <2>5. CASE Record(t)
    <3>1. PICK s \in States, b \in {"A", "B", "W"} :
             s # "complete" /\ rows' = Write(r, s, b) /\ (b = "A" => z.pipe = "A")
      <4>1. z.pipe \in {"A", "B", "W"} /\ {"workflow_running", "bronze_job_running"} \subseteq States
        BY <1>2 DEF Thread, Pipes, States, _WORKFLOW_STATES, _PIPELINE_STATES
      <4> QED
        BY <1>1, <2>5, <4>1 DEF Record
    <3>2. b = "A" => z.mode = "snapshot"
      BY <1>2, <3>1 DEF Works, Thread, Modes, Export
    <3>3. Writes(t, s, b)
      BY <1>1, <1>2, <3>1, <3>2 DEF Writes
    <3> QED
      BY <3>3
  <2>6. CASE PollSuccess(t)
    BY <2>6 DEF PollSuccess
  <2> QED
    BY <2>3, <2>4, <2>5, <2>6
<1>5. UNCHANGED <<notebook, baseline, daily, lastRun, poll, upd, wf>>
  BY DEF DcExport, Upload, Trigger, Record, PollSuccess, Complete, Step, settings, databricks
<1>6. Goes(t, x)
  BY <1>1, <1>2, <1>3, <1>4, <1>5 DEF Goes, Export
<1> QED
  BY <1>3, <1>6, ThreadMoves

-----------------------------------------------------------------------------
(* Runs, and what they start *)

LEMMA CreateStep ==
    ASSUME IInv, NEW t \in Threads, create_sync_run(t)
    PROVE  IInv'
<1>1. PICK n, z : n = lastRun + 1 /\ z = thread[t]
  OBVIOUS
<1>2. PICK row, x : /\ row = [mode |-> z.mode, state |-> "running", bronze |-> Null, stale |-> FALSE]
                    /\ x = [z EXCEPT !.pc = "submit", !.run = n]
  OBVIOUS
<1>3. /\ n \in RunIds /\ lastRun' = n /\ Created' = Created \cup {n} /\ n \notin Created
      /\ UNCHANGED <<notebook, baseline, daily, poll, upd, wf>>
      /\ rows' = [rows EXCEPT ![n] = row] /\ thread' = [thread EXCEPT ![t] = x]
  <2>1. n \in RunIds /\ lastRun' = n /\ Created' = Created \cup {n} /\ n \notin Created
    BY <1>1, Basics DEF create_sync_run, IInv, Created, RunIds
  <2>2. UNCHANGED <<notebook, baseline, daily, poll, upd, wf>> /\ rows' = [rows EXCEPT ![n] = row]
    BY <1>1, <1>2 DEF create_sync_run, settings, databricks
  <2>3. thread' = [thread EXCEPT ![t] = x]
    BY <1>1, <1>2 DEF create_sync_run, IInv, TypeOK
  <2> QED
    BY <2>1, <2>2, <2>3
<1>4. z \in Thread /\ z.pc = "create" /\ Works(z, lastRun, rows, upd, wf)
  BY <1>1, Basics DEF create_sync_run, IInv, Working
<1>5. /\ row \in Row /\ row.mode = z.mode /\ row.state = "running" /\ row.bronze = Null
      /\ x \in Thread /\ x.pc = "submit" /\ x.run = n /\ x.mode = z.mode /\ x.pipe = z.pipe
  <2>1. row \in Row /\ row.mode = z.mode /\ row.state = "running" /\ row.bronze = Null
    BY <1>2, <1>4 DEF Row, Thread, States
  <2>2. n \in 0..MaxRuns
    BY <1>3, Basics DEF IInv, RunIds
  <2>3. x \in Thread /\ x.pc = "submit" /\ x.run = n /\ x.mode = z.mode /\ x.pipe = z.pipe
    BY <1>2, <1>4, <2>2 DEF Thread, Export
  <2> QED
    BY <2>1, <2>3
<1>6. TypeOK'
  BY <1>3, <1>5, Basics DEF IInv, TypeOK, RunIds
<1>7. \A i \in Created : rows'[i] = rows[i]
  BY <1>3 DEF IInv, TypeOK
<1>8. rows'[n] = row
  BY <1>3 DEF IInv, TypeOK
<1>9. Grows
  BY <1>1, <1>3, <1>7, Basics DEF Grows, IInv
<1>10. Works(x, lastRun', rows', upd', wf')
  <2>1. /\ upd[n]["A"].state = "none" /\ upd[n]["B"].state = "none" /\ wf[n].state = "none"
    BY <1>3 DEF IInv, Flowing, Pipes
  <2>2. x.pipe \in {"A", "B"}
    BY <1>5 DEF Thread, Pipes
  <2>3. x.run \in 1..lastRun' /\ rows'[x.run].mode = x.mode
    BY <1>3, <1>5, <1>8 DEF RunIds
  <2>4. (x.mode = "cdc" => x.pipe = "B") /\ (x.mode = "snapshot" /\ notebook => x.pipe = "A")
    BY <1>4, <1>5 DEF Works
  <2> QED
    BY <1>3, <1>5, <2>1, <2>2, <2>3, <2>4 DEF Works
<1>11. \A s \in Threads \ {t} : /\ thread'[s] = thread[s] /\ Works(thread[s], lastRun', rows', upd', wf')
                                /\ thread[s].pc \in Export => thread[s].run \in Created
  <2> SUFFICES ASSUME NEW s \in Threads \ {t}
               PROVE  /\ thread'[s] = thread[s] /\ Works(thread[s], lastRun', rows', upd', wf')
                      /\ thread[s].pc \in Export => thread[s].run \in Created
    OBVIOUS
  <2>1. Works(thread[s], lastRun, rows, upd, wf)
    BY DEF IInv, Working
  <2>2. thread[s].pc \in Export => thread[s].run \in Created
    BY <2>1 DEF Works, Created
  <2>3. thread[s].pc \in Export => thread[s].run \in 1..lastRun' /\ rows'[thread[s].run].mode = thread[s].mode
    BY <1>3, <1>7, <2>1, <2>2 DEF Works, Created
  <2>4. Works(thread[s], lastRun', rows', upd', wf')
    BY <1>3, <2>1, <2>3 DEF Works
  <2> QED
    BY <1>3, <2>2, <2>4 DEF IInv, TypeOK
<1>12. thread'[t] = x
  BY <1>3 DEF IInv, TypeOK
<1>13. Working'
  <2>1. \A s \in Threads : Works(thread'[s], lastRun', rows', upd', wf')
    BY <1>10, <1>11, <1>12
  <2>2. \A s \in Threads : Works(thread[s], lastRun, rows, upd, wf)'
    BY <1>3, <2>1 DEF Works
  <2>3. \A u, v \in Threads :
           u # v /\ thread'[u].pc \in Export /\ thread'[v].pc \in Export => thread'[u].run # thread'[v].run
    <3> SUFFICES ASSUME NEW u \in Threads, NEW v \in Threads, u # v, thread'[u].pc \in Export, thread'[v].pc \in Export
                 PROVE  thread'[u].run # thread'[v].run
      OBVIOUS
    <3>1. CASE u = t
      BY <1>3, <1>5, <1>11, <1>12, <3>1
    <3>2. CASE v = t
      BY <1>3, <1>5, <1>11, <1>12, <3>2
    <3>3. CASE u # t /\ v # t
      BY <1>11, <3>3 DEF IInv, Working
    <3> QED
      BY <3>1, <3>2, <3>3
  <2> QED
    BY <2>2, <2>3 DEF Working
<1>14. Flowing'
  BY <1>3 DEF IInv, Flowing, Flows
<1>15. Polled'
  BY <1>3, <1>6, <1>9, PollStays
<1>16. CdcBased'
  <2>1. Based => Based'
    BY <1>6, <1>9, BasedStays DEF IInv
  <2>2. z.mode = "cdc" => Based
    BY <1>1, <1>4 DEF IInv, CdcBased
  <2> QED
    BY <1>3, <1>5, <1>7, <1>8, <1>11, <1>12, <2>1, <2>2 DEF IInv, CdcBased
<1>17. Recorded'
  <2>1. \A i \in Created : Named(i, rows[i].bronze)' /\ (rows'[i].state = "complete" => Ingested(i)')
    <3> SUFFICES ASSUME NEW i \in Created
                 PROVE  Named(i, rows[i].bronze)' /\ (rows'[i].state = "complete" => Ingested(i)')
      OBVIOUS
    <3>1. Ingested(i) => Ingested(i)'
      BY <1>6, <1>9, IngestedStays DEF IInv
    <3> QED
      BY <1>3, <1>7, <3>1 DEF Named, IInv, Recorded
  <2>2. Named(n, rows[n].bronze)' /\ rows'[n].state # "complete"
    BY <1>3, <1>5, <1>8, U2MAssumption DEF Named
  <2> QED
    BY <1>3, <2>1, <2>2 DEF Recorded
<1> QED
  BY <1>6, <1>13, <1>14, <1>15, <1>16, <1>17 DEF IInv

LEMMA StartUpdateStep ==
    ASSUME IInv, NEW t \in Threads, StartUpdate(t)
    PROVE  IInv'
<1>1. PICK z, r : z = thread[t] /\ r = z.run
  OBVIOUS
<1>2. PICK x : x = [z EXCEPT !.pc = "record"]
  OBVIOUS
<1>3. /\ z \in Thread /\ z.pc = "start" /\ ~notebook /\ r \in Created /\ r \in RunIds
      /\ Works(z, lastRun, rows, upd, wf) /\ upd[r] \in [Pipes -> Updates]
  BY <1>1, Basics DEF StartUpdate, IInv, Working, Works, Created, Export
<1>4. PICK p, e : p = z.pipe /\ e = [upd[r] EXCEPT ![p] = Started]
  OBVIOUS
<1>5. /\ p \in Pipes /\ upd[r][p].state = "none" /\ upd[r]["B"].state = "none" /\ wf[r].state = "none"
  BY <1>1, <1>3, <1>4 DEF Works, Thread
<1>6. /\ e \in [Pipes -> Updates] /\ \A q \in Pipes : q # p => e[q] = upd[r][q]
  <2>1. Started \in Updates
    BY Basics DEF Started, Updates, IInv, TypeOK
  <2> QED
    BY <1>3, <1>4, <1>5, <2>1
<1>7. /\ x \in Thread /\ x.pc = "record" /\ x.run = r /\ x.mode = z.mode /\ x.pipe = z.pipe
  BY <1>1, <1>2, <1>3 DEF Thread, Export
<1>8. /\ upd' = [upd EXCEPT ![r] = e] /\ thread' = [thread EXCEPT ![t] = x]
      /\ UNCHANGED <<notebook, baseline, daily, rows, lastRun, poll, wf>> /\ Created' = Created
  <2>1. upd' = [upd EXCEPT ![r] = e]
    BY <1>1, <1>3, <1>4 DEF StartUpdate, IInv, TypeOK
  <2>2. thread' = [thread EXCEPT ![t] = x]
    BY <1>1, <1>2 DEF StartUpdate, IInv, TypeOK
  <2> QED
    BY <2>1, <2>2 DEF StartUpdate, settings, Created
<1>9. upd'[r] = e /\ \A i \in RunIds \ {r} : upd'[i] = upd[i]
  BY <1>3, <1>8 DEF IInv, TypeOK
<1>10. TypeOK'
  BY <1>3, <1>6, <1>7, <1>8 DEF IInv, TypeOK
<1>11. Grows
  <2>1. \A i \in RunIds, q \in Pipes : upd[i][q].state = "completed" => upd'[i][q] = upd[i][q]
    BY <1>5, <1>6, <1>9
  <2> QED
    BY <1>8, <2>1, Basics DEF Grows, IInv
<1>12. Recorded'
  BY <1>8, <1>10, <1>11, RecordStays
<1>13. Working'
  <2>1. Works(x, lastRun, rows, upd', wf)
    <3>1. z.pipe = "A" => upd'[r]["B"] = upd[r]["B"]
      BY <1>4, <1>6, <1>9 DEF Pipes
    <3> QED
      BY <1>1, <1>3, <1>5, <1>7, <3>1 DEF Works, Export
  <2>2. thread[t].pc \in Export /\ r = thread[t].run
    BY <1>1, <1>3 DEF Export
  <2> QED
    BY <1>7, <1>8, <1>9, <1>10, <1>11, <2>1, <2>2, ThreadsStep
<1>14. Flowing'
  <2>1. \A i \in RunIds : Flows(upd'[i], wf[i])
    <3> SUFFICES ASSUME NEW i \in RunIds
                 PROVE  Flows(upd'[i], wf[i])
      OBVIOUS
    <3>1. CASE i = r
      BY <1>5, <3>1 DEF Flows
    <3>2. CASE i # r
      BY <1>9, <3>2 DEF IInv, Flowing
    <3> QED
      BY <3>1, <3>2
  <2> QED
    BY <1>3, <1>8, <1>9, <2>1 DEF Flowing, IInv, Flows
<1>15. Polled'
  BY <1>8, <1>10, <1>11, PollStays
<1>16. CdcBased'
  <2>1. \A s \in Threads : thread'[s].pc # "free" /\ thread'[s].mode = "cdc" =>
              thread[s].pc # "free" /\ thread[s].mode = "cdc"
    BY <1>1, <1>3, <1>7, <1>8 DEF IInv, TypeOK
  <2> QED
    BY <1>8, <1>10, <1>11, <2>1, BasedStep
<1> QED
  BY <1>10, <1>12, <1>13, <1>14, <1>15, <1>16 DEF IInv

LEMMA StartWorkflowStep ==
    ASSUME IInv, NEW t \in Threads, StartWorkflow(t)
    PROVE  IInv'
<1>1. PICK z, r : z = thread[t] /\ r = z.run
  OBVIOUS
<1>2. PICK x : x = [z EXCEPT !.pc = "record"]
  OBVIOUS
<1>3. /\ z \in Thread /\ z.pc = "start" /\ notebook /\ r \in Created /\ r \in RunIds
      /\ Works(z, lastRun, rows, upd, wf)
  BY <1>1, Basics DEF StartWorkflow, IInv, Working, Works, Created, Export
<1>4. PICK y \in Workflows :
         /\ wf' = [wf EXCEPT ![r] = y]
         /\ y.state = "failed" \/ (y.state = "running" /\ y.todo = IF z.mode = "snapshot" THEN <<"A", "B">> ELSE <<"B">>)
  <2>1. PICK a : a = IF z.mode = "snapshot" THEN <<"A", "B">> ELSE <<"B">>
    OBVIOUS
  <2>2. a \in {<<>>, <<"B">>, <<"A", "B">>}
    BY <2>1
  <2>3. [state |-> "failed", todo |-> <<>>] \in Workflows /\ [state |-> "running", todo |-> a] \in Workflows
    BY <2>2 DEF Workflows
  <2>4. \/ wf' = [wf EXCEPT ![r] = [state |-> "failed", todo |-> <<>>]]
        \/ wf' = [wf EXCEPT ![r] = [state |-> "running", todo |-> a]]
    BY <1>1, <2>1 DEF StartWorkflow
  <2> QED
    BY <2>1, <2>3, <2>4
<1>5. /\ upd[r][z.pipe].state = "none" /\ upd[r]["B"].state = "none"
      /\ z.mode = "snapshot" => upd[r]["A"].state = "none"
  BY <1>1, <1>3 DEF Works
<1>6. /\ x \in Thread /\ x.pc = "record" /\ x.run = r /\ x.mode = z.mode /\ x.pipe = z.pipe
  BY <1>1, <1>2, <1>3 DEF Thread, Export
<1>7. /\ thread' = [thread EXCEPT ![t] = x]
      /\ UNCHANGED <<notebook, baseline, daily, rows, lastRun, poll, upd>> /\ Created' = Created
  <2>1. thread' = [thread EXCEPT ![t] = x]
    BY <1>1, <1>2 DEF StartWorkflow, IInv, TypeOK
  <2> QED
    BY <2>1 DEF StartWorkflow, settings, Created
<1>8. wf'[r] = y /\ \A i \in RunIds \ {r} : wf'[i] = wf[i]
  BY <1>3, <1>4 DEF IInv, TypeOK
<1>9. TypeOK'
  BY <1>3, <1>4, <1>6, <1>7 DEF IInv, TypeOK
<1>10. Grows
  BY <1>7, Basics DEF Grows, IInv
<1>11. Recorded'
  BY <1>7, <1>9, <1>10, RecordStays
<1>12. Working'
  <2>1. Works(x, lastRun, rows, upd, wf')
    BY <1>1, <1>3, <1>6 DEF Works, Export
  <2>2. thread[t].pc \in Export /\ r = thread[t].run
    BY <1>1, <1>3 DEF Export
  <2> QED
    BY <1>6, <1>7, <1>8, <1>9, <1>10, <2>1, <2>2, ThreadsStep
<1>13. Flowing'
  <2>1. Flows(upd[r], y)
    <3>1. <<"B">> # <<"A", "B">> /\ <<"A", "B">> # <<>> /\ <<"B">> # <<>>
      OBVIOUS
    <3> QED
      BY <1>3, <1>4, <1>5, <3>1 DEF Flows
  <2>2. \A i \in RunIds : Flows(upd[i], wf'[i])
    BY <1>8, <2>1 DEF IInv, Flowing
  <2> QED
    BY <1>3, <1>7, <1>8, <2>2 DEF Flowing, IInv, Flows
<1>14. Polled'
  BY <1>7, <1>9, <1>10, PollStays
<1>15. CdcBased'
  <2>1. \A s \in Threads : thread'[s].pc # "free" /\ thread'[s].mode = "cdc" =>
              thread[s].pc # "free" /\ thread[s].mode = "cdc"
    BY <1>1, <1>3, <1>6, <1>7 DEF IInv, TypeOK
  <2> QED
    BY <1>7, <1>9, <1>10, <2>1, BasedStep
<1> QED
  BY <1>9, <1>11, <1>12, <1>13, <1>14, <1>15 DEF IInv

-----------------------------------------------------------------------------
(* Databricks *)

\* The updates of run r become e, its workflow run y.
Turns(r, e, y) ==
    /\ upd' = [upd EXCEPT ![r] = e] /\ wf' = [wf EXCEPT ![r] = y]
    /\ UNCHANGED <<notebook, baseline, daily, rows, lastRun, thread, poll>>
    /\ \A q \in Pipes : /\ upd[r][q].state = "completed" => e[q] = upd[r][q]
                        /\ upd[r][q].state = "none" /\ e[q].state # "none" => wf[r].state = "running"
    /\ wf[r].state = "none" => y.state = "none"

LEMMA TurnStep ==
    ASSUME IInv, NEW r \in Created, NEW e \in [Pipes -> Updates], NEW y \in Workflows,
           Turns(r, e, y), Flows(e, y)
    PROVE  IInv'
<1>1. /\ UNCHANGED <<notebook, baseline, daily, rows, lastRun, thread, poll>> /\ Created' = Created
      /\ upd' = [upd EXCEPT ![r] = e] /\ wf' = [wf EXCEPT ![r] = y]
  BY DEF Turns, Created
<1>2. r \in RunIds /\ Pipes = {"A", "B"} /\ Created \subseteq RunIds
  BY Basics DEF IInv
<1>3. /\ upd'[r] = e /\ wf'[r] = y
      /\ \A i \in RunIds \ {r} : upd'[i] = upd[i] /\ wf'[i] = wf[i]
  BY <1>1, <1>2 DEF IInv, TypeOK
<1>4. TypeOK'
  BY <1>1, <1>2 DEF IInv, TypeOK
<1>5. Grows
  <2>1. \A i \in RunIds, q \in Pipes : upd[i][q].state = "completed" => upd'[i][q] = upd[i][q]
    BY <1>3 DEF Turns
  <2> QED
    BY <1>1, <2>1, Basics DEF Grows, IInv
<1>6. Recorded'
  BY <1>1, <1>4, <1>5, RecordStays
<1>7. Flowing'
  <2>1. \A i \in RunIds : Flows(upd'[i], wf'[i])
    BY <1>3 DEF IInv, Flowing
  <2> QED
    BY <1>1, <1>3, <2>1 DEF IInv, Flowing, Flows
<1>8. ASSUME NEW t \in Threads
      PROVE  Works(thread[t], lastRun, rows, upd', wf')
  <2>1. PICK x : x = thread[t]
    OBVIOUS
  <2>2. Works(x, lastRun, rows, upd, wf) /\ x \in Thread
    BY <2>1, Basics DEF IInv, Working
  <2>3. CASE x.pc \in Export /\ x.run = r
    <3>1. Flows(upd[r], wf[r])
      BY <1>2 DEF IInv, Flowing
    <3>2. wf[r].state = "none" => y.state = "none" /\ \A q \in Pipes : upd[r][q].state = "none" => e[q].state = "none"
      BY DEF Turns
    <3>3. ~notebook => wf[r].state = "none"
      BY <3>1 DEF Flows
    <3>4. upd[r]["B"].state = "completed" => e["B"] = upd[r]["B"]
      BY <1>2 DEF Turns
    <3>5. x.pipe \in Pipes
      BY <2>2 DEF Thread
    <3>6. Works(x, lastRun, rows, upd', wf')
      BY <1>2, <1>3, <2>2, <2>3, <3>2, <3>3, <3>4, <3>5 DEF Works
    <3> QED
      BY <2>1, <3>6
  <2>4. CASE x.pc \in Export /\ x.run # r
    <3>1. x.run \in RunIds
      BY <1>2, <2>2, <2>4 DEF Works, Created
    <3>2. upd'[x.run] = upd[x.run] /\ wf'[x.run] = wf[x.run]
      BY <1>3, <2>4, <3>1
    <3>3. Works(x, lastRun, rows, upd', wf')
      BY <2>2, <3>2 DEF Works
    <3> QED
      BY <2>1, <3>3
  <2>5. CASE x.pc \notin Export
    <3>1. Works(x, lastRun, rows, upd', wf')
      BY <2>2, <2>5 DEF Works, Export
    <3> QED
      BY <2>1, <3>1
  <2> QED
    BY <2>3, <2>4, <2>5
<1>9. Working'
  BY <1>1, <1>8 DEF IInv, Working, Works
<1>10. Polled'
  BY <1>1, <1>4, <1>5, PollStays
<1>11. CdcBased'
  BY <1>1, <1>4, <1>5, BasedStep
<1> QED
  BY <1>4, <1>6, <1>7, <1>9, <1>10, <1>11 DEF IInv

LEMMA TaskStep ==
    ASSUME IInv, NEW r \in RunIds, WorkflowTask(r)
    PROVE  IInv'
<1>1. /\ wf[r].state = "running" /\ wf[r].todo # <<>> /\ \A q \in Pipes : upd[r][q].state # "active"
      /\ upd[r] \in [Pipes -> Updates] /\ wf[r] \in Workflows /\ Flows(upd[r], wf[r]) /\ Pipes = {"A", "B"}
  BY Basics DEF WorkflowTask, IInv, Flowing
<1>2. r \in Created
  BY <1>1 DEF IInv, Flowing
<1>3. PICK p, k : p = Head(wf[r].todo) /\ k = Tail(wf[r].todo)
  OBVIOUS
<1>4. \/ wf[r].todo = <<"B">> /\ p = "B" /\ k = <<>>
      \/ wf[r].todo = <<"A", "B">> /\ p = "A" /\ k = <<"B">>
  <2>1. PICK d : d = wf[r].todo
    OBVIOUS
  <2>2. d \in {<<"B">>, <<"A", "B">>}
    BY <1>1, <2>1 DEF Workflows
  <2>3. d = <<"B">> => Head(d) = "B" /\ Tail(d) = <<>>
    OBVIOUS
  <2>4. d = <<"A", "B">> => Head(d) = "A" /\ Tail(d) = <<"B">>
    OBVIOUS
  <2> QED
    BY <1>3, <2>1, <2>2, <2>3, <2>4
<1>5. UNCHANGED <<notebook, baseline, daily, rows, lastRun, thread, poll>>
  BY DEF WorkflowTask, settings
<1>6. CASE PipelineBusy(p)
  <2>1. PICK y : y = [state |-> "failed", todo |-> <<>>]
    OBVIOUS
  <2>2. y \in Workflows /\ y.state = "failed"
    BY <2>1 DEF Workflows
  <2>3. wf' = [wf EXCEPT ![r] = y] /\ upd' = [upd EXCEPT ![r] = upd[r]]
    BY <1>3, <1>6, <2>1 DEF WorkflowTask, IInv, TypeOK
  <2>4. Flows(upd[r], y)
    BY <1>1, <2>2 DEF Flows
  <2>5. Turns(r, upd[r], y)
    BY <1>1, <1>5, <2>3 DEF Turns
  <2> QED
    BY <1>1, <1>2, <2>2, <2>4, <2>5, TurnStep
<1>7. CASE ~PipelineBusy(p)
  <2>1. PICK y, e : y = [wf[r] EXCEPT !.todo = k] /\ e = [upd[r] EXCEPT ![p] = Started]
    OBVIOUS
  <2>2. y \in Workflows /\ y.state = "running" /\ y.todo = k
    BY <1>1, <1>4, <2>1 DEF Workflows
  <2>3. Started \in Updates /\ Started.state = "active"
    BY Basics DEF Started, Updates, IInv, TypeOK
  <2>4. e \in [Pipes -> Updates] /\ e[p] = Started /\ \A q \in Pipes : q # p => e[q] = upd[r][q]
    BY <1>1, <1>4, <2>1, <2>3
  <2>5. wf' = [wf EXCEPT ![r] = y] /\ upd' = [upd EXCEPT ![r] = e]
    BY <1>3, <1>7, <2>1 DEF WorkflowTask, IInv, TypeOK
  <2>6. upd[r][p].state = "none"
    BY <1>1, <1>4 DEF Flows
  <2>7. Flows(e, y)
    <3>1. <<"B">> # <<>> /\ <<"B">> # <<"A", "B">> /\ <<>> # <<"A", "B">>
      OBVIOUS
    <3>2. CASE p = "B"
      BY <1>1, <1>4, <2>2, <2>3, <2>4, <3>1, <3>2 DEF Flows
    <3>3. CASE p = "A"
      BY <1>1, <1>4, <2>2, <2>3, <2>4, <3>1, <3>3 DEF Flows
    <3> QED
      BY <1>4, <3>2, <3>3
  <2>8. Turns(r, e, y)
    BY <1>1, <1>5, <2>4, <2>5, <2>6 DEF Turns
  <2> QED
    BY <1>2, <2>2, <2>4, <2>7, <2>8, TurnStep
<1> QED
  BY <1>6, <1>7

LEMMA EndStep ==
    ASSUME IInv, NEW r \in RunIds, NEW p \in Pipes, NEW ok \in BOOLEAN, UpdateEnds(r, p, ok)
    PROVE  IInv'
<1>1. /\ upd[r][p].state = "active" /\ upd[r] \in [Pipes -> Updates] /\ upd[r][p] \in Updates
      /\ wf[r] \in Workflows /\ Flows(upd[r], wf[r]) /\ Pipes = {"A", "B"}
  BY Basics DEF UpdateEnds, IInv, Flowing
<1>2. r \in Created
  BY <1>1 DEF IInv, Flowing
<1>3. PICK c : c = IF ok THEN "completed" ELSE "failed"
  OBVIOUS
<1>4. PICK e : e = [upd[r] EXCEPT ![p] = [upd[r][p] EXCEPT !.state = c]]
  OBVIOUS
<1>5. /\ e \in [Pipes -> Updates] /\ e[p].state = c /\ \A q \in Pipes : q # p => e[q] = upd[r][q]
  <2>1. [upd[r][p] EXCEPT !.state = c] \in Updates /\ [upd[r][p] EXCEPT !.state = c].state = c
    BY <1>1, <1>3 DEF Updates
  <2> QED
    BY <1>1, <1>4, <2>1
<1>6. upd' = [upd EXCEPT ![r] = e] /\ UNCHANGED <<notebook, baseline, daily, rows, lastRun, thread, poll>>
  BY <1>1, <1>3, <1>4 DEF UpdateEnds, settings, IInv, TypeOK
<1>7. PICK y : y = IF wf[r].state # "running" THEN wf[r]
                   ELSE IF ~ok THEN [state |-> "failed", todo |-> <<>>]
                   ELSE IF wf[r].todo = <<>> THEN [wf[r] EXCEPT !.state = "success"] ELSE wf[r]
  OBVIOUS
<1>8. wf' = [wf EXCEPT ![r] = y]
  BY <1>7 DEF UpdateEnds, IInv, TypeOK
<1>9. y \in Workflows /\ (wf[r].state = "none" => y.state = "none")
  BY <1>1, <1>7 DEF Workflows
<1>10. Flows(e, y)
  <2>1. CASE wf[r].state # "running"
    BY <1>1, <1>5, <1>7, <2>1 DEF Flows
  <2>2. CASE wf[r].state = "running" /\ ~ok
    BY <1>1, <1>7, <2>2 DEF Flows
  <2>3. CASE wf[r].state = "running" /\ ok /\ wf[r].todo = <<>>
    <3>1. p = "B" /\ c = "completed"
      BY <1>1, <1>3, <2>3 DEF Flows
    <3>2. y.state = "success"
      BY <1>1, <1>7, <2>3 DEF Workflows
    <3> QED
      BY <1>1, <1>5, <2>3, <3>1, <3>2 DEF Flows
  <2>4. CASE wf[r].state = "running" /\ ok /\ wf[r].todo # <<>>
    <3>1. p = "A" /\ wf[r].todo # <<"A", "B">>
      BY <1>1, <2>4 DEF Flows
    <3> QED
      BY <1>1, <1>5, <1>7, <2>4, <3>1 DEF Flows
  <2> QED
    BY <2>1, <2>2, <2>3, <2>4
<1>11. Turns(r, e, y)
  BY <1>1, <1>5, <1>6, <1>8, <1>9 DEF Turns
<1> QED
  BY <1>2, <1>5, <1>9, <1>10, <1>11, TurnStep

-----------------------------------------------------------------------------
(* The switch, restarts and time *)

\* A snapshot run that is complete has put a baseline into Pipeline B, itself or
\* by the run on whose update the reconciler completed it.
LEMMA SnapshotBased ==
    ASSUME IInv, has_successful_snapshot
    PROVE  Based
<1>1. CASE baseline
  BY <1>1 DEF Based
<1>2. ASSUME NEW r \in Created, rows[r].mode = "snapshot", rows[r].state = "complete"
      PROVE  Based
  <2>1. Ingested(r)
    BY <1>2 DEF IInv, Recorded
  <2>2. CASE upd[r]["B"].state = "completed"
    BY <1>2, <2>2 DEF Based
  <2>3. CASE \E i \in Created \ {r} : CompletedSince(i, r)
    <3>1. PICK i \in Created : upd[i]["B"].state = "completed"
      BY <2>3 DEF CompletedSince
    <3>2. rows[i].mode \in Modes
      BY DEF IInv, TypeOK, Row
    <3>3. CASE rows[i].mode = "snapshot"
      BY <3>1, <3>3 DEF Based
    <3>4. CASE rows[i].mode = "cdc"
      BY <3>4 DEF IInv, CdcBased
    <3> QED
      BY <3>2, <3>3, <3>4 DEF Modes
  <2> QED
    BY <2>1, <2>2, <2>3 DEF Ingested
<1> QED
  BY <1>1, <1>2 DEF has_successful_snapshot

LEMMA SwitchStep ==
    ASSUME IInv, NEW enabled \in BOOLEAN, sync_auto(enabled)
    PROVE  IInv'
<1>1. UNCHANGED <<notebook, baseline, rows, lastRun, thread, poll, upd, wf>> /\ Created' = Created
  BY DEF sync_auto, settings, databricks, Created
<1>2. TypeOK'
  BY <1>1 DEF IInv, TypeOK
<1>3. Grows
  BY <1>1, Basics DEF Grows, IInv
<1>4. Recorded'
  BY <1>1, <1>2, <1>3, RecordStays
<1>5. Working' /\ Flowing'
  BY <1>1 DEF IInv, Working, Works, Flowing, Flows
<1>6. Polled'
  BY <1>1, <1>2, <1>3, PollStays
<1>7. daily' => Based
  BY SnapshotBased DEF sync_auto
<1>8. CdcBased'
  BY <1>1, <1>2, <1>3, <1>7, BasedStep
<1> QED
  BY <1>2, <1>4, <1>5, <1>6, <1>8 DEF IInv

\* Rows become stale or failed.
LEMMA AgeStep ==
    ASSUME IInv, TwoHoursPass \/ has_in_flight_sync_run
    PROVE  IInv'
<1>1. UNCHANGED <<notebook, baseline, daily, lastRun, thread, poll, upd, wf>> /\ Created' = Created
  BY DEF TwoHoursPass, has_in_flight_sync_run, settings, databricks, Created
<1>2. /\ rows' \in [RunIds -> Row \cup {Null}]
      /\ \A r \in Created : /\ rows'[r] \in Row /\ rows'[r].mode = rows[r].mode /\ rows'[r].bronze = rows[r].bronze
                            /\ rows'[r].state = "complete" => rows[r].state = "complete"
  <2>1. Created \subseteq RunIds
    BY Basics DEF IInv
  <2>2. ASSUME NEW r \in Created
        PROVE  /\ [rows[r] EXCEPT !.stale = TRUE] \in Row /\ [rows[r] EXCEPT !.stale = TRUE].mode = rows[r].mode
               /\ [rows[r] EXCEPT !.stale = TRUE].bronze = rows[r].bronze
               /\ [rows[r] EXCEPT !.stale = TRUE].state = rows[r].state
    BY DEF IInv, TypeOK, Row
  <2>3. ASSUME NEW r \in Created
        PROVE  /\ [rows[r] EXCEPT !.state = "failed", !.stale = FALSE] \in Row
               /\ [rows[r] EXCEPT !.state = "failed", !.stale = FALSE].mode = rows[r].mode
               /\ [rows[r] EXCEPT !.state = "failed", !.stale = FALSE].bronze = rows[r].bronze
               /\ [rows[r] EXCEPT !.state = "failed", !.stale = FALSE].state = "failed"
    <3>1. rows[r] \in Row /\ "failed" \in States
      BY DEF IInv, TypeOK, States, _TERMINAL
    <3> QED
      BY <3>1 DEF Row
  <2>4. CASE TwoHoursPass
    <3>1. rows' = [r \in RunIds |-> IF r \in Created /\ ~Ended(r) THEN [rows[r] EXCEPT !.stale = TRUE] ELSE rows[r]]
      BY <2>4 DEF TwoHoursPass
    <3>2. rows' \in [RunIds -> Row \cup {Null}]
      BY <2>2, <3>1 DEF IInv, TypeOK
    <3>3. \A r \in Created : rows'[r] = [rows[r] EXCEPT !.stale = TRUE] \/ rows'[r] = rows[r]
      BY <2>1, <3>1
    <3> QED
      BY <2>2, <3>2, <3>3 DEF IInv, TypeOK
  <2>5. CASE has_in_flight_sync_run
    <3>1. rows' = [r \in RunIds |-> IF r \in Stale THEN [rows[r] EXCEPT !.state = "failed", !.stale = FALSE] ELSE rows[r]]
      BY <2>5 DEF has_in_flight_sync_run
    <3>2. rows' \in [RunIds -> Row \cup {Null}]
      BY <2>3, <3>1 DEF IInv, TypeOK, Stale
    <3>3. \A r \in Created : rows'[r] = [rows[r] EXCEPT !.state = "failed", !.stale = FALSE] \/ rows'[r] = rows[r]
      BY <2>1, <3>1
    <3> QED
      BY <2>3, <3>2, <3>3 DEF IInv, TypeOK
  <2> QED
    BY <2>4, <2>5
<1>3. TypeOK'
  BY <1>1, <1>2 DEF IInv, TypeOK
<1>4. Grows
  BY <1>1, <1>2, Basics DEF Grows, IInv
<1>5. Recorded'
  BY <1>1, <1>2, <1>3, <1>4, RecordStays
<1>6. Working'
  <2>1. \A t \in Threads : Works(thread[t], lastRun, rows', upd, wf)
    BY <1>2 DEF IInv, Working, Works, Created
  <2> QED
    BY <1>1, <2>1 DEF IInv, Working, Works
<1>7. Flowing'
  BY <1>1 DEF IInv, Flowing, Flows
<1>8. Polled'
  BY <1>1, <1>3, <1>4, PollStays
<1>9. CdcBased'
  BY <1>1, <1>3, <1>4, BasedStep
<1> QED
  BY <1>3, <1>5, <1>6, <1>7, <1>8, <1>9 DEF IInv

LEMMA RestartStep ==
    ASSUME IInv, Restart
    PROVE  IInv'
<1>1. UNCHANGED <<notebook, baseline, daily, rows, lastRun, upd, wf>> /\ Created' = Created
  BY DEF Restart, settings, databricks, Created
<1>2. thread' = [t \in Threads |-> Idle] /\ poll' = NoPoll
  BY DEF Restart
<1>3. <<>> \in Seq(Copies)
  OBVIOUS
<1>4. TypeOK'
  BY <1>1, <1>2, <1>3, IdleWorks DEF IInv, TypeOK, NoPoll
<1>5. Grows
  BY <1>1, Basics DEF Grows, IInv
<1>6. Recorded'
  BY <1>1, <1>4, <1>5, RecordStays
<1>7. Working'
  <2>1. \A t \in Threads : Works(thread'[t], lastRun', rows', upd', wf') /\ thread'[t].pc \notin Export
    BY <1>2, IdleWorks DEF Export
  <2> QED
    BY <1>1, <2>1 DEF Working, Works
<1>8. Flowing'
  BY <1>1 DEF IInv, Flowing, Flows
<1>9. Polled'
  BY <1>2 DEF Polled, NoPoll
<1>10. CdcBased'
  <2>1. \A t \in Threads : thread'[t].pc = "free"
    BY <1>2, IdleWorks
  <2> QED
    BY <1>1, <1>4, <1>5, <2>1, BasedStep
<1> QED
  BY <1>4, <1>6, <1>7, <1>8, <1>9, <1>10 DEF IInv

-----------------------------------------------------------------------------
(* The status poll *)

\* Copies that the reconciler can work on.
Good(c) == c \in Seq(Copies) /\ \A i \in 1..Len(c) : Named(c[i].run, c[i].bronze)

LEMMA OneLeft ==
    ASSUME NEW c, Good(c), c # <<>>
    PROVE  /\ Head(c) \in Copies /\ Named(Head(c).run, Head(c).bronze)
           /\ Good(Tail(c))
<1>1. /\ c \in Seq(Copies) /\ Len(c) \in Nat \ {0} /\ Head(c) = c[1] /\ Head(c) \in Copies
      /\ Tail(c) \in Seq(Copies) /\ Len(Tail(c)) = Len(c) - 1
      /\ \A i \in 1..Len(Tail(c)) : Tail(c)[i] = c[i + 1]
  BY DEF Good
<1>2. 1 \in 1..Len(c) /\ \A i \in 1..Len(Tail(c)) : i + 1 \in 1..Len(c)
  BY <1>1
<1>3. Named(Head(c).run, Head(c).bronze)
  BY <1>1, <1>2 DEF Good
<1>4. \A i \in 1..Len(Tail(c)) : Named(Tail(c)[i].run, Tail(c)[i].bronze)
  BY <1>1, <1>2 DEF Good
<1> QED
  BY <1>1, <1>3, <1>4 DEF Good

\* The poll takes place, beside everything else.
LEMMA PollMoves ==
    ASSUME IInv, NEW y, poll' = y, UNCHANGED <<notebook, baseline, daily, rows, lastRun, thread, upd, wf>>,
           y \in [pc: {"free", "lookup", "write", "commit"}, copies: Seq(Copies), verdict: {"none", "complete", "failed"}],
           Good(y.copies), y.pc # "free" => y.copies # <<>>, y.pc = "write" => y.verdict # "none",
           y.pc = "write" /\ y.verdict = "complete" => Ingested(Head(y.copies).run)
    PROVE  IInv'
<1>1. TypeOK' /\ Created' = Created
  BY DEF IInv, TypeOK, Created
<1>2. Grows
  BY Basics DEF Grows, IInv
<1>3. Recorded'
  BY <1>1, <1>2, RecordStays
<1>4. Working' /\ Flowing'
  BY DEF IInv, Working, Works, Flowing, Flows, Created
<1>5. CdcBased'
  BY <1>1, <1>2, BasedStep
<1>6. Polled'
  BY DEF Polled, Good, Named, Created, Ingested, CompletedSince
<1> QED
  BY <1>1, <1>3, <1>4, <1>5, <1>6 DEF IInv

\* The poll goes on with what is left.
LEMMA PollsOn ==
    ASSUME NEW c, Good(c)
    PROVE  LET y == Polling(c) IN
           /\ y \in [pc: {"free", "lookup", "write", "commit"}, copies: Seq(Copies), verdict: {"none", "complete", "failed"}]
           /\ Good(y.copies) /\ (y.pc # "free" => y.copies # <<>>) /\ y.pc # "write"
<1>1. Good(<<>>) /\ <<>> \in Seq(Copies)
  BY DEF Good
<1>2. CASE c = <<>>
  BY <1>1, <1>2 DEF Polling, NoPoll
<1>3. CASE c # <<>>
  BY <1>3 DEF Polling, Good
<1> QED
  BY <1>2, <1>3

\* What the poll finds of one mode.
LEMMA CopyGood ==
    ASSUME IInv, NEW m \in Modes
    PROVE  Good(Copy(m)) /\ Len(Copy(m)) <= 1
<1>1. CASE ~\E r \in Latest(m) : Reconcilable(r)
  BY <1>1 DEF Copy, Good
<1>2. CASE \E r \in Latest(m) : Reconcilable(r)
  <2>1. PICK r \in Latest(m) : Reconcilable(r)
    BY <1>2
  <2>2. \A i \in Latest(m) : i = r
    <3> SUFFICES ASSUME NEW i \in Latest(m)
                 PROVE  i = r
      OBVIOUS
    <3>1. /\ i \in Created /\ r \in Created /\ i \in Nat /\ r \in Nat /\ lastRun \in Nat
          /\ rows[i].mode = m /\ rows[r].mode = m
      BY <2>1, Basics DEF Latest, IInv
    <3>2. ~(i \in r + 1 .. lastRun) /\ ~(r \in i + 1 .. lastRun)
      BY <2>1, <3>1 DEF Latest
    <3> QED
      BY <3>1, <3>2 DEF Created
  <2>3. PICK c : c = [run |-> r, bronze |-> rows[r].bronze]
    OBVIOUS
  <2>4. Copy(m) = <<c>>
    <3>1. (CHOOSE i \in Latest(m) : TRUE) = r
      BY <2>1, <2>2
    <3> QED
      BY <1>2, <2>3, <3>1 DEF Copy
  <2>5. r \in Created /\ r \in RunIds /\ rows[r].bronze \in {"A", "B", "W"}
    BY <2>1, Basics DEF Latest, Reconcilable, IInv, TypeOK, Row
  <2>6. c \in Copies /\ Named(c.run, c.bronze)
    BY <2>3, <2>5 DEF Copies, IInv, Recorded, Named
  <2>7. <<c>> \in Seq(Copies) /\ Len(<<c>>) = 1 /\ <<c>>[1] = c
    BY <2>6
  <2>8. \A i \in 1..Len(<<c>>) : Named(<<c>>[i].run, <<c>>[i].bronze)
    BY <2>6, <2>7
  <2> QED
    BY <2>4, <2>7, <2>8 DEF Good
<1> QED
  BY <1>1, <1>2

LEMMA StatusStep ==
    ASSUME IInv, sync_status
    PROVE  IInv'
<1>1. PICK a, b, c : a = Copy("snapshot") /\ b = Copy("cdc") /\ c = a \o b
  OBVIOUS
<1>2. Good(a) /\ Good(b)
  BY <1>1, CopyGood DEF Modes
<1>3. Good(c)
  <2>1. /\ a \in Seq(Copies) /\ b \in Seq(Copies) /\ c \in Seq(Copies) /\ Len(c) = Len(a) + Len(b)
        /\ Len(a) \in Nat /\ Len(b) \in Nat
    BY <1>1, <1>2 DEF Good
  <2>2. ASSUME NEW i \in 1..Len(c)
        PROVE  Named(c[i].run, c[i].bronze)
    <3>1. CASE i <= Len(a)
      <4>1. c[i] = a[i] /\ i \in 1..Len(a)
        BY <1>1, <2>1, <3>1
      <4> QED
        BY <1>2, <4>1 DEF Good
    <3>2. CASE i > Len(a)
      <4>1. c[i] = b[i - Len(a)] /\ i - Len(a) \in 1..Len(b)
        BY <1>1, <2>1, <3>2
      <4> QED
        BY <1>2, <4>1 DEF Good
    <3> QED
      BY <2>1, <3>1, <3>2
  <2> QED
    BY <2>1, <2>2 DEF Good
<1>4. poll' = Polling(c) /\ UNCHANGED <<notebook, baseline, daily, rows, lastRun, thread, upd, wf>>
  BY <1>1 DEF sync_status, settings, databricks
<1> QED
  BY <1>3, <1>4, PollsOn, PollMoves

\* What Databricks says of a copy, and what follows for its run.
LEMMA VerdictOk ==
    ASSUME IInv, NEW c \in Copies, Named(c.run, c.bronze), NEW v,
           v = IF c.bronze = "W" THEN _reconcile_workflow_run(c) ELSE _reconcile_pipeline_run(c)
    PROVE  v \in {"none", "complete", "failed"} /\ (v = "complete" => Ingested(c.run))
<1>1. c.run \in RunIds /\ c.run \in Created
  BY DEF Copies, Named
<1>2. CASE c.bronze = "W"
  <2>1. v \in {"none", "complete", "failed"} /\ (v = "complete" => wf[c.run].state = "success")
    BY <1>2 DEF _reconcile_workflow_run
  <2>2. Flows(upd[c.run], wf[c.run])
    BY <1>1 DEF IInv, Flowing
  <2> QED
    BY <2>1, <2>2 DEF Flows, Ingested
<1>3. CASE c.bronze # "W"
  <2>1. /\ v \in {"none", "complete", "failed"}
        /\ v = "complete" => /\ upd[c.run][c.bronze].state = "completed"
                             /\ c.bronze = "A" => \E i \in Created : CompletedSince(i, c.run)
    BY <1>3 DEF _reconcile_pipeline_run, Update
  <2>2. CASE c.bronze = "B"
    BY <2>1, <2>2 DEF Ingested
  <2>3. CASE c.bronze = "A"
    <3>1. rows[c.run].mode = "snapshot"
      BY <2>3 DEF Named
    <3>2. ASSUME v = "complete"
          PROVE  Ingested(c.run)
      <4>1. PICK i \in Created : CompletedSince(i, c.run)
        BY <2>1, <2>3, <3>2
      <4>2. CASE i = c.run
        BY <4>1, <4>2 DEF CompletedSince, Ingested
      <4>3. CASE i # c.run
        BY <2>1, <2>3, <3>1, <3>2, <4>1, <4>3 DEF Ingested
      <4> QED
        BY <4>2, <4>3
    <3> QED
      BY <2>1, <3>2
  <2> QED
    BY <1>3, <2>2, <2>3 DEF Copies
<1> QED
  BY <1>2, <1>3

LEMMA LookupStep ==
    ASSUME IInv, Reconcile \/ ReconcileSkip \/ ReconcileCommit
    PROVE  IInv'
<1>1. PICK c : c = poll.copies
  OBVIOUS
<1>2. c # <<>> /\ Good(c)
  BY <1>1, Basics DEF IInv, Polled, Good, Reconcile, ReconcileSkip, ReconcileCommit
<1>3. Good(Tail(c)) /\ Head(c) \in Copies /\ Named(Head(c).run, Head(c).bronze)
  BY <1>2, OneLeft
<1>4. UNCHANGED <<notebook, baseline, daily, rows, lastRun, thread, upd, wf>>
  BY DEF Reconcile, ReconcileSkip, ReconcileCommit, settings, databricks
<1>5. CASE poll' = Polling(Tail(c))
  BY <1>3, <1>4, <1>5, PollsOn, PollMoves
<1>6. CASE Reconcile /\ poll' # Polling(Tail(c))
  <2>1. PICK v : v = IF Head(c).bronze = "W" THEN _reconcile_workflow_run(Head(c)) ELSE _reconcile_pipeline_run(Head(c))
    OBVIOUS
  <2>2. v \in {"none", "complete", "failed"} /\ (v = "complete" => Ingested(Head(c).run))
    BY <1>3, <2>1, VerdictOk
  <2>3. v # "none" /\ poll' = [poll EXCEPT !.pc = "write", !.verdict = v]
    BY <1>1, <1>6, <2>1 DEF Reconcile
  <2>4. PICK y : y = [poll EXCEPT !.pc = "write", !.verdict = v]
    OBVIOUS
  <2>5. /\ y \in [pc: {"free", "lookup", "write", "commit"}, copies: Seq(Copies), verdict: {"none", "complete", "failed"}]
        /\ y.pc = "write" /\ y.verdict = v /\ y.copies = c
    BY <1>1, <2>2, <2>4 DEF IInv, TypeOK
  <2> QED
    BY <1>2, <1>4, <2>2, <2>3, <2>4, <2>5, PollMoves
<1> QED
  BY <1>1, <1>5, <1>6 DEF Reconcile, ReconcileSkip, ReconcileCommit

LEMMA ReconcileWriteStep ==
    ASSUME IInv, ReconcileWrite
    PROVE  IInv'
<1>1. PICK c, r, v : c = poll.copies /\ r = Head(c).run /\ v = poll.verdict
  OBVIOUS
<1>2. c # <<>> /\ Good(c) /\ v \in {"complete", "failed"} /\ (v = "complete" => Ingested(r))
  BY <1>1, Basics DEF IInv, TypeOK, Polled, Good, ReconcileWrite
<1>3. r \in Created /\ Good(Tail(c))
  BY <1>1, <1>2, OneLeft DEF Named
<1>4. PICK b : b = rows[r].bronze
  OBVIOUS
<1>5. b \in {Null, "A", "B", "W"} /\ (b = "A" => rows[r].mode = "snapshot") /\ v \in States
  BY <1>2, <1>3, <1>4 DEF IInv, TypeOK, Row, Recorded, Named, States, _TERMINAL
<1>6. /\ rows' = Write(r, v, b) /\ UNCHANGED <<notebook, baseline, daily, lastRun, thread, upd, wf>>
      /\ Created' = Created
  BY <1>1, <1>4 DEF ReconcileWrite, settings, databricks, Created
<1>7. rows' \in [RunIds -> Row \cup {Null}] /\ \A i \in Created' : rows'[i] \in Row
  BY <1>3, <1>5, <1>6, WriteStep
<1>8. PICK y : y = IF v = "complete" THEN [poll EXCEPT !.pc = "commit"] ELSE Polling(Tail(c))
  OBVIOUS
<1>9. /\ y \in [pc: {"free", "lookup", "write", "commit"}, copies: Seq(Copies), verdict: {"none", "complete", "failed"}]
      /\ Good(y.copies) /\ (y.pc # "free" => y.copies # <<>>) /\ y.pc # "write"
  <2>1. CASE v = "complete"
    BY <1>1, <1>2, <1>8, <2>1 DEF IInv, TypeOK
  <2>2. CASE v # "complete"
    BY <1>3, <1>8, <2>2, PollsOn
  <2> QED
    BY <2>1, <2>2
<1>10. poll' = y
  BY <1>1, <1>8 DEF ReconcileWrite
<1>11. TypeOK'
  BY <1>6, <1>7, <1>9, <1>10 DEF IInv, TypeOK
<1>12. Grows /\ Recorded'
  BY <1>2, <1>3, <1>5, <1>6, <1>11, WriteRecords
<1>13. Working'
  <2>1. \A t \in Threads : Works(thread[t], lastRun, rows', upd, wf)
    BY <1>12 DEF IInv, Working, Works, Created, Grows
  <2> QED
    BY <1>6, <2>1 DEF IInv, Working, Works
<1>14. Flowing'
  BY <1>6 DEF IInv, Flowing, Flows
<1>15. Polled'
  BY <1>6, <1>9, <1>10, <1>12 DEF Polled, Good, Named, Grows
<1>16. CdcBased'
  BY <1>6, <1>11, <1>12, BasedStep
<1> QED
  BY <1>11, <1>12, <1>13, <1>14, <1>15, <1>16 DEF IInv

-----------------------------------------------------------------------------
(* The invariant *)

LEMMA InitInv == Init => IInv
<1> SUFFICES ASSUME Init
             PROVE  IInv
  OBVIOUS
<1>1. Created = {} /\ lastRun \in 0..MaxRuns /\ rows \in [RunIds -> Row \cup {Null}]
  BY U2MAssumption DEF Init, Created
<1>2. thread \in [Threads -> Thread] /\ \A t \in Threads : thread[t] = Idle
  BY IdleWorks DEF Init
<1>3. poll.pc = "free" /\ poll.copies = <<>> /\ poll = NoPoll /\ <<>> \in Seq(Copies)
  BY DEF Init, NoPoll
<1>4. /\ upd \in [RunIds -> [Pipes -> Updates]] /\ wf \in [RunIds -> Workflows]
      /\ \A r \in RunIds : wf[r].state = "none" /\ \A p \in Pipes : upd[r][p].state = "none"
  <2>1. NoUpdate \in Updates /\ NoUpdate.state = "none" /\ NoWorkflow \in Workflows /\ NoWorkflow.state = "none"
    BY U2MAssumption DEF NoUpdate, NoWorkflow, Updates, Workflows
  <2> QED
    BY <2>1 DEF Init
<1>5. TypeOK
  BY <1>1, <1>2, <1>3, <1>4 DEF TypeOK, NoPoll
<1>6. Working
  BY <1>2, IdleWorks DEF Working, Export
<1>7. Flowing
  BY <1>4 DEF Flowing, Flows
<1>8. Polled
  BY <1>3 DEF Polled
<1>9. CdcBased
  BY <1>1, <1>2, IdleWorks DEF CdcBased, Init
<1>10. Recorded
  BY <1>1 DEF Recorded
<1> QED
  BY <1>5, <1>6, <1>7, <1>8, <1>9, <1>10 DEF IInv

LEMMA StutterStep ==
    ASSUME IInv, UNCHANGED vars
    PROVE  IInv'
<1>1. /\ UNCHANGED <<notebook, baseline, daily, rows, lastRun, thread, poll, upd, wf>>
      /\ Created' = Created
  BY DEF vars, Created
<1>2. TypeOK'
  BY <1>1 DEF IInv, TypeOK
<1>3. Grows
  BY <1>1, Basics DEF Grows, IInv
<1>4. Recorded'
  BY <1>1, <1>2, <1>3, RecordStays
<1>5. Working' /\ Flowing'
  BY <1>1 DEF IInv, Working, Works, Flowing, Flows
<1>6. Polled'
  BY <1>1, <1>2, <1>3, PollStays
<1>7. CdcBased'
  BY <1>1, <1>2, <1>3, BasedStep
<1> QED
  BY <1>2, <1>4, <1>5, <1>6, <1>7 DEF IInv

LEMMA StepInv == IInv /\ [Next]_vars => IInv'
<1> SUFFICES ASSUME IInv, [Next]_vars
             PROVE  IInv'
  OBVIOUS
<1>1. CASE UNCHANGED vars
  BY <1>1, StutterStep
<1>2. ASSUME NEW enabled \in BOOLEAN, sync_auto(enabled)
      PROVE  IInv'
  BY <1>2, SwitchStep
<1>3. ASSUME NEW t \in Threads, NEW m \in Modes, start_sync(t, m)
      PROVE  IInv'
  BY <1>3, StartStep
<1>4. ASSUME NEW t \in Threads, ThreadStep(t) \/ Fail(t) \/ WriteLost(t)
      PROVE  IInv'
  BY <1>4, CreateStep, LeaveStep, OnwardStep, StartWorkflowStep, StartUpdateStep DEF ThreadStep
<1>5. CASE PollStep
  BY <1>5, StatusStep, LookupStep, ReconcileWriteStep, AgeStep DEF PollStep
<1>6. CASE Restart \/ TwoHoursPass
  BY <1>6, RestartStep, AgeStep
<1>7. ASSUME NEW r \in RunIds, WorkflowTask(r) \/ \E p \in Pipes, ok \in BOOLEAN : UpdateEnds(r, p, ok)
      PROVE  IInv'
  BY <1>7, TaskStep, EndStep
<1> QED
  BY <1>1, <1>2, <1>3, <1>4, <1>5, <1>6, <1>7 DEF Next

-----------------------------------------------------------------------------
(* Theorems *)

\* Rows, threads, the poll and what Databricks has fit together.
THEOREM RunsHold == Spec => []IInv
BY InitInv, StepInv, PTL DEF Spec

\* A complete run has been ingested by Pipeline B, or it is a snapshot run that was
\* completed on the Pipeline B update of another.
THEOREM CompleteIsIngested == Spec => []CompleteMeansIngested
<1>1. IInv => CompleteMeansIngested
  BY DEF IInv, Recorded, Ingested, CompleteMeansIngested
<1> QED
  BY <1>1, RunsHold, PTL

\* No CDC run gets to Pipeline B without a baseline there.
THEOREM BaselineFirst == Spec => []CdcAfterBaseline
<1>1. IInv => CdcAfterBaseline
  BY DEF IInv, CdcBased, Based, CdcAfterBaseline
<1> QED
  BY <1>1, RunsHold, PTL

\* Who may change an ended row.
Entitled(r) ==
    \/ \E t \in Threads : thread[t].run = r
    \/ poll.pc = "write" /\ Head(poll.copies).run = r

LEMMA OtherRows ==
    ASSUME IInv, NEW r \in Created, NEW i \in Created, NEW s, NEW b, rows' = Write(i, s, b),
           rows'[r].state # rows[r].state
    PROVE  i = r
BY Basics DEF IInv, TypeOK, Write

LEMMA EndedStays ==
    ASSUME IInv, Next, NEW r \in Created, Ended(r), rows'[r].state # rows[r].state
    PROVE  Entitled(r)
<1>0. r \in RunIds /\ rows' # rows /\ Created \subseteq RunIds
  BY Basics DEF IInv
<1>1. ASSUME NEW t \in Threads, thread[t].pc \in Export, NEW s, NEW b, rows' = Write(thread[t].run, s, b)
      PROVE  Entitled(r)
  <2>1. thread[t].run \in Created
    BY <1>1 DEF IInv, Working, Works, Created
  <2>2. thread[t].run = r
    BY <1>1, <2>1, OtherRows
  <2> QED
    BY <2>2 DEF Entitled
<1>2. ASSUME NEW t \in Threads, ThreadStep(t) \/ Fail(t) \/ WriteLost(t)
      PROVE  Entitled(r)
  <2>1. CASE create_sync_run(t)
    <3>1. lastRun + 1 # r
      BY Basics DEF IInv, Created
    <3>2. rows'[r] = rows[r]
      BY <1>0, <2>1, <3>1 DEF create_sync_run, IInv, TypeOK
    <3> QED
      BY <3>2
  <2>2. CASE DcExport(t) \/ Upload(t) \/ Trigger(t) \/ Complete(t)
    BY <1>1, <2>2 DEF DcExport, Upload, Trigger, Complete, Step, Export
  <2>3. CASE Record(t)
    BY <1>1, <2>3 DEF Record, Export
  <2>4. CASE Fail(t) \/ StartRefused(t) \/ PollGivesUp(t)
    BY <1>1, <2>4 DEF Fail, StartRefused, PollGivesUp, FailRun, Export
  <2>5. CASE Refused(t) \/ StartWorkflow(t) \/ StartUpdate(t) \/ PollSuccess(t) \/ Commit(t) \/ WriteLost(t)
    BY <1>0, <2>5 DEF Refused, StartWorkflow, StartUpdate, PollSuccess, Commit, WriteLost
  <2> QED
    BY <1>2, <2>1, <2>2, <2>3, <2>4, <2>5 DEF ThreadStep
<1>3. CASE ReconcileWrite
  <2>1. PICK i : i = Head(poll.copies).run
    OBVIOUS
  <2>2. i \in Created
    BY <1>3, <2>1, Basics, OneLeft DEF ReconcileWrite, IInv, Polled, Good, Named
  <2>3. poll.pc = "write" /\ rows' = Write(i, poll.verdict, rows[i].bronze)
    BY <1>3, <2>1 DEF ReconcileWrite
  <2>4. i = r
    BY <2>2, <2>3, OtherRows
  <2> QED
    BY <2>1, <2>3, <2>4 DEF Entitled
<1>4. CASE has_in_flight_sync_run \/ TwoHoursPass
  <2>1. rows'[r] = rows[r]
    BY <1>0, <1>4 DEF has_in_flight_sync_run, TwoHoursPass, Stale
  <2> QED
    BY <2>1
<1>5. CASE sync_status \/ Reconcile \/ ReconcileSkip \/ ReconcileCommit \/ Restart
  BY <1>0, <1>5 DEF sync_status, Reconcile, ReconcileSkip, ReconcileCommit, Restart
<1>6. CASE \/ \E enabled \in BOOLEAN : sync_auto(enabled)
           \/ \E t \in Threads, m \in Modes : start_sync(t, m)
           \/ \E i \in RunIds : \/ WorkflowTask(i)
                                \/ \E p \in Pipes, ok \in BOOLEAN : UpdateEnds(i, p, ok)
  BY <1>0, <1>6 DEF sync_auto, start_sync, WorkflowTask, UpdateEnds
<1> QED
  BY <1>2, <1>3, <1>4, <1>5, <1>6 DEF Next, PollStep

\* An ended row is changed by its own thread, or by a poll that had read it before.
THEOREM EndedStaysEnded == Spec => EndedIsLeftAlone
<1>1. IInv /\ [Next]_vars =>
         [\A r \in Created : Ended(r) /\ rows'[r].state # rows[r].state =>
             \/ \E t \in Threads : thread[t].run = r
             \/ poll.pc = "write" /\ Head(poll.copies).run = r]_vars
  BY EndedStays DEF Entitled
<1> QED
  BY <1>1, RunsHold, PTL DEF Spec, EndedIsLeftAlone

=============================================================================
