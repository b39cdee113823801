------------------------- MODULE BootstrapStepsProofs -------------------------
(***************************************************************************)
(* What the bootstrap of a catalog guarantees, for any number of threads,  *)
(* ids and faults.                                                         *)
(*                                                                         *)
(* At most one thread is inside the drivers (Alone): try_begin is tested   *)
(* and set at once.  So what a thread has found or made stays as it left   *)
(* it, and each step may rely on those before it: Made says on what, step  *)
(* by step, and Tidy which step a thread with a deleted workflow is at.    *)
(***************************************************************************)
EXTENDS BootstrapSteps, FiniteSetTheorems, TLAPS

Values ==
    /\ driver \in {"user", "connection"} /\ create_workflows \in BOOLEAN
    /\ driver = "connection" => create_workflows
    /\ objects \subseteq Objects /\ visible \in BOOLEAN
    /\ named \in [Names -> SUBSET Ids] /\ \A n \in Names : IsFiniteSet(named[n])
    /\ row \in [Names -> Ids \cup {Null}] /\ status \in {"pending", "ready"}
    /\ progress \in {"none", "running", "error", "complete"} /\ in_flight \in BOOLEAN
    /\ faults \in 0..MaxFaults /\ doubled \in [Names -> Nat]
    /\ escaped \in BOOLEAN /\ broken \in BOOLEAN

TypeOK == Values /\ thread \in [Threads -> Thread]

\* Outside: before try_begin.
Outer == {"free", "progress", "begin"}

\* One thread at most is inside, and it has set the mark.
Alone ==
    /\ \A t \in Threads : thread[t].pc \notin Outer => in_flight
    /\ \A t, u \in Threads : thread[t].pc \notin Outer /\ thread[u].pc \notin Outer => t = u

\* The steps from the creation of an artefact on.
Creating == {"create C", "create C again", "create C classic"}
FromC == {"find C", "delete C"} \cup Creating
FromS == {"find S", "delete S", "create S"} \cup FromC
FromB == {"find B", "put B"} \cup FromS \cup Persist
FromA == {"find A", "put A"} \cup FromB
FromNotebooks == {"notebooks"} \cup FromA
FromPk == {"pk_config"} \cup FromNotebooks
FromTables == {"tables"} \cup FromPk
FromPath == {"path", "path again"} \cup FromTables
FromVolume == {"volume"} \cup FromPath

\* Where a thread that has deleted a workflow can be, and where it keeps ids of workflows.
Tidy(x) ==
    /\ x.deleted => x.pc \in {"create S", "save"} \cup FromC
    /\ x.pc \in FromS => create_workflows
    /\ ~create_workflows => \A n \in Workflows : x.ids[n] = Null
    /\ x.pc \in {"pipeline_ids", "status"} => driver = "connection"

\* What has been looked up is still so: nothing was found, or it is there.
Looked(x, nm, n) == IF x.found = Null THEN nm[n] = {} ELSE x.found \in nm[n]

\* What the steps before the one at x.pc have left.
Made(x, ob, vi, nm, rw, st, db) ==
    /\ x.pc \in FromVolume => "schema" \in ob
    /\ x.pc \in FromPath => "volume" \in ob
    /\ x.pc \in FromTables => vi
    /\ x.pc \in FromPk => "tables" \in ob
    /\ x.pc \in FromNotebooks => "pk_config" \in ob
    /\ x.pc \in FromA => "notebooks" \in ob
    /\ x.pc = "put A" => Looked(x, nm, "A")
    /\ x.pc \in FromB => x.ids["A"] \in nm["A"]
    /\ x.pc = "put B" => Looked(x, nm, "B")
    /\ x.pc \in FromS \cup Persist => x.ids["B"] \in nm["B"]
    /\ x.pc = "delete S" => Looked(x, nm, "S")
    /\ x.pc = "create S" => Cardinality(nm["S"]) <= db["S"]
    /\ x.pc \in FromC => x.ids["S"] \in nm["S"]
    /\ x.pc = "delete C" => Looked(x, nm, "C")
    /\ x.pc \in Creating => Cardinality(nm["C"]) <= db["C"]
    /\ x.pc \in Persist /\ create_workflows => \A n \in Workflows : x.ids[n] \in nm[n]
    /\ x.pc \in Persist \ {"save"} => \A n \in Workflows : rw[n] = x.ids[n]
    /\ x.pc \in {"artifacts", "mark_ready", "done"} => \A n \in Names : rw[n] = x.ids[n]
    /\ x.pc = "done" /\ driver = "connection" => st = "ready"

Relied == \A t \in Threads : Tidy(thread[t]) /\ Made(thread[t], objects, visible, named, row, status, doubled)

\* Once the bootstrap is shown as complete nobody is at work on it.
Finished ==
    /\ CompleteMeansUsable
    /\ progress = "complete" => \A t \in Threads : thread[t].pc \in Outer \cup {"claim", "end"}

\* A bootstrap is shown as running only while a thread has something to do.
Shown == progress = "running" =>
            escaped \/ \E t \in Threads : thread[t].pc \notin {"free", "status", "end"}

IInv == TypeOK /\ Alone /\ Relied /\ Finished /\ Shown /\ OneOfEachName /\ MissingOnlyWhenReplaced

-----------------------------------------------------------------------------
(* Threads *)

\* Where nothing has been made yet, or nothing is relied on any more.
Early == Outer \cup {"claim", "status", "end", "schema"} \cup Checks

\* Thread t becomes x, and nothing else is said.
Becomes(t, x) == thread' = [thread EXCEPT ![t] = x]

\* A thread that is early relies on nothing.
LEMMA EarlyMade ==
    ASSUME NEW x, x.pc \in Early, NEW ob, NEW vi, NEW nm, NEW rw, NEW st, NEW db
    PROVE  Made(x, ob, vi, nm, rw, st, db)
BY DEF Made, Early, Outer, Checks, FromVolume, FromPath, FromTables, FromPk, FromNotebooks, FromA,
       FromB, FromS, FromC, Creating, Persist

\* The parts of a thread's record.
LEMMA ThreadFields ==
    ASSUME NEW x \in Thread
    PROVE  /\ x.pc \in {"free", "progress", "begin", "status", "end"} \cup Running
           /\ x.ids \in [Names -> Ids \cup {Null}]
           /\ x.found \in Ids \cup {Null}
           /\ x.deleted \in BOOLEAN
           /\ x = [pc |-> x.pc, ids |-> x.ids, found |-> x.found, deleted |-> x.deleted]
BY DEF Thread

\* The records of a thread.
LEMMA ThreadRecords ==
    ASSUME NEW pc \in {"free", "progress", "begin", "status", "end"} \cup Running,
           NEW ids \in [Names -> Ids \cup {Null}], NEW found \in Ids \cup {Null},
           NEW deleted \in BOOLEAN
    PROVE  [pc |-> pc, ids |-> ids, found |-> found, deleted |-> deleted] \in Thread
BY DEF Thread

\* A step and what it found.
LEMMA FoundField ==
    ASSUME NEW r \in Thread, NEW pc, NEW found
    PROVE  [r EXCEPT !.pc = pc, !.found = found]
               = [pc |-> pc, ids |-> r.ids, found |-> found, deleted |-> r.deleted]
<1> DEFINE s == [pc |-> pc, ids |-> r.ids, found |-> r.found, deleted |-> r.deleted]
<1>1. r = [pc |-> r.pc, ids |-> r.ids, found |-> r.found, deleted |-> r.deleted]
    BY ThreadFields
<1>2. [r EXCEPT !.pc = pc] = s
    BY <1>1
<1>3. [s EXCEPT !.found = found] = [pc |-> pc, ids |-> r.ids, found |-> found, deleted |-> r.deleted]
    OBVIOUS
<1>4. [r EXCEPT !.pc = pc, !.found = found] = [[r EXCEPT !.pc = pc] EXCEPT !.found = found]
    OBVIOUS
<1> QED
    BY <1>2, <1>3, <1>4

\* The same for a workflow that is deleted.
LEMMA DeletedField ==
    ASSUME NEW r \in Thread, NEW pc, NEW found, NEW deleted
    PROVE  [r EXCEPT !.pc = pc, !.found = found, !.deleted = deleted]
               = [pc |-> pc, ids |-> r.ids, found |-> found, deleted |-> deleted]
<1> DEFINE s == [pc |-> pc, ids |-> r.ids, found |-> found, deleted |-> r.deleted]
<1>1. [r EXCEPT !.pc = pc, !.found = found] = s
    BY FoundField
<1>2. [s EXCEPT !.deleted = deleted] = [pc |-> pc, ids |-> r.ids, found |-> found, deleted |-> deleted]
    OBVIOUS
<1>3. [r EXCEPT !.pc = pc, !.found = found, !.deleted = deleted]
          = [[r EXCEPT !.pc = pc, !.found = found] EXCEPT !.deleted = deleted]
    OBVIOUS
<1> QED
    BY <1>1, <1>2, <1>3

\* A thread that starts, ends or breaks off is tidy.
LEMMA FreshThread ==
    ASSUME NEW pc \in {"free", "progress", "begin", "claim", "end", "status"},
           pc = "status" => driver = "connection",
           NEW x, x = [Free EXCEPT !.pc = pc]
    PROVE  x \in Thread /\ Tidy(x) /\ x.pc = pc /\ x.deleted = FALSE
<1>1. x = [pc |-> pc, ids |-> NoIds, found |-> Null, deleted |-> FALSE]
    BY DEF Free
<1>2. x \in Thread
    <2>1. pc \in {"free", "progress", "begin", "status", "end"} \cup Running
        BY DEF Running
    <2>2. NoIds \in [Names -> Ids \cup {Null}] /\ Null \in Ids \cup {Null}
        BY DEF NoIds
    <2>3. FALSE \in BOOLEAN
        OBVIOUS
    <2>4. [pc |-> pc, ids |-> NoIds, found |-> Null, deleted |-> FALSE] \in Thread
        BY <2>1, <2>2, <2>3, ThreadRecords, Zenon
    <2> QED
        BY <1>1, <2>4
<1>3. x.pc = pc /\ x.ids = NoIds /\ x.deleted = FALSE
    BY <1>1
<1>4. Tidy(x)
    BY <1>3 DEF Tidy, NoIds, FromS, FromC, Creating, Names, Workflows
<1> QED
    BY <1>2, <1>3, <1>4

\* Nothing runs in a free thread.
LEMMA FreeThread == Free \in Thread /\ Tidy(Free) /\ Free.pc = "free" /\ Free.deleted = FALSE
<1>1. Free = [pc |-> "free", ids |-> NoIds, found |-> Null, deleted |-> FALSE]
    BY DEF Free
<1>2. Free \in Thread
    <2>1. NoIds \in [Names -> Ids \cup {Null}] /\ Null \in Ids \cup {Null} /\ FALSE \in BOOLEAN
        BY DEF NoIds
    <2>2. "free" \in {"free", "progress", "begin", "status", "end"} \cup Running
        OBVIOUS
    <2>3. [pc |-> "free", ids |-> NoIds, found |-> Null, deleted |-> FALSE] \in Thread
        BY <2>1, <2>2, ThreadRecords, Zenon
    <2> QED
        BY <1>1, <2>3
<1>3. Free.pc = "free" /\ Free.ids = NoIds /\ Free.deleted = FALSE
    BY <1>1
<1>4. Tidy(Free)
    BY <1>3 DEF Tidy, NoIds, FromS, FromC, Creating, Names, Workflows
<1> QED
    BY <1>2, <1>3, <1>4

\* Abort leaves a fresh thread, and says so or lets the exception escape.
LEMMA Aborts ==
    ASSUME TypeOK, NEW t \in Threads, NEW told \in BOOLEAN, Abort(t, told)
    PROVE  \E x \in Thread :
               /\ Becomes(t, x) /\ Tidy(x) /\ x.deleted = FALSE
               /\ x.pc \in {"status", "end"}
               /\ progress' \in {"error", progress} /\ escaped' \in BOOLEAN
               /\ progress' = "running" => escaped'
               /\ progress' = "complete" => x.pc = "end"
<1> DEFINE pc == IF driver = "connection" /\ told THEN "status" ELSE "end"
           x == [Free EXCEPT !.pc = pc]
<1>1. pc \in {"status", "end"} /\ (pc = "status" => driver = "connection" /\ told)
    OBVIOUS
<1>2. x \in Thread /\ Tidy(x) /\ x.pc = pc /\ x.deleted = FALSE
    <2>1. pc \in {"free", "progress", "begin", "claim", "end", "status"}
        BY <1>1
    <2>2. pc = "status" => driver = "connection"
        BY <1>1
    <2> HIDE DEF pc
    <2> QED
        BY <2>1, <2>2, FreshThread
<1>3. Becomes(t, x)
    BY DEF Abort, Becomes
<1>4. progress' \in {"error", progress} /\ escaped' \in BOOLEAN
    BY DEF Abort, TypeOK, Values
<1>5. progress' = "running" => escaped'
    BY DEF Abort, TypeOK, Values
<1>6. progress' = "complete" => pc = "end"
    BY DEF Abort, TypeOK, Values
<1> HIDE DEF x, pc
<1> QED
    BY <1>1, <1>2, <1>3, <1>4, <1>5, <1>6

\* Thread t, which is inside the drivers, becomes x: whatever it changes, the others
\* are outside and rely on none of it.
LEMMA InsideStep ==
    ASSUME IInv, NEW t \in Threads, NEW x \in Thread, Becomes(t, x), thread[t].pc \notin Outer,
           UNCHANGED settings, Values', x.pc \notin Outer => in_flight',
           Tidy(x), Made(x, objects', visible', named', row', status', doubled'),
           progress' = "complete" => CompleteMeansUsable' /\ x.pc \in {"claim", "end", "free"},
           progress' = "running" =>
               \/ escaped' \/ x.pc \notin {"free", "status", "end"}
               \/ thread[t].pc \in {"status", "end"} /\ progress = "running" /\ escaped' = escaped,
           OneOfEachName', MissingOnlyWhenReplaced'
    PROVE  IInv'
<1>1. TypeOK'
    BY DEF IInv, TypeOK, Becomes
<1>2. thread'[t] = x /\ \A u \in Threads \ {t} : thread'[u] = thread[u] /\ thread[u].pc \in Outer
    <2>1. thread'[t] = x /\ \A u \in Threads \ {t} : thread'[u] = thread[u]
        BY DEF IInv, TypeOK, Becomes
    <2>2. \A u \in Threads \ {t} : thread[u].pc \in Outer
        BY DEF IInv, Alone
    <2> QED
        BY <2>1, <2>2
<1>3. Alone'
    <2>1. \A u \in Threads : thread'[u].pc \notin Outer => u = t
        BY <1>2
    <2>2. thread'[t].pc \notin Outer => in_flight'
        BY <1>2
    <2> QED
        BY <2>1, <2>2 DEF Alone
<1>4. Relied'
    <2>1. ASSUME NEW u \in Threads, u # t
          PROVE  Tidy(thread'[u]) /\ Made(thread'[u], objects', visible', named', row', status', doubled')
        <3>1. thread'[u] = thread[u] /\ thread[u].pc \in Early
            BY <1>2, <2>1 DEF Early
        <3>2. Tidy(thread[u])
            BY DEF IInv, Relied
        <3> QED
            BY <3>1, <3>2, EarlyMade
    <2>2. Tidy(thread'[t]) /\ Made(thread'[t], objects', visible', named', row', status', doubled')
        BY <1>2
    <2>3. \A u \in Threads : Tidy(thread'[u])
                /\ Made(thread'[u], objects', visible', named', row', status', doubled')
        BY <2>1, <2>2
    <2> QED
        BY <2>3, ZenonT(30) DEF Relied, Tidy, Made, settings, Looked
<1>5. Finished'
    <2>1. progress' = "complete" => \A u \in Threads : thread'[u].pc \in Outer \cup {"claim", "end"}
        BY <1>2 DEF Outer
    <2>2. progress' = "complete" => CompleteMeansUsable'
        OBVIOUS
    <2>3. progress' # "complete" => CompleteMeansUsable'
        BY DEF CompleteMeansUsable
    <2> QED
        BY <2>1, <2>2, <2>3 DEF Finished
<1>6. Shown'
    <2> SUFFICES ASSUME progress' = "running", ~escaped'
                 PROVE  \E u \in Threads : thread'[u].pc \notin {"free", "status", "end"}
        BY DEF Shown
    <2>1. CASE x.pc \notin {"free", "status", "end"}
        BY <1>2, <2>1
    <2>2. CASE thread[t].pc \in {"status", "end"} /\ progress = "running" /\ escaped' = escaped
        <3>1. PICK u \in Threads : thread[u].pc \notin {"free", "status", "end"}
            BY <2>2 DEF IInv, Shown
        <3>2. u # t
            BY <2>2, <3>1
        <3> QED
            BY <1>2, <3>1, <3>2
    <2> QED
        BY <2>1, <2>2
<1> QED
    BY <1>1, <1>3, <1>4, <1>5, <1>6 DEF IInv

\* The steps of run_all and _persist.
Working == RunAll \cup Persist

\* Who is at work is inside, has set the mark, and is not shown as complete.
LEMMA AtWork ==
    ASSUME IInv, NEW t \in Threads, thread[t].pc \in Working
    PROVE  thread[t].pc \notin Outer /\ in_flight /\ progress # "complete"
<1>1. thread[t].pc \notin Outer \cup {"claim", "end"}
    BY DEF Working, RunAll, Checks, Persist, Outer
<1> QED
    BY <1>1 DEF IInv, Alone, Finished

\* A workflow does not become missing while nothing stored changes and nothing is deleted.
LEMMA NotMissing ==
    ASSUME IInv, row' = row, \A n \in Workflows : named[n] \subseteq named'[n], broken => broken',
           \A u \in Threads : thread[u].deleted => broken' \/ thread'[u].deleted
    PROVE  MissingOnlyWhenReplaced'
BY DEF IInv, MissingOnlyWhenReplaced, Exists

\* What goes wrong is counted.
LEMMA FaultCounts ==
    ASSUME TypeOK, Fault
    PROVE  faults' \in 0..MaxFaults
BY BootstrapAssumption DEF Fault, TypeOK, Values

\* A bootstrap broke off or it did not.
LEMMA RaiseTyped ==
    ASSUME NEW t, NEW told, Raise(t, told)
    PROVE  broken' \in BOOLEAN
BY DEF Raise

\* Whatever it was at, a thread that breaks off leaves the invariant as it was.
LEMMA BreaksOff ==
    ASSUME IInv, NEW t \in Threads, NEW told \in BOOLEAN, Abort(t, told), thread[t].pc \notin Outer,
           UNCHANGED settings, in_flight' = in_flight,
           progress' \in {"none", "running", "error", "complete"} /\ escaped' \in BOOLEAN => Values',
           progress' = "complete" => CompleteMeansUsable',
           OneOfEachName', MissingOnlyWhenReplaced'
    PROVE  IInv'
<1>1. PICK x \in Thread :
               /\ Becomes(t, x) /\ Tidy(x) /\ x.deleted = FALSE
               /\ x.pc \in {"status", "end"}
               /\ progress' \in {"error", progress} /\ escaped' \in BOOLEAN
               /\ progress' = "running" => escaped'
               /\ progress' = "complete" => x.pc = "end"
    BY Aborts DEF IInv
<1>2. Values'
    BY <1>1 DEF IInv, TypeOK, Values
<1>3. x.pc \in Early
    BY <1>1 DEF Early
<1>4. Made(x, objects', visible', named', row', status', doubled')
    BY <1>3, EarlyMade
<1>5. in_flight'
    BY DEF IInv, Alone
<1> QED
    BY <1>1, <1>2, <1>4, <1>5, InsideStep

\* Raise, when nothing stored has changed and nothing was deleted in this step.
LEMMA RaisesSafely ==
    ASSUME IInv, NEW t \in Threads, NEW told \in BOOLEAN, Raise(t, told), thread[t].pc \notin Outer,
           UNCHANGED settings, in_flight' = in_flight, row' = row,
           \A n \in Workflows : named[n] \subseteq named'[n],
           progress' \in {"none", "running", "error", "complete"} /\ escaped' \in BOOLEAN => Values',
           progress' = "complete" => CompleteMeansUsable',
           OneOfEachName'
    PROVE  IInv'
<1>1. Abort(t, told) /\ broken' = (broken \/ thread[t].deleted)
    BY DEF Raise
<1>2. PICK x \in Thread : Becomes(t, x)
    BY <1>1, Aborts DEF IInv
<1>3. \A u \in Threads : thread[u].deleted => broken' \/ thread'[u].deleted
    <2>1. \A u \in Threads \ {t} : thread'[u] = thread[u]
        BY <1>2 DEF Becomes, IInv, TypeOK
    <2> QED
        BY <1>1, <2>1
<1>4. MissingOnlyWhenReplaced'
    BY <1>1, <1>3, NotMissing
<1> QED
    BY <1>1, <1>4, BreaksOff

-----------------------------------------------------------------------------
(* Steps that read *)

\* Goto changes nothing but where the thread is.
LEMMA GotoBecomes ==
    ASSUME TypeOK, NEW t \in Threads,
           NEW pc \in {"free", "progress", "begin", "status", "end"} \cup Running, Goto(t, pc)
    PROVE  \E x \in Thread : /\ Becomes(t, x) /\ x.pc = pc /\ x.ids = thread[t].ids
                             /\ x.found = thread[t].found /\ x.deleted = thread[t].deleted
<1> DEFINE x == [pc |-> pc, ids |-> thread[t].ids, found |-> thread[t].found, deleted |-> thread[t].deleted]
<1>1. thread[t] \in Thread
    BY DEF TypeOK
<1>2. x \in Thread
    BY <1>1, ThreadFields, ThreadRecords
<1>3. thread[t] = [pc |-> thread[t].pc, ids |-> thread[t].ids, found |-> thread[t].found,
                   deleted |-> thread[t].deleted]
    BY <1>1, ThreadFields
<1>4. Becomes(t, x)
    <2>1. thread' = [thread EXCEPT ![t] = [thread[t] EXCEPT !.pc = pc]]
        BY DEF Goto
    <2>2. [thread[t] EXCEPT !.pc = pc] = x
        BY <1>3
    <2> QED
        BY <2>1, <2>2 DEF Becomes
<1>5. x.pc = pc /\ x.ids = thread[t].ids /\ x.found = thread[t].found /\ x.deleted = thread[t].deleted
    OBVIOUS
<1> HIDE DEF x
<1> QED
    BY <1>2, <1>4, <1>5

\* A step of a thread at work that changes nothing but that thread.
LEMMA ReadingStep ==
    ASSUME IInv, NEW t \in Threads, NEW x \in Thread, Becomes(t, x), thread[t].pc \in Working,
           UNCHANGED <<settings, databricks, stored, progress, in_flight, faults, history>>,
           x.pc \in Working, x.deleted = thread[t].deleted, Tidy(x),
           Made(x, objects, visible, named, row, status, doubled)
    PROVE  IInv'
<1>1. thread[t].pc \notin Outer /\ in_flight /\ progress # "complete"
    BY AtWork
<1>2. x.pc \notin {"free", "status", "end"}
    BY DEF Working, RunAll, Checks, Persist
<1>3. Values' /\ OneOfEachName'
    BY DEF IInv, TypeOK, Values, OneOfEachName, settings, databricks, stored, history
<1>4. MissingOnlyWhenReplaced'
    <2>1. row' = row /\ named' = named /\ broken' = broken
        BY DEF databricks, stored, history
    <2>2. thread'[t] = x /\ \A u \in Threads \ {t} : thread'[u] = thread[u]
        BY DEF Becomes, IInv, TypeOK
    <2>3. \A u \in Threads : thread[u].deleted => broken' \/ thread'[u].deleted
        BY <2>2
    <2> QED
        BY <2>1, <2>3, NotMissing
<1>5. Made(x, objects', visible', named', row', status', doubled')
    BY DEF settings, databricks, stored, history
<1>6. in_flight' /\ progress' # "complete"
    BY <1>1
<1> QED
    BY <1>1, <1>2, <1>3, <1>4, <1>5, <1>6, InsideStep

\* From one check of the workspace to the next there is nothing to rely on.
LEMMA ChecksKeep ==
    ASSUME IInv, NEW t \in Threads,
           \/ validate_workspace(t) \/ ensure_warehouse_running(t)
           \/ validate_metastore(t) \/ verify_catalog(t)
    PROVE  IInv'
<1>1. PICK from \in Checks, to \in Checks \cup {"schema"} : Check(t, from, to)
    BY DEF validate_workspace, ensure_warehouse_running, validate_metastore, verify_catalog, Checks
<1>2. to \in Working /\ to \in Early /\ to \in Running
    BY DEF Working, RunAll, Early, Running
<1>3. PICK x \in Thread : /\ Becomes(t, x) /\ x.pc = to /\ x.ids = thread[t].ids
                          /\ x.found = thread[t].found /\ x.deleted = thread[t].deleted
    <2>1. Goto(t, to) /\ TypeOK /\ to \in {"free", "progress", "begin", "status", "end"} \cup Running
        BY <1>1, <1>2 DEF Check, IInv
    <2> QED
        BY <2>1, GotoBecomes
<1>4. thread[t].pc = from /\ from \in Working
    BY <1>1 DEF Check, Working, RunAll
<1>5. Tidy(x)
    <2>1. Tidy(thread[t])
        BY DEF IInv, Relied
    <2>2. ~thread[t].deleted
        BY <1>4, <2>1 DEF Tidy, FromC, Creating, Checks
    <2> QED
        BY <1>3, <2>1, <2>2 DEF Tidy, FromS, FromC, Creating, Checks
<1>6. Made(x, objects, visible, named, row, status, doubled)
    BY <1>2, <1>3, EarlyMade
<1>7. UNCHANGED <<settings, databricks, stored, progress, in_flight, faults, history>>
    BY <1>1 DEF Check
<1>8. x.pc \in Working /\ thread[t].pc \in Working
    BY <1>2, <1>3, <1>4
<1> QED
    BY <1>3, <1>5, <1>6, <1>7, <1>8, ReadingStep

\* The workspace path of the volume; the claim's artefacts.
LEMMA PathAndArtifactsKeep ==
    ASSUME IInv, NEW t \in Threads,
           \/ update_claim_artifacts(t)
           \/ thread[t].pc \in {"path", "path again"} /\ validate_volume_path(t)
                /\ (visible \/ thread[t].pc = "path")
    PROVE  IInv'
<1> DEFINE to == IF thread[t].pc = "artifacts" THEN IF driver = "user" THEN "done" ELSE "mark_ready"
                 ELSE IF visible THEN "tables" ELSE "path again"
<1>1. thread[t].pc \in {"artifacts", "path", "path again"} /\ Goto(t, to)
    BY DEF update_claim_artifacts, Check, validate_volume_path
<1>2. UNCHANGED <<settings, databricks, stored, progress, in_flight, faults, history>>
    BY DEF update_claim_artifacts, Check, validate_volume_path, history
<1>3. to \in {"done", "mark_ready", "tables", "path again"}
    OBVIOUS
<1>4. to \in Working /\ thread[t].pc \in Working
    BY <1>1, <1>3 DEF Working, RunAll, Persist
<1>5. PICK x \in Thread : /\ Becomes(t, x) /\ x.pc = to /\ x.ids = thread[t].ids
                          /\ x.found = thread[t].found /\ x.deleted = thread[t].deleted
    <2>1. to \in {"free", "progress", "begin", "status", "end"} \cup Running
        BY <1>3 DEF Running, RunAll, Persist
    <2>2. Goto(t, to) /\ TypeOK
        BY <1>1 DEF IInv
    <2> HIDE DEF to
    <2> QED
        BY <2>1, <2>2, GotoBecomes
<1>6. Tidy(thread[t]) /\ Made(thread[t], objects, visible, named, row, status, doubled)
    BY DEF IInv, Relied
<1>7. Tidy(x)
    <2>1. ~thread[t].deleted
        BY <1>1, <1>6 DEF Tidy, FromC, Creating
    <2> QED
        BY <1>3, <1>5, <1>6, <2>1 DEF Tidy, FromS, FromC, Creating
<1>8. Made(x, objects, visible, named, row, status, doubled)
    <2>1. CASE thread[t].pc = "artifacts"
        <3>1. x.pc \in {"mark_ready", "done"} /\ (x.pc = "done" => driver = "user")
            BY <1>5, <2>1
        <3> QED
            BY <1>5, <1>6, <2>1, <3>1 DEF Made, FromVolume, FromPath, FromTables, FromPk, FromNotebooks,
                FromA, FromB, FromS, FromC, Creating, Persist
    <2>2. CASE thread[t].pc # "artifacts"
        <3>1. x.pc \in {"path again", "tables"} /\ (x.pc = "tables" => visible)
            BY <1>5, <2>2
        <3> QED
            BY <1>1, <1>5, <1>6, <2>2, <3>1 DEF Made, FromVolume, FromPath, FromTables, FromPk,
                FromNotebooks, FromA, FromB, FromS, FromC, Creating, Persist
    <2> QED
        BY <2>1, <2>2
<1>9. x.pc \in Working
    BY <1>4, <1>5
<1> QED
    BY <1>2, <1>4, <1>5, <1>7, <1>8, <1>9, ReadingStep

\* A look-up leaves some id of that name, or none, in found.
LEMMA FindBecomes ==
    ASSUME IInv, NEW t \in Threads, NEW n \in Names, NEW from,
           NEW to \in {"free", "progress", "begin", "status", "end"} \cup Running, Find(t, from, n, to)
    PROVE  \E x \in Thread : /\ Becomes(t, x) /\ x.pc = to /\ x.ids = thread[t].ids
                             /\ Looked(x, named, n) /\ x.deleted = thread[t].deleted
<1>1. PICK i \in Ids \cup {Null} :
          /\ thread' = [thread EXCEPT ![t].pc = to, ![t].found = i]
          /\ IF i = Null THEN named[n] = {} ELSE i \in named[n]
    <2>1. CASE named[n] = {}
        BY <2>1 DEF Find
    <2>2. CASE named[n] # {}
        <3>1. named[n] \subseteq Ids
            BY DEF IInv, TypeOK, Values
        <3>2. PICK i \in named[n] : thread' = [thread EXCEPT ![t].pc = to, ![t].found = i]
            BY <2>2 DEF Find
        <3> QED
            BY <3>1, <3>2, BootstrapAssumption
    <2> QED
        BY <2>1, <2>2
<1> DEFINE x == [pc |-> to, ids |-> thread[t].ids, found |-> i, deleted |-> thread[t].deleted]
<1>2. thread[t] \in Thread
    BY DEF IInv, TypeOK
<1>3. x \in Thread
    BY <1>2, ThreadFields, ThreadRecords
<1>4. thread[t] = [pc |-> thread[t].pc, ids |-> thread[t].ids, found |-> thread[t].found,
                   deleted |-> thread[t].deleted]
    BY <1>2, ThreadFields
<1>5. Becomes(t, x)
    <2>1. thread' = [thread EXCEPT ![t] = [thread[t] EXCEPT !.pc = to, !.found = i]]
        BY <1>1 DEF IInv, TypeOK
    <2>2. [thread[t] EXCEPT !.pc = to, !.found = i] = x
        BY <1>2, FoundField
    <2> QED
        BY <2>1, <2>2 DEF Becomes
<1>6. x.pc = to /\ x.ids = thread[t].ids /\ x.found = i /\ x.deleted = thread[t].deleted
    OBVIOUS
<1>7. Looked(x, named, n)
    BY <1>1, <1>6 DEF Looked
<1> HIDE DEF x
<1> QED
    BY <1>3, <1>5, <1>6, <1>7

\* A look-up is believed by the step that follows it.
LEMMA FindKeeps ==
    ASSUME IInv, NEW t \in Threads,
           \/ Find(t, "find A", "A", "put A") \/ Find(t, "find B", "B", "put B")
           \/ Find(t, "find S", "S", "delete S") \/ Find(t, "find C", "C", "delete C")
    PROVE  IInv'
<1>1. PICK n \in Names, from \in {"find A", "find B", "find S", "find C"},
           to \in {"put A", "put B", "delete S", "delete C"} :
          /\ Find(t, from, n, to)
          /\ \/ n = "A" /\ from = "find A" /\ to = "put A"
             \/ n = "B" /\ from = "find B" /\ to = "put B"
             \/ n = "S" /\ from = "find S" /\ to = "delete S"
             \/ n = "C" /\ from = "find C" /\ to = "delete C"
    BY DEF Names, Pipelines, Workflows
<1>2. to \in Working /\ from \in Working /\ thread[t].pc = from
    BY <1>1 DEF Working, RunAll, Find
<1>3. PICK x \in Thread : /\ Becomes(t, x) /\ x.pc = to /\ x.ids = thread[t].ids
                          /\ Looked(x, named, n) /\ x.deleted = thread[t].deleted
    <2>1. to \in {"free", "progress", "begin", "status", "end"} \cup Running
        BY DEF Running, RunAll
    <2> QED
        BY <1>1, <2>1, FindBecomes, ZenonT(30)
<1>4. Tidy(thread[t]) /\ Made(thread[t], objects, visible, named, row, status, doubled)
    BY DEF IInv, Relied
<1>5. Tidy(x)
    <2>1. thread[t].deleted => to \in FromC
        BY <1>1, <1>2, <1>4 DEF Tidy, FromC, Creating
    <2> QED
        BY <1>1, <1>2, <1>3, <1>4, <2>1 DEF Tidy, FromS, FromC, Creating
<1>6. Made(x, objects, visible, named, row, status, doubled)
    <2>1. Looked(x, named, n) /\ x.pc = to /\ x.ids = thread[t].ids /\ thread[t].pc = from
        BY <1>2, <1>3
    <2>2. CASE to = "put A"
        BY <1>1, <1>4, <2>1, <2>2 DEF Made, FromVolume, FromPath, FromTables, FromPk,
            FromNotebooks, FromA, FromB, FromS, FromC, Creating, Persist
    <2>3. CASE to = "put B"
        BY <1>1, <1>4, <2>1, <2>3 DEF Made, FromVolume, FromPath, FromTables, FromPk,
            FromNotebooks, FromA, FromB, FromS, FromC, Creating, Persist
    <2>4. CASE to = "delete S"
        BY <1>1, <1>4, <2>1, <2>4 DEF Made, FromVolume, FromPath, FromTables, FromPk,
            FromNotebooks, FromA, FromB, FromS, FromC, Creating, Persist
    <2>5. CASE to = "delete C"
        BY <1>1, <1>4, <2>1, <2>5 DEF Made, FromVolume, FromPath, FromTables, FromPk,
            FromNotebooks, FromA, FromB, FromS, FromC, Creating, Persist
    <2> QED
        BY <2>2, <2>3, <2>4, <2>5
<1>7. UNCHANGED <<settings, databricks, stored, progress, in_flight, faults, history>>
    BY <1>1 DEF Find
<1>8. x.pc \in Working /\ thread[t].pc \in Working
    BY <1>2, <1>3
<1> QED
    BY <1>3, <1>5, <1>6, <1>7, <1>8, ReadingStep

-----------------------------------------------------------------------------
(* Steps that write *)

\* A step of a thread that stays at work, whatever it writes.
LEMMA WritingStep ==
    ASSUME IInv, NEW t \in Threads, NEW x \in Thread, Becomes(t, x), thread[t].pc \in Working,
           x.pc \in Working, UNCHANGED <<settings, progress, in_flight, escaped>>, Values',
           Tidy(x), Made(x, objects', visible', named', row', status', doubled'),
           OneOfEachName', MissingOnlyWhenReplaced'
    PROVE  IInv'
<1>1. thread[t].pc \notin Outer /\ in_flight' /\ progress' # "complete"
    BY AtWork
<1>2. x.pc \notin {"free", "status", "end"}
    BY DEF Working, RunAll, Checks, Persist
<1> QED
    BY <1>1, <1>2, InsideStep

\* Something is there and not only about to be: the schema, the volume, the tables, the
\* key configuration, the notebooks.
LEMMA EnsureKeeps ==
    ASSUME IInv, NEW t \in Threads,
           \/ ensure_bronze_schema(t) \/ ensure_volume(t) \/ ensure_meta_tables(t)
           \/ upload_pk_config(t) \/ upload_notebooks(t)
    PROVE  IInv'
<1>1. PICK from \in {"schema", "volume", "tables", "pk_config", "notebooks"},
           to \in {"volume", "path", "pk_config", "notebooks", "find A"} :
          /\ Ensure(t, from, from, to)
          /\ \/ from = "schema" /\ to = "volume"
             \/ from = "volume" /\ to = "path"
             \/ from = "tables" /\ to = "pk_config"
             \/ from = "pk_config" /\ to = "notebooks"
             \/ from = "notebooks" /\ to = "find A"
    <2>1. CASE ensure_bronze_schema(t)
        BY <2>1 DEF ensure_bronze_schema
    <2>2. CASE ensure_volume(t)
        BY <2>2 DEF ensure_volume
    <2>3. CASE ensure_meta_tables(t)
        BY <2>3 DEF ensure_meta_tables
    <2>4. CASE upload_pk_config(t)
        BY <2>4 DEF upload_pk_config
    <2>5. CASE upload_notebooks(t)
        BY <2>5 DEF upload_notebooks
    <2> QED
        BY <2>1, <2>2, <2>3, <2>4, <2>5
<1>2. thread[t].pc = from /\ objects' = objects \cup {from}
    BY <1>1 DEF Ensure
<1>3. UNCHANGED <<settings, visible, named, row, status, in_flight>>
    BY <1>1 DEF Ensure, stored
<1>4. to \in Working /\ thread[t].pc \in Working /\ to \in Running
    BY <1>2 DEF Working, RunAll, Running
<1>5. thread[t].pc \notin Outer /\ in_flight /\ progress # "complete"
    BY <1>4, AtWork
<1>6. from \in Objects
    BY DEF Objects
<1>7. ASSUME doubled' = doubled, faults' \in 0..MaxFaults, broken' \in BOOLEAN, escaped' \in BOOLEAN,
             progress' \in {"none", "running", "error", "complete"}
      PROVE  Values'
    BY <1>2, <1>3, <1>6, <1>7 DEF IInv, TypeOK, Values, settings
<1>8. ASSUME doubled' = doubled
      PROVE  OneOfEachName'
    BY <1>3, <1>8 DEF IInv, OneOfEachName
<1>9. CASE Goto(t, to) /\ UNCHANGED <<progress, faults, history>>
    <2>1. PICK x \in Thread : /\ Becomes(t, x) /\ x.pc = to /\ x.ids = thread[t].ids
                              /\ x.found = thread[t].found /\ x.deleted = thread[t].deleted
        <3>1. to \in {"free", "progress", "begin", "status", "end"} \cup Running
            BY <1>4
        <3>2. Goto(t, to) /\ TypeOK
            BY <1>9 DEF IInv
        <3> QED
            BY <3>1, <3>2, GotoBecomes
    <2>2. Tidy(thread[t]) /\ Made(thread[t], objects, visible, named, row, status, doubled)
        BY DEF IInv, Relied
    <2>3. Tidy(x)
        <3>1. ~thread[t].deleted
            BY <1>2, <2>2 DEF Tidy, FromC, Creating
        <3> QED
            BY <2>1, <2>2, <3>1 DEF Tidy, FromS, FromC, Creating
    <2>4. doubled' = doubled
        BY <1>9 DEF history
    <2>5. Made(x, objects', visible', named', row', status', doubled')
        <3>1. CASE from = "schema"
            BY <1>1, <1>2, <1>3, <2>1, <2>2, <3>1 DEF Made, FromVolume, FromPath, FromTables, FromPk,
                FromNotebooks, FromA, FromB, FromS, FromC, Creating, Persist
        <3>2. CASE from = "volume"
            BY <1>1, <1>2, <1>3, <2>1, <2>2, <3>2 DEF Made, FromVolume, FromPath, FromTables, FromPk,
                FromNotebooks, FromA, FromB, FromS, FromC, Creating, Persist
        <3>3. CASE from = "tables"
            BY <1>1, <1>2, <1>3, <2>1, <2>2, <3>3 DEF Made, FromVolume, FromPath, FromTables, FromPk,
                FromNotebooks, FromA, FromB, FromS, FromC, Creating, Persist
        <3>4. CASE from = "pk_config"
            BY <1>1, <1>2, <1>3, <2>1, <2>2, <3>4 DEF Made, FromVolume, FromPath, FromTables, FromPk,
                FromNotebooks, FromA, FromB, FromS, FromC, Creating, Persist
        <3>5. CASE from = "notebooks"
            BY <1>1, <1>2, <1>3, <2>1, <2>2, <3>5 DEF Made, FromVolume, FromPath, FromTables, FromPk,
                FromNotebooks, FromA, FromB, FromS, FromC, Creating, Persist
        <3> QED
            BY <3>1, <3>2, <3>3, <3>4, <3>5
    <2>6. Values' /\ OneOfEachName'
        <3>1. faults' \in 0..MaxFaults /\ broken' \in BOOLEAN /\ escaped' \in BOOLEAN
              /\ progress' \in {"none", "running", "error", "complete"}
            BY <1>9 DEF IInv, TypeOK, Values, history
        <3> QED
            BY <1>7, <1>8, <2>4, <3>1
    <2>7. MissingOnlyWhenReplaced'
        <3>1. thread'[t] = x /\ \A u \in Threads \ {t} : thread'[u] = thread[u]
            BY <2>1 DEF Becomes, IInv, TypeOK
        <3>2. \A u \in Threads : thread[u].deleted => broken' \/ thread'[u].deleted
            BY <2>1, <3>1
        <3>3. broken' = broken
            BY <1>9 DEF history
        <3> QED
            BY <1>3, <3>2, <3>3, NotMissing
    <2>8. UNCHANGED <<settings, progress, in_flight, escaped>>
        BY <1>3, <1>9 DEF history
    <2>9. x.pc \in Working
        BY <1>4, <2>1
    <2> QED
        BY <1>4, <2>1, <2>3, <2>5, <2>6, <2>7, <2>8, <2>9, WritingStep
<1>10. CASE Fault /\ Raise(t, TRUE) /\ UNCHANGED doubled
    <2>1. progress' # "complete"
        BY <1>10 DEF Raise, Abort
    <2>2. faults' \in 0..MaxFaults /\ broken' \in BOOLEAN
        BY <1>10, FaultCounts, RaiseTyped DEF IInv
    <2>3. progress' \in {"none", "running", "error", "complete"} /\ escaped' \in BOOLEAN => Values'
        BY <1>7, <1>10, <2>2
    <2>4. OneOfEachName'
        BY <1>8, <1>10
    <2> QED
        BY <1>3, <1>5, <1>10, <2>1, <2>3, <2>4, RaisesSafely
<1> QED
    BY <1>1, <1>9, <1>10 DEF Ensure

-----------------------------------------------------------------------------
(* Pipelines and workflows *)

\* An id that is left is new at Databricks.
LEMMA NewIdIsNew ==
    ASSUME IdLeft
    PROVE  NewId \in Ids /\ \A n \in Names : NewId \notin named[n]
<1>1. \E i \in Ids : i \notin InUse
    BY DEF IdLeft
<1>2. NewId \in Ids /\ NewId \notin InUse
    BY <1>1 DEF NewId
<1> QED
    BY <1>2 DEF InUse

\* A creation adds one to the pipelines or jobs of that name.
LEMMA Added ==
    ASSUME Values, IdLeft, NEW n \in Names, named' = [named EXCEPT ![n] = @ \cup {NewId}]
    PROVE  /\ named' \in [Names -> SUBSET Ids] /\ \A m \in Names : IsFiniteSet(named'[m])
           /\ named'[n] = named[n] \cup {NewId} /\ \A m \in Names \ {n} : named'[m] = named[m]
           /\ Cardinality(named'[n]) = Cardinality(named[n]) + 1
<1>1. NewId \in Ids /\ NewId \notin named[n]
    BY NewIdIsNew
<1>2. named \in [Names -> SUBSET Ids] /\ IsFiniteSet(named[n])
    BY DEF Values
<1>3. named'[n] = named[n] \cup {NewId} /\ \A m \in Names \ {n} : named'[m] = named[m]
    BY <1>2
<1>4. IsFiniteSet(named'[n]) /\ Cardinality(named'[n]) = Cardinality(named[n]) + 1
    BY <1>1, <1>2, <1>3, FS_AddElement
<1>5. named' \in [Names -> SUBSET Ids]
    BY <1>1, <1>2
<1>6. \A m \in Names : IsFiniteSet(named'[m])
    BY <1>3, <1>4 DEF Values
<1> QED
    BY <1>3, <1>4, <1>5, <1>6

\* Thread t keeps id as that of name n, and goes to the step at to.
Keeps(t, n, id, to) == thread' = [thread EXCEPT ![t].pc = to, ![t].ids[n] = id, ![t].found = Null]

\* The ids of x are those of thread t, but for that of n.
KeptIds(x, t, n, id) == x.ids[n] = id /\ \A m \in Names \ {n} : x.ids[m] = thread[t].ids[m]

\* A step that keeps an id.
LEMMA IdBecomes ==
    ASSUME TypeOK, NEW t \in Threads, NEW n \in Names, NEW id \in Ids \cup {Null},
           NEW to \in {"free", "progress", "begin", "status", "end"} \cup Running,
           Keeps(t, n, id, to)
    PROVE  \E x \in Thread : /\ Becomes(t, x) /\ x.pc = to /\ KeptIds(x, t, n, id)
                             /\ x.found = Null /\ x.deleted = thread[t].deleted
<1> DEFINE x == [pc |-> to, ids |-> [thread[t].ids EXCEPT ![n] = id], found |-> Null,
                 deleted |-> thread[t].deleted]
<1>1. thread[t] \in Thread
    BY DEF TypeOK
<1>2. x \in Thread
    <2>1. thread[t].ids \in [Names -> Ids \cup {Null}] /\ thread[t].deleted \in BOOLEAN
        BY <1>1, ThreadFields
    <2>2. [thread[t].ids EXCEPT ![n] = id] \in [Names -> Ids \cup {Null}] /\ Null \in Ids \cup {Null}
        BY <2>1
    <2> QED
        BY <2>1, <2>2, ThreadRecords
<1>3. Becomes(t, x)
    <2> DEFINE ids == [thread[t].ids EXCEPT ![n] = id]
    <2>1. thread' = [thread EXCEPT ![t] = [thread[t] EXCEPT !.pc = to, !.ids = ids, !.found = Null]]
        BY DEF TypeOK, Keeps
    <2> HIDE DEF ids
    <2> DEFINE r == thread[t]
               s == [pc |-> to, ids |-> r.ids, found |-> r.found, deleted |-> r.deleted]
               q == [pc |-> to, ids |-> ids, found |-> r.found, deleted |-> r.deleted]
    <2>2. r = [pc |-> r.pc, ids |-> r.ids, found |-> r.found, deleted |-> r.deleted]
        BY <1>1, ThreadFields
    <2>3. [r EXCEPT !.pc = to] = s
        BY <2>2
    <2>4. [s EXCEPT !.ids = ids] = q
        OBVIOUS
    <2>5. [q EXCEPT !.found = Null] = [pc |-> to, ids |-> ids, found |-> Null, deleted |-> r.deleted]
        OBVIOUS
    <2>6. [r EXCEPT !.pc = to, !.ids = ids, !.found = Null]
              = [[[r EXCEPT !.pc = to] EXCEPT !.ids = ids] EXCEPT !.found = Null]
        OBVIOUS
    <2>7. [thread[t] EXCEPT !.pc = to, !.ids = ids, !.found = Null]
              = [pc |-> to, ids |-> ids, found |-> Null, deleted |-> thread[t].deleted]
        BY <2>3, <2>4, <2>5, <2>6
    <2> USE DEF ids
    <2> QED
        BY <2>1, <2>7 DEF Becomes
<1>4. x.pc = to /\ x.found = Null /\ x.deleted = thread[t].deleted
    OBVIOUS
<1>5. KeptIds(x, t, n, id)
    <2>1. thread[t].ids \in [Names -> Ids \cup {Null}]
        BY <1>1, ThreadFields
    <2>2. x.ids = [thread[t].ids EXCEPT ![n] = id]
        OBVIOUS
    <2> HIDE DEF x
    <2> QED
        BY <2>1, <2>2 DEF KeptIds
<1> HIDE DEF x
<1> QED
    BY <1>2, <1>3, <1>4, <1>5

\* Nothing is none.
LEMMA NoneLeft ==
    ASSUME NEW S, S = {}
    PROVE  Cardinality(S) = 0 /\ Cardinality(S) <= 0
<1>1. Cardinality({}) = 0
    BY FS_EmptySet
<1> QED
    BY <1>1

\* There is room for one more of name n.
Room(n) == /\ n \in Pipelines => Cardinality(named[n]) <= 0
           /\ n \in Workflows => Cardinality(named[n]) <= doubled[n]

\* A creation that is answered, by a thread whose next step may rely on it.
LEMMA CreateKeeps ==
    ASSUME IInv, NEW t \in Threads, NEW n \in Names, NEW to \in Working, Create(t, n, to), Room(n),
           thread[t].pc \in Working, UNCHANGED <<settings, objects, visible, stored, in_flight>>,
           \A x \in Thread :
               x.pc = to /\ KeptIds(x, t, n, NewId) /\ x.deleted = thread[t].deleted
                   => Tidy(x) /\ Made(x, objects, visible, named', row, status, doubled)
    PROVE  IInv'
<1>1. NewId \in Ids
    BY NewIdIsNew DEF Create
<1>2. /\ named' \in [Names -> SUBSET Ids] /\ \A m \in Names : IsFiniteSet(named'[m])
      /\ named'[n] = named[n] \cup {NewId} /\ \A m \in Names \ {n} : named'[m] = named[m]
      /\ Cardinality(named'[n]) = Cardinality(named[n]) + 1
    BY Added DEF Create, IInv, TypeOK
<1>3. PICK x \in Thread : /\ Becomes(t, x) /\ x.pc = to /\ KeptIds(x, t, n, NewId)
                          /\ x.found = Null /\ x.deleted = thread[t].deleted
    <2>1. to \in {"free", "progress", "begin", "status", "end"} \cup Running
        BY DEF Working, Running
    <2>2. Keeps(t, n, NewId, to)
        BY DEF Create, Keeps
    <2>3. TypeOK /\ NewId \in Ids \cup {Null}
        BY <1>1 DEF IInv
    <2> QED
        BY <2>1, <2>2, <2>3, IdBecomes
<1>4. UNCHANGED <<objects, visible, row, status, in_flight, settings, progress, faults, doubled, escaped, broken>>
    BY DEF Create, stored, history
<1>5. Values'
    BY <1>2, <1>4 DEF IInv, TypeOK, Values, settings
<1>6. OneOfEachName'
    <2>1. \A m \in Names \ {n} : Cardinality(named'[m]) = Cardinality(named[m])
        BY <1>2
    <2>2. Cardinality(named[n]) \in Nat /\ doubled[n] \in Nat
        BY FS_CardinalityType DEF IInv, TypeOK, Values
    <2>3. /\ n \in Pipelines => Cardinality(named'[n]) <= 1
          /\ n \in Workflows => Cardinality(named'[n]) <= 1 + doubled[n]
        BY <1>2, <2>2 DEF Room
    <2>4. \A m \in Pipelines : Cardinality(named'[m]) <= 1
        BY <2>1, <2>3 DEF IInv, OneOfEachName, Names
    <2>5. \A m \in Workflows : Cardinality(named'[m]) <= 1 + doubled[m]
        <3> SUFFICES ASSUME NEW m \in Workflows
                     PROVE  Cardinality(named'[m]) <= 1 + doubled[m]
            OBVIOUS
        <3>1. CASE m = n
            BY <2>3, <3>1
        <3>2. CASE m # n
            BY <2>1, <3>2 DEF IInv, OneOfEachName, Names
        <3> QED
            BY <3>1, <3>2
    <2> QED
        BY <1>4, <2>4, <2>5 DEF OneOfEachName
<1>7. MissingOnlyWhenReplaced'
    <2>1. thread'[t] = x /\ \A u \in Threads \ {t} : thread'[u] = thread[u]
        BY <1>3 DEF Becomes, IInv, TypeOK
    <2>2. \A u \in Threads : thread[u].deleted => broken' \/ thread'[u].deleted
        BY <1>3, <2>1
    <2>3. \A m \in Workflows : named[m] \subseteq named'[m]
        BY <1>2 DEF Names
    <2> QED
        BY <1>4, <2>2, <2>3, NotMissing
<1>8. Tidy(x) /\ Made(x, objects', visible', named', row', status', doubled')
    BY <1>3, <1>4
<1>9. UNCHANGED <<settings, progress, in_flight, escaped>>
    BY <1>4
<1>10. x.pc \in Working
    BY <1>3
<1> QED
    BY <1>3, <1>5, <1>6, <1>7, <1>8, <1>9, <1>10, WritingStep

\* A creation whose answer is lost adds one to both sides.
LEMMA LostKeeps ==
    ASSUME IInv, NEW t, NEW n \in Names, CreateLost(t, n), Room(n)
    PROVE  /\ named' \in [Names -> SUBSET Ids] /\ \A m \in Names : IsFiniteSet(named'[m])
           /\ \A m \in Names : named[m] \subseteq named'[m]
           /\ doubled' \in [Names -> Nat] /\ faults' \in 0..MaxFaults
           /\ OneOfEachName'
           /\ n \in Workflows => Cardinality(named'[n]) <= doubled'[n]
<1>1. /\ named' \in [Names -> SUBSET Ids] /\ \A m \in Names : IsFiniteSet(named'[m])
      /\ named'[n] = named[n] \cup {NewId} /\ \A m \in Names \ {n} : named'[m] = named[m]
      /\ Cardinality(named'[n]) = Cardinality(named[n]) + 1
    BY Added DEF CreateLost, IInv, TypeOK
<1>2. faults' \in 0..MaxFaults
    BY FaultCounts DEF CreateLost, IInv
<1>3. /\ doubled' \in [Names -> Nat] /\ doubled'[n] = doubled[n] + 1
      /\ \A m \in Names \ {n} : doubled'[m] = doubled[m]
    BY DEF CreateLost, IInv, TypeOK, Values
<1>4. Cardinality(named[n]) \in Nat /\ doubled[n] \in Nat
    BY FS_CardinalityType DEF IInv, TypeOK, Values
<1>5. n \in Workflows => Cardinality(named'[n]) <= doubled'[n]
    BY <1>1, <1>3, <1>4 DEF Room, Workflows, Pipelines
<1>6. \A m \in Pipelines : Cardinality(named'[m]) <= 1
    <2> SUFFICES ASSUME NEW m \in Pipelines
                 PROVE  Cardinality(named'[m]) <= 1
        OBVIOUS
    <2>1. CASE m = n
        <3>1. Cardinality(named[n]) <= 0
            BY <2>1 DEF Room
        <3>2. Cardinality(named'[n]) <= 1
            BY <1>1, <1>4, <3>1
        <3> QED
            BY <2>1, <3>2
    <2>2. CASE m # n
        BY <1>1, <2>2 DEF IInv, OneOfEachName, Names
    <2> QED
        BY <2>1, <2>2
<1>7. \A m \in Workflows : Cardinality(named'[m]) <= 1 + doubled'[m]
    <2> SUFFICES ASSUME NEW m \in Workflows
                 PROVE  Cardinality(named'[m]) <= 1 + doubled'[m]
        OBVIOUS
    <2>1. CASE m = n
        BY <1>1, <1>3, <1>4, <1>5, <2>1
    <2>2. CASE m # n
        BY <1>1, <1>3, <2>2 DEF IInv, OneOfEachName, Names
    <2> QED
        BY <2>1, <2>2
<1> QED
    BY <1>1, <1>2, <1>3, <1>5, <1>6, <1>7 DEF OneOfEachName

\* A creation whose answer is lost and that is not tried again.
LEMMA GivesUp ==
    ASSUME IInv, NEW t \in Threads, NEW n \in Names, CreateLost(t, n), Raise(t, TRUE), Room(n),
           thread[t].pc \in Working, UNCHANGED <<settings, objects, visible, stored, in_flight>>
    PROVE  IInv'
<1>1. /\ named' \in [Names -> SUBSET Ids] /\ \A m \in Names : IsFiniteSet(named'[m])
      /\ \A m \in Names : named[m] \subseteq named'[m]
      /\ doubled' \in [Names -> Nat] /\ faults' \in 0..MaxFaults
      /\ OneOfEachName'
    BY LostKeeps
<1>2. progress' # "complete" /\ broken' \in BOOLEAN
    BY RaiseTyped DEF Raise, Abort
<1>3. progress' \in {"none", "running", "error", "complete"} /\ escaped' \in BOOLEAN => Values'
    BY <1>1, <1>2 DEF IInv, TypeOK, Values, settings, stored
<1>4. thread[t].pc \notin Outer /\ row' = row /\ \A m \in Workflows : named[m] \subseteq named'[m]
    BY <1>1, AtWork DEF stored, Names
<1> QED
    BY <1>1, <1>2, <1>3, <1>4, RaisesSafely

\* A pipeline is updated when it was found and created when it was not.
LEMMA PipelineKeeps ==
    ASSUME IInv, NEW t \in Threads,
           \/ get_or_create_pipeline(t, "put A", "A", "find B")
           \/ get_or_create_pipeline(t, "put B", "B", IF create_workflows THEN "find S" ELSE "save")
    PROVE  IInv'
<1>1. PICK n \in Pipelines, from \in {"put A", "put B"}, to \in {"find B", "find S", "save"} :
          /\ get_or_create_pipeline(t, from, n, to)
          /\ \/ n = "A" /\ from = "put A" /\ to = "find B"
             \/ n = "B" /\ from = "put B" /\ to = "find S" /\ create_workflows
             \/ n = "B" /\ from = "put B" /\ to = "save" /\ ~create_workflows
    BY DEF Pipelines
<1>2. n \in Names /\ thread[t].pc = from
    BY <1>1 DEF get_or_create_pipeline, Names
<1>3. UNCHANGED <<settings, objects, visible, stored, in_flight>>
    BY <1>1 DEF get_or_create_pipeline
<1>4. to \in Working /\ thread[t].pc \in Working /\ to \in Running
    BY <1>2 DEF Working, RunAll, Persist, Running
<1>5. Tidy(thread[t]) /\ Made(thread[t], objects, visible, named, row, status, doubled)
    BY DEF IInv, Relied
<1>6. thread[t] \in Thread
    BY DEF IInv, TypeOK
<1>7. thread[t].ids \in [Names -> Ids \cup {Null}] /\ thread[t].found \in Ids \cup {Null}
    BY <1>6, ThreadFields
<1>8. ~thread[t].deleted /\ Looked(thread[t], named, n)
    BY <1>1, <1>2, <1>5 DEF Tidy, FromC, Creating, Made
<1>9. ASSUME NEW nm, NEW id \in nm[n], named[n] \subseteq nm[n], \A m \in Names \ {n} : nm[m] = named[m],
             NEW x \in Thread, x.pc = to, KeptIds(x, t, n, id),
             x.deleted = thread[t].deleted
      PROVE  Tidy(x) /\ Made(x, objects, visible, nm, row, status, doubled)
    <2>1. x.ids[n] = id /\ \A m \in Names \ {n} : x.ids[m] = thread[t].ids[m]
        BY <1>9 DEF KeptIds
    <2>2. Tidy(x)
        BY <1>1, <1>2, <1>5, <1>8, <1>9, <2>1
           DEF Tidy, FromS, FromC, Creating, Names, Workflows, Pipelines
    <2>3. CASE n = "A"
        <3>1. x.pc = "find B" /\ x.ids["A"] \in nm["A"] /\ thread[t].pc = "put A"
            BY <1>1, <1>2, <1>9, <2>1, <2>3
        <3>2. /\ "schema" \in objects /\ "volume" \in objects /\ visible /\ "tables" \in objects
              /\ "pk_config" \in objects /\ "notebooks" \in objects
            BY <1>5, <3>1 DEF Made, FromVolume, FromPath, FromTables, FromPk, FromNotebooks, FromA
        <3>3. Made(x, objects, visible, nm, row, status, doubled)
            BY <3>1, <3>2 DEF Made, FromVolume, FromPath, FromTables, FromPk,
                FromNotebooks, FromA, FromB, FromS, FromC, Creating, Persist
        <3> QED
            BY <2>2, <3>3
    <2>4. CASE n = "B"
        <3>1. x.ids["A"] \in nm["A"]
            BY <1>1, <1>2, <1>5, <1>9, <2>1, <2>4
               DEF Made, FromB, FromS, FromC, Creating, Persist, Names, Pipelines
        <3>2. Made(x, objects, visible, nm, row, status, doubled)
            BY <1>1, <1>2, <1>5, <1>9, <2>1, <2>4, <3>1 DEF Made, FromVolume, FromPath, FromTables, FromPk,
                FromNotebooks, FromA, FromB, FromS, FromC, Creating, Persist
        <3> QED
            BY <2>2, <3>2
    <2> QED
        BY <2>2, <2>3, <2>4 DEF Pipelines
<1>10. CASE /\ thread[t].found # Null /\ Keeps(t, n, thread[t].found, to)
            /\ UNCHANGED <<named, progress, faults, history>>
    <2> DEFINE id == thread[t].found
    <2>1. PICK x \in Thread : /\ Becomes(t, x) /\ x.pc = to /\ KeptIds(x, t, n, id)
                              /\ x.found = Null /\ x.deleted = thread[t].deleted
        <3>1. to \in {"free", "progress", "begin", "status", "end"} \cup Running
            BY <1>4
        <3>2. TypeOK /\ Keeps(t, n, id, to) /\ id \in Ids \cup {Null}
            BY <1>7, <1>10 DEF IInv
        <3> HIDE DEF id
        <3> QED
            BY <1>2, <3>1, <3>2, IdBecomes, ZenonT(30)
    <2>2. thread[t].found \in named[n]
        BY <1>8, <1>10 DEF Looked
    <2>3. Tidy(x) /\ Made(x, objects, visible, named, row, status, doubled)
        BY <1>9, <2>1, <2>2
    <2>4. UNCHANGED <<settings, databricks, stored, progress, in_flight, faults, history>>
        BY <1>3, <1>10 DEF databricks
    <2>5. x.pc \in Working
        BY <1>4, <2>1
    <2> QED
        BY <1>4, <2>1, <2>3, <2>4, <2>5, ReadingStep
<1>11. ASSUME thread[t].found = Null
       PROVE  Room(n)
    <2>1. named[n] = {}
        BY <1>8, <1>11 DEF Looked
    <2>2. n \notin Workflows
        BY DEF Pipelines, Workflows
    <2>3. Cardinality(named[n]) <= 0
        BY <2>1, NoneLeft
    <2> QED
        BY <2>2, <2>3 DEF Room
<1>12. CASE thread[t].found = Null /\ Create(t, n, to)
    <2>1. NewId \in named'[n] /\ named[n] \subseteq named'[n] /\ \A m \in Names \ {n} : named'[m] = named[m]
        BY <1>2, <1>12, Added DEF Create, IInv, TypeOK
    <2>2. \A x \in Thread :
               x.pc = to /\ KeptIds(x, t, n, NewId) /\ x.deleted = thread[t].deleted
                   => Tidy(x) /\ Made(x, objects, visible, named', row, status, doubled)
        BY <1>9, <2>1
    <2>3. Room(n) /\ Create(t, n, to)
        BY <1>11, <1>12
    <2> QED
        BY <1>2, <1>3, <1>4, <2>2, <2>3, CreateKeeps
<1>13. CASE thread[t].found = Null /\ CreateLost(t, n) /\ Raise(t, TRUE)
    BY <1>2, <1>3, <1>4, <1>11, <1>13, GivesUp
<1> QED
    BY <1>1, <1>10, <1>12, <1>13 DEF get_or_create_pipeline, Keeps

\* A deletion makes room, and loses no id of another name.
LEMMA Deleted ==
    ASSUME IInv, NEW n \in Workflows, NEW x \in Thread, Looked(x, named, n),
           named' = [named EXCEPT ![n] = @ \ {x.found}]
    PROVE  /\ named' \in [Names -> SUBSET Ids] /\ \A m \in Names : IsFiniteSet(named'[m])
           /\ \A m \in Names \ {n} : named'[m] = named[m]
           /\ Cardinality(named'[n]) <= doubled[n]
           /\ x.found = Null => named'[n] = named[n]
           /\ doubled' = doubled => OneOfEachName'
<1>1. named \in [Names -> SUBSET Ids] /\ n \in Names /\ IsFiniteSet(named[n]) /\ doubled[n] \in Nat
    BY DEF IInv, TypeOK, Values, Names
<1>2. named'[n] = named[n] \ {x.found} /\ \A m \in Names \ {n} : named'[m] = named[m]
    BY <1>1
<1>3. named' \in [Names -> SUBSET Ids]
    BY <1>1
<1>4. IsFiniteSet(named'[n])
    BY <1>1, <1>2, FS_Difference
<1>5. \A m \in Names : IsFiniteSet(named'[m])
    BY <1>2, <1>4 DEF IInv, TypeOK, Values
<1>6. Cardinality(named[n]) <= 1 + doubled[n]
    BY DEF IInv, OneOfEachName
<1>7. CASE x.found = Null
    <2>1. named[n] = {} /\ named'[n] = {}
        BY <1>2, <1>7 DEF Looked
    <2>2. Cardinality(named'[n]) = 0
        BY <2>1, NoneLeft
    <2>3. Cardinality(named'[n]) <= doubled[n]
        BY <1>1, <2>2
    <2>4. doubled' = doubled => OneOfEachName'
        <3>1. Cardinality(named'[n]) <= 1 + doubled[n]
            BY <1>1, <2>2
        <3> QED
            BY <1>2, <3>1 DEF IInv, OneOfEachName, Names, Pipelines, Workflows
    <2> QED
        BY <1>2, <1>3, <1>5, <2>1, <2>3, <2>4
<1>8. CASE x.found # Null
    <2>1. x.found \in named[n]
        BY <1>8 DEF Looked
    <2>2. Cardinality(named'[n]) = Cardinality(named[n]) - 1 /\ Cardinality(named[n]) \in Nat
        BY <1>1, <1>2, <2>1, FS_RemoveElement, FS_CardinalityType
    <2>3. Cardinality(named'[n]) <= doubled[n]
        BY <1>1, <1>6, <2>2
    <2>4. doubled' = doubled => OneOfEachName'
        <3>1. Cardinality(named'[n]) <= 1 + doubled[n]
            BY <1>1, <1>6, <2>2
        <3> QED
            BY <1>2, <3>1 DEF IInv, OneOfEachName, Names, Pipelines, Workflows
    <2> QED
        BY <1>2, <1>3, <1>5, <1>8, <2>3, <2>4
<1> QED
    BY <1>7, <1>8

\* A workflow is deleted only to be created again.
LEMMA DeleteKeeps ==
    ASSUME IInv, NEW t \in Threads,
           \/ delete_job(t, "delete S", "S", "create S")
           \/ delete_job(t, "delete C", "C", "create C")
    PROVE  IInv'
<1>1. PICK n \in Workflows, from \in {"delete S", "delete C"}, to \in {"create S", "create C"} :
          /\ delete_job(t, from, n, to)
          /\ \/ n = "S" /\ from = "delete S" /\ to = "create S"
             \/ n = "C" /\ from = "delete C" /\ to = "create C"
    BY DEF Workflows
<1>2. thread[t].pc = from /\ named' = [named EXCEPT ![n] = @ \ {thread[t].found}]
    BY <1>1 DEF delete_job
<1>3. UNCHANGED <<settings, objects, visible, stored, in_flight>>
    BY <1>1 DEF delete_job
<1>4. to \in Working /\ thread[t].pc \in Working /\ to \in Running
    BY <1>2 DEF Working, RunAll, Running
<1>5. Tidy(thread[t]) /\ Made(thread[t], objects, visible, named, row, status, doubled)
    BY DEF IInv, Relied
<1>6. thread[t] \in Thread
    BY DEF IInv, TypeOK
<1>7. Looked(thread[t], named, n)
    BY <1>1, <1>2, <1>5 DEF Made
<1>8. /\ named' \in [Names -> SUBSET Ids] /\ \A m \in Names : IsFiniteSet(named'[m])
      /\ \A m \in Names \ {n} : named'[m] = named[m]
      /\ Cardinality(named'[n]) <= doubled[n]
      /\ thread[t].found = Null => named'[n] = named[n]
      /\ doubled' = doubled => OneOfEachName'
    BY <1>2, <1>6, <1>7, Deleted
<1> DEFINE gone == thread[t].found # Null
<1>9. CASE /\ thread' = [thread EXCEPT ![t].pc = to, ![t].found = Null, ![t].deleted = @ \/ gone]
           /\ UNCHANGED <<progress, faults, history>>
    <2> DEFINE x == [pc |-> to, ids |-> thread[t].ids, found |-> Null, deleted |-> thread[t].deleted \/ gone]
    <2>1. Becomes(t, x)
        <3> DEFINE d == thread[t].deleted \/ gone
        <3>1. thread' = [thread EXCEPT ![t] = [thread[t] EXCEPT !.pc = to, !.found = Null, !.deleted = d]]
            BY <1>9 DEF IInv, TypeOK
        <3> HIDE DEF d
        <3>2. [thread[t] EXCEPT !.pc = to, !.found = Null, !.deleted = d]
                  = [pc |-> to, ids |-> thread[t].ids, found |-> Null, deleted |-> d]
            BY <1>6, DeletedField
        <3> USE DEF d
        <3> QED
            BY <3>1, <3>2 DEF Becomes
    <2>2. x \in Thread
        <3>1. to \in {"free", "progress", "begin", "status", "end"} \cup Running
            BY <1>4
        <3>2. thread[t].ids \in [Names -> Ids \cup {Null}] /\ Null \in Ids \cup {Null}
            BY <1>6, ThreadFields
        <3>3. (thread[t].deleted \/ gone) \in BOOLEAN
            OBVIOUS
        <3> QED
            BY <3>1, <3>2, <3>3, ThreadRecords
    <2>3. x.pc = to /\ x.ids = thread[t].ids
        OBVIOUS
    <2>4. x.deleted = (thread[t].deleted \/ gone)
        OBVIOUS
    <2> HIDE DEF x
    <2>5. Tidy(x)
        BY <1>1, <1>2, <1>5, <2>3 DEF Tidy, FromS, FromC, Creating
    <2>6. doubled' = doubled /\ UNCHANGED <<progress, faults, escaped, broken>>
        BY <1>9 DEF history
    <2>7. UNCHANGED <<settings, objects, visible, row, status, in_flight>>
        BY <1>3 DEF stored
    <2>8. Made(x, objects', visible', named', row', status', doubled')
        <3>1. /\ "schema" \in objects /\ "volume" \in objects /\ visible /\ "tables" \in objects
              /\ "pk_config" \in objects /\ "notebooks" \in objects
              /\ x.ids["A"] \in named["A"] /\ x.ids["B"] \in named["B"]
              /\ n = "C" => x.ids["S"] \in named["S"]
            BY <1>1, <1>2, <1>5, <2>3 DEF Made, FromVolume, FromPath, FromTables, FromPk, FromNotebooks, FromA,
                FromB, FromS, FromC
        <3>2. named'["A"] = named["A"] /\ named'["B"] = named["B"] /\ (n = "C" => named'["S"] = named["S"])
            BY <1>8 DEF Names, Pipelines, Workflows
        <3>3. Cardinality(named'[n]) <= doubled[n]
            BY <1>8
        <3>4. CASE n = "S"
            BY <1>1, <2>3, <2>6, <2>7, <3>1, <3>2, <3>3, <3>4 DEF Made, FromVolume, FromPath, FromTables, FromPk,
                FromNotebooks, FromA, FromB, FromS, FromC, Creating, Persist
        <3>5. CASE n = "C"
            BY <1>1, <2>3, <2>6, <2>7, <3>1, <3>2, <3>3, <3>5 DEF Made, FromVolume, FromPath, FromTables, FromPk,
                FromNotebooks, FromA, FromB, FromS, FromC, Creating, Persist
        <3> QED
            BY <3>4, <3>5 DEF Workflows
    <2>9. Values' /\ OneOfEachName'
        BY <1>8, <2>6, <2>7 DEF IInv, TypeOK, Values, settings
    <2>10. MissingOnlyWhenReplaced'
        <3>1. thread'[t] = x /\ \A u \in Threads \ {t} : thread'[u] = thread[u]
            BY <2>1 DEF Becomes, IInv, TypeOK
        <3>2. CASE gone
            <4>1. thread'[t].deleted
                BY <2>4, <3>1, <3>2
            <4> QED
                BY <4>1 DEF MissingOnlyWhenReplaced
        <3>3. CASE ~gone
            <4>1. \A m \in Workflows : named[m] \subseteq named'[m]
                BY <1>8, <3>3 DEF Names
            <4>2. \A u \in Threads : thread[u].deleted => broken' \/ thread'[u].deleted
                BY <2>4, <3>1
            <4> QED
                BY <2>6, <2>7, <4>1, <4>2, NotMissing
        <3> QED
            BY <3>2, <3>3
    <2>11. UNCHANGED <<settings, progress, in_flight, escaped>>
        BY <2>6, <2>7
    <2>12. x.pc \in Working
        BY <1>4, <2>3
    <2> QED
        BY <1>4, <2>1, <2>2, <2>5, <2>8, <2>9, <2>10, <2>11, <2>12, WritingStep
<1>10. CASE Fault /\ Abort(t, TRUE) /\ broken' = TRUE /\ UNCHANGED doubled
    <2>1. progress' # "complete" /\ broken' \in BOOLEAN /\ thread[t].pc \notin Outer
        BY <1>4, <1>10, AtWork DEF Abort
    <2>2. faults' \in 0..MaxFaults
        BY <1>10, FaultCounts DEF IInv
    <2>3. progress' \in {"none", "running", "error", "complete"} /\ escaped' \in BOOLEAN => Values'
        BY <1>3, <1>8, <1>10, <2>1, <2>2 DEF IInv, TypeOK, Values, settings, stored
    <2>4. OneOfEachName' /\ MissingOnlyWhenReplaced'
        BY <1>8, <1>10 DEF MissingOnlyWhenReplaced
    <2> QED
        BY <1>3, <1>10, <2>1, <2>3, <2>4, BreaksOff
<1> QED
    BY <1>1, <1>9, <1>10 DEF delete_job

\* The job of the snapshots, and that of the changes, which is created by three calls
\* at most.
LEMMA WorkflowKeeps ==
    ASSUME IInv, NEW t \in Threads,
           create_combined_snapshot_workflow(t) \/ create_sync_workflow(t)
    PROVE  IInv'
<1>1. thread[t].pc \in {"create S"} \cup Creating
    BY DEF create_combined_snapshot_workflow, create_sync_workflow, Creating
<1> DEFINE n == IF thread[t].pc = "create S" THEN "S" ELSE "C"
           to == IF thread[t].pc = "create S" THEN "find C" ELSE "save"
<1>2. n \in Workflows /\ n \in Names /\ n \notin Pipelines /\ to \in {"find C", "save"} /\ (n = "S" <=> to = "find C")
    BY DEF Workflows, Names, Pipelines
<1>3. UNCHANGED <<settings, objects, visible, stored, in_flight>>
    BY DEF create_combined_snapshot_workflow, create_sync_workflow
<1>4. to \in Working /\ thread[t].pc \in Working
    BY <1>1 DEF Working, RunAll, Persist, Creating
<1>5. Tidy(thread[t]) /\ Made(thread[t], objects, visible, named, row, status, doubled)
    BY DEF IInv, Relied
<1>6. Room(n)
    <2>1. Cardinality(named[n]) <= doubled[n]
        BY <1>1, <1>5 DEF Made, Creating
    <2> QED
        BY <1>2, <2>1 DEF Room
<1>7. /\ "schema" \in objects /\ "volume" \in objects /\ visible /\ "tables" \in objects
      /\ "pk_config" \in objects /\ "notebooks" \in objects /\ create_workflows
      /\ thread[t].ids["A"] \in named["A"] /\ thread[t].ids["B"] \in named["B"]
      /\ n = "C" => thread[t].ids["S"] \in named["S"]
    BY <1>1, <1>5 DEF Made, Tidy, FromVolume, FromPath, FromTables, FromPk, FromNotebooks, FromA,
        FromB, FromS, FromC, Creating
<1>8. CASE Create(t, n, to)
    <2>1. NewId \in named'[n] /\ \A m \in Names \ {n} : named'[m] = named[m]
        BY <1>2, <1>8, Added DEF Create, IInv, TypeOK
    <2>2. ASSUME NEW x \in Thread, x.pc = to, KeptIds(x, t, n, NewId), x.deleted = thread[t].deleted
          PROVE  Tidy(x) /\ Made(x, objects, visible, named', row, status, doubled)
        <3>1. x.ids[n] = NewId /\ \A m \in Names \ {n} : x.ids[m] = thread[t].ids[m]
            BY <2>2 DEF KeptIds
        <3>2. Tidy(x)
            BY <1>2, <1>7, <2>2 DEF Tidy, FromS, FromC, Creating
        <3>3. x.ids["A"] \in named'["A"] /\ x.ids["B"] \in named'["B"]
            BY <1>2, <1>7, <2>1, <3>1 DEF Names, Pipelines, Workflows
        <3>4. CASE n = "S"
            <4>1. x.pc = "find C" /\ x.ids["S"] \in named'["S"]
                BY <1>2, <2>1, <2>2, <3>1, <3>4
            <4>2. Made(x, objects, visible, named', row, status, doubled)
                BY <1>7, <3>3, <4>1 DEF Made, FromVolume, FromPath, FromTables, FromPk,
                    FromNotebooks, FromA, FromB, FromS, FromC, Creating, Persist
            <4> QED
                BY <3>2, <4>2
        <3>5. CASE n = "C"
            <4>1. x.pc = "save" /\ x.ids["C"] \in named'["C"] /\ x.ids["S"] \in named'["S"]
                BY <1>2, <1>7, <2>1, <2>2, <3>1, <3>5 DEF Names, Workflows
            <4>2. Made(x, objects, visible, named', row, status, doubled)
                BY <1>7, <3>3, <4>1 DEF Made, FromVolume, FromPath, FromTables, FromPk,
                    FromNotebooks, FromA, FromB, FromS, FromC, Creating, Persist, Workflows
            <4> QED
                BY <3>2, <4>2
        <3> QED
            BY <1>2, <3>4, <3>5 DEF Workflows
    <2> HIDE DEF n, to
    <2> QED
        BY <1>2, <1>3, <1>4, <1>6, <1>8, <2>2, CreateKeeps
<1>9. CASE CreateLost(t, n) /\ Raise(t, TRUE)
    BY <1>2, <1>3, <1>4, <1>6, <1>9, GivesUp
<1>10. CASE Fault /\ UNCHANGED <<named, doubled>> /\ Raise(t, TRUE)
    <2>1. faults' \in 0..MaxFaults /\ broken' \in BOOLEAN /\ progress' # "complete"
        BY <1>10, FaultCounts, RaiseTyped DEF IInv, Raise, Abort
    <2>2. progress' \in {"none", "running", "error", "complete"} /\ escaped' \in BOOLEAN => Values'
        BY <1>3, <1>10, <2>1 DEF IInv, TypeOK, Values, settings, stored
    <2>3. OneOfEachName' /\ row' = row /\ thread[t].pc \notin Outer
        BY <1>3, <1>4, <1>10, AtWork DEF IInv, OneOfEachName, stored
    <2> QED
        BY <1>3, <1>10, <2>1, <2>2, <2>3, RaisesSafely
<1>11. ASSUME NEW next \in {"create C again", "create C classic"}, thread[t].pc \in Creating, Goto(t, next),
              CreateLost(t, n) \/ (Fault /\ UNCHANGED <<named, doubled>>),
              UNCHANGED <<progress, escaped, broken>>
       PROVE  IInv'
    <2>1. n = "C"
        BY <1>11 DEF Creating
    <2>2. next \in Working /\ next \in Running
        BY <1>11 DEF Working, RunAll, Running
    <2>3. PICK x \in Thread : /\ Becomes(t, x) /\ x.pc = next /\ x.ids = thread[t].ids
                              /\ x.found = thread[t].found /\ x.deleted = thread[t].deleted
        <3>1. next \in {"free", "progress", "begin", "status", "end"} \cup Running /\ TypeOK
            BY <2>2 DEF IInv
        <3> QED
            BY <1>11, <3>1, GotoBecomes
    <2>4. /\ named' \in [Names -> SUBSET Ids] /\ \A m \in Names : IsFiniteSet(named'[m])
          /\ \A m \in Names : named[m] \subseteq named'[m]
          /\ doubled' \in [Names -> Nat] /\ faults' \in 0..MaxFaults
          /\ OneOfEachName' /\ Cardinality(named'["C"]) <= doubled'["C"]
        <3>1. CASE CreateLost(t, n)
            BY <1>2, <1>6, <2>1, <3>1, LostKeeps
        <3>2. CASE Fault /\ UNCHANGED <<named, doubled>>
            <4>1. faults' \in 0..MaxFaults
                BY <3>2, FaultCounts DEF IInv
            <4>2. Cardinality(named["C"]) <= doubled["C"]
                BY <1>5, <1>11 DEF Made
            <4> QED
                BY <3>2, <4>1, <4>2 DEF IInv, TypeOK, Values, OneOfEachName
        <3> QED
            BY <1>11, <3>1, <3>2
    <2>5. Tidy(x)
        BY <1>5, <1>7, <2>3 DEF Tidy, FromS, FromC, Creating
    <2>6. Made(x, objects', visible', named', row', status', doubled')
        <3>1. /\ x.ids["A"] \in named'["A"] /\ x.ids["B"] \in named'["B"] /\ x.ids["S"] \in named'["S"]
            BY <1>7, <2>1, <2>3, <2>4 DEF Names, Pipelines, Workflows
        <3> QED
            BY <1>3, <1>7, <2>3, <2>4, <3>1 DEF Made, FromVolume, FromPath, FromTables, FromPk,
                FromNotebooks, FromA, FromB, FromS, FromC, Creating, Persist
    <2>7. Values'
        BY <1>3, <1>11, <2>4 DEF IInv, TypeOK, Values, settings, stored
    <2>8. MissingOnlyWhenReplaced'
        <3>1. thread'[t] = x /\ \A u \in Threads \ {t} : thread'[u] = thread[u]
            BY <2>3 DEF Becomes, IInv, TypeOK
        <3>2. \A u \in Threads : thread[u].deleted => broken' \/ thread'[u].deleted
            BY <2>3, <3>1
        <3>3. \A m \in Workflows : named[m] \subseteq named'[m]
            BY <2>4 DEF Names
        <3>4. row' = row /\ broken' = broken
            BY <1>3, <1>11 DEF stored
        <3> QED
            BY <3>2, <3>3, <3>4, NotMissing
    <2>9. UNCHANGED <<settings, progress, in_flight, escaped>> /\ OneOfEachName'
        BY <1>3, <1>11, <2>4
    <2>10. x.pc \in Working
        BY <2>2, <2>3
    <2> QED
        BY <1>4, <2>3, <2>5, <2>6, <2>7, <2>8, <2>9, <2>10, WritingStep
<1>12. CASE create_combined_snapshot_workflow(t)
    <2>1. n = "S" /\ to = "find C"
        BY <1>12 DEF create_combined_snapshot_workflow
    <2> QED
        BY <1>8, <1>9, <1>12, <2>1 DEF create_combined_snapshot_workflow
<1>13. CASE create_sync_workflow(t)
    <2>1. n = "C" /\ to = "save" /\ thread[t].pc \in Creating
        BY <1>13 DEF create_sync_workflow, Creating
    <2>2. CASE Create(t, "C", "save")
        BY <1>8, <2>1, <2>2
    <2>3. CASE CreateLost(t, "C") \/ (Fault /\ UNCHANGED <<named, doubled>>)
        <3>1. CASE thread[t].pc = "create C" /\ Goto(t, "create C again") /\ UNCHANGED <<progress, escaped, broken>>
            BY <1>11, <2>1, <2>3, <3>1
        <3>2. CASE thread[t].pc = "create C again" /\ Goto(t, "create C classic")
                      /\ UNCHANGED <<progress, escaped, broken>>
            BY <1>11, <2>1, <2>3, <3>2
        <3>3. CASE Raise(t, TRUE)
            BY <1>9, <1>10, <2>1, <2>3, <3>3
        <3>4. \/ thread[t].pc = "create C" /\ Goto(t, "create C again") /\ UNCHANGED <<progress, escaped, broken>>
              \/ thread[t].pc = "create C again" /\ Goto(t, "create C classic")
                      /\ UNCHANGED <<progress, escaped, broken>>
              \/ Raise(t, TRUE)
              \/ Create(t, "C", "save")
            BY <1>13, <2>1 DEF create_sync_workflow, Creating
        <3> QED
            BY <2>2, <3>1, <3>2, <3>3, <3>4
    <2> QED
        BY <1>13, <2>2, <2>3 DEF create_sync_workflow
<1> QED
    BY <1>12, <1>13

-----------------------------------------------------------------------------
(* The end of a bootstrap *)

\* What is saved exists, and with the ids of the workflows no workflow is missing.
LEMMA SaveKeeps ==
    ASSUME IInv, NEW t \in Threads, save_bootstrap(t) \/ set_pipeline_ids(t)
    PROVE  IInv'
<1>1. PICK from \in {"save", "pipeline_ids"}, to \in {"pipeline_ids", "artifacts"},
           names \in {Names, Workflows, Pipelines} :
          /\ Save(t, from, names, to)
          /\ \/ from = "save" /\ to = "artifacts" /\ names = Names /\ driver = "user"
             \/ from = "save" /\ to = "pipeline_ids" /\ names = Workflows /\ driver # "user"
             \/ from = "pipeline_ids" /\ to = "artifacts" /\ names = Pipelines
    BY DEF save_bootstrap, set_pipeline_ids
<1>2. /\ thread[t].pc = from
      /\ row' = [n \in Names |-> IF n \in names THEN thread[t].ids[n] ELSE row[n]]
      /\ broken' = IF Workflows \subseteq names THEN FALSE ELSE broken
      /\ thread' = [thread EXCEPT ![t].pc = to, ![t].deleted = FALSE]
      /\ UNCHANGED <<driver, create_workflows, objects, visible, named, status, progress, in_flight,
                     faults, doubled, escaped>>
    BY <1>1 DEF Save, settings, databricks
<1>3. to \in Working /\ thread[t].pc \in Working /\ to \in Running
    BY <1>2 DEF Working, Persist, Running
<1>4. Tidy(thread[t]) /\ Made(thread[t], objects, visible, named, row, status, doubled)
    BY DEF IInv, Relied
<1>5. thread[t] \in Thread
    BY DEF IInv, TypeOK
<1>6. thread[t].ids \in [Names -> Ids \cup {Null}] /\ thread[t].found \in Ids \cup {Null}
    BY <1>5, ThreadFields
<1>7. PICK x \in Thread : Becomes(t, x) /\ x.pc = to /\ x.ids = thread[t].ids /\ x.deleted = FALSE
    <2> DEFINE x == [pc |-> to, ids |-> thread[t].ids, found |-> thread[t].found, deleted |-> FALSE]
    <2>1. Becomes(t, x)
        <3> DEFINE r == thread[t]
                   s == [pc |-> to, ids |-> r.ids, found |-> r.found, deleted |-> r.deleted]
                   d == FALSE
        <3>1. thread' = [thread EXCEPT ![t] = [[r EXCEPT !.pc = to] EXCEPT !.deleted = d]]
            BY <1>2 DEF IInv, TypeOK
        <3> HIDE DEF d
        <3>2. r = [pc |-> r.pc, ids |-> r.ids, found |-> r.found, deleted |-> r.deleted]
            BY <1>5, ThreadFields
        <3>3. [r EXCEPT !.pc = to] = s
            BY <3>2
        <3>4. [s EXCEPT !.deleted = d] = [pc |-> to, ids |-> r.ids, found |-> r.found, deleted |-> d]
            OBVIOUS
        <3> USE DEF d
        <3> QED
            BY <3>1, <3>3, <3>4 DEF Becomes
    <2>2. x \in Thread
        <3>1. to \in {"free", "progress", "begin", "status", "end"} \cup Running
            BY <1>3
        <3>2. FALSE \in BOOLEAN
            OBVIOUS
        <3> QED
            BY <1>6, <3>1, <3>2, ThreadRecords, Zenon
    <2>3. x.pc = to /\ x.ids = thread[t].ids /\ x.deleted = FALSE
        OBVIOUS
    <2> HIDE DEF x
    <2> QED
        BY <2>1, <2>2, <2>3
<1>8. thread'[t] = x /\ \A u \in Threads \ {t} : thread'[u] = thread[u]
    BY <1>7 DEF Becomes, IInv, TypeOK
<1>9. Tidy(x)
    BY <1>1, <1>4, <1>7 DEF Tidy, FromS, FromC, Creating, IInv, TypeOK, Values
<1>10. \A n \in Names : row'[n] = IF n \in names THEN x.ids[n] ELSE row[n]
    BY <1>2, <1>7
<1>11. /\ \A n \in Workflows : row'[n] = x.ids[n]
       /\ to = "artifacts" => \A n \in Names : row'[n] = x.ids[n]
    <2>1. CASE from = "save"
        BY <1>1, <1>10, <2>1 DEF Names
    <2>2. CASE from = "pipeline_ids"
        <3>1. \A n \in Workflows : row[n] = x.ids[n]
            BY <1>2, <1>4, <1>7, <2>2 DEF Made, Persist
        <3>2. names = Pipelines
            BY <1>1, <2>2
        <3> QED
            BY <1>10, <3>1, <3>2 DEF Names
    <2> QED
        BY <2>1, <2>2
<1>12. Made(x, objects', visible', named', row', status', doubled')
    <2>1. /\ "schema" \in objects /\ "volume" \in objects /\ visible /\ "tables" \in objects
          /\ "pk_config" \in objects /\ "notebooks" \in objects
          /\ x.ids["A"] \in named["A"] /\ x.ids["B"] \in named["B"]
          /\ create_workflows => \A n \in Workflows : x.ids[n] \in named[n]
        BY <1>2, <1>4, <1>7 DEF Made, FromVolume, FromPath, FromTables, FromPk, FromNotebooks, FromA,
            FromB, Persist
    <2> QED
        BY <1>2, <1>7, <1>11, <2>1 DEF Made, FromVolume, FromPath, FromTables, FromPk,
            FromNotebooks, FromA, FromB, FromS, FromC, Creating, Persist
<1>13. Values'
    <2>1. row' \in [Names -> Ids \cup {Null}]
        BY <1>2, <1>6 DEF IInv, TypeOK, Values
    <2>2. broken' \in BOOLEAN
        BY <1>2 DEF IInv, TypeOK, Values
    <2> QED
        BY <1>2, <2>1, <2>2 DEF IInv, TypeOK, Values
<1>14. OneOfEachName'
    BY <1>2 DEF IInv, OneOfEachName
<1>15. MissingOnlyWhenReplaced'
    <2> SUFFICES ASSUME NEW n \in Workflows, row'[n] # Null
                 PROVE  row'[n] \in named'[n]
        BY DEF MissingOnlyWhenReplaced, Exists
    <2>1. row'[n] = x.ids[n]
        BY <1>11
    <2>2. create_workflows
        BY <1>7, <2>1, <1>9 DEF Tidy, IInv, TypeOK, Values
    <2>3. thread[t].ids[n] \in named[n]
        BY <1>2, <1>4, <2>2 DEF Made, Persist
    <2> QED
        BY <1>2, <1>7, <2>1, <2>3
<1>16. UNCHANGED <<settings, progress, in_flight, escaped>>
    BY <1>2 DEF settings
<1>17. x.pc \in Working
    BY <1>3, <1>7
<1> QED
    BY <1>3, <1>7, <1>9, <1>12, <1>13, <1>14, <1>15, <1>16, <1>17, WritingStep

\* The connection becomes ready.
LEMMA ReadyKeeps ==
    ASSUME IInv, NEW t \in Threads, mark_ready(t)
    PROVE  IInv'
<1>1. /\ thread[t].pc = "mark_ready" /\ status' = "ready" /\ Goto(t, "done")
      /\ UNCHANGED <<settings, databricks, row, progress, in_flight, faults, history>>
    BY DEF mark_ready
<1>2. "done" \in Working /\ thread[t].pc \in Working /\ "done" \in Running
    BY <1>1 DEF Working, Persist, Running
<1>3. PICK x \in Thread : /\ Becomes(t, x) /\ x.pc = "done" /\ x.ids = thread[t].ids
                          /\ x.found = thread[t].found /\ x.deleted = thread[t].deleted
    <2>1. "done" \in {"free", "progress", "begin", "status", "end"} \cup Running /\ TypeOK
        BY <1>2 DEF IInv
    <2> QED
        BY <1>1, <2>1, GotoBecomes
<1>4. Tidy(thread[t]) /\ Made(thread[t], objects, visible, named, row, status, doubled)
    BY DEF IInv, Relied
<1>5. Tidy(x)
    BY <1>1, <1>3, <1>4 DEF Tidy, FromS, FromC, Creating
<1>6. UNCHANGED <<objects, visible, named, row, doubled>>
    BY <1>1 DEF databricks, history
<1>7. Made(x, objects', visible', named', row', status', doubled')
    BY <1>1, <1>3, <1>4, <1>6 DEF Made, FromVolume, FromPath, FromTables, FromPk,
        FromNotebooks, FromA, FromB, FromS, FromC, Creating, Persist
<1>8. Values' /\ OneOfEachName'
    BY <1>1, <1>6 DEF IInv, TypeOK, Values, OneOfEachName, settings, history
<1>9. MissingOnlyWhenReplaced'
    <2>1. thread'[t] = x /\ \A u \in Threads \ {t} : thread'[u] = thread[u]
        BY <1>3 DEF Becomes, IInv, TypeOK
    <2>2. \A u \in Threads : thread[u].deleted => broken' \/ thread'[u].deleted
        BY <1>3, <2>1
    <2>3. broken' = broken
        BY <1>1 DEF history
    <2> QED
        BY <1>6, <2>2, <2>3, NotMissing
<1>10. UNCHANGED <<settings, progress, in_flight, escaped>> /\ x.pc \in Working
    BY <1>1, <1>2, <1>3 DEF history
<1> QED
    BY <1>2, <1>3, <1>5, <1>7, <1>8, <1>9, <1>10, WritingStep

\* All has been made when the wizard is told so.
LEMMA CompleteKeeps ==
    ASSUME IInv, NEW t \in Threads, Complete(t)
    PROVE  IInv'
<1>1. /\ thread[t].pc = "done" /\ progress' = "complete"
      /\ thread' = [thread EXCEPT ![t] = [Free EXCEPT !.pc = "end"]]
      /\ UNCHANGED <<settings, databricks, stored, in_flight, faults, history>>
    BY DEF Complete
<1>2. UNCHANGED <<driver, create_workflows, objects, visible, named, row, status, doubled, escaped, broken>>
    BY <1>1 DEF settings, databricks, stored, history
<1> DEFINE x == [Free EXCEPT !.pc = "end"]
<1>3. x \in Thread /\ Tidy(x) /\ x.pc = "end" /\ x.deleted = FALSE
    BY FreshThread
<1>4. Becomes(t, x)
    BY <1>1 DEF Becomes
<1> HIDE DEF x
<1>5. thread[t].pc \in Working
    BY <1>1 DEF Working, Persist
<1>6. thread[t].pc \notin Outer /\ in_flight
    BY <1>5, AtWork
<1>7. Tidy(thread[t]) /\ Made(thread[t], objects, visible, named, row, status, doubled)
    BY DEF IInv, Relied
<1>8. Made(x, objects', visible', named', row', status', doubled')
    <2>1. x.pc \in Early
        BY <1>3 DEF Early
    <2> QED
        BY <2>1, EarlyMade
<1>9. CompleteMeansUsable'
    <2>1. /\ "schema" \in objects /\ "volume" \in objects /\ visible /\ "tables" \in objects
          /\ "pk_config" \in objects /\ "notebooks" \in objects
        BY <1>1, <1>7 DEF Made, FromVolume, FromPath, FromTables, FromPk, FromNotebooks, FromA,
            FromB, Persist
    <2>2. objects = Objects
        BY <2>1 DEF IInv, TypeOK, Values, Objects
    <2>3. /\ thread[t].ids["A"] \in named["A"] /\ thread[t].ids["B"] \in named["B"]
          /\ create_workflows => \A n \in Workflows : thread[t].ids[n] \in named[n]
          /\ \A n \in Names : row[n] = thread[t].ids[n]
          /\ driver = "connection" => status = "ready"
        BY <1>1, <1>7 DEF Made, FromB, Persist
    <2>4. /\ \A n \in Pipelines : row[n] \in named[n]
          /\ create_workflows => \A n \in Workflows : row[n] \in named[n]
        BY <2>3 DEF Names, Pipelines, Workflows
    <2> QED
        BY <1>2, <2>1, <2>2, <2>3, <2>4 DEF CompleteMeansUsable, Exists
<1>10. Values' /\ OneOfEachName'
    BY <1>1, <1>2 DEF IInv, TypeOK, Values, OneOfEachName
<1>11. MissingOnlyWhenReplaced'
    <2>1. ~thread[t].deleted
        BY <1>1, <1>7 DEF Tidy, FromC, Creating
    <2>2. \A u \in Threads \ {t} : thread'[u] = thread[u]
        BY <1>4 DEF Becomes, IInv, TypeOK
    <2>3. \A u \in Threads : thread[u].deleted => broken' \/ thread'[u].deleted
        BY <2>1, <2>2
    <2> QED
        BY <1>2, <2>3, NotMissing
<1>12. UNCHANGED settings /\ in_flight' /\ progress' = "complete"
    BY <1>1, <1>6
<1> QED
    BY <1>3, <1>4, <1>6, <1>8, <1>9, <1>10, <1>11, <1>12, InsideStep

\* A thread that is done with its bootstrap takes back the mark and the status.
LEMMA EndKeeps ==
    ASSUME IInv, NEW t \in Threads, ResetStatus(t) \/ end_bootstrap(t)
    PROVE  IInv'
<1> DEFINE to == IF thread[t].pc = "status" THEN "end" ELSE "free"
<1>1. /\ thread[t].pc \in {"status", "end"}
      /\ thread[t].pc = "status" => in_flight' = in_flight
      /\ in_flight' \in BOOLEAN /\ status' \in {"pending", "ready"}
      /\ thread[t].pc = "end" => status' = status
      /\ UNCHANGED <<driver, create_workflows, objects, visible, named, row, progress, faults,
                     doubled, escaped, broken>>
    BY DEF ResetStatus, end_bootstrap, settings, databricks, stored, history, IInv, TypeOK, Values
<1>2. thread[t].pc \notin Outer
    BY <1>1 DEF Outer
<1>3. in_flight
    BY <1>2 DEF IInv, Alone
<1>4. Tidy(thread[t])
    BY DEF IInv, Relied
<1>5. ~thread[t].deleted
    BY <1>1, <1>4 DEF Tidy, FromC, Creating
<1>6. PICK x \in Thread : Becomes(t, x) /\ x.pc = to /\ Tidy(x)
    <2>1. CASE ResetStatus(t)
        <3>1. thread[t].pc = "status" /\ Goto(t, "end") /\ TypeOK
            BY <2>1 DEF ResetStatus, IInv
        <3>2. "end" \in {"free", "progress", "begin", "status", "end"} \cup Running
            OBVIOUS
        <3>3. PICK x \in Thread : /\ Becomes(t, x) /\ x.pc = "end" /\ x.ids = thread[t].ids
                                  /\ x.found = thread[t].found /\ x.deleted = thread[t].deleted
            BY <3>1, <3>2, GotoBecomes
        <3>4. Tidy(x)
            BY <1>4, <1>5, <3>3 DEF Tidy, FromS, FromC, Creating
        <3> QED
            BY <3>1, <3>3, <3>4
    <2>2. CASE end_bootstrap(t)
        <3>1. Becomes(t, Free) /\ thread[t].pc = "end"
            BY <2>2 DEF end_bootstrap, Becomes
        <3> QED
            BY <3>1, FreeThread
    <2> QED
        BY <2>1, <2>2
<1>7. Made(x, objects', visible', named', row', status', doubled')
    <2>1. x.pc \in Early
        BY <1>6 DEF Early, Outer
    <2> QED
        BY <2>1, EarlyMade
<1>8. Values' /\ OneOfEachName'
    BY <1>1 DEF IInv, TypeOK, Values, OneOfEachName
<1>9. MissingOnlyWhenReplaced'
    <2>1. \A u \in Threads \ {t} : thread'[u] = thread[u]
        BY <1>6 DEF Becomes, IInv, TypeOK
    <2>2. \A u \in Threads : thread[u].deleted => broken' \/ thread'[u].deleted
        BY <1>5, <2>1
    <2> QED
        BY <1>1, <2>2, NotMissing
<1>10. progress' = "complete" => CompleteMeansUsable' /\ x.pc \in {"claim", "end", "free"}
    <2> SUFFICES ASSUME progress' = "complete"
                 PROVE  CompleteMeansUsable' /\ x.pc \in {"claim", "end", "free"}
        OBVIOUS
    <2>1. thread[t].pc \in Outer \cup {"claim", "end"}
        BY <1>1 DEF IInv, Finished
    <2>2. thread[t].pc = "end"
        BY <1>1, <2>1 DEF Outer
    <2> QED
        BY <1>1, <1>6, <2>2 DEF IInv, Finished, CompleteMeansUsable, Exists
<1>11. UNCHANGED settings /\ (x.pc \notin Outer => in_flight')
    BY <1>1, <1>3, <1>6 DEF settings, Outer
<1>12. progress' = "running" =>
               \/ escaped' \/ x.pc \notin {"free", "status", "end"}
               \/ thread[t].pc \in {"status", "end"} /\ progress = "running" /\ escaped' = escaped
    BY <1>1
<1> QED
    BY <1>2, <1>6, <1>7, <1>8, <1>9, <1>10, <1>11, <1>12, InsideStep

\* The claim is looked at again, and the wizard is told that it runs.
LEMMA RunAllKeeps ==
    ASSUME IInv, NEW t \in Threads, run_all(t)
    PROVE  IInv'
<1>1. /\ thread[t].pc = "claim" /\ progress' = "running" /\ Goto(t, "validate_workspace")
      /\ UNCHANGED <<driver, create_workflows, objects, visible, named, row, status, in_flight, faults,
                     doubled, escaped, broken>>
    BY DEF run_all, settings, databricks, stored, history
<1>2. PICK x \in Thread : /\ Becomes(t, x) /\ x.pc = "validate_workspace" /\ x.ids = thread[t].ids
                          /\ x.found = thread[t].found /\ x.deleted = thread[t].deleted
    <2>1. "validate_workspace" \in {"free", "progress", "begin", "status", "end"} \cup Running /\ TypeOK
        BY DEF Running, RunAll, Checks, IInv
    <2> QED
        BY <1>1, <2>1, GotoBecomes
<1>3. thread[t].pc \notin Outer /\ in_flight' /\ UNCHANGED settings
    BY <1>1 DEF Outer, IInv, Alone, settings
<1>4. Tidy(x)
    <2>1. Tidy(thread[t])
        BY DEF IInv, Relied
    <2> QED
        BY <1>1, <1>2, <2>1 DEF Tidy, FromS, FromC, Creating
<1>5. Made(x, objects', visible', named', row', status', doubled')
    <2>1. x.pc \in Early
        BY <1>2 DEF Early, Checks
    <2> QED
        BY <2>1, EarlyMade
<1>6. Values' /\ OneOfEachName'
    BY <1>1 DEF IInv, TypeOK, Values, OneOfEachName
<1>7. MissingOnlyWhenReplaced'
    <2>1. thread'[t] = x /\ \A u \in Threads \ {t} : thread'[u] = thread[u]
        BY <1>2 DEF Becomes, IInv, TypeOK
    <2>2. \A u \in Threads : thread[u].deleted => broken' \/ thread'[u].deleted
        BY <1>2, <2>1
    <2> QED
        BY <1>1, <2>2, NotMissing
<1>8. progress' # "complete" /\ x.pc \notin {"free", "status", "end"}
    BY <1>1, <1>2
<1> QED
    BY <1>2, <1>3, <1>4, <1>5, <1>6, <1>7, <1>8, InsideStep

\* Any other step of run_all or _persist raises.
LEMMA FailKeeps ==
    ASSUME IInv, NEW t \in Threads,
           \/ Fail(t)
           \/ validate_volume_path(t) /\ thread[t].pc = "path again" /\ ~visible
    PROVE  IInv'
<1> DEFINE told == IF thread[t].pc \in RunAll THEN TRUE ELSE FALSE
<1>1. /\ Raise(t, told) /\ thread[t].pc \in Running /\ faults' \in 0..MaxFaults
      /\ UNCHANGED <<settings, databricks, stored, in_flight, doubled>>
    <2>1. CASE Fail(t)
        <3>1. /\ Raise(t, thread[t].pc \in RunAll) /\ thread[t].pc \in Running /\ Fault
              /\ UNCHANGED <<settings, databricks, stored, in_flight, doubled>>
            BY <2>1 DEF Fail
        <3>2. Raise(t, told)
            BY <3>1 DEF Raise, Abort
        <3>3. faults' \in 0..MaxFaults
            BY <3>1, FaultCounts DEF IInv
        <3> QED
            BY <3>1, <3>2, <3>3
    <2>2. CASE validate_volume_path(t) /\ thread[t].pc = "path again" /\ ~visible
        <3>1. Raise(t, TRUE) /\ UNCHANGED <<settings, databricks, stored, in_flight, faults, doubled>>
            BY <2>2 DEF validate_volume_path
        <3>2. thread[t].pc \in RunAll /\ thread[t].pc \in Running
            BY <2>2 DEF RunAll, Running
        <3>3. faults' \in 0..MaxFaults
            BY <3>1 DEF IInv, TypeOK, Values
        <3>4. told = TRUE
            BY <3>2
        <3> HIDE DEF told
        <3> QED
            BY <3>1, <3>2, <3>3, <3>4
    <2> QED
        BY <2>1, <2>2
<1>2. told \in BOOLEAN
    OBVIOUS
<1>3. thread[t].pc \notin Outer
    BY <1>1 DEF Running, RunAll, Persist, Checks, Outer
<1> HIDE DEF told
<1>4. UNCHANGED <<driver, create_workflows, objects, visible, named, row, status, in_flight, doubled>>
    BY <1>1 DEF settings, databricks, stored
<1>5. broken' \in BOOLEAN
    BY <1>1, RaiseTyped
<1>6. progress' \in {"none", "running", "error", "complete"} /\ escaped' \in BOOLEAN => Values'
    BY <1>1, <1>4, <1>5 DEF IInv, TypeOK, Values
<1>7. OneOfEachName'
    BY <1>4 DEF IInv, OneOfEachName
<1>8. progress' = "complete" => CompleteMeansUsable'
    <2>1. progress' = "complete" => progress = "complete"
        BY <1>1 DEF Raise, Abort
    <2> QED
        BY <1>4, <2>1 DEF IInv, Finished, CompleteMeansUsable, Exists
<1>9. UNCHANGED settings /\ \A n \in Workflows : named[n] \subseteq named'[n]
    BY <1>1, <1>4
<1> QED
    BY <1>1, <1>2, <1>3, <1>4, <1>6, <1>7, <1>8, <1>9, RaisesSafely

-----------------------------------------------------------------------------
(* Requests, and what happens to all threads *)

\* A thread before try_begin: it gets inside only when the mark was not set.
LEMMA OuterStep ==
    ASSUME IInv, NEW t \in Threads, NEW x \in Thread, Becomes(t, x), thread[t].pc \in Outer, Tidy(x),
           x.pc \in Outer \cup {"claim"}, x.pc = "claim" => ~in_flight /\ in_flight',
           in_flight => in_flight', in_flight' \in BOOLEAN, escaped' \in BOOLEAN, escaped => escaped',
           progress' \in {progress, "running"}, progress' = "running" => escaped' \/ x.pc # "free",
           UNCHANGED <<settings, databricks, stored, faults, doubled, broken>>
    PROVE  IInv'
<1>1. UNCHANGED <<driver, create_workflows, objects, visible, named, row, status>>
    BY DEF settings, databricks, stored
<1>2. thread'[t] = x /\ \A u \in Threads \ {t} : thread'[u] = thread[u]
    BY DEF Becomes, IInv, TypeOK
<1>3. TypeOK'
    <2>1. progress' \in {"none", "running", "error", "complete"}
        BY DEF IInv, TypeOK, Values
    <2>2. Values'
        BY <1>1, <2>1 DEF IInv, TypeOK, Values
    <2> QED
        BY <2>2 DEF IInv, TypeOK, Becomes
<1>4. Alone'
    <2>1. CASE x.pc \in Outer
        BY <1>2, <2>1 DEF IInv, Alone
    <2>2. CASE x.pc = "claim"
        <3>1. \A u \in Threads : thread[u].pc \in Outer
            BY <2>2 DEF IInv, Alone
        <3>2. \A u \in Threads : thread'[u].pc \notin Outer => u = t
            BY <1>2, <3>1
        <3> QED
            BY <2>2, <3>2 DEF Alone
    <2> QED
        BY <2>1, <2>2
<1>5. Relied'
    <2>1. ASSUME NEW u \in Threads, u # t
          PROVE  Tidy(thread'[u]) /\ Made(thread'[u], objects, visible, named, row, status, doubled)
        BY <1>2, <2>1 DEF IInv, Relied
    <2>2. Tidy(thread'[t]) /\ Made(thread'[t], objects, visible, named, row, status, doubled)
        <3>1. x.pc \in Early
            BY DEF Early
        <3> QED
            BY <1>2, <3>1, EarlyMade
    <2>3. \A u \in Threads : Tidy(thread'[u])
                /\ Made(thread'[u], objects', visible', named', row', status', doubled')
        BY <1>1, <2>1, <2>2
    <2> QED
        BY <1>1, <2>3, ZenonT(30) DEF Relied, Tidy, Made, Looked
<1>6. Finished'
    <2> SUFFICES ASSUME progress' = "complete"
                 PROVE  CompleteMeansUsable' /\ \A u \in Threads : thread'[u].pc \in Outer \cup {"claim", "end"}
        BY DEF Finished, CompleteMeansUsable
    <2>1. progress = "complete"
        OBVIOUS
    <2>2. CompleteMeansUsable'
        BY <1>1, <2>1 DEF IInv, Finished, CompleteMeansUsable, Exists
    <2>3. \A u \in Threads : thread'[u].pc \in Outer \cup {"claim", "end"}
        BY <1>2, <2>1 DEF IInv, Finished
    <2> QED
        BY <2>2, <2>3
<1>7. Shown'
    <2> SUFFICES ASSUME progress' = "running", ~escaped'
                 PROVE  \E u \in Threads : thread'[u].pc \notin {"free", "status", "end"}
        BY DEF Shown
    <2>1. x.pc \notin {"free", "status", "end"}
        BY DEF Outer
    <2> QED
        BY <1>2, <2>1
<1>8. OneOfEachName'
    BY <1>1 DEF IInv, OneOfEachName
<1>9. MissingOnlyWhenReplaced'
    <2>1. ~thread[t].deleted
        <3>1. Tidy(thread[t])
            BY DEF IInv, Relied
        <3> QED
            BY <3>1 DEF Tidy, Outer, FromC, Creating
    <2>2. \A u \in Threads : thread[u].deleted => broken' \/ thread'[u].deleted
        BY <1>2, <2>1
    <2> QED
        BY <1>1, <2>2, NotMissing
<1> QED
    BY <1>3, <1>4, <1>5, <1>6, <1>7, <1>8, <1>9 DEF IInv

\* A request goes on to the next step, before try_begin or through it.
LEMMA GotoOuter ==
    ASSUME IInv, NEW t \in Threads, thread[t].pc \in Outer, NEW pc \in {"progress", "begin", "claim"},
           Goto(t, pc)
    PROVE  \E x \in Thread : Becomes(t, x) /\ x.pc = pc /\ Tidy(x)
<1>1. pc \in {"free", "progress", "begin", "status", "end"} \cup Running /\ TypeOK
    BY DEF Running, IInv
<1>2. PICK x \in Thread : /\ Becomes(t, x) /\ x.pc = pc /\ x.ids = thread[t].ids
                          /\ x.found = thread[t].found /\ x.deleted = thread[t].deleted
    BY <1>1, GotoBecomes
<1>3. Tidy(thread[t])
    BY DEF IInv, Relied
<1>4. Tidy(x)
    BY <1>2, <1>3 DEF Tidy, Outer, FromS, FromC, Creating
<1> QED
    BY <1>2, <1>4

\* Requests, whichever driver they are for.
LEMMA RequestKeeps ==
    ASSUME IInv, NEW t \in Threads, request(t) \/ reset_progress(t) \/ try_begin(t)
    PROVE  IInv'
<1>1. thread[t].pc \in {"free", "progress", "begin"} /\ thread[t].pc \in Outer
    BY DEF request, reset_progress, try_begin, Outer
<1>2. UNCHANGED <<settings, databricks, stored, faults, doubled, broken>>
    BY DEF request, reset_progress, try_begin, history
<1>3. in_flight \in BOOLEAN /\ escaped \in BOOLEAN
    BY DEF IInv, TypeOK, Values
<1>4. ASSUME NEW pc \in {"progress", "begin", "claim"}, Goto(t, pc), escaped' = escaped,
             in_flight' \in BOOLEAN, in_flight => in_flight', pc = "claim" => ~in_flight /\ in_flight',
             progress' \in {progress, "running"}
      PROVE  IInv'
    <2>1. PICK x \in Thread : Becomes(t, x) /\ x.pc = pc /\ Tidy(x)
        BY <1>1, <1>4, GotoOuter
    <2>2. x.pc \in Outer \cup {"claim"} /\ x.pc # "free"
        BY <2>1 DEF Outer
    <2> QED
        BY <1>1, <1>2, <1>3, <1>4, <2>1, <2>2, OuterStep
<1>5. CASE request(t)
    <2>1. ~in_flight /\ escaped' = escaped
        BY <1>5 DEF request, history
    <2>2. CASE driver = "user"
        <3>1. in_flight' = TRUE /\ progress' = "running" /\ Goto(t, "claim")
            BY <1>5, <2>2 DEF request
        <3> QED
            BY <1>4, <2>1, <3>1
    <2>3. CASE driver # "user"
        <3>1. in_flight' = in_flight /\ progress' = progress /\ Goto(t, "progress")
            BY <1>5, <2>3 DEF request
        <3> QED
            BY <1>3, <1>4, <2>1, <3>1
    <2> QED
        BY <2>2, <2>3
<1>6. CASE reset_progress(t)
    <2>1. progress' = "running" /\ Goto(t, "begin") /\ in_flight' = in_flight /\ escaped' = escaped
        BY <1>6 DEF reset_progress, history
    <2> QED
        BY <1>3, <1>4, <2>1
<1>7. CASE try_begin(t)
    <2>1. progress' = progress
        BY <1>7 DEF try_begin
    <2>2. CASE in_flight
        <3>1. thread' = [thread EXCEPT ![t] = Free] /\ escaped' = TRUE /\ in_flight' = in_flight
            BY <1>7, <2>2 DEF try_begin
        <3>2. Becomes(t, Free)
            BY <3>1 DEF Becomes
        <3>3. Free \in Thread /\ Tidy(Free) /\ Free.pc = "free"
            BY FreeThread
        <3>4. Free.pc \in Outer \cup {"claim"} /\ Free.pc # "claim"
            BY <3>3 DEF Outer
        <3>5. escaped' \in BOOLEAN /\ in_flight' \in BOOLEAN
            BY <1>3, <3>1
        <3> QED
            BY <1>1, <1>2, <2>1, <3>1, <3>2, <3>3, <3>4, <3>5, OuterStep
    <2>3. CASE ~in_flight
        <3>1. in_flight' = TRUE /\ Goto(t, "claim") /\ escaped' = escaped
            BY <1>7, <2>3 DEF try_begin
        <3> QED
            BY <1>4, <2>1, <2>3, <3>1
    <2> QED
        BY <2>2, <2>3
<1> QED
    BY <1>5, <1>6, <1>7

\* After a restart nothing runs and nothing is shown.
LEMMA RestartKeeps ==
    ASSUME IInv, Restart
    PROVE  IInv'
<1>1. /\ thread' = [t \in Threads |-> Free] /\ progress' = "none" /\ in_flight' = FALSE
      /\ broken' = (broken \/ \E t \in Threads : thread[t].deleted)
      /\ UNCHANGED <<driver, create_workflows, objects, visible, named, row, status, doubled, escaped>>
    BY DEF Restart, settings, databricks, stored
<1>2. Free \in Thread /\ Tidy(Free) /\ Free.pc = "free"
    BY FreeThread
<1>3. \A t \in Threads : thread'[t] = Free
    BY <1>1
<1>4. TypeOK'
    <2>1. faults' \in 0..MaxFaults
        BY FaultCounts DEF Restart, IInv
    <2>2. broken' \in BOOLEAN
        BY <1>1
    <2>3. Values'
        BY <1>1, <2>1, <2>2 DEF IInv, TypeOK, Values
    <2>4. thread' \in [Threads -> Thread]
        BY <1>1, <1>2
    <2> QED
        BY <2>3, <2>4 DEF TypeOK
<1>5. Alone'
    BY <1>2, <1>3 DEF Alone, Outer
<1>6. Relied'
    <2>1. Free.pc \in Early
        BY <1>2 DEF Early, Outer
    <2>2. \A t \in Threads : Tidy(thread'[t])
                /\ Made(thread'[t], objects', visible', named', row', status', doubled')
        BY <1>2, <1>3, <2>1, EarlyMade
    <2> QED
        BY <1>1, <2>2, ZenonT(30) DEF Relied, Tidy, Made, Looked
<1>7. Finished' /\ Shown'
    BY <1>1 DEF Finished, CompleteMeansUsable, Shown
<1>8. OneOfEachName' /\ MissingOnlyWhenReplaced'
    <2>1. OneOfEachName'
        BY <1>1 DEF IInv, OneOfEachName
    <2>2. \A t \in Threads : thread[t].deleted => broken' \/ thread'[t].deleted
        BY <1>1
    <2> QED
        BY <1>1, <2>1, <2>2, NotMissing
<1> QED
    BY <1>4, <1>5, <1>6, <1>7, <1>8 DEF IInv

\* The volume appears, which every thread that relies on it has already seen.
LEMMA AppearsKeeps ==
    ASSUME IInv, VolumeAppears
    PROVE  IInv'
<1>1. /\ visible' = TRUE
      /\ UNCHANGED <<driver, create_workflows, objects, named, row, status, progress, in_flight, thread,
                     faults, doubled, escaped, broken>>
    BY DEF VolumeAppears, settings, stored, history
<1>2. TypeOK'
    BY <1>1 DEF IInv, TypeOK, Values
<1>3. Alone' /\ Shown' /\ OneOfEachName' /\ MissingOnlyWhenReplaced'
    BY <1>1 DEF IInv, Alone, Shown, OneOfEachName, MissingOnlyWhenReplaced, Exists
<1>4. Relied'
    <2>1. ASSUME NEW x, Made(x, objects, visible, named, row, status, doubled)
          PROVE  Made(x, objects, TRUE, named, row, status, doubled)
        BY <2>1 DEF Made
    <2>2. \A t \in Threads : Tidy(thread[t]) /\ Made(thread[t], objects, TRUE, named, row, status, doubled)
        BY <2>1 DEF IInv, Relied
    <2>3. \A t \in Threads : Tidy(thread'[t])
                /\ Made(thread'[t], objects', visible', named', row', status', doubled')
        BY <1>1, <2>2
    <2> QED
        BY <1>1, <2>3, ZenonT(30) DEF Relied, Tidy, Made, Looked
<1>5. Finished'
    BY <1>1 DEF IInv, Finished, CompleteMeansUsable, Exists
<1> QED
    BY <1>2, <1>3, <1>4, <1>5 DEF IInv

-----------------------------------------------------------------------------
(* What follows *)

LEMMA InitHolds == Init => IInv
<1> SUFFICES ASSUME Init
             PROVE  IInv
    OBVIOUS
<1>1. Free \in Thread /\ Tidy(Free) /\ Free.pc = "free" /\ Free.deleted = FALSE
    BY FreeThread
<1>2. \A t \in Threads : thread[t] = Free
    BY DEF Init
<1>3. TypeOK
    <2>1. thread \in [Threads -> Thread]
        BY <1>1 DEF Init
    <2>2. row \in [Names -> Ids \cup {Null}]
        BY DEF Init, NoIds
    <2>3. \A n \in Names : IsFiniteSet(named[n])
        BY FS_EmptySet DEF Init
    <2>4. 0 \in 0..MaxFaults
        BY BootstrapAssumption
    <2>5. Values
        BY <2>2, <2>3, <2>4 DEF Init, Values
    <2> QED
        BY <2>1, <2>5 DEF TypeOK
<1>4. Alone
    BY <1>1, <1>2 DEF Alone, Outer
<1>5. Relied
    <2>1. Free.pc \in Early
        BY <1>1 DEF Early, Outer
    <2>2. \A t \in Threads : Made(thread[t], objects, visible, named, row, status, doubled)
        BY <1>2, <2>1, EarlyMade
    <2> QED
        BY <1>1, <1>2, <2>2 DEF Relied
<1>6. Finished /\ Shown
    BY DEF Init, Finished, CompleteMeansUsable, Shown
<1>7. OneOfEachName
    <2>1. \A n \in Names : named[n] = {} /\ doubled[n] = 0
        BY DEF Init
    <2>2. \A n \in Names : Cardinality(named[n]) = 0 /\ doubled[n] = 0
        BY <2>1, NoneLeft
    <2> QED
        BY <2>2 DEF OneOfEachName, Names
<1>8. MissingOnlyWhenReplaced
    BY DEF Init, NoIds, MissingOnlyWhenReplaced, Names
<1> QED
    BY <1>3, <1>4, <1>5, <1>6, <1>7, <1>8 DEF IInv

LEMMA StepKeeps ==
    ASSUME IInv, [Next]_vars
    PROVE  IInv'
<1>1. ASSUME NEW t \in Threads, request(t)
      PROVE  IInv'
    BY <1>1, RequestKeeps
<1>2. ASSUME NEW t \in Threads, ThreadStep(t)
      PROVE  IInv'
    <2>1. CASE reset_progress(t) \/ try_begin(t)
        BY <2>1, RequestKeeps
    <2>2. CASE run_all(t)
        BY <2>2, RunAllKeeps
    <2>3. CASE validate_workspace(t) \/ ensure_warehouse_running(t) \/ validate_metastore(t) \/ verify_catalog(t)
        BY <2>3, ChecksKeep
    <2>4. CASE \/ ensure_bronze_schema(t) \/ ensure_volume(t) \/ ensure_meta_tables(t)
               \/ upload_pk_config(t) \/ upload_notebooks(t)
        BY <2>4, EnsureKeeps
    <2>5. CASE validate_volume_path(t)
        <3>1. thread[t].pc \in {"path", "path again"}
            BY <2>5 DEF validate_volume_path
        <3>2. CASE visible \/ thread[t].pc = "path"
            BY <2>5, <3>1, <3>2, PathAndArtifactsKeep
        <3>3. CASE ~visible /\ thread[t].pc = "path again"
            BY <2>5, <3>3, FailKeeps
        <3> QED
            BY <3>1, <3>2, <3>3
    <2>6. CASE ensure_pipelines(t)
        <3>1. CASE Find(t, "find A", "A", "put A") \/ Find(t, "find B", "B", "put B")
            BY <3>1, FindKeeps
        <3>2. CASE \/ get_or_create_pipeline(t, "put A", "A", "find B")
                   \/ get_or_create_pipeline(t, "put B", "B", IF create_workflows THEN "find S" ELSE "save")
            BY <3>2, PipelineKeeps
        <3> QED
            BY <2>6, <3>1, <3>2 DEF ensure_pipelines
    <2>7. CASE ensure_sync_workflows(t)
        <3>1. CASE Find(t, "find S", "S", "delete S") \/ Find(t, "find C", "C", "delete C")
            BY <3>1, FindKeeps
        <3>2. CASE delete_job(t, "delete S", "S", "create S") \/ delete_job(t, "delete C", "C", "create C")
            BY <3>2, DeleteKeeps
        <3>3. CASE create_combined_snapshot_workflow(t) \/ create_sync_workflow(t)
            BY <3>3, WorkflowKeeps
        <3> QED
            BY <2>7, <3>1, <3>2, <3>3 DEF ensure_sync_workflows
    <2>8. CASE save_bootstrap(t) \/ set_pipeline_ids(t)
        BY <2>8, SaveKeeps
    <2>9. CASE update_claim_artifacts(t)
        BY <2>9, PathAndArtifactsKeep
    <2>10. CASE mark_ready(t)
        BY <2>10, ReadyKeeps
    <2>11. CASE Complete(t)
        BY <2>11, CompleteKeeps
    <2>12. CASE ResetStatus(t) \/ end_bootstrap(t)
        BY <2>12, EndKeeps
    <2> QED
        BY <1>2, <2>1, <2>2, <2>3, <2>4, <2>5, <2>6, <2>7, <2>8, <2>9, <2>10, <2>11, <2>12 DEF ThreadStep
<1>3. ASSUME NEW t \in Threads, Fail(t)
      PROVE  IInv'
    BY <1>3, FailKeeps
<1>4. CASE Restart
    BY <1>4, RestartKeeps
<1>5. CASE VolumeAppears
    BY <1>5, AppearsKeeps
<1>6. CASE UNCHANGED vars
    <2>1. UNCHANGED <<driver, create_workflows, objects, visible, named, row, status, progress, in_flight,
                      thread, faults, doubled, escaped, broken>>
        BY <1>6 DEF vars
    <2>2. TypeOK' /\ Alone' /\ Shown' /\ OneOfEachName' /\ MissingOnlyWhenReplaced'
        BY <2>1 DEF IInv, TypeOK, Values, Alone, Shown, OneOfEachName, MissingOnlyWhenReplaced, Exists
    <2>3. Relied'
        <3>1. \A t \in Threads : Tidy(thread'[t])
                    /\ Made(thread'[t], objects', visible', named', row', status', doubled')
            BY <2>1 DEF IInv, Relied
        <3> QED
            BY <2>1, <3>1, ZenonT(30) DEF Relied, Tidy, Made, Looked
    <2>4. Finished'
        BY <2>1 DEF IInv, Finished, CompleteMeansUsable, Exists
    <2> QED
        BY <2>2, <2>3, <2>4 DEF IInv
<1> QED
    BY <1>1, <1>2, <1>3, <1>4, <1>5, <1>6 DEF Next

\* Every behaviour of the bootstrap satisfies the inductive invariant: one thread inside,
\* and what each step has left relied on by those that follow.
THEOREM BootstrapHolds == Spec => []IInv
<1> QED
    BY InitHolds, StepKeeps, PTL DEF Spec

\* "Bootstrap complete!" is true: the five objects exist, the volume is visible, the
\* stored pipelines and workflows are those at Databricks, the connection is ready.
THEOREM CompleteIsUsable == Spec => []CompleteMeansUsable
<1>1. IInv => CompleteMeansUsable
    BY DEF IInv, Finished
<1> QED
    BY <1>1, BootstrapHolds, PTL

\* However many threads bootstrap, however often they fail: one pipeline of each name,
\* and one job more for each creation whose answer was lost.
THEOREM NamesAreUsedOnce == Spec => []OneOfEachName
<1>1. IInv => OneOfEachName
    BY DEF IInv
<1> QED
    BY <1>1, BootstrapHolds, PTL

\* A stored workflow is missing at Databricks only while it is replaced, or after a
\* bootstrap that broke off between its deletion and the save.
THEOREM MissingIsReplaced == Spec => []MissingOnlyWhenReplaced
<1>1. IInv => MissingOnlyWhenReplaced
    BY DEF IInv
<1> QED
    BY <1>1, BootstrapHolds, PTL

\* The wizard does not poll for ever: a bootstrap shown as running has a thread that runs,
\* or an exception escaped the connection's driver.
THEOREM RunningIsRun == Spec => []EndIsShown
<1>1. IInv => EndIsShown
    BY DEF IInv, Shown, EndIsShown
<1> QED
    BY <1>1, BootstrapHolds, PTL

=============================================================================
