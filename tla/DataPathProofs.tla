---------------------------- MODULE DataPathProofs ----------------------------
(***************************************************************************)
(* The way of the data of a run: what the export and the download of its   *)
(* folders guarantee, for any set of files and any number of faults, and   *)
(* what the notebooks guarantee that ingest the folders, for any projects, *)
(* updates, seed tasks and events.                                         *)
(*                                                                         *)
(* Export.  Neither of the three invariants is inductive.  RequestedOnce   *)
(* needs to know which exports of the run have not been asked for yet      *)
(* (Counted); the two about folders need to know how far a folder is on    *)
(* each of the two paths: Flask fills it file by file (Copied), the        *)
(* notebook from downloads that only touch listed files and that are over  *)
(* before the task ends (Fetched, Ended).                                  *)
(*                                                                         *)
(* Bronze tables.  Nor are the three of BronzeTables inductive.            *)
(* SeedFollowsConfig needs to know that as long as no configuration comes  *)
(* back every seeding works on the current file, and that a stored hash of *)
(* it means that its rows are there (Followed).  OneKeyUnlessConfigured    *)
(* needs that while nobody changes the key of a table, the file, the       *)
(* stored hashes and the seedings list the same one, that its row does not *)
(* change once it is there (Listed), and that an update took that row past *)
(* the gate (Keyed).  UnsafeTypeWasTold needs that the hash of a file is   *)
(* stored only by an update that has told of it (HashesTold), and what an  *)
(* update on its way to the flow has seen (Noted).                         *)
(***************************************************************************)
EXTENDS DcExport, BronzeTables, FiniteSetTheorems, TLAPS

Asking == {"post", "wait", "poll", "list", "land"}
Waiting == Asking \ {"post"}
Todo == {<<"snapshot", "cdc">>, <<"cdc">>, <<>>}
Request == [of: Exports, job: {"none", "running", "complete", "failed"}]

TypeOK ==
    /\ notebook \in BOOLEAN
    /\ todo \in Todo
    /\ pc \in Asking \cup {"workflow", "pipeline", "failed"}
    /\ attempt \in 1..MaxPosts
    /\ requests \in Seq(Request)
    /\ mine \in {Null} \cup Nat
    /\ listed \in [Exports -> {Null} \cup SUBSET Files]
    /\ left \in SUBSET Files
    /\ url \in [Exports -> [Files -> {"none", "fresh", "stale"}]]
    /\ folder \in [Exports -> [Files -> {"none", "part", "whole"}]]
    /\ pool \in [Exports -> [Files -> {"queued", "open", "ok", "bad"}]]
    /\ tries \in [Exports -> [Files -> Nat]]
    /\ task \in [Exports -> {"none", "running", "done", "failed", "killed"}]
    /\ faults \in 0..MaxFaults
    /\ unanswered \in [Exports -> Nat]
    /\ uncleaned \in SUBSET Exports

\* The positions in s of the requests of export x: Of(x) is OfIn(requests, x).
OfIn(s, x) == {r \in DOMAIN s : s[r].of = x}

\* Export x is still to be asked for: every request of it went unanswered.
ToAsk(x) == (pc = "post" /\ x = Current) \/ (pc \in Asking /\ Len(todo) = 2 /\ x = "cdc")

\* The requests of every export, and the one the run waits for.
Counted ==
    /\ \A x \in Exports : Cardinality(OfIn(requests, x)) <= unanswered[x] + IF ToAsk(x) THEN 0 ELSE 1
    /\ pc \in Waiting => mine = Len(requests) /\ mine > 0 /\ requests[mine].of = Current

\* On the Flask path a listed file is in the folder, unless the copying of its export
\* is going on or was given up.
Copied ==
    ~notebook =>
        \A x \in Exports : listed[x] # Null => \A f \in listed[x] :
            folder[x][f] = "whole" \/ (pc = "land" /\ x = Current /\ f \in left) \/ pc = "failed"

\* No task runs before the workflow, and then one for each listed export.
Started ==
    /\ pc \in Asking => todo # <<>> /\ \A x \in Exports : task[x] = "none"
    /\ ~notebook => \A x \in Exports : task[x] = "none"
    /\ notebook /\ pc \in {"workflow", "pipeline"} =>
          \A x \in Exports : listed[x] # Null => task[x] # "none"
    /\ notebook /\ pc = "pipeline" => \A x \in Tasks : task[x] = "done"

\* A download is one of a listed file, and has the file whole when it is over.
Fetched ==
    \A x \in Exports : \A f \in Files : pool[x][f] # "queued" =>
        /\ task[x] # "none" /\ f \in listed[x]
        /\ pool[x][f] = "ok" => folder[x][f] = "whole" \/ task[x] = "failed"

\* A task that has ended has left no download behind, and one that failed no file.
Ended ==
    \A x \in Exports :
        /\ task[x] \in {"done", "failed"} => Settled(x)
        /\ task[x] = "done" => AllOk(x)
        /\ task[x] = "killed" => x \in uncleaned
        /\ task[x] = "failed" /\ x \notin uncleaned => \A f \in Files : folder[x][f] = "none"

IInv == TypeOK /\ Counted /\ Copied /\ Started /\ Fetched /\ Ended
-----------------------------------------------------------------------------
(* Facts about the pieces *)

\* What is left of a run's exports after the current one.
LEMMA TodoFacts ==
    ASSUME NEW t \in Todo, t # <<>>
    PROVE  /\ Tail(t) \in Todo /\ Head(t) \in Exports
           /\ Len(t) = 2 => Head(t) = "snapshot" /\ Tail(t) = <<"cdc">>
                            /\ Head(Tail(t)) = "cdc" /\ Tail(t) # <<>>
           /\ Len(t) # 2 => Tail(t) = <<>> /\ Len(t) = 1
           /\ Len(Tail(t)) # 2
<1>1. CASE t = <<"snapshot", "cdc">>
  <2>1. /\ Tail(<<"snapshot", "cdc">>) = <<"cdc">> /\ Head(<<"snapshot", "cdc">>) = "snapshot"
        /\ Len(<<"snapshot", "cdc">>) = 2
    OBVIOUS
  <2>2. Head(<<"cdc">>) = "cdc" /\ <<"cdc">> # <<>> /\ Len(<<"cdc">>) = 1 /\ 1 # 2  OBVIOUS
  <2>3. QED  BY ONLY <1>1, <2>1, <2>2, Zenon DEF Todo, Exports
<1>2. CASE t = <<"cdc">>
  <2>1. Tail(<<"cdc">>) = <<>> /\ Head(<<"cdc">>) = "cdc" /\ Len(<<"cdc">>) = 1  OBVIOUS
  <2>2. Len(<<>>) = 0 /\ 0 # 2 /\ 1 # 2  OBVIOUS
  <2>3. QED  BY ONLY <1>2, <2>1, <2>2, Zenon DEF Todo, Exports
<1>3. QED  BY <1>1, <1>2 DEF Todo

\* The requests of one export in a sequence are finitely many; one request more adds
\* at most one to those of its own export, and none to the others.
LEMMA AppendCounts ==
    ASSUME NEW s \in Seq(Request), NEW e \in Request, NEW x
    PROVE  /\ Cardinality(OfIn(s, x)) \in Nat /\ Cardinality(OfIn(Append(s, e), x)) \in Nat
           /\ e.of # x => OfIn(Append(s, e), x) = OfIn(s, x)
           /\ Cardinality(OfIn(Append(s, e), x)) <= Cardinality(OfIn(s, x)) + 1
<1>1. IsFiniteSet(OfIn(s, x))
  <2>1. OfIn(s, x) \in SUBSET (1..Len(s)) /\ Len(s) \in Nat  BY DEF OfIn
  <2>2. IsFiniteSet(1..Len(s))  BY <2>1, FS_Interval
  <2>3. QED  BY <2>1, <2>2, FS_Subset
<1>2. e.of # x => OfIn(Append(s, e), x) = OfIn(s, x)  BY DEF OfIn
<1>3. e.of = x => OfIn(Append(s, e), x) = OfIn(s, x) \cup {Len(s) + 1}  BY DEF OfIn
<1>4. Cardinality(OfIn(s, x)) \in Nat  BY <1>1, FS_CardinalityType
<1>5. /\ Cardinality(OfIn(s, x) \cup {Len(s) + 1}) \in Nat
      /\ Cardinality(OfIn(s, x) \cup {Len(s) + 1}) <= Cardinality(OfIn(s, x)) + 1
  BY <1>1, <1>4, FS_AddElement
<1>6. Cardinality(OfIn(s, x)) <= Cardinality(OfIn(s, x)) + 1  BY <1>4
<1>7. CASE e.of = x
  <2>1. OfIn(Append(s, e), x) = OfIn(s, x) \cup {Len(s) + 1}  BY <1>7, <1>3
  <2>2. QED  BY <1>7, <2>1, <1>4, <1>5, Zenon
<1>8. CASE e.of # x  BY <1>8, <1>2, <1>4, <1>6, Zenon
<1>9. QED  BY <1>7, <1>8

-----------------------------------------------------------------------------
(* The initial states *)

LEMMA InitIInv == Init => IInv
<1> SUFFICES ASSUME Init  PROVE IInv
  OBVIOUS
<1>1. todo \in Todo /\ todo # <<>>
  <2>1. <<"snapshot", "cdc">> # <<>> /\ <<"cdc">> # <<>>  OBVIOUS
  <2>2. QED  BY <2>1, Zenon DEF Init, Todo
<1>2. TypeOK  BY <1>1, ExportAssumption DEF Init, TypeOK, Asking, MaxPosts, Each, Exports
<1>3. Counted
  <2>1. \A x : OfIn(requests, x) = {}  BY DEF Init, OfIn
  <2>2. ASSUME NEW x \in Exports
        PROVE  Cardinality(OfIn(requests, x)) <= unanswered[x] + IF ToAsk(x) THEN 0 ELSE 1
    <3>1. Cardinality(OfIn(requests, x)) = 0 /\ unanswered[x] = 0  BY <2>1, FS_EmptySet DEF Init
    <3>2. QED  BY <3>1
  <2>3. pc \notin Waiting  BY DEF Init, Waiting
  <2>4. QED  BY <2>2, <2>3 DEF Counted
<1>4. Copied /\ Started /\ Fetched /\ Ended
  BY <1>1 DEF Init, Copied, Started, Fetched, Ended, Each, Asking, Exports
<1>5. QED  BY <1>2, <1>3, <1>4 DEF IInv

-----------------------------------------------------------------------------
(* What most steps leave alone *)

\* Steps that ask, wait or give up do not touch folders.
LEMMA FilesFrame ==
    ASSUME Copied, Started, Fetched, Ended,
           UNCHANGED <<notebook, todo, listed, left, volume>>,
           (pc \in Asking \ {"land"} /\ pc' \in Asking) \/ pc' = "failed"
    PROVE  Copied' /\ Started' /\ Fetched' /\ Ended'
<1>1. Copied'
  BY DEF Copied, Current, volume, Asking
<1>2. Started'  BY DEF Started, volume, Asking
<1>3. Fetched'  BY DEF Fetched, volume
<1>4. Ended'  BY DEF Ended, volume, Settled, AllOk
<1>5. QED  BY <1>1, <1>2, <1>3, <1>4

\* Only posting a request and going on to the next export change the counts.
LEMMA CountFrame ==
    ASSUME TypeOK, Counted,
           UNCHANGED <<todo, requests, mine, unanswered>>,
           \/ pc' = pc
           \/ pc \in Waiting /\ pc' \in Waiting
           \/ pc' \notin Asking
    PROVE  Counted'
<1>1. ASSUME NEW x \in Exports
      PROVE  Cardinality(OfIn(requests, x)') <= unanswered'[x] + IF ToAsk(x)' THEN 0 ELSE 1
  <2>1. Cardinality(OfIn(requests, x)) <= unanswered[x] + IF ToAsk(x) THEN 0 ELSE 1
    BY DEF Counted
  <2>2. OfIn(requests, x)' = OfIn(requests, x)  BY DEF OfIn
  <2>3. unanswered[x] \in Nat /\ unanswered' = unanswered  BY DEF TypeOK
  <2>4. ToAsk(x)' => ToAsk(x)  BY DEF ToAsk, Current, Waiting, Asking
  <2>5. Cardinality(OfIn(requests, x)) \in Nat
    <3>1. requests \in Seq(Request)  BY DEF TypeOK
    <3>2. [of |-> "cdc", job |-> "none"] \in Request  BY DEF Request, Exports
    <3>3. QED  BY <3>1, <3>2, AppendCounts
  <2>6. QED  BY <2>1, <2>2, <2>3, <2>4, <2>5
<1>2. pc' \in Waiting => mine' = Len(requests') /\ mine' > 0 /\ requests'[mine'].of = Current'
  BY DEF Counted, Waiting, Asking, Current
<1>3. QED  BY <1>1, <1>2 DEF Counted

-----------------------------------------------------------------------------
(* One lemma per step of the run *)

\* A request is made, and perhaps again.
LEMMA PostStep ==
    ASSUME IInv, _dc_create_request
    PROVE  IInv'
<1> USE DEF IInv
<1> DEFINE e == [of |-> Current, job |-> "none"]
<1>1. /\ pc = "post" /\ todo \in Todo /\ todo # <<>> /\ requests \in Seq(Request)
      /\ Current \in Exports /\ e \in Request
  <2>1. pc = "post" /\ todo \in Todo /\ todo # <<>> /\ requests \in Seq(Request)
    BY DEF _dc_create_request, TypeOK, Started, Asking
  <2>2. Current \in Exports  BY <2>1, TodoFacts DEF Current
  <2>3. QED  BY <2>1, <2>2 DEF Request
<1>2. NewRequest = Append(requests, e)  BY DEF NewRequest
<1> HIDE DEF e
<1>3. TypeOK'
  <2>1. Append(requests, e) \in Seq(Request) /\ Len(requests) + 1 \in Nat  BY <1>1
  <2>2. unanswered \in [Exports -> Nat]  BY DEF TypeOK
  <2>3. [unanswered EXCEPT ![Current] = unanswered[Current] + 1] \in [Exports -> Nat]  BY <2>2, <1>1
  <2>4. /\ pc' \in Asking \cup {"workflow", "pipeline", "failed"} /\ attempt' \in 1..MaxPosts
    BY <1>1 DEF TypeOK, _dc_create_request, Asking, Raise, MaxPosts
  <2>5. requests' \in Seq(Request)
    <3>1. requests' = Append(requests, e) \/ requests' = requests  BY <1>2 DEF _dc_create_request
    <3>2. QED  BY <3>1, <2>1, <1>1
  <2>6. mine' \in {Null} \cup Nat  BY <2>1 DEF TypeOK, _dc_create_request
  <2>7. faults' \in 0..MaxFaults  BY ExportAssumption DEF TypeOK, _dc_create_request, Fault
  <2>8. unanswered' \in [Exports -> Nat]
    <3>1. unanswered' = unanswered \/ unanswered' = [unanswered EXCEPT ![Current] = unanswered[Current] + 1]
      BY DEF _dc_create_request
    <3>2. QED  BY <3>1, <2>2, <2>3
  <2>9. UNCHANGED <<notebook, todo, listed, left, volume>>  BY DEF _dc_create_request
  <2>10. QED  BY <2>4, <2>5, <2>6, <2>7, <2>8, <2>9 DEF TypeOK, volume
<1>4. Counted'
  <2>1. \A x \in Exports : /\ Cardinality(OfIn(requests, x)) \in Nat
                           /\ Cardinality(OfIn(Append(requests, e), x)) \in Nat
                           /\ x # Current => OfIn(Append(requests, e), x) = OfIn(requests, x)
                           /\ Cardinality(OfIn(Append(requests, e), x)) <= Cardinality(OfIn(requests, x)) + 1
    BY <1>1, AppendCounts DEF e
  <2>2. \A x \in Exports : unanswered[x] \in Nat
                           /\ Cardinality(OfIn(requests, x)) <= unanswered[x] + IF ToAsk(x) THEN 0 ELSE 1
    BY DEF Counted, TypeOK
  <2>3. UNCHANGED todo /\ ToAsk(Current)  BY <1>1 DEF _dc_create_request, ToAsk
  <2>4. \A x \in Exports : ToAsk(x)' => ToAsk(x)
    BY <1>1, <2>3 DEF ToAsk, Asking, Current
  <2>5. CASE requests' = NewRequest /\ mine' = Len(requests) + 1 /\ pc' = "wait" /\ UNCHANGED unanswered
    <3>1. ~ToAsk(Current)'
      BY <1>1, <2>3, <2>5, TodoFacts DEF ToAsk, Current
    <3>2. ASSUME NEW x \in Exports
          PROVE  Cardinality(OfIn(requests', x)) <= unanswered'[x] + IF ToAsk(x)' THEN 0 ELSE 1
      <4>1. CASE x = Current
        <5>1. ToAsk(x) /\ ~ToAsk(x)'  BY <4>1, <2>3, <3>1 DEF ToAsk, Current
        <5>2. QED  BY <5>1, <2>1, <2>2, <2>5, <1>2
      <4>2. CASE x # Current  BY <4>2, <2>1, <2>2, <2>4, <2>5, <1>2
      <4>3. QED  BY <4>1, <4>2
    <3>3. mine' = Len(requests') /\ mine' > 0 /\ requests'[mine'].of = Current'
      BY <1>1, <1>2, <2>3, <2>5 DEF Current, e
    <3>4. QED  BY <3>2, <3>3 DEF Counted, OfIn
  <2>6. CASE requests' = requests /\ UNCHANGED unanswered /\ pc' \in {"post", "failed"}
    <3>1. \A x \in Exports : Cardinality(OfIn(requests', x)) <= unanswered'[x] + IF ToAsk(x)' THEN 0 ELSE 1
      BY <2>1, <2>2, <2>4, <2>6
    <3>2. QED  BY <3>1, <2>6 DEF Counted, OfIn, Waiting, Asking
  <2>7. CASE /\ requests' = NewRequest /\ unanswered' = [unanswered EXCEPT ![Current] = @ + 1]
             /\ pc' \in {"post", "failed"}
    <3>1. unanswered \in [Exports -> Nat]  BY DEF TypeOK
    <3>2. ASSUME NEW x \in Exports
          PROVE  Cardinality(OfIn(requests', x)) <= unanswered'[x] + IF ToAsk(x)' THEN 0 ELSE 1
      <4>1. CASE x = Current
        <5>1. ToAsk(x) /\ unanswered'[x] = unanswered[x] + 1  BY <4>1, <2>3, <2>7, <3>1
        <5>2. QED  BY <5>1, <2>1, <2>2, <2>7, <1>2
      <4>2. CASE x # Current
        <5>1. unanswered'[x] = unanswered[x]  BY <4>2, <2>7, <3>1
        <5>2. QED  BY <4>2, <5>1, <2>1, <2>2, <2>4, <2>7, <1>2
      <4>3. QED  BY <4>1, <4>2
    <3>3. QED  BY <3>2, <2>7 DEF Counted, OfIn, Waiting, Asking
  <2>8. QED  BY <1>1, <2>5, <2>6, <2>7 DEF _dc_create_request, Raise
<1>5. Copied' /\ Started' /\ Fetched' /\ Ended'
  <2>1. UNCHANGED <<notebook, todo, listed, left, volume>> /\ pc' \in Asking \cup {"failed"}
    BY <1>1 DEF _dc_create_request, Raise, Asking
  <2>2. pc \in Asking \ {"land"}  BY <1>1 DEF Asking
  <2>3. QED  BY <2>1, <2>2, FilesFrame
<1>6. QED  BY <1>3, <1>4, <1>5

\* The run waits for its job, gives up, or fails.
LEMMA WaitStep ==
    ASSUME IInv, dc_wait_for_job \/ dc_poll_job \/ Fails \/ WorkflowFails
    PROVE  IInv'
<1> USE DEF IInv
<1>1. UNCHANGED <<notebook, todo, acc, listed, left, volume>>
  BY DEF dc_wait_for_job, dc_poll_job, Fails, WorkflowFails
<1>2. \/ pc \in {"wait", "poll"} /\ pc' \in {"poll", "list"}
      \/ pc' = "failed"
  BY DEF dc_wait_for_job, dc_poll_job, Fails, WorkflowFails, Raise
<1>3. faults' \in 0..MaxFaults
  BY ExportAssumption DEF TypeOK, dc_wait_for_job, dc_poll_job, Fails, WorkflowFails, Fault
<1>4. TypeOK'  BY <1>1, <1>2, <1>3 DEF TypeOK, acc, volume, Asking
<1>5. Counted'
  <2>1. UNCHANGED <<todo, requests, mine, unanswered>>  BY <1>1 DEF acc
  <2>2. (pc \in Waiting /\ pc' \in Waiting) \/ pc' \notin Asking  BY <1>2 DEF Waiting, Asking
  <2>3. QED  BY <2>1, <2>2, CountFrame
<1>6. Copied' /\ Started' /\ Fetched' /\ Ended'
  <2>1. (pc \in Asking \ {"land"} /\ pc' \in Asking) \/ pc' = "failed"  BY <1>2 DEF Asking
  <2>2. QED  BY <1>1, <2>1, FilesFrame
<1>7. QED  BY <1>4, <1>5, <1>6

\* The files of the job are listed.
LEMMA ListStep ==
    ASSUME IInv, dc_list_files
    PROVE  IInv'
<1> USE DEF IInv
<1>1. PICK files \in SUBSET Files : listed' = [listed EXCEPT ![Current] = files] /\ left' = files
  BY DEF dc_list_files
<1>2. /\ pc = "list" /\ pc' = "land"
      /\ UNCHANGED <<notebook, todo, acc, volume, faults>>
  BY DEF dc_list_files
<1>3. todo \in Todo /\ todo # <<>> /\ Current \in Exports
  <2>1. todo \in Todo /\ todo # <<>>  BY <1>2 DEF TypeOK, Started, Asking
  <2>2. QED  BY <2>1, TodoFacts DEF Current
<1>4. listed \in [Exports -> {Null} \cup SUBSET Files]  BY DEF TypeOK
<1>5. TypeOK'  BY <1>1, <1>2, <1>3, <1>4 DEF TypeOK, acc, volume, Asking
<1>6. Counted'
  <2>1. UNCHANGED <<todo, requests, mine, unanswered>> /\ pc \in Waiting /\ pc' \in Waiting
    BY <1>2 DEF acc, Waiting, Asking
  <2>2. QED  BY <2>1, CountFrame
<1>7. \A x \in Exports : task[x] = "none"  BY <1>2 DEF Started, Asking
<1>8. Copied'
  <2>1. ASSUME ~notebook, NEW x \in Exports, listed'[x] # Null, NEW f \in listed'[x]
        PROVE  folder[x][f] = "whole" \/ (x = Current /\ f \in left')
    <3>1. CASE x = Current  BY <3>1, <2>1, <1>1, <1>4
    <3>2. CASE x # Current
      <4>1. listed'[x] = listed[x]  BY <3>2, <1>1, <1>4
      <4>2. QED  BY <4>1, <2>1, <1>2 DEF Copied
    <3>3. QED  BY <3>1, <3>2
  <2>2. UNCHANGED <<notebook, folder, todo>>  BY <1>2 DEF volume
  <2>3. QED  BY <2>1, <2>2, <1>2 DEF Copied, Current
<1>9. Started'  BY <1>2, <1>3, <1>7 DEF Started, volume, Asking
<1>10. Fetched'  BY <1>2, <1>7 DEF Fetched, volume
<1>11. Ended'  BY <1>2, <1>7 DEF Ended, volume, Settled, AllOk
<1>12. QED  BY <1>5, <1>6, <1>8, <1>9, <1>10, <1>11

\* ACC moves a job.
LEMMA JobStep ==
    ASSUME IInv, NEW r \in DOMAIN requests, NEW from, NEW to \in {"running", "complete", "failed"},
           AccJob(r, from, to)
    PROVE  IInv'
<1> USE DEF IInv
<1>1. /\ requests' = [requests EXCEPT ![r].job = to]
      /\ UNCHANGED <<notebook, todo, pc, attempt, mine, listed, left, volume, faults, unanswered>>
  BY DEF AccJob
<1>2. requests \in Seq(Request)  BY DEF TypeOK
<1>3. requests' \in Seq(Request) /\ Len(requests') = Len(requests)
  <2>1. r \in 1..Len(requests) /\ requests[r] \in Request  BY <1>2
  <2>2. [requests[r] EXCEPT !.job = to] \in Request  BY <2>1 DEF Request
  <2>3. requests' = [requests EXCEPT ![r] = [requests[r] EXCEPT !.job = to]]  BY <1>1
  <2>4. QED  BY <1>2, <2>1, <2>2, <2>3
<1>4. \A i \in DOMAIN requests : requests'[i].of = requests[i].of
  BY <1>1, <1>2 DEF Request
<1>5. TypeOK'  BY <1>1, <1>3 DEF TypeOK, volume
<1>6. Counted'
  <2>1. \A x : OfIn(requests, x)' = OfIn(requests, x)
    <3>1. DOMAIN requests' = DOMAIN requests  BY <1>2, <1>3
    <3>2. QED  BY <3>1, <1>4 DEF OfIn
  <2>2. \A x : ToAsk(x)' = ToAsk(x)  BY <1>1 DEF ToAsk, Current
  <2>3. pc \in Waiting => mine \in DOMAIN requests
    BY <1>2 DEF Counted
  <2>4. QED  BY <1>1, <1>3, <1>4, <2>1, <2>2, <2>3 DEF Counted, Current
<1>7. Copied' /\ Started' /\ Fetched' /\ Ended'
  BY <1>1 DEF Copied, Started, Fetched, Ended, Current, Settled, AllOk, Tasks, volume
<1>8. QED  BY <1>5, <1>6, <1>7

\* Flask copies a file, or the notebook path signs a URL.
LEMMA LandStep ==
    ASSUME IInv, NEW f \in Files, _phase2_in_flask(f) \/ _phase2_via_notebook(f)
    PROVE  IInv'
<1> USE DEF IInv
<1>1. /\ pc = "land" /\ f \in left /\ left' = left \ {f}
      /\ UNCHANGED <<notebook, todo, pc, acc, listed, pool, tries, task, uncleaned, faults>>
  BY DEF _phase2_in_flask, _phase2_via_notebook
<1>2. todo \in Todo /\ todo # <<>> /\ Current \in Exports
  <2>1. todo \in Todo /\ todo # <<>>  BY <1>1 DEF TypeOK, Started, Asking
  <2>2. QED  BY <2>1, TodoFacts DEF Current
<1>3. \/ ~notebook /\ url' = url /\ folder' = [folder EXCEPT ![Current][f] = "whole"]
      \/ notebook /\ folder' = folder /\ url' = [url EXCEPT ![Current][f] = "fresh"]
  BY DEF _phase2_in_flask, _phase2_via_notebook
<1>4. /\ folder \in [Exports -> [Files -> {"none", "part", "whole"}]]
      /\ url \in [Exports -> [Files -> {"none", "fresh", "stale"}]]
  BY DEF TypeOK
<1>5. /\ folder' \in [Exports -> [Files -> {"none", "part", "whole"}]]
      /\ url' \in [Exports -> [Files -> {"none", "fresh", "stale"}]]
  <2>1. /\ [folder[Current] EXCEPT ![f] = "whole"] \in [Files -> {"none", "part", "whole"}]
        /\ [url[Current] EXCEPT ![f] = "fresh"] \in [Files -> {"none", "fresh", "stale"}]
    BY <1>2, <1>4
  <2>2. \/ folder' = folder
        \/ folder' = [folder EXCEPT ![Current] = [folder[Current] EXCEPT ![f] = "whole"]]
    BY <1>3
  <2>3. \/ url' = url
        \/ url' = [url EXCEPT ![Current] = [url[Current] EXCEPT ![f] = "fresh"]]
    BY <1>3
  <2>4. QED  BY <1>2, <1>4, <2>1, <2>2, <2>3, ZenonT(30)
<1>6. TypeOK'  BY <1>1, <1>5 DEF TypeOK, acc
<1>7. Counted'
  <2>1. UNCHANGED <<todo, requests, mine, unanswered>> /\ pc' = pc  BY <1>1 DEF acc
  <2>2. QED  BY <2>1, CountFrame
<1>8. \A x \in Exports : task[x] = "none"  BY <1>1 DEF Started, Asking
<1>9. Copied'
  <2>1. ASSUME ~notebook, NEW x \in Exports, listed[x] # Null, NEW g \in listed[x]
        PROVE  folder'[x][g] = "whole" \/ (x = Current /\ g \in left')
    <3>1. g \in Files  BY <2>1 DEF TypeOK
    <3>2. folder[x][g] = "whole" => folder'[x][g] = "whole"
      BY <2>1, <3>1, <1>2, <1>3, <1>4
    <3>3. CASE x = Current /\ g = f
      BY <3>3, <2>1, <3>1, <1>2, <1>3, <1>4
    <3>4. CASE ~(x = Current /\ g = f)
      <4>1. folder[x][g] = "whole" \/ (x = Current /\ g \in left)  BY <2>1, <1>1 DEF Copied
      <4>2. QED  BY <3>2, <3>4, <4>1, <1>1
    <3>5. QED  BY <3>3, <3>4
  <2>2. QED  BY <2>1, <1>1 DEF Copied, Current
<1>10. Started'  BY <1>1, <1>2, <1>8 DEF Started, Asking
<1>11. Fetched'  BY <1>1, <1>8 DEF Fetched
<1>12. Ended'  BY <1>1, <1>8 DEF Ended, Settled, AllOk
<1>13. QED  BY <1>6, <1>7, <1>9, <1>10, <1>11, <1>12

\* An export is done: the next one, the workflow or the pipelines follow.
LEMMA LandedStep ==
    ASSUME IInv, Landed
    PROVE  IInv'
<1> USE DEF IInv
<1>1. /\ pc = "land" /\ left = {} /\ todo' = Tail(todo) /\ mine' = Null
      /\ UNCHANGED <<notebook, attempt, requests, unanswered, listed, left, url, folder, pool,
                     tries, uncleaned, faults>>
  BY DEF Landed
<1>2. todo \in Todo /\ todo # <<>>  BY <1>1 DEF TypeOK, Started, Asking
<1>3. todo' \in Todo  BY <1>1, <1>2, TodoFacts
<1>4. \/ Len(todo) = 2 /\ pc' = "post"
      \/ Len(todo) # 2 /\ pc' \in {"pipeline", "workflow", "failed"}
  <2>1. CASE Len(todo) = 2  BY <2>1 DEF Landed
  <2>2. CASE Len(todo) # 2
    <3>1. Len(todo) = 1  BY <2>2, <1>2, TodoFacts
    <3>2. pc' \in {"pipeline", "workflow", "failed"}  BY <3>1 DEF Landed, Raise
    <3>3. QED  BY <2>2, <3>2
  <2>3. QED  BY <2>1, <2>2
<1>5. /\ pc' = "workflow" => notebook
      /\ pc' = "pipeline" => ~notebook
  BY DEF Landed, Raise
<1>6. \A x \in Exports : task[x] = "none"  BY <1>1 DEF Started, Asking
<1>7. task' = IF pc' # "workflow" THEN task
              ELSE [x \in Exports |-> IF listed[x] = Null THEN "none" ELSE "running"]
  BY DEF Landed
<1>8. \A x \in Exports : task'[x] \in {"none", "running"}  BY <1>6, <1>7
<1>9. task' \in [Exports -> {"none", "running", "done", "failed", "killed"}]
  BY <1>7 DEF TypeOK
<1>10. TypeOK'
  <2>1. pc' \in Asking \cup {"workflow", "pipeline", "failed"}  BY <1>4 DEF Asking
  <2>2. QED  BY <2>1, <1>1, <1>3, <1>9 DEF TypeOK
<1>11. Counted'
  <2>1. ASSUME NEW x \in Exports
        PROVE  Cardinality(OfIn(requests', x)) <= unanswered'[x] + IF ToAsk(x)' THEN 0 ELSE 1
    <3>1. ToAsk(x)' => ToAsk(x)
      <4>1. CASE Len(todo) = 2
        BY <4>1, <1>1, <1>2, TodoFacts DEF ToAsk, Current, Asking
      <4>2. CASE Len(todo) # 2
        BY <4>2, <1>4 DEF ToAsk, Asking
      <4>3. QED  BY <4>1, <4>2
    <3>2. unanswered[x] \in Nat /\ Cardinality(OfIn(requests, x)) \in Nat
      <4>1. requests \in Seq(Request)  BY DEF TypeOK
      <4>2. [of |-> "cdc", job |-> "none"] \in Request  BY DEF Request, Exports
      <4>3. Cardinality(OfIn(requests, x)) \in Nat  BY <4>1, <4>2, AppendCounts
      <4>4. QED  BY <4>3 DEF TypeOK
    <3>3. Cardinality(OfIn(requests, x)) <= unanswered[x] + IF ToAsk(x) THEN 0 ELSE 1
      BY DEF Counted
    <3>4. QED  BY <3>1, <3>2, <3>3, <1>1
  <2>2. pc' \notin Waiting  BY <1>4 DEF Waiting, Asking
  <2>3. QED  BY <2>1, <2>2 DEF Counted, OfIn
<1>12. Copied'
  <2>1. ~notebook => \A x \in Exports : listed[x] # Null => \A f \in listed[x] : folder[x][f] = "whole"
    BY <1>1 DEF Copied
  <2>2. QED  BY <2>1, <1>1 DEF Copied
<1>13. Started'
  <2>1. pc' \in Asking => todo' # <<>> /\ \A x \in Exports : task'[x] = "none"
    <3>1. pc' \in Asking => Len(todo) = 2 /\ pc' = "post"  BY <1>4 DEF Asking
    <3>2. Len(todo) = 2 => todo' # <<>>  BY <1>1, <1>2, TodoFacts
    <3>3. QED  BY <3>1, <3>2, <1>6, <1>7
  <2>2. ~notebook' => \A x \in Exports : task'[x] = "none"  BY <1>1, <1>5, <1>6, <1>7
  <2>3. notebook' /\ pc' \in {"workflow", "pipeline"} =>
          \A x \in Exports : listed'[x] # Null => task'[x] # "none"
    BY <1>1, <1>5, <1>7
  <2>4. ~(notebook' /\ pc' = "pipeline")  BY <1>1, <1>5
  <2>5. QED  BY <2>1, <2>2, <2>3, <2>4 DEF Started
<1>14. Fetched'  BY <1>1, <1>6 DEF Fetched
<1>15. Ended'  BY <1>8 DEF Ended
<1>16. QED  BY <1>10, <1>11, <1>12, <1>13, <1>14, <1>15

-----------------------------------------------------------------------------
(* One lemma per kind of step of the workflow *)

\* Downloads, tasks and URLs do not touch what the run has asked for.
LEMMA WorkflowFrame ==
    ASSUME IInv, UNCHANGED <<notebook, todo, pc, acc, listed, left>>
    PROVE  Counted' /\ (pc \in Asking => todo' # <<>>)
<1>1. UNCHANGED <<todo, requests, mine, unanswered>>  BY DEF acc
<1>2. Counted'  BY <1>1, CountFrame DEF IInv
<1>3. QED  BY <1>2 DEF IInv, Started

\* A download starts, ends or breaks; only the running tasks of the notebook path have any.
LEMMA DownloadStep ==
    ASSUME IInv, NEW x \in Exports, NEW f \in Files, Open(x, f) \/ Written(x, f) \/ Broken(x, f)
    PROVE  IInv'
<1> USE DEF IInv
<1>1. UNCHANGED <<notebook, todo, pc, acc, listed, left, url, task, uncleaned>>
  BY DEF Open, Written, Broken
<1>2. f \in listed[x] /\ task[x] \notin {"none", "done", "failed", "killed"}
  <2>1. CASE Open(x, f)
    <3>1. task[x] \notin {"none", "killed"} /\ f \in listed[x] /\ pool[x][f] = "queued"
      BY <2>1 DEF Open
    <3>2. QED  BY <3>1 DEF Ended, Settled
  <2>2. CASE Written(x, f) \/ Broken(x, f)
    <3>1. task[x] # "killed" /\ pool[x][f] = "open"  BY <2>2 DEF Written, Broken
    <3>2. task[x] # "none" /\ f \in listed[x]  BY <3>1 DEF Fetched
    <3>3. QED  BY <3>1, <3>2 DEF Ended, Settled
  <2>3. QED  BY <2>1, <2>2
<1>3. task[x] = "running"  BY <1>2 DEF TypeOK
<1>4. PICK p \in {"queued", "open", "ok", "bad"}, d \in {"none", "part", "whole"}, n \in Nat :
          /\ pool' = [pool EXCEPT ![x] = [pool[x] EXCEPT ![f] = p]]
          /\ folder' = [folder EXCEPT ![x] = [folder[x] EXCEPT ![f] = d]]
          /\ tries' = [tries EXCEPT ![x] = [tries[x] EXCEPT ![f] = n]]
          /\ p = "ok" => d = "whole"
  <2>1. /\ folder[x][f] \in {"none", "part", "whole"} /\ tries[x][f] \in Nat
        /\ folder = [folder EXCEPT ![x] = [folder[x] EXCEPT ![f] = folder[x][f]]]
        /\ tries = [tries EXCEPT ![x] = [tries[x] EXCEPT ![f] = tries[x][f]]]
    BY DEF TypeOK
  <2>2. CASE Open(x, f)
    <3>1. CASE url[x][f] = "stale"  BY <2>1, <2>2, <3>1 DEF Open
    <3>2. CASE url[x][f] # "stale"
      <4>1. tries[x][f] + 1 \in Nat  BY <2>1
      <4>2. QED  BY <4>1, <2>1, <2>2, <3>2 DEF Open
    <3>3. QED  BY <3>1, <3>2
  <2>3. CASE Written(x, f)  BY <2>1, <2>3 DEF Written
  <2>4. CASE Broken(x, f)
    <3>1. PICK p \in {"queued", "bad"} : pool' = [pool EXCEPT ![x] = [pool[x] EXCEPT ![f] = p]]
      BY <2>4 DEF Broken
    <3>2. /\ folder' = [folder EXCEPT ![x] = [folder[x] EXCEPT ![f] = folder[x][f]]]
          /\ tries' = [tries EXCEPT ![x] = [tries[x] EXCEPT ![f] = tries[x][f]]]
      BY <2>1, <2>4 DEF Broken
    <3>3. p \in {"queued", "open", "ok", "bad"} /\ p # "ok"
      OBVIOUS
    <3>4. folder[x][f] \in {"none", "part", "whole"} /\ tries[x][f] \in Nat
      BY <2>1
    <3>5. QED  BY ONLY <3>1, <3>2, <3>3, <3>4, Zenon
  <2>5. QED  BY <2>2, <2>3, <2>4
<1>5. faults' \in 0..MaxFaults
  BY ExportAssumption DEF TypeOK, Open, Written, Broken, Fault
<1>6. /\ pool \in [Exports -> [Files -> {"queued", "open", "ok", "bad"}]]
      /\ folder \in [Exports -> [Files -> {"none", "part", "whole"}]]
      /\ tries \in [Exports -> [Files -> Nat]]
  BY DEF TypeOK
<1>7. /\ pool' \in [Exports -> [Files -> {"queued", "open", "ok", "bad"}]]
      /\ folder' \in [Exports -> [Files -> {"none", "part", "whole"}]]
      /\ tries' \in [Exports -> [Files -> Nat]]
  BY <1>4, <1>6
<1>8. TypeOK'  BY <1>1, <1>5, <1>7 DEF TypeOK, acc
<1>9. Counted' /\ (pc \in Asking => todo' # <<>>)  BY <1>1, WorkflowFrame
<1>10. notebook /\ pc \notin Asking  BY <1>3 DEF Started
<1>11. Copied'  BY <1>1, <1>10 DEF Copied
<1>12. Started'
  <2>1. Tasks' = Tasks  BY <1>1 DEF Tasks
  <2>2. QED  BY <2>1, <1>1, <1>9 DEF Started
<1>13. /\ pool'[x][f] = p /\ folder'[x][f] = d
       /\ \A y \in Exports : \A g \in Files : y # x \/ g # f =>
             pool'[y][g] = pool[y][g] /\ folder'[y][g] = folder[y][g]
  BY <1>4, <1>6
<1>14. Fetched'
  <2>1. ASSUME NEW y \in Exports, NEW g \in Files, pool'[y][g] # "queued"
        PROVE  /\ task'[y] # "none" /\ g \in listed'[y]
               /\ pool'[y][g] = "ok" => folder'[y][g] = "whole" \/ task'[y] = "failed"
    <3>1. CASE y = x /\ g = f  BY <3>1, <1>1, <1>2, <1>4, <1>13
    <3>2. CASE ~(y = x /\ g = f)
      <4>1. pool'[y][g] = pool[y][g] /\ folder'[y][g] = folder[y][g]  BY <3>2, <1>13
      <4>2. QED  BY <4>1, <2>1, <1>1 DEF Fetched
    <3>3. QED  BY <3>1, <3>2
  <2>2. QED  BY <2>1 DEF Fetched
<1>15. Ended'
  <2>1. ASSUME NEW y \in Exports
        PROVE  /\ task[y] \in {"done", "failed"} => Settled(y)'
               /\ task[y] = "done" => AllOk(y)'
               /\ task[y] = "killed" => y \in uncleaned
               /\ task[y] = "failed" /\ y \notin uncleaned => \A g \in Files : folder'[y][g] = "none"
    <3>1. CASE y = x  BY <3>1, <1>3
    <3>2. CASE y # x
      <4>1. pool'[y] = pool[y] /\ folder'[y] = folder[y] /\ listed' = listed  BY <3>2, <1>1, <1>4, <1>6
      <4>2. Settled(y)' = Settled(y) /\ AllOk(y)' = AllOk(y)  BY <4>1 DEF Settled, AllOk
      <4>3. QED  BY <4>1, <4>2 DEF Ended
    <3>3. QED  BY <3>1, <3>2
  <2>2. QED  BY <2>1, <1>1 DEF Ended
<1>16. QED  BY <1>8, <1>9, <1>11, <1>12, <1>14, <1>15

\* A task ends; the folder of a failed one is emptied, or that failed too.
LEMMA EndStep ==
    ASSUME IInv, NEW x \in Exports, EndDownload(x)
    PROVE  IInv'
<1> USE DEF IInv
<1>1. /\ task[x] = "running" /\ Settled(x)
      /\ UNCHANGED <<notebook, todo, pc, acc, listed, left, url, pool, tries>>
  BY DEF EndDownload
<1>2. notebook /\ pc \notin Asking /\ x \in Tasks  BY <1>1 DEF Started, Tasks
<1>3. pc # "pipeline"  BY <1>1, <1>2 DEF Started
<1>4. /\ task \in [Exports -> {"none", "running", "done", "failed", "killed"}]
      /\ folder \in [Exports -> [Files -> {"none", "part", "whole"}]]
  BY DEF TypeOK
<1>5. PICK v \in {"done", "failed"} : task' = [task EXCEPT ![x] = v]
  BY DEF EndDownload
<1>6. \/ v = "done" /\ AllOk(x) /\ UNCHANGED <<folder, uncleaned>>
      \/ v = "failed" /\ folder' = [folder EXCEPT ![x] = [f \in Files |-> "none"]] /\ UNCHANGED uncleaned
      \/ v = "failed" /\ uncleaned' = uncleaned \cup {x} /\ UNCHANGED folder
  <2>1. task'[x] = v  BY <1>4, <1>5
  <2>2. CASE AllOk(x)
    <3>1. task' = [task EXCEPT ![x] = "done"] /\ UNCHANGED <<folder, uncleaned>>
      BY <2>2 DEF EndDownload
    <3>2. QED  BY <2>1, <2>2, <3>1, <1>4
  <2>3. CASE ~AllOk(x)
    <3>1. /\ task' = [task EXCEPT ![x] = "failed"]
          /\ \/ folder' = [folder EXCEPT ![x] = [f \in Files |-> "none"]] /\ UNCHANGED uncleaned
             \/ uncleaned' = uncleaned \cup {x} /\ UNCHANGED folder
      BY <2>3 DEF EndDownload, Clean
    <3>2. QED  BY <2>1, <3>1, <1>4
  <2>4. QED  BY <2>2, <2>3
<1>7. faults' \in 0..MaxFaults
  BY ExportAssumption DEF TypeOK, EndDownload, Fault
<1>8. /\ task' \in [Exports -> {"none", "running", "done", "failed", "killed"}]
      /\ folder' \in [Exports -> [Files -> {"none", "part", "whole"}]]
      /\ uncleaned' \in SUBSET Exports
  <2>1. uncleaned \in SUBSET Exports  BY DEF TypeOK
  <2>2. [f \in Files |-> "none"] \in [Files -> {"none", "part", "whole"}]  OBVIOUS
  <2>3. QED  BY <1>4, <1>5, <1>6, <2>1, <2>2
<1>9. TypeOK'  BY <1>1, <1>7, <1>8 DEF TypeOK, acc
<1>10. Counted' /\ (pc \in Asking => todo' # <<>>)  BY <1>1, WorkflowFrame
<1>11. Copied'  BY <1>1, <1>2 DEF Copied
<1>12. task'[x] = v /\ \A y \in Exports : y # x => task'[y] = task[y] /\ folder'[y] = folder[y]
  BY <1>4, <1>5, <1>6
<1>13. Started'
  BY <1>1, <1>2, <1>3, <1>12 DEF Started
<1>14. Fetched'
  <2>1. ASSUME NEW y \in Exports, NEW g \in Files, pool[y][g] # "queued"
        PROVE  /\ task'[y] # "none" /\ g \in listed[y]
               /\ pool[y][g] = "ok" => folder'[y][g] = "whole" \/ task'[y] = "failed"
    <3>1. CASE y = x  BY <3>1, <2>1, <1>1, <1>6, <1>12 DEF Fetched
    <3>2. CASE y # x  BY <3>2, <2>1, <1>12 DEF Fetched
    <3>3. QED  BY <3>1, <3>2
  <2>2. QED  BY <2>1, <1>1 DEF Fetched
<1>15. Ended'
  <2>1. \A y \in Exports : Settled(y)' = Settled(y) /\ AllOk(y)' = AllOk(y)
    BY <1>1 DEF Settled, AllOk
  <2>2. ASSUME NEW y \in Exports
        PROVE  /\ task'[y] \in {"done", "failed"} => Settled(y)
               /\ task'[y] = "done" => AllOk(y)
               /\ task'[y] = "killed" => y \in uncleaned'
               /\ task'[y] = "failed" /\ y \notin uncleaned' => \A g \in Files : folder'[y][g] = "none"
    <3>1. CASE y = x  BY <3>1, <1>1, <1>4, <1>6, <1>12
    <3>2. CASE y # x
      <4>1. y \in uncleaned' <=> y \in uncleaned  BY <3>2, <1>6
      <4>2. QED  BY <3>2, <4>1, <1>12 DEF Ended
    <3>3. QED  BY <3>1, <3>2
  <2>3. QED  BY <2>1, <2>2 DEF Ended
<1>16. QED  BY <1>9, <1>10, <1>11, <1>13, <1>14, <1>15

\* A cluster is lost, with what its task was doing.
LEMMA KilledStep ==
    ASSUME IInv, NEW x \in Exports, Killed(x)
    PROVE  IInv'
<1> USE DEF IInv
<1>1. /\ task[x] = "running" /\ task' = [task EXCEPT ![x] = "killed"]
      /\ uncleaned' = uncleaned \cup {x}
      /\ UNCHANGED <<notebook, todo, pc, acc, listed, left, url, folder, pool, tries>>
  BY DEF Killed
<1>2. notebook /\ pc \notin Asking /\ x \in Tasks  BY <1>1 DEF Started, Tasks
<1>3. pc # "pipeline"  BY <1>1, <1>2 DEF Started
<1>4. task \in [Exports -> {"none", "running", "done", "failed", "killed"}]  BY DEF TypeOK
<1>5. faults' \in 0..MaxFaults  BY ExportAssumption DEF TypeOK, Killed, Fault
<1>6. TypeOK'  BY <1>1, <1>4, <1>5 DEF TypeOK, acc
<1>7. Counted' /\ (pc \in Asking => todo' # <<>>)  BY <1>1, WorkflowFrame
<1>8. Copied'  BY <1>1, <1>2 DEF Copied
<1>9. task'[x] = "killed" /\ \A y \in Exports : y # x => task'[y] = task[y]
  BY <1>1, <1>4
<1>10. Started'  BY <1>1, <1>2, <1>3, <1>9 DEF Started
<1>11. Fetched'
  <2>1. ASSUME NEW y \in Exports, NEW g \in Files, pool[y][g] # "queued"
        PROVE  /\ task'[y] # "none" /\ g \in listed[y]
               /\ pool[y][g] = "ok" => folder[y][g] = "whole" \/ task'[y] = "failed"
    <3>1. CASE y = x  BY <3>1, <2>1, <1>1, <1>9 DEF Fetched
    <3>2. CASE y # x  BY <3>2, <2>1, <1>9 DEF Fetched
    <3>3. QED  BY <3>1, <3>2
  <2>2. QED  BY <2>1, <1>1 DEF Fetched
<1>12. Ended'
  <2>1. \A y \in Exports : Settled(y)' = Settled(y) /\ AllOk(y)' = AllOk(y)
    BY <1>1 DEF Settled, AllOk
  <2>2. QED  BY <2>1, <1>1, <1>9 DEF Ended
<1>13. QED  BY <1>6, <1>7, <1>8, <1>10, <1>11, <1>12

\* The pipelines start when every task is done.
LEMMA PipelinesStep ==
    ASSUME IInv, PipelinesStart
    PROVE  IInv'
<1> USE DEF IInv
<1>1. /\ pc = "workflow" /\ pc' = "pipeline" /\ \A x \in Tasks : task[x] = "done"
      /\ UNCHANGED <<notebook, todo, acc, listed, left, volume, faults>>
  BY DEF PipelinesStart
<1>2. TypeOK'  BY <1>1 DEF TypeOK, acc, volume
<1>3. Counted'
  <2>1. UNCHANGED <<todo, requests, mine, unanswered>> /\ pc' \notin Asking  BY <1>1 DEF acc, Asking
  <2>2. QED  BY <2>1, CountFrame
<1>4. Copied' /\ Fetched' /\ Ended'
  BY <1>1 DEF Copied, Fetched, Ended, volume, Settled, AllOk
<1>5. Started'  BY <1>1 DEF Started, Tasks, volume, Asking
<1>6. QED  BY <1>2, <1>3, <1>4, <1>5

\* URLs run out.
LEMMA ExpiryStep ==
    ASSUME IInv, NEW x \in Exports, UrlsExpire(x)
    PROVE  IInv'
<1> USE DEF IInv
<1>1. /\ url' = [url EXCEPT ![x] = [f \in Files |-> IF url[x][f] = "fresh" THEN "stale" ELSE url[x][f]]]
      /\ UNCHANGED <<notebook, todo, pc, acc, listed, left, folder, pool, tries, task, uncleaned>>
  BY DEF UrlsExpire
<1>2. faults' \in 0..MaxFaults  BY ExportAssumption DEF TypeOK, UrlsExpire, Fault
<1>3. url' \in [Exports -> [Files -> {"none", "fresh", "stale"}]]
  <2>1. url \in [Exports -> [Files -> {"none", "fresh", "stale"}]]  BY DEF TypeOK
  <2>2. [f \in Files |-> IF url[x][f] = "fresh" THEN "stale" ELSE url[x][f]]
          \in [Files -> {"none", "fresh", "stale"}]
    BY <2>1
  <2>3. QED  BY <1>1, <2>1, <2>2
<1>4. TypeOK'  BY <1>1, <1>2, <1>3 DEF TypeOK, acc
<1>5. Counted' /\ (pc \in Asking => todo' # <<>>)  BY <1>1, WorkflowFrame
<1>6. Copied' /\ Fetched' /\ Ended' /\ Started'
  BY <1>1 DEF Copied, Fetched, Ended, Started, Settled, AllOk, Tasks, Current
<1>7. QED  BY <1>4, <1>5, <1>6

\* Nothing changes.
LEMMA StutterStep ==
    ASSUME IInv, UNCHANGED vars
    PROVE  IInv'
<1> USE DEF IInv
<1>1. TypeOK'  BY DEF vars, TypeOK
<1>2. Counted'
  <2>1. UNCHANGED <<todo, requests, mine, unanswered>> /\ pc' = pc  BY DEF vars
  <2>2. QED  BY <2>1, CountFrame
<1>3. Copied' /\ Fetched' /\ Ended' /\ Started'
  BY DEF vars, Copied, Fetched, Ended, Started, Settled, AllOk, Tasks, Current
<1>4. QED  BY <1>1, <1>2, <1>3

LEMMA StepIInv ==
    ASSUME IInv, [Next]_vars
    PROVE  IInv'
<1>1. CASE Next
  <2>1. CASE _dc_create_request  BY <2>1, PostStep
  <2>2. CASE dc_wait_for_job \/ dc_poll_job \/ Fails \/ WorkflowFails  BY <2>2, WaitStep
  <2>3. CASE dc_list_files  BY <2>3, ListStep
  <2>4. CASE Landed  BY <2>4, LandedStep
  <2>5. ASSUME NEW f \in Files, _phase2_in_flask(f) \/ _phase2_via_notebook(f)
        PROVE  IInv'
    BY <2>5, LandStep
  <2>6. ASSUME NEW r \in DOMAIN requests,
               AccJob(r, "none", "running") \/ AccJob(r, "running", "complete") \/ AccJob(r, "running", "failed")
        PROVE  IInv'
    BY <2>6, JobStep
  <2>7. ASSUME NEW x \in Exports,
               EndDownload(x) \/ Killed(x) \/ UrlsExpire(x)
               \/ \E f \in Files : Open(x, f) \/ Written(x, f) \/ Broken(x, f)
        PROVE  IInv'
    BY <2>7, EndStep, KilledStep, ExpiryStep, DownloadStep
  <2>8. CASE PipelinesStart  BY <2>8, PipelinesStep
  <2>9. QED  BY <1>1, <2>1, <2>2, <2>3, <2>4, <2>5, <2>6, <2>7, <2>8 DEF Next
<1>2. CASE UNCHANGED vars  BY <1>2, StutterStep
<1>3. QED  BY <1>1, <1>2

-----------------------------------------------------------------------------
(* The theorems *)

\* The export's bookkeeping and the state of its folders stay in step in every
\* reachable state.
THEOREM Inductive == Spec => []IInv
<1>1. Init => IInv  BY InitIInv
<1>2. IInv /\ [Next]_vars => IInv'  BY StepIInv
<1>3. QED  BY <1>1, <1>2, PTL DEF Spec

\* Whatever was retried and however long ago the URLs were signed, a pipeline that
\* starts finds every file of every listing whole in its folder, on both paths.
THEOREM ReadWhole == Spec => []PipelinesReadWhole
<1>1. IInv => PipelinesReadWhole
  <2> SUFFICES ASSUME IInv, pc = "pipeline", NEW x \in Exports, listed[x] # Null, NEW f \in listed[x]
               PROVE  folder[x][f] = "whole"
    BY DEF PipelinesReadWhole
  <2>1. CASE ~notebook  BY <2>1 DEF IInv, Copied
  <2>2. CASE notebook
    <3>1. f \in Files  BY DEF IInv, TypeOK
    <3>2. task[x] = "done"  BY <2>2 DEF IInv, Started, Tasks
    <3>3. pool[x][f] = "ok"  BY <3>2 DEF IInv, Ended, AllOk
    <3>4. QED  BY <3>1, <3>2, <3>3 DEF IInv, Fetched
  <2>3. QED  BY <2>1, <2>2 DEF IInv, TypeOK
<1>2. QED  BY <1>1, Inductive, PTL

\* A download task that failed leaves nothing in its folder, and no download of it
\* that was still going brings anything back, unless the removal failed.
THEOREM FailedFolders == Spec => []FailedMeansEmpty
<1>1. IInv => FailedMeansEmpty  BY DEF IInv, Ended, FailedMeansEmpty
<1>2. QED  BY <1>1, Inductive, PTL

\* An export is asked for once and once more for each answer that was lost, and the
\* run waits for its own newest request.
THEOREM Requested == Spec => []RequestedOnce
<1>1. IInv => RequestedOnce
  <2> SUFFICES ASSUME IInv  PROVE RequestedOnce
    OBVIOUS
  <2>1. ASSUME NEW x \in Exports  PROVE Cardinality(Of(x)) <= 1 + unanswered[x]
    <3>1. Of(x) = OfIn(requests, x)  BY DEF Of, OfIn
    <3>2. [of |-> "cdc", job |-> "none"] \in Request /\ requests \in Seq(Request)
      BY DEF Request, Exports, IInv, TypeOK
    <3>3. Cardinality(OfIn(requests, x)) \in Nat /\ unanswered[x] \in Nat
      BY <3>2, AppendCounts DEF IInv, TypeOK
    <3>4. Cardinality(OfIn(requests, x)) <= unanswered[x] + IF ToAsk(x) THEN 0 ELSE 1
      BY DEF IInv, Counted
    <3>5. QED  BY <3>1, <3>3, <3>4
  <2>2. pc \in {"wait", "poll", "list", "land"} => requests[mine].of = Current /\ mine = Len(requests)
    BY DEF IInv, Counted, Waiting, Asking
  <2>3. QED  BY <2>1, <2>2 DEF RequestedOnce
<1>2. QED  BY <1>1, Inductive, PTL

-----------------------------------------------------------------------------
(* The bronze tables: the types of their state, and the invariant *)

Column == Columns \cup {No}
Config == [Pipelines -> Column]
Row == {NoRow} \cup
       [pk: Columns, source: {"auto_position_1", "explicit_pk_config", "manual_override"}]
Positions == {"idle", "seed", "merge", "hash", "write", "write_hash", "schema", "schema_hash",
              "registry", "cdc_seed", "reload", "gate", "run"}
Work == [pc: Positions, project: Projects \cup {No}, full: BOOLEAN, cfg: Config,
         todo: SUBSET (Pipelines \cup {"others"}), doc: Types \cup {No}, changed: BOOLEAN, row: Row,
         known: BOOLEAN, key: Column, type: Types \cup {No, "string"}, folder: Nat]

Typed ==
    /\ config \in Config /\ doc \in Types \cup {No}
    /\ pkHash \in [Projects -> Config \cup {NoValue}]
    /\ schemaHash \in [Projects -> ((Types \cup {No}) \X {"file", HashedForm}) \cup {NoValue}]
    /\ registry \in [Pipelines -> Row] /\ landed \in [Pipelines -> Seq(Headers)]
    /\ bronze \in [Pipelines -> [type: Types \cup {No, "string"}, folder: Nat, version: Nat]]
    /\ code \in [Pipelines -> {No, "common", "standalone"}] /\ hash \in [1..2 -> Nat]
    /\ u \in [Workers -> Work]
    /\ fed \in [Pipelines -> SUBSET Columns]
    /\ reconfigured \in SUBSET Pipelines /\ unsure \in SUBSET Pipelines

\* A seeding has left only rows that its configuration lists.
Merging ==
    \A w \in Workers :
        /\ At(w, "merge") => \A t \in Pipelines \cap u[w].todo : u[w].cfg[t] # No
        /\ At(w, "hash") => u[w].todo = {}

\* An update that runs has a key and reads a folder.
Running ==
    \A p \in Pipelines :
        /\ Len(landed[p]) <= 2
        /\ At(p, "run") => u[p].key \in Columns /\ u[p].folder \in 1..2

\* Table t has the key that cfg lists for it.
Applied(cfg, t) ==
    cfg[t] # No => registry[t].source = "manual_override" \/ registry[t].pk = cfg[t]

Followed ==
    ~stale =>
        /\ config \in past /\ Stored(pkHash) \subseteq past
        /\ config \in Stored(pkHash) => \A t \in Pipelines : Applied(config, t)
        /\ \A w \in Workers : Seeding(w) =>
              u[w].cfg = config /\ \A t \in Pipelines \ u[w].todo : Applied(config, t)
        /\ follow # NoValue /\ (\A w \in Workers : ~Seeding(w)) => \A t \in Pipelines : Applied(follow, t)

Prepared == {"schema", "schema_hash", "registry", "cdc_seed", "reload", "gate", "run"}

\* What is known of the key of table p as long as nobody changes it.
Listed(p) ==
    /\ config[p] \in {No, FirstOrdinal}
    /\ \A h \in Stored(pkHash) : h[p] = config[p]
    /\ \A w \in Workers : Seeding(w) => u[w].cfg[p] = config[p]
    /\ config[p] # No =>
          /\ registry[p] # NoRow => registry[p].pk = config[p]
          /\ Stored(pkHash) # {} => registry[p] # NoRow
          /\ u[p].pc \in Prepared => registry[p] # NoRow
          /\ \A w \in Workers : Seeding(w) /\ p \notin u[w].todo => registry[p] # NoRow

Keyed(p) ==
    /\ At(p, "gate") =>
          IF u[p].row = NoRow THEN config[p] = No
          ELSE registry[p] # NoRow /\ u[p].row.pk = registry[p].pk
    /\ At(p, "run") => registry[p] # NoRow /\ u[p].key = registry[p].pk
    /\ fed[p] # {} => registry[p] # NoRow /\ fed[p] = {registry[p].pk}

OneKey ==
    \A p \in Pipelines : p \notin reconfigured =>
        /\ Listed(p)
        /\ p \notin unsure => Keyed(p)

Untyped(p) == bronze[p].type \in {No, "string"}

Noted(p) ==
    /\ doc = No => Untyped(p) /\ u[p].doc = No
    /\ At(p, "schema_hash") => u[p].doc # No /\ u[p].doc \in told
    /\ u[p].pc \in Prepared \ {"schema", "schema_hash"} =>
          IF u[p].doc = No THEN Untyped(p) ELSE u[p].changed \/ u[p].doc \in told
    /\ At(p, "run") /\ u[p].doc = No => u[p].type = "string"
    /\ At(p, "run") =>
          Safe(bronze[p].type, u[p].type) \/ (u[p].doc \in told /\ ~u[p].changed) \/ p \in unsure

\* Only updates that have told store the hash of a file.
HashesTold == \A d \in Types \cup {No} : <<d, "file">> \in Stored(schemaHash) => d \in told

ToldFirst == HashesTold /\ \A p \in Pipelines : Noted(p)

TablesInv == Typed /\ Merging /\ Running /\ Followed /\ OneKey /\ ToldFirst

-----------------------------------------------------------------------------
(* Types *)

LEMMA IdleTyped == Idle \in Work
<1>1. [t \in Pipelines |-> No] \in Config
  BY DEF Config, Column
<1> QED
  BY <1>1 DEF Idle, Work, Positions, Row, Column

LEMMA InitTyped == BronzeInit => Typed
<1> SUFFICES ASSUME BronzeInit PROVE Typed
  OBVIOUS
<1>1. config \in Config /\ doc \in Types \cup {No}
  BY DEF BronzeInit, Config, Column, Columns, Types
<1>2. /\ pkHash \in [Projects -> Config \cup {NoValue}]
      /\ schemaHash \in [Projects -> ((Types \cup {No}) \X {"file", HashedForm}) \cup {NoValue}]
  BY DEF BronzeInit
<1>3. registry \in [Pipelines -> Row] /\ landed \in [Pipelines -> Seq(Headers)]
  BY DEF BronzeInit, Row, Headers
<1>4. bronze \in [Pipelines -> [type: Types \cup {No, "string"}, folder: Nat, version: Nat]]
  BY DEF BronzeInit, NoTable
<1>5. code \in [Pipelines -> {No, "common", "standalone"}]
  BY DEF BronzeInit
<1>6. hash \in [1..2 -> Nat]
  <2>1. hash \in {<<1, 2>>, <<2, 1>>}
    BY DEF BronzeInit
  <2> QED
    BY <2>1
<1>7. u \in [Workers -> Work]
  BY IdleTyped DEF BronzeInit
<1>8. /\ fed \in [Pipelines -> SUBSET Columns]
      /\ reconfigured \in SUBSET Pipelines /\ unsure \in SUBSET Pipelines
  BY DEF BronzeInit
<1> QED
  BY <1>1, <1>2, <1>3, <1>4, <1>5, <1>6, <1>7, <1>8 DEF Typed

LEMMA Kinds ==
    /\ Pipelines = {"snapshot", "cdc"} /\ Pipelines \subseteq Workers
    /\ "seed_registry" \in Workers /\ "seed_registry" \notin Pipelines
    /\ Columns = {"a", "b"} /\ No \notin Columns /\ No \notin Types /\ FirstOrdinal \in Columns
    /\ Types = {"int", "bigint"} /\ "others" \notin Pipelines
    /\ \A h \in Headers : h # <<>> /\ \A i \in DOMAIN h : h[i] \in Columns /\ h[1] \in Columns
    /\ Deployed \subseteq Pipelines
<1>1. \A h \in Headers : h # <<>> /\ \A i \in DOMAIN h : h[i] \in Columns /\ h[1] \in Columns
  BY DEF Headers, Columns
<1> QED
  BY <1>1 DEF Pipelines, Workers, Columns, No, Types, FirstOrdinal, Deployed

LEMMA FirstColumn ==
    ASSUME NEW h \in Headers
    PROVE  h[1] \in Columns
BY DEF Headers, Columns

\* The rows that the actions make are rows.
LEMMA RowsMade ==
    ASSUME NEW row \in Row, NEW key \in Columns
    PROVE  /\ Merged(row, key) \in Row /\ Inserted(row, key) \in Row
           /\ [pk |-> key, source |-> "manual_override"] \in Row
           /\ Merged(row, key) # NoRow /\ Inserted(row, key) # NoRow
           /\ Merged(row, key).source = "manual_override" \/ Merged(row, key).pk = key
           /\ row # NoRow => Inserted(row, key) = row
           /\ row = NoRow => Inserted(row, key).pk = key
           /\ Merged(row, key).pk \in {row.pk, key}
           /\ row = NoRow => Merged(row, key).pk = key
           /\ row # NoRow => row.pk \in Columns
           /\ row = NoRow => row.pk = No /\ row.source = No
BY DEF Row, Merged, Inserted, NoRow, _PK_CONFIG_UPDATABLE_SOURCES, No, Columns

\* One worker moves on.
LEMMA Moves ==
    ASSUME Typed, NEW w \in Workers, NEW x \in Work, u' = [u EXCEPT ![w] = x]
    PROVE  u' \in [Workers -> Work] /\ u'[w] = x /\ \A v \in Workers \ {w} : u'[v] = u[v]
BY DEF Typed

LEMMA HeadersOf ==
    ASSUME Typed, NEW p \in Pipelines, NEW h \in HeadersRead(p)
    PROVE  h \in Headers /\ Len(landed[p]) \in Nat
<1>1. landed[p] \in Seq(Headers)
  BY DEF Typed
<1>2. landed[p] # <<>>
  BY DEF HeadersRead
<1>3. \A f \in DOMAIN landed[p] : landed[p][f] \in Headers
  BY <1>1
<1>4. landed[p][Len(landed[p])] \in Headers
  BY <1>1, <1>2
<1> QED
  BY <1>1, <1>2, <1>3, <1>4 DEF HeadersRead


\* Records of work stay such.
LEMMA Advance ==
    ASSUME NEW x \in Work, NEW a \in Positions
    PROVE  /\ [x EXCEPT !.pc = a] \in Work
           /\ \A d \in Types \cup {No} : [x EXCEPT !.pc = a, !.doc = d] \in Work
           /\ \A d \in Types \cup {No} : [x EXCEPT !.pc = a, !.doc = d, !.changed = TRUE] \in Work
           /\ \A c \in Config : [x EXCEPT !.pc = a, !.cfg = c] \in Work
           /\ \A c \in Config, s \in SUBSET (Pipelines \cup {"others"}) :
                 [x EXCEPT !.pc = a, !.cfg = c, !.todo = s] \in Work
           /\ \A s \in SUBSET (Pipelines \cup {"others"}) : [x EXCEPT !.todo = s, !.pc = a] \in Work
           /\ \A r \in Row, b \in BOOLEAN : [x EXCEPT !.row = r, !.known = b, !.pc = a] \in Work
           /\ \A q \in Projects : [x EXCEPT !.pc = a, !.project = q] \in Work
           /\ \A q \in Projects, f \in BOOLEAN :
                 [x EXCEPT !.pc = a, !.project = q, !.full = f] \in Work
BY DEF Work

LEMMA Placed ==
    /\ \A w \in Workers : AfterSeed(w) \in Positions
    /\ {"idle", "seed", "merge", "hash", "write", "write_hash", "schema", "schema_hash",
        "registry", "cdc_seed", "reload", "gate", "run"} \subseteq Positions
BY DEF AfterSeed, Positions

\* The work of an update after the gate.
Run(f, d, c, k, n, y) ==
    [Idle EXCEPT !.pc = "run", !.full = f, !.doc = d, !.changed = c, !.key = k, !.folder = n, !.type = y]

RunsAs(x, d, c, k, n, y) ==
    /\ x \in Work /\ x.pc = "run" /\ x.doc = d /\ x.changed = c
    /\ x.key = k /\ x.folder = n /\ x.type = y

LEMMA RunWork ==
    ASSUME NEW f \in BOOLEAN, NEW d \in Types \cup {No}, NEW c \in BOOLEAN,
           NEW k \in Column, NEW n \in Nat, NEW y \in Types \cup {No, "string"}
    PROVE  RunsAs(Run(f, d, c, k, n, y), d, c, k, n, y)
<1> DEFINE early == [Idle EXCEPT !.pc = "run", !.full = f, !.doc = d]
<1> DEFINE x == [early EXCEPT !.changed = c, !.key = k, !.folder = n, !.type = y]
<1>1. early \in Work /\ early.pc = "run" /\ early.doc = d
  <2>1. "run" \in Positions
    BY Placed
  <2> QED
    BY <2>1, IdleTyped DEF Work
<1> HIDE DEF early
<1>2. x \in Work
  BY <1>1 DEF Work
<1>3. /\ x.pc = "run" /\ x.doc = d /\ x.changed = c
      /\ x.key = k /\ x.folder = n /\ x.type = y
  BY <1>1 DEF Work
<1>4. Run(f, d, c, k, n, y) = x
  BY DEF Run, early
<1> HIDE DEF x
<1> QED
  BY <1>2, <1>3, <1>4 DEF RunsAs

LEMMA TypedSeed ==
    ASSUME Typed, Merging, NEW w \in Workers, Seed(w)
    PROVE  Typed'
<1>0. u[w] \in Work
  BY DEF Typed
<1>1. CASE SeedUnchanged(w)
  <2>1. u' = [u EXCEPT ![w] = [u[w] EXCEPT !.pc = AfterSeed(w)]]
    BY <1>1 DEF SeedUnchanged, Typed
  <2>2. [u[w] EXCEPT !.pc = AfterSeed(w)] \in Work
    BY <1>0, Advance, Placed
  <2> QED
    BY <1>1, <2>1, <2>2, Moves DEF SeedUnchanged, onVolume, meta, tableHistory, Typed
<1>2. CASE SeedChanged(w)
  <2> DEFINE s == {"others"} \cup {t \in Pipelines : config[t] # No}
             x == [u[w] EXCEPT !.pc = "merge", !.cfg = config, !.todo = s]
  <2>1. u' = [u EXCEPT ![w] = x]
    BY <1>2 DEF SeedChanged, Typed
  <2>2. s \in SUBSET (Pipelines \cup {"others"}) /\ config \in Config
    BY DEF Typed
  <2>3. x \in Work
    BY <1>0, <2>2, Advance, Placed
  <2> QED
    BY <1>2, <2>1, <2>3, Moves DEF SeedChanged, onVolume, meta, seedHistory, tableHistory,
                                   Typed
<1>3. CASE _seed_pk_registry(w)
  <2>1. PICK t \in u[w].todo :
          /\ u' = [u EXCEPT ![w].todo = @ \ {t},
                            ![w].pc = IF u[w].todo = {t} THEN "hash" ELSE "merge"]
          /\ IF t = "others" THEN seeded' = TRUE /\ UNCHANGED registry
             ELSE /\ registry' = [registry EXCEPT ![t] = Merged(@, u[w].cfg[t])]
                  /\ UNCHANGED seeded
    BY <1>3 DEF _seed_pk_registry
  <2> DEFINE s == u[w].todo \ {t}
             a == IF u[w].todo = {t} THEN "hash" ELSE "merge"
             x == [u[w] EXCEPT !.todo = s, !.pc = a]
  <2>2. u' = [u EXCEPT ![w] = x]
    BY <2>1 DEF Typed
  <2>3. s \in SUBSET (Pipelines \cup {"others"}) /\ a \in Positions
    BY <1>0, Placed DEF Work
  <2>4. x \in Work
    BY <1>0, <2>3, Advance
  <2>5. registry' \in [Pipelines -> Row]
    <3>1. CASE t = "others"
      BY <2>1, <3>1 DEF Typed
    <3>2. CASE t # "others"
      <4>1. t \in Pipelines /\ u[w].cfg[t] \in Columns
        BY <1>0, <1>3, <3>2 DEF _seed_pk_registry, Merging, Work, Config, Column
      <4>2. Merged(registry[t], u[w].cfg[t]) \in Row
        BY <4>1, RowsMade DEF Typed
      <4> QED
        BY <2>1, <3>2, <4>1, <4>2 DEF Typed
    <3> QED
      BY <3>1, <3>2
  <2> QED
    BY <1>3, <2>2, <2>4, <2>5, Moves DEF _seed_pk_registry, onVolume, seedHistory,
                                         tableHistory, Typed
<1>4. CASE _delta_upsert_config_version(w)
  <2> DEFINE x == [u[w] EXCEPT !.pc = AfterSeed(w), !.cfg = Idle.cfg]
  <2>1. u' = [u EXCEPT ![w] = x]
    BY <1>4 DEF _delta_upsert_config_version, Typed
  <2>2. Idle.cfg \in Config /\ u[w].cfg \in Config
    BY <1>0, IdleTyped DEF Work
  <2>3. x \in Work
    BY <1>0, <2>2, Advance, Placed
  <2>4. pkHash' \in [Projects -> Config \cup {NoValue}]
    BY <1>4, <2>2 DEF _delta_upsert_config_version, Typed
  <2> QED
    BY <1>4, <2>1, <2>3, <2>4, Moves DEF _delta_upsert_config_version, onVolume, tableHistory,
                                         Typed
<1> QED
  BY <1>1, <1>2, <1>3, <1>4 DEF Seed

LEMMA TypedTask ==
    ASSUME Typed, seed_registry \/ _ensure_schema_json \/ _write_schema_to_volume
    PROVE  Typed'
<1>0. "seed_registry" \in Workers /\ u["seed_registry"] \in Work
  BY Kinds DEF Typed
<1>1. CASE seed_registry
  <2>1. PICK q \in Projects :
          u' = [u EXCEPT !["seed_registry"] = [Idle EXCEPT !.pc = "seed", !.project = q]]
    BY <1>1 DEF seed_registry
  <2>2. [Idle EXCEPT !.pc = "seed", !.project = q] \in Work
    BY IdleTyped, Advance, Placed
  <2> QED
    BY <1>0, <1>1, <2>1, <2>2, Moves
       DEF seed_registry, onVolume, meta, seedHistory, tableHistory, Typed
<1>2. CASE _ensure_schema_json
  <2>1. u' \in [Workers -> Work] /\ doc' \in Types \cup {No}
    <3>1. CASE u' = [u EXCEPT !["seed_registry"] = Idle] /\ UNCHANGED <<doc, events>>
      BY <1>0, <3>1, IdleTyped, Moves DEF Typed
    <3>2. CASE \E d \in Types :
                 doc' = d /\ u' = [u EXCEPT !["seed_registry"].pc = "write_hash", !["seed_registry"].doc = d]
      <4>1. PICK d \in Types :
              doc' = d /\ u' = [u EXCEPT !["seed_registry"].pc = "write_hash", !["seed_registry"].doc = d]
        BY <3>2
      <4> DEFINE x == [u["seed_registry"] EXCEPT !.pc = "write_hash", !.doc = d]
      <4>2. u' = [u EXCEPT !["seed_registry"] = x]
        BY <1>0, <4>1 DEF Typed
      <4>3. x \in Work
        BY <1>0, Advance, Placed
      <4> QED
        BY <1>0, <4>1, <4>2, <4>3, Moves
    <3> QED
      BY <1>2, <3>1, <3>2 DEF _ensure_schema_json
  <2> QED
    BY <1>2, <2>1 DEF _ensure_schema_json, meta, seedHistory, tableHistory, Typed
<1>3. CASE _write_schema_to_volume
  <2>1. schemaHash' \in [Projects -> ((Types \cup {No}) \X {"file", HashedForm}) \cup {NoValue}]
    BY <1>0, <1>3 DEF _write_schema_to_volume, Typed, Work
  <2> QED
    BY <1>0, <1>3, <2>1, IdleTyped, Moves
       DEF _write_schema_to_volume, onVolume, seedHistory, tableHistory, Typed
<1> QED
  BY <1>1, <1>2, <1>3


LEMMA TypedUpdate ==
    ASSUME Typed, NEW p \in Pipelines,
           \/ start_update(p) \/ _bootstrap_schema_json(p) \/ _load_typed_schemas(p)
           \/ SchemaSeen(p) \/ _load_registry(p) \/ Skipped(p)
    PROVE  Typed'
<1>0. p \in Workers /\ u[p] \in Work
  BY Kinds DEF Typed
<1>1. CASE start_update(p)
  <2>1. PICK q \in Projects, full \in BOOLEAN :
          u' = [u EXCEPT ![p] = [Idle EXCEPT !.pc = "seed", !.project = q, !.full = full]]
    BY <1>1 DEF start_update
  <2>2. [Idle EXCEPT !.pc = "seed", !.project = q, !.full = full] \in Work
    BY IdleTyped, Advance, Placed
  <2> QED
    BY <1>0, <1>1, <2>1, <2>2, Moves
       DEF start_update, onVolume, meta, seedHistory, tableHistory, Typed
<1>2. CASE _bootstrap_schema_json(p)
  <2>1. u' = u \/ u' = [u EXCEPT ![p] = [u[p] EXCEPT !.pc = "registry"]]
    BY <1>0, <1>2 DEF _bootstrap_schema_json, Typed
  <2>2. [u[p] EXCEPT !.pc = "registry"] \in Work
    BY <1>0, Advance, Placed
  <2>3. u' \in [Workers -> Work]
    BY <1>0, <2>1, <2>2, Moves DEF Typed
  <2>4. doc' \in Types \cup {No}
    BY <1>2 DEF _bootstrap_schema_json, Typed
  <2> QED
    BY <1>2, <2>3, <2>4 DEF _bootstrap_schema_json, meta, seedHistory, tableHistory, Typed
<1>3. CASE _load_typed_schemas(p)
  <2>1. \/ u' = [u EXCEPT ![p] = [u[p] EXCEPT !.pc = "registry", !.doc = doc]]
        \/ u' = [u EXCEPT ![p] = [u[p] EXCEPT !.pc = "schema_hash", !.doc = doc, !.changed = TRUE]]
        \/ u' = [u EXCEPT ![p] = [u[p] EXCEPT !.pc = "registry", !.doc = doc, !.changed = TRUE]]
    BY <1>0, <1>3 DEF _load_typed_schemas, Typed
  <2>2. doc \in Types \cup {No}
    BY DEF Typed
  <2>3. /\ [u[p] EXCEPT !.pc = "registry", !.doc = doc] \in Work
        /\ [u[p] EXCEPT !.pc = "schema_hash", !.doc = doc, !.changed = TRUE] \in Work
        /\ [u[p] EXCEPT !.pc = "registry", !.doc = doc, !.changed = TRUE] \in Work
    BY <1>0, <2>2, Advance, Placed
  <2>4. u' \in [Workers -> Work]
    BY <1>0, <2>1, <2>3, Moves
  <2> QED
    BY <1>3, <2>4 DEF _load_typed_schemas, onVolume, meta, seedHistory, Typed
<1>4. CASE SchemaSeen(p)
  <2>1. u' = [u EXCEPT ![p] = [u[p] EXCEPT !.pc = "registry"]]
    BY <1>0, <1>4 DEF SchemaSeen, Typed
  <2>2. [u[p] EXCEPT !.pc = "registry"] \in Work
    BY <1>0, Advance, Placed
  <2>3. schemaHash' \in [Projects -> ((Types \cup {No}) \X {"file", HashedForm}) \cup {NoValue}]
    BY <1>0, <1>4 DEF SchemaSeen, Typed, Work
  <2> QED
    BY <1>0, <1>4, <2>1, <2>2, <2>3, Moves DEF SchemaSeen, onVolume, seedHistory,
                                               tableHistory, Typed
<1>5. CASE _load_registry(p)
  <2>1. PICK ok \in BOOLEAN, typed \in BOOLEAN :
          /\ IF ok THEN UNCHANGED <<events, unsure>> ELSE Event /\ unsure' = unsure \cup {p}
          /\ u' = [u EXCEPT ![p].row = IF ok THEN registry[p] ELSE NoRow,
                            ![p].known = (ok /\ seeded) \/ (Common(p) /\ u[p].doc # No),
                            ![p].pc = IF typed THEN "cdc_seed" ELSE "gate"]
    BY <1>5 DEF _load_registry
  <2> DEFINE r == IF ok THEN registry[p] ELSE NoRow
             b == (ok /\ seeded) \/ (Common(p) /\ u[p].doc # No)
             a == IF typed THEN "cdc_seed" ELSE "gate"
             x == [u[p] EXCEPT !.row = r, !.known = b, !.pc = a]
  <2>2. u' = [u EXCEPT ![p] = x]
    BY <1>0, <2>1 DEF Typed
  <2>3. r \in Row /\ b \in BOOLEAN /\ a \in Positions
    BY Placed DEF Row, Typed
  <2>4. x \in Work
    <3> HIDE DEF r, a, b
    <3> QED
      BY <1>0, <2>3, Advance
  <2>5. u' \in [Workers -> Work]
    BY <1>0, <2>2, <2>4, Moves
  <2>6. unsure' \in SUBSET Pipelines
    BY <2>1 DEF Typed
  <2> QED
    BY <1>5, <2>5, <2>6 DEF _load_registry, onVolume, meta, seedHistory, Typed
<1>6. CASE Skipped(p)
  BY <1>0, <1>6, IdleTyped, Moves
     DEF Skipped, Skip, onVolume, meta, seedHistory, tableHistory, Typed
<1> QED
  BY <1>1, <1>2, <1>3, <1>4, <1>5, <1>6


\* What the gate of a table lets through, and what it has inserted.
GateTakes(p, h, inserted, read) ==
    /\ h \in HeadersRead(p) /\ \E i \in DOMAIN h : h[i] = Key(p, h)
    /\ u[p].row = NoRow \/ inserted
    /\ registry' = IF u[p].row = NoRow /\ inserted
                   THEN [registry EXCEPT ![p] = Inserted(@, h[1])] ELSE registry
    /\ unsure' = IF inserted /\ read /\ (u[p].row = NoRow => registry[p] = NoRow)
                 THEN unsure ELSE unsure \cup {p}
    /\ \/ p = "cdc" /\ Skip(p)
       \/ u' = [u EXCEPT ![p] =
             Run(u[p].full, u[p].doc, u[p].changed, Key(p, h), Len(landed[p]),
                 Declared(p, IF read THEN bronze[p].type ELSE No))]

LEMMA GateWork ==
    ASSUME Typed, NEW p \in Pipelines, NEW h \in HeadersRead(p), NEW read \in BOOLEAN
    PROVE  /\ RunsAs(Run(u[p].full, u[p].doc, u[p].changed, Key(p, h), Len(landed[p]),
                          Declared(p, IF read THEN bronze[p].type ELSE No)),
                      u[p].doc, u[p].changed, Key(p, h), Len(landed[p]),
                      Declared(p, IF read THEN bronze[p].type ELSE No))
           /\ Key(p, h) \in Columns /\ Len(landed[p]) > 0
<1>0. u[p] \in Work
  BY Kinds DEF Typed
<1>1. Key(p, h) \in Columns
  <2>0. h \in Headers
    BY HeadersOf
  <2>1. h[1] \in Columns
    BY <2>0, FirstColumn
  <2>2. u[p].row # NoRow => u[p].row.pk \in Columns
    BY <1>0 DEF Work, Row
  <2> QED
    BY <2>1, <2>2 DEF Key, Column
<1>2. Len(landed[p]) \in Nat /\ Len(landed[p]) > 0
  <2>1. landed[p] \in Seq(Headers) /\ landed[p] # <<>>
    BY DEF Typed, HeadersRead
  <2> QED
    BY <2>1
<1> DEFINE y == Declared(p, IF read THEN bronze[p].type ELSE No)
<1>3. y \in Types \cup {No, "string"}
  <2>1. bronze[p].type \in Types \cup {No, "string"}
    BY DEF Typed
  <2> QED
    BY <1>0, <2>1 DEF Declared, _build_evolved_schema, Work
<1>4. u[p].full \in BOOLEAN /\ u[p].doc \in Types \cup {No} /\ u[p].changed \in BOOLEAN
  BY <1>0 DEF Work
<1> HIDE DEF y
<1>5. Key(p, h) \in Column
  BY <1>1 DEF Column
<1> QED
  BY <1>1, <1>2, <1>3, <1>4, <1>5, RunWork DEF y

\* The update runs with what the gate decided, or is skipped.
LEMMA GateMoves ==
    ASSUME Typed, NEW p \in Pipelines, NEW h, NEW inserted \in BOOLEAN, NEW read \in BOOLEAN,
           GateTakes(p, h, inserted, read)
    PROVE  /\ \A w \in Workers \ {p} : u'[w] = u[w]
           /\ \/ p = "cdc" /\ u'[p] = Idle
              \/ /\ RunsAs(u'[p], u[p].doc, u[p].changed, Key(p, h), Len(landed[p]),
                           Declared(p, IF read THEN bronze[p].type ELSE No))
                 /\ Key(p, h) \in Columns /\ Len(landed[p]) > 0
<1>0. p \in Workers /\ h \in HeadersRead(p)
  BY Kinds DEF GateTakes
<1>1. CASE p = "cdc" /\ Skip(p)
  BY <1>0, <1>1, IdleTyped, Moves DEF Skip
<1>2. CASE ~(p = "cdc" /\ Skip(p))
  <2> DEFINE y == Declared(p, IF read THEN bronze[p].type ELSE No)
             x == Run(u[p].full, u[p].doc, u[p].changed, Key(p, h), Len(landed[p]), y)
  <2>1. u' = [u EXCEPT ![p] = x]
    BY <1>2 DEF GateTakes
  <2>2. /\ RunsAs(x, u[p].doc, u[p].changed, Key(p, h), Len(landed[p]), y)
        /\ Key(p, h) \in Columns /\ Len(landed[p]) > 0
    BY <1>0, GateWork
  <2>3. x \in Work
    BY <2>2 DEF RunsAs
  <2> HIDE DEF x
  <2>4. u'[p] = x /\ \A w \in Workers \ {p} : u'[w] = u[w]
    BY <1>0, <2>1, <2>3, Moves
  <2> QED
    BY <2>2, <2>4
<1> QED
  BY <1>1, <1>2

LEMMA GateOpens ==
    ASSUME NEW p \in Pipelines, gate_table_common(p)
    PROVE  /\ u[p].pc = "gate" /\ pkHash' = pkHash /\ schemaHash' = schemaHash
           /\ UNCHANGED <<config, doc, landed, bronze, follow, past, stale, told, fed, reconfigured>>
           /\ \E h \in HeadersRead(p), inserted \in BOOLEAN, read \in BOOLEAN :
                 GateTakes(p, h, inserted, read)
BY DEF gate_table_common, GateTakes, Run, At, onVolume, seedHistory

LEMMA TypedTable ==
    ASSUME Typed, Running, NEW p \in Pipelines, gate_table_common(p) \/ UpdateCompletes(p)
    PROVE  Typed'
<1>0. p \in Workers /\ u[p] \in Work
  BY Kinds DEF Typed
<1>1. CASE gate_table_common(p)
  <2>1. PICK h \in HeadersRead(p), inserted \in BOOLEAN, read \in BOOLEAN :
          GateTakes(p, h, inserted, read)
    BY <1>1 DEF gate_table_common, GateTakes, Run
  <2>2. registry' \in [Pipelines -> Row]
    <3>0. registry[p] \in Row
      BY DEF Typed
    <3>1. h \in HeadersRead(p) /\ h[1] \in Columns
      BY <2>1, HeadersOf, Kinds DEF GateTakes
    <3>2. Inserted(registry[p], h[1]) \in Row
      BY <3>0, <3>1, RowsMade
    <3> QED
      BY <2>1, <3>2 DEF GateTakes, Typed
  <2>3. unsure' \in SUBSET Pipelines
    BY <2>1 DEF GateTakes, Typed
  <2>4. u' \in [Workers -> Work]
    <3>1. CASE Skip(p)
      BY <1>0, <3>1, IdleTyped, Moves DEF Skip
    <3>2. CASE ~Skip(p)
      <4> DEFINE x == Run(u[p].full, u[p].doc, u[p].changed, Key(p, h), Len(landed[p]),
                          Declared(p, IF read THEN bronze[p].type ELSE No))
      <4>1. u' = [u EXCEPT ![p] = x]
        BY <2>1, <3>2 DEF GateTakes
      <4>2. x \in Work
        BY GateWork DEF RunsAs
      <4> QED
        BY <1>0, <4>1, <4>2, Moves
    <3> QED
      BY <3>1, <3>2
  <2> QED
    BY <1>1, <2>2, <2>3, <2>4 DEF gate_table_common, onVolume, seedHistory, Typed
<1>2. CASE UpdateCompletes(p)
  <2>1. u' \in [Workers -> Work]
    BY <1>0, <1>2, IdleTyped, Moves DEF UpdateCompletes
  <2>2. /\ u[p].type \in Types \cup {No, "string"} /\ u[p].key \in Columns
        /\ u[p].folder \in Nat /\ hash[u[p].folder] \in Nat
    BY <1>0, <1>2 DEF UpdateCompletes, Running, At, Typed, Work
  <2>3. fed' \in [Pipelines -> SUBSET Columns]
    <3>1. fed[p] \in SUBSET Columns
      BY DEF Typed
    <3>2. fed' = [fed EXCEPT ![p] = fed'[p]] /\ fed'[p] \in SUBSET Columns
      BY <1>2, <2>2, <3>1 DEF UpdateCompletes, Typed
    <3> QED
      BY <3>2 DEF Typed
  <2>4. bronze' \in [Pipelines -> [type: Types \cup {No, "string"}, folder: Nat, version: Nat]]
    <3> DEFINE Table == [type: Types \cup {No, "string"}, folder: Nat, version: Nat]
    <3>1. bronze[p] \in Table
      BY DEF Typed
    <3>2. [bronze[p] EXCEPT !.type = u[p].type] \in Table
      BY <2>2, <3>1
    <3>3. \A n \in Nat : [type |-> u[p].type, folder |-> u[p].folder, version |-> n] \in Table
      BY <2>2
    <3>4. \E x \in Table : bronze' = [bronze EXCEPT ![p] = x]
      <4> HIDE DEF Table
      <4> QED
        BY <1>2, <2>2, <3>2, <3>3 DEF UpdateCompletes
    <3> QED
      BY <3>4 DEF Typed
  <2> QED
    BY <1>2, <2>1, <2>3, <2>4 DEF UpdateCompletes, onVolume, meta, seedHistory, Typed
<1> QED
  BY <1>1, <1>2

LEMMA TypedAround ==
    ASSUME Typed, NEW t \in Pipelines,
           \/ \E key \in Columns \cup {No} : upload_pk_config(t, key)
           \/ \E key \in Columns : ManualOverride(t, key)
           \/ \E header \in Headers : Land(t, header)
           \/ _seed_registry_from_schema(t)
           \/ \E w \in Workers : Fail(w)
           \/ seed_cdc_pk_registry_from_schemas \/ Reload
    PROVE  Typed'
<1>0. registry[t] \in Row /\ "cdc" \in Pipelines /\ "cdc" \in Workers
  BY Kinds DEF Typed
<1>1. CASE \E key \in Columns \cup {No} : upload_pk_config(t, key)
  BY <1>1 DEF upload_pk_config, meta, Typed, Config, Column
<1>2. CASE \E key \in Columns : ManualOverride(t, key)
  BY <1>0, <1>2, RowsMade DEF ManualOverride, onVolume, seedHistory, Typed
<1>3. CASE \E header \in Headers : Land(t, header)
  BY <1>3 DEF Land, meta, seedHistory, tableHistory, Typed
<1>4. CASE _seed_registry_from_schema(t)
  BY <1>0, <1>4, RowsMade, Kinds DEF _seed_registry_from_schema, onVolume, seedHistory,
                                     tableHistory, Typed
<1>5. CASE \E w \in Workers : Fail(w)
  BY <1>5, IdleTyped, Moves DEF Fail, onVolume, meta, tableHistory, Typed
<1>6. CASE seed_cdc_pk_registry_from_schemas
  <2>1. u' = [u EXCEPT !["cdc"] = [u["cdc"] EXCEPT !.pc = "reload"]]
    BY <1>0, <1>6 DEF seed_cdc_pk_registry_from_schemas, Typed
  <2>2. [u["cdc"] EXCEPT !.pc = "reload"] \in Work
    BY <1>0, Advance, Placed DEF Typed
  <2>3. Inserted(registry["cdc"], FirstOrdinal) \in Row
    BY <1>0, RowsMade, Kinds DEF Typed
  <2>4. u' \in [Workers -> Work]
    BY <1>0, <2>1, <2>2, Moves
  <2> QED
    BY <1>0, <1>6, <2>3, <2>4
       DEF seed_cdc_pk_registry_from_schemas, onVolume, seedHistory, tableHistory, Typed
<1>7. CASE Reload
  <2>1. PICK ok \in BOOLEAN :
          /\ IF ok THEN UNCHANGED <<events, unsure>> ELSE Event /\ unsure' = unsure \cup {"cdc"}
          /\ u' = [u EXCEPT !["cdc"].row = IF ok THEN registry["cdc"] ELSE NoRow,
                            !["cdc"].known = ok /\ (seeded \/ registry["cdc"] # NoRow),
                            !["cdc"].pc = "gate"]
    BY <1>7 DEF Reload
  <2> DEFINE r == IF ok THEN registry["cdc"] ELSE NoRow
             b == ok /\ (seeded \/ registry["cdc"] # NoRow)
             x == [u["cdc"] EXCEPT !.row = r, !.known = b, !.pc = "gate"]
  <2>2. u' = [u EXCEPT !["cdc"] = x]
    BY <1>0, <2>1 DEF Typed
  <2>3. r \in Row /\ b \in BOOLEAN /\ "gate" \in Positions /\ u["cdc"] \in Work
    BY <1>0, Placed DEF Row, Typed
  <2>4. x \in Work
    <3> HIDE DEF r, b
    <3> QED
      BY <2>3, Advance
  <2>5. u' \in [Workers -> Work]
    BY <1>0, <2>2, <2>4, Moves
  <2>6. unsure' \in SUBSET Pipelines
    BY <1>0, <2>1 DEF Typed
  <2> QED
    BY <1>7, <2>5, <2>6 DEF Reload, onVolume, meta, seedHistory, Typed
<1> QED
  BY <1>1, <1>2, <1>3, <1>4, <1>5, <1>6, <1>7

-----------------------------------------------------------------------------
(* What the actions that do not seed leave alone *)

\* The steps of the update of pipeline p.
Elsewhere(p) ==
    \/ start_update(p)
    \/ _bootstrap_schema_json(p) \/ _load_typed_schemas(p) \/ SchemaSeen(p)
    \/ _load_registry(p) \/ Skipped(p) \/ gate_table_common(p) \/ UpdateCompletes(p)

\* The steps of the seed_registry task after the seeding, and its start.
Task == seed_registry \/ _ensure_schema_json \/ _write_schema_to_volume

\* The seeding of Pipeline B from the schemas of the export.
CdcSeed == seed_cdc_pk_registry_from_schemas \/ Reload

\* What happens to table t outside the notebooks.
Outside(t) ==
    \/ \E key \in Columns \cup {No} : upload_pk_config(t, key)
    \/ \E key \in Columns : ManualOverride(t, key)
    \/ \E header \in Headers : Land(t, header)
    \/ _seed_registry_from_schema(t)

\* Worker w does not seed, neither before nor after, and is prepared only if it was.
Still(w) ==
    \/ u'[w] = u[w]
    \/ /\ u[w].pc \notin {"merge", "hash"} /\ u'[w].pc \notin {"merge", "hash"}
       /\ u'[w].pc \in Prepared => u[w].pc \in Prepared

Quiet == pkHash' = pkHash /\ \A w \in Workers : Still(w)

\* The two actions that read the registry only take a row with them.
TakesRow(w, pcs) ==
    /\ \A v \in Workers \ {w} : u'[v] = u[v]
    /\ u'[w].pc \in pcs
    /\ u'[w].doc = u[w].doc /\ u'[w].changed = u[w].changed

LEMMA LoadMoves ==
    ASSUME Typed, NEW p \in Pipelines, _load_registry(p)
    PROVE  /\ TakesRow(p, {"cdc_seed", "gate"}) /\ u[p].pc = "registry"
           /\ u'[p].pc # "run"
<1>1. PICK r \in Row \cup {NoRow}, b \in BOOLEAN, a \in {"cdc_seed", "gate"} :
        u' = [u EXCEPT ![p].row = r, ![p].known = b, ![p].pc = a]
  BY DEF _load_registry, Typed
<1>2. p \in Workers /\ u[p] \in Work
  BY Kinds DEF Typed
<1>3. TakesRow(p, {"cdc_seed", "gate"})
  BY <1>1, <1>2 DEF TakesRow, Typed, Work
<1> QED
  BY <1>3 DEF _load_registry, TakesRow, At

LEMMA CdcMoves ==
    ASSUME Typed, CdcSeed
    PROVE  /\ TakesRow("cdc", {"reload", "gate"}) /\ u["cdc"].pc \in {"cdc_seed", "reload"}
           /\ \A w \in Workers : u'[w] = u[w] \/ u'[w].pc # "run"
<1>0. "cdc" \in Workers /\ "cdc" \in Pipelines
  BY Kinds
<1>1. u["cdc"] \in Work
  BY <1>0 DEF Typed
<1>2. CASE seed_cdc_pk_registry_from_schemas
  BY <1>0, <1>1, <1>2 DEF seed_cdc_pk_registry_from_schemas, TakesRow, At, Typed, Work
<1>3. CASE Reload
  <2>1. PICK r \in Row \cup {NoRow}, b \in BOOLEAN :
          u' = [u EXCEPT !["cdc"].row = r, !["cdc"].known = b, !["cdc"].pc = "gate"]
    BY <1>0, <1>3 DEF Reload, Typed
  <2>2. TakesRow("cdc", {"reload", "gate"})
    BY <1>0, <1>1, <2>1 DEF TakesRow, Typed, Work
  <2> QED
    BY <1>3, <2>2 DEF Reload, TakesRow, At
<1> QED
  BY <1>2, <1>3 DEF CdcSeed

\* The seed_registry task moves no update.
LEMMA TaskMoves ==
    ASSUME Typed, Task, NEW p \in Pipelines
    PROVE  u'[p] = u[p]
<1>1. p # "seed_registry" /\ p \in Workers
  BY Kinds
<1>2. CASE seed_registry
  BY <1>1, <1>2 DEF seed_registry, Typed
<1>3. CASE _ensure_schema_json
  BY <1>1, <1>3 DEF _ensure_schema_json, Typed
<1>4. CASE _write_schema_to_volume
  BY <1>1, <1>4 DEF _write_schema_to_volume, Typed
<1> QED
  BY <1>2, <1>3, <1>4 DEF Task

LEMMA QuietTask ==
    ASSUME Typed, Task
    PROVE  Quiet
<1>0. "seed_registry" \in Workers
  BY Kinds
<1>1. CASE seed_registry
  BY <1>0, <1>1 DEF seed_registry, At, Idle, Prepared, Quiet, Still, meta, Typed
<1>2. CASE _ensure_schema_json
  BY <1>0, <1>2 DEF _ensure_schema_json, At, Idle, Prepared, Quiet, Still, meta, Typed, Work
<1>3. CASE _write_schema_to_volume
  BY <1>0, <1>3 DEF _write_schema_to_volume, At, Idle, Prepared, Quiet, Still, Typed
<1> QED
  BY <1>1, <1>2, <1>3 DEF Task

LEMMA QuietUpdate ==
    ASSUME Typed, NEW p \in Pipelines, Elsewhere(p)
    PROVE  Quiet
<1>0. p \in Workers /\ u[p] \in Work
  BY Kinds DEF Typed
<1>1. CASE start_update(p)
  BY <1>0, <1>1 DEF start_update, At, Idle, Prepared, Quiet, Still, meta, Typed
<1>2. CASE _bootstrap_schema_json(p)
  BY <1>0, <1>2 DEF _bootstrap_schema_json, At, Prepared, Quiet, Still, meta, Typed, Work
<1>3. CASE _load_typed_schemas(p)
  BY <1>0, <1>3 DEF _load_typed_schemas, At, Prepared, Quiet, Still, meta, Typed, Work
<1>4. CASE SchemaSeen(p)
  BY <1>0, <1>4 DEF SchemaSeen, At, Prepared, Quiet, Still, Typed, Work
<1>5. CASE _load_registry(p)
  <2>1. pkHash' = pkHash
    BY <1>5 DEF _load_registry, meta
  <2> QED
    BY <1>5, <2>1, LoadMoves DEF TakesRow, Prepared, Quiet, Still
<1>6. CASE Skipped(p)
  BY <1>0, <1>6 DEF Skipped, Skip, At, Idle, Prepared, Quiet, Still, meta, Typed
<1>7. CASE gate_table_common(p)
  <2>1. /\ pkHash' = pkHash /\ u[p].pc = "gate" /\ u'[p].pc \in {"idle", "run"}
        /\ \A w \in Workers \ {p} : u'[w] = u[w]
    <3>1. PICK h \in HeadersRead(p), inserted \in BOOLEAN, read \in BOOLEAN :
            GateTakes(p, h, inserted, read)
      BY <1>7, GateOpens
    <3>2. /\ \A w \in Workers \ {p} : u'[w] = u[w]
          /\ u'[p] = Idle \/ u'[p].pc = "run"
      BY <3>1, GateMoves DEF RunsAs
    <3>3. Idle.pc = "idle"
      BY DEF Idle
    <3> QED
      BY <1>7, <3>2, <3>3, GateOpens
  <2> QED
    BY <2>1 DEF Prepared, Quiet, Still
<1>8. CASE UpdateCompletes(p)
  BY <1>0, <1>8 DEF UpdateCompletes, At, Idle, Prepared, Quiet, Still, meta, Typed
<1> QED
  BY <1>1, <1>2, <1>3, <1>4, <1>5, <1>6, <1>7, <1>8 DEF Elsewhere

LEMMA QuietRest ==
    ASSUME Typed, CdcSeed \/ \E t \in Pipelines : Outside(t)
    PROVE  Quiet
<1>0. "cdc" \in Workers
  BY Kinds
<1>1. CASE CdcSeed
  <2>1. pkHash' = pkHash
    BY <1>1 DEF CdcSeed, seed_cdc_pk_registry_from_schemas, Reload, meta
  <2> QED
    BY <1>1, <2>1, CdcMoves DEF TakesRow, Prepared, Quiet, Still
<1>2. CASE \E t \in Pipelines : Outside(t)
  BY <1>2 DEF Outside, upload_pk_config, ManualOverride, Land, _seed_registry_from_schema,
              Quiet, Still, meta
<1> QED
  BY <1>1, <1>2

\* The steps, by who takes them.
LEMMA Steps ==
    ASSUME BronzeNext
    PROVE  \/ Task \/ CdcSeed
           \/ \E w \in Workers : Seed(w) \/ Fail(w)
           \/ \E p \in Pipelines : Elsewhere(p) \/ Outside(p)
BY Kinds DEF BronzeNext, Task, CdcSeed, Elsewhere, Outside

LEMMA TypedKept ==
    ASSUME Typed, Merging, Running, BronzeNext
    PROVE  Typed'
<1>1. ASSUME Task PROVE Typed'
  BY <1>1, TypedTask DEF Task
<1>2. ASSUME NEW w \in Workers, Seed(w) PROVE Typed'
  BY <1>2, TypedSeed
<1>3. ASSUME NEW p \in Pipelines, Elsewhere(p) PROVE Typed'
  BY <1>3, TypedUpdate, TypedTable DEF Elsewhere
<1>4. ASSUME CdcSeed \/ (\E w \in Workers : Fail(w)) PROVE Typed'
  BY <1>4, TypedAround, Kinds DEF CdcSeed
<1>5. ASSUME NEW t \in Pipelines, Outside(t) PROVE Typed'
  BY <1>5, TypedAround DEF Outside
<1> QED
  BY <1>1, <1>2, <1>3, <1>4, <1>5, Steps

-----------------------------------------------------------------------------
(* The seeding of the registry *)

\* A batch takes its table off the list, and the last one goes on to the hash.
LEMMA MergingKept ==
    ASSUME Typed, Merging, BronzeNext
    PROVE  Merging'
<1>1. ASSUME Quiet PROVE Merging'
  BY <1>1 DEF Quiet, Still, Merging, At
<1>2. ASSUME NEW w \in Workers, Seed(w) PROVE Merging'
  <2>0. u[w] \in Work
    BY DEF Typed
  <2>1. CASE SeedUnchanged(w)
    BY <2>0, <2>1 DEF SeedUnchanged, AfterSeed, Merging, At, Typed, Work
  <2>2. CASE SeedChanged(w)
    <3>1. /\ u'[w].pc = "merge" /\ u'[w].cfg = config
          /\ u'[w].todo = {"others"} \cup {t \in Pipelines : config[t] # No}
          /\ \A v \in Workers \ {w} : u'[v] = u[v]
      BY <2>0, <2>2 DEF SeedChanged, Typed, Work
    <3>2. \A t \in Pipelines \cap u'[w].todo : u'[w].cfg[t] # No
      BY <3>1, Kinds
    <3> QED
      BY <3>1, <3>2 DEF Merging, At
  <2>3. CASE _seed_pk_registry(w)
    <3>1. PICK t \in u[w].todo :
            u' = [u EXCEPT ![w].todo = @ \ {t},
                           ![w].pc = IF u[w].todo = {t} THEN "hash" ELSE "merge"]
      BY <2>3 DEF _seed_pk_registry
    <3>2. /\ u'[w].todo = u[w].todo \ {t} /\ u'[w].cfg = u[w].cfg
          /\ u'[w].pc = IF u[w].todo = {t} THEN "hash" ELSE "merge"
          /\ \A v \in Workers \ {w} : u'[v] = u[v]
      BY <2>0, <3>1 DEF Typed, Work
    <3>3. u'[w].pc = "merge" => \A x \in Pipelines \cap u'[w].todo : u'[w].cfg[x] # No
      BY <2>3, <3>2 DEF _seed_pk_registry, Merging, At
    <3>4. u'[w].pc = "hash" => u'[w].todo = {}
      BY <3>2
    <3> QED
      BY <3>2, <3>3, <3>4 DEF Merging, At
  <2>4. CASE _delta_upsert_config_version(w)
    BY <2>0, <2>4 DEF _delta_upsert_config_version, AfterSeed, Merging, At, Typed, Work
  <2> QED
    BY <1>2, <2>1, <2>2, <2>3, <2>4 DEF Seed
<1>3. ASSUME NEW w \in Workers, Fail(w) PROVE Merging'
  BY <1>3 DEF Fail, Idle, Merging, At, Typed
<1> QED
  BY <1>1, <1>2, <1>3, Steps, QuietTask, QuietUpdate, QuietRest

\* No row is changed, but new ones may come.
Grown == \A t \in Pipelines : registry[t] # NoRow => registry'[t] = registry[t]

LEMMA AppliedStays ==
    ASSUME Typed, Grown, NEW cfg, NEW t \in Pipelines, Applied(cfg, t)
    PROVE  Applied(cfg, t)'
BY DEF Grown, Applied, NoRow, No

LEMMA InsertGrows ==
    ASSUME Typed, NEW t \in Pipelines, NEW key \in Columns,
           registry' \in {registry, [registry EXCEPT ![t] = Inserted(@, key)]}
    PROVE  Grown
BY DEF Typed, Grown, Inserted

\* Nothing that Followed is about moves, but for new rows.
LEMMA FollowedStays ==
    ASSUME Typed, Followed, Quiet, Grown, UNCHANGED <<config, past, stale, follow>>
    PROVE  Followed'
<1> SUFFICES ASSUME ~stale PROVE Followed'
  BY DEF Followed
<1>1. Stored(pkHash)' = Stored(pkHash)
  BY DEF Quiet, Stored
<1>2. \A w \in Workers : Seeding(w) => u'[w] = u[w]
  BY DEF Quiet, Still, Seeding
<1>3. \A w \in Workers : u'[w].pc \in {"merge", "hash"} => u'[w] = u[w]
  BY DEF Quiet, Still
<1>4. \A cfg : \A t \in Pipelines : Applied(cfg, t) => Applied(cfg, t)'
  BY AppliedStays
<1>5. config' \in past' /\ Stored(pkHash)' \subseteq past'
  BY <1>1 DEF Followed
<1>6. config' \in Stored(pkHash)' => \A t \in Pipelines : Applied(config, t)'
  BY <1>1, <1>4 DEF Followed
<1>7. ASSUME NEW w \in Workers, Seeding(w)'
      PROVE  u'[w].cfg = config' /\ \A t \in Pipelines \ u'[w].todo : Applied(config, t)'
  BY <1>3, <1>4, <1>7 DEF Followed, Seeding
<1>8. ASSUME follow' # NoValue, \A w \in Workers : ~Seeding(w)'
      PROVE  \A t \in Pipelines : Applied(follow, t)'
  BY <1>2, <1>4, <1>8 DEF Followed, Seeding
<1> QED
  BY <1>5, <1>6, <1>7, <1>8 DEF Followed

LEMMA FollowedSeed ==
    ASSUME Typed, Merging, Followed, NEW w \in Workers, Seed(w)
    PROVE  Followed'
<1> SUFFICES ASSUME ~stale PROVE Followed'
  BY DEF Followed, Seed, SeedUnchanged, SeedChanged, _seed_pk_registry,
         _delta_upsert_config_version, seedHistory
<1>0. u[w] \in Work /\ Idle.pc = "idle"
  BY DEF Typed, Idle
<1>1. CASE SeedUnchanged(w)
  <2>1. /\ UNCHANGED <<config, past, stale, pkHash, registry>> /\ follow' = config
        /\ \A v \in Workers \ {w} : u'[v] = u[v]
        /\ u'[w].pc \notin {"merge", "hash"} /\ config \in Stored(pkHash)
    BY <1>0, <1>1 DEF SeedUnchanged, AfterSeed, onVolume, meta, Typed, Work
  <2>2. \A v \in Workers : Seeding(v)' => u'[v] = u[v] /\ Seeding(v)
    BY <2>1 DEF Seeding
  <2>3. \A cfg : \A t \in Pipelines : Applied(cfg, t) => Applied(cfg, t)'
    BY <2>1 DEF Applied
  <2> QED
    BY <2>1, <2>2, <2>3 DEF Followed, Stored, Applied
<1>2. CASE SeedChanged(w)
  <2>1. /\ UNCHANGED <<config, past, stale, pkHash, registry, follow>>
        /\ \A v \in Workers \ {w} : u'[v] = u[v]
        /\ u'[w].pc = "merge" /\ u'[w].cfg = config
        /\ u'[w].todo = {"others"} \cup {t \in Pipelines : config[t] # No}
    BY <1>0, <1>2 DEF SeedChanged, onVolume, meta, seedHistory, Typed, Work
  <2>2. \A v \in Workers \ {w} : Seeding(v)' => u'[v] = u[v] /\ Seeding(v)
    BY <2>1 DEF Seeding
  <2>3. \A t \in Pipelines \ u'[w].todo : Applied(config, t)'
    BY <2>1 DEF Applied
  <2>4. Seeding(w)'
    BY <2>1 DEF Seeding
  <2>5. config' \in past' /\ Stored(pkHash)' \subseteq past'
    BY <2>1 DEF Followed, Stored
  <2>6. config' \in Stored(pkHash)' => \A t \in Pipelines : Applied(config, t)'
    BY <2>1 DEF Followed, Stored, Applied
  <2>7. ASSUME NEW v \in Workers, Seeding(v)'
        PROVE  u'[v].cfg = config' /\ \A t \in Pipelines \ u'[v].todo : Applied(config, t)'
    <3>1. CASE v = w
      BY <2>1, <2>3, <3>1
    <3>2. CASE v # w
      BY <2>1, <2>2, <2>7, <3>2 DEF Followed, Applied
    <3> QED
      BY <3>1, <3>2
  <2> QED
    BY <2>4, <2>5, <2>6, <2>7 DEF Followed
<1>3. CASE _seed_pk_registry(w)
  <2>1. PICK t \in u[w].todo :
          /\ u' = [u EXCEPT ![w].todo = @ \ {t},
                            ![w].pc = IF u[w].todo = {t} THEN "hash" ELSE "merge"]
          /\ IF t = "others" THEN seeded' = TRUE /\ UNCHANGED registry
             ELSE /\ registry' = [registry EXCEPT ![t] = Merged(@, u[w].cfg[t])]
                  /\ UNCHANGED seeded
    BY <1>3 DEF _seed_pk_registry
  <2>2. /\ u'[w].todo = u[w].todo \ {t} /\ u'[w].cfg = u[w].cfg /\ u'[w].pc \in {"merge", "hash"}
        /\ \A v \in Workers \ {w} : u'[v] = u[v]
    BY <1>0, <2>1 DEF Typed, Work
  <2>3. UNCHANGED <<config, past, stale, pkHash, follow>> /\ u[w].pc = "merge"
    BY <1>3 DEF _seed_pk_registry, onVolume, seedHistory, At
  <2>4. Seeding(w) /\ u[w].cfg = config /\ Seeding(w)'
    BY <2>2, <2>3 DEF Seeding, Followed
  <2>5. t # "others" => t \in Pipelines /\ config[t] \in Columns
    <3>1. t # "others" => t \in Pipelines
      BY <1>0 DEF Typed, Work
    <3>2. t # "others" => config[t] # No
      BY <2>3, <2>4, <3>1 DEF Merging, At
    <3> QED
      BY <3>1, <3>2 DEF Typed, Config, Column
  <2>6. t # "others" => Applied(config, t)'
    <3>1. CASE t # "others"
      <4>1. registry'[t] = Merged(registry[t], config[t]) /\ registry[t] \in Row
        BY <2>1, <2>4, <2>5, <3>1 DEF Typed
      <4>2. \/ Merged(registry[t], config[t]).source = "manual_override"
            \/ Merged(registry[t], config[t]).pk = config[t]
        BY ONLY <2>5, <3>1, <4>1, RowsMade
      <4> QED
        BY <2>3, <4>1, <4>2 DEF Applied
    <3> QED
      BY <3>1
  <2>7. \A x \in Pipelines \ {t} : registry'[x] = registry[x]
    BY <2>1 DEF Typed
  <2>8. \A x \in Pipelines : x = t \/ Applied(config, x) => Applied(config, x)'
    BY <2>3, <2>6, <2>7, Kinds DEF Applied
  <2>9. config' \in past' /\ Stored(pkHash)' \subseteq past'
    BY <2>3 DEF Followed, Stored
  <2>10. config' \in Stored(pkHash)' => \A x \in Pipelines : Applied(config, x)'
    BY <2>3, <2>8 DEF Followed, Stored
  <2>11. ASSUME NEW v \in Workers, Seeding(v)'
         PROVE  u'[v].cfg = config' /\ \A x \in Pipelines \ u'[v].todo : Applied(config, x)'
    <3>1. Seeding(v) /\ u'[v].cfg = u[v].cfg
      BY <2>2, <2>4, <2>11 DEF Seeding
    <3>2. u'[v].todo = u[v].todo \/ u'[v].todo = u[v].todo \ {t}
      BY <2>2
    <3> QED
      BY <2>3, <2>8, <3>1, <3>2 DEF Followed
  <2> QED
    BY <2>4, <2>9, <2>10, <2>11 DEF Followed
<1>4. CASE _delta_upsert_config_version(w)
  <2>1. /\ UNCHANGED <<config, past, stale, registry>> /\ follow' = u[w].cfg
        /\ pkHash' = [pkHash EXCEPT ![u[w].project] = u[w].cfg]
        /\ \A v \in Workers \ {w} : u'[v] = u[v]
        /\ u'[w].pc \notin {"merge", "hash"} /\ u[w].pc = "hash"
    BY <1>0, <1>4 DEF _delta_upsert_config_version, AfterSeed, onVolume, Typed, Work, At
  <2>2. u[w].cfg = config /\ u[w].todo = {}
    BY <2>1 DEF Followed, Seeding, Merging, At
  <2>3. \A t \in Pipelines : Applied(config, t)
    BY <2>1, <2>2 DEF Followed, Seeding
  <2>4. Stored(pkHash)' \subseteq Stored(pkHash) \cup {config}
    BY <2>1, <2>2 DEF Stored, Typed
  <2>5. \A t \in Pipelines : Applied(config, t)'
    BY <2>1, <2>3 DEF Applied
  <2>6. \A v \in Workers : Seeding(v)' => u'[v] = u[v] /\ Seeding(v)
    BY <2>1 DEF Seeding
  <2>7. \A t \in Pipelines : Applied(follow, t)'
    BY <2>1, <2>2, <2>5 DEF Applied
  <2> QED
    BY <2>1, <2>4, <2>5, <2>6, <2>7 DEF Followed
<1> QED
  BY <1>1, <1>2, <1>3, <1>4 DEF Seed

\* Which actions change what Followed is about.
LEMMA FollowedKept ==
    ASSUME Typed, Typed', Merging, Followed, BronzeNext
    PROVE  Followed'
<1>1. ASSUME Task PROVE Followed'
  <2>1. UNCHANGED <<config, past, stale, follow, registry>>
    BY <1>1 DEF Task, seed_registry, _ensure_schema_json, _write_schema_to_volume, onVolume,
                meta, seedHistory
  <2> QED
    BY <1>1, <2>1, QuietTask, FollowedStays DEF Grown
<1>2. ASSUME NEW p \in Pipelines, Elsewhere(p) PROVE Followed'
  <2>1. CASE gate_table_common(p)
    <3>1. PICK h \in HeadersRead(p), inserted \in BOOLEAN, read \in BOOLEAN :
            GateTakes(p, h, inserted, read)
      BY <2>1, GateOpens
    <3>2. h \in Headers
      BY HeadersOf
    <3>3. h[1] \in Columns
      BY <3>2, FirstColumn
    <3>4. registry' \in {registry, [registry EXCEPT ![p] = Inserted(@, h[1])]}
      BY <3>1 DEF GateTakes
    <3>5. Grown
      BY <3>3, <3>4, InsertGrows
    <3> QED
      BY <1>2, <2>1, <3>5, GateOpens, QuietUpdate, FollowedStays
  <2>2. CASE ~gate_table_common(p)
    <3>1. UNCHANGED <<config, past, stale, follow, registry>>
      BY <1>2, <2>2 DEF Elsewhere, start_update, _bootstrap_schema_json,
                        _load_typed_schemas, SchemaSeen, _load_registry, Skipped,
                        UpdateCompletes, onVolume, meta, seedHistory
    <3> QED
      BY <1>2, <3>1, QuietUpdate, FollowedStays DEF Grown
  <2> QED
    BY <2>1, <2>2
<1>3. ASSUME CdcSeed PROVE Followed'
  <2>1. UNCHANGED <<config, past, stale, follow>>
    BY <1>3 DEF CdcSeed, seed_cdc_pk_registry_from_schemas, Reload, onVolume, seedHistory
  <2>2. registry' \in {registry, [registry EXCEPT !["cdc"] = Inserted(@, FirstOrdinal)]}
    BY <1>3 DEF CdcSeed, seed_cdc_pk_registry_from_schemas, Reload, meta
  <2>3. Grown
    BY <2>2, InsertGrows, Kinds
  <2> QED
    BY <1>3, <2>1, <2>3, QuietRest, FollowedStays
<1>4. ASSUME NEW t \in Pipelines, Outside(t) PROVE Followed'
  <2>1. CASE \E header \in Headers : Land(t, header)
    BY <1>4, <2>1, QuietRest, FollowedStays DEF Land, meta, seedHistory, Grown
  <2>2. CASE _seed_registry_from_schema(t)
    <3>1. Grown
      BY <2>2, InsertGrows, Kinds DEF _seed_registry_from_schema
    <3> QED
      BY <1>4, <2>2, <3>1, QuietRest, FollowedStays DEF _seed_registry_from_schema, onVolume,
                                                        seedHistory
  <2>3. CASE \E key \in Columns : ManualOverride(t, key)
    <3>1. \A cfg : \A x \in Pipelines : Applied(cfg, x) => Applied(cfg, x)'
      BY <2>3 DEF ManualOverride, Applied, Typed
    <3>2. UNCHANGED <<config, past, stale, follow, pkHash, u>>
      BY <2>3 DEF ManualOverride, onVolume, seedHistory
    <3> QED
      BY <3>1, <3>2 DEF Followed, Stored, Seeding
  <2>4. CASE \E key \in Columns \cup {No} : upload_pk_config(t, key)
    <3> SUFFICES ASSUME ~stale' PROVE Followed'
      BY DEF Followed
    <3>1. /\ ~stale /\ config' \notin past /\ \A w \in Workers : ~Seeding(w)
          /\ past' = past \cup {config'} /\ UNCHANGED <<follow, pkHash, registry, u>>
      BY <2>4 DEF upload_pk_config, meta
    <3>2. Stored(pkHash)' = Stored(pkHash) /\ Stored(pkHash) \subseteq past
      BY <3>1 DEF Stored, Followed
    <3>3. \A x \in Pipelines : follow # NoValue => Applied(follow, x)
      BY <3>1 DEF Followed
    <3> QED
      BY <3>1, <3>2, <3>3 DEF Followed, Seeding, Applied
  <2> QED
    BY <1>4, <2>1, <2>2, <2>3, <2>4 DEF Outside
<1>5. ASSUME NEW w \in Workers, Fail(w) PROVE Followed'
  <2>1. /\ u' = [u EXCEPT ![w] = Idle] /\ UNCHANGED <<config, past, stale, pkHash, registry>>
        /\ follow' = IF Seeding(w) THEN NoValue ELSE follow
    BY <1>5 DEF Fail, onVolume, meta
  <2>2. u'[w] = Idle /\ \A v \in Workers \ {w} : u'[v] = u[v]
    BY <2>1, IdleTyped, Moves
  <2>3. Idle.pc = "idle"
    BY DEF Idle
  <2>4. \A v \in Workers : Seeding(v)' => v # w /\ Seeding(v)
    BY <2>2, <2>3 DEF Seeding
  <2>5. ASSUME follow' # NoValue, \A v \in Workers : ~Seeding(v)'
        PROVE  follow' = follow /\ \A v \in Workers : ~Seeding(v)
    BY <2>1, <2>2, <2>5 DEF Seeding
  <2> QED
    BY <2>1, <2>2, <2>4, <2>5 DEF Followed, Stored, Applied
<1>6. ASSUME NEW w \in Workers, Seed(w) PROVE Followed'
  BY <1>6, FollowedSeed
<1> QED
  BY <1>1, <1>2, <1>3, <1>4, <1>5, <1>6, Steps

-----------------------------------------------------------------------------
(* The key of a table *)

\* A row may come, but only with the key that is listed, and its key stays.
RowKept(p) ==
    \/ registry'[p] = registry[p]
    \/ registry'[p] # NoRow /\ registry[p] # NoRow /\ registry'[p].pk = registry[p].pk
    \/ /\ registry'[p] # NoRow /\ registry[p] = NoRow
       /\ config[p] # No => registry'[p].pk = config[p]

LEMMA ListedStays ==
    ASSUME Typed, NEW p \in Pipelines, Listed(p), Quiet, config'[p] = config[p], RowKept(p)
    PROVE  Listed(p)'
<1>0. p \in Workers
  BY Kinds
<1>1. Stored(pkHash)' = Stored(pkHash)
  BY DEF Quiet, Stored
<1>2. \A w \in Workers : Seeding(w)' => Seeding(w) /\ u'[w] = u[w]
  BY DEF Quiet, Still, Seeding
<1>3. u'[p].pc \in Prepared => u[p].pc \in Prepared
  BY <1>0 DEF Quiet, Still
<1>4. registry[p] # NoRow => registry'[p] # NoRow
  BY DEF RowKept
<1>5. config[p] # No /\ registry'[p] # NoRow => registry'[p].pk = config[p]
  BY DEF RowKept, Listed
<1> QED
  BY <1>1, <1>2, <1>3, <1>4, <1>5 DEF Listed

\* The update of p goes on before the gate, or ends.
Aside(p) == u'[p] = u[p] \/ u'[p].pc \notin {"gate", "run"}

LEMMA KeyedStays ==
    ASSUME NEW p \in Pipelines, Listed(p), Keyed(p), config'[p] = config[p], RowKept(p), Aside(p),
           fed'[p] = fed[p]
    PROVE  Keyed(p)'
<1>1. registry[p] # NoRow => registry'[p] # NoRow /\ registry'[p].pk = registry[p].pk
  BY DEF RowKept
<1>2. u'[p].pc = "gate" =>
        IF u'[p].row = NoRow THEN config'[p] = No
        ELSE registry'[p] # NoRow /\ u'[p].row.pk = registry'[p].pk
  BY <1>1 DEF Keyed, At, Aside
<1>3. u'[p].pc = "run" => registry'[p] # NoRow /\ u'[p].key = registry'[p].pk
  BY <1>1 DEF Keyed, At, Aside
<1>4. fed'[p] # {} => registry'[p] # NoRow /\ fed'[p] = {registry'[p].pk}
  BY <1>1 DEF Keyed
<1> QED
  BY <1>2, <1>3, <1>4 DEF Keyed, At

\* What OneKey says of p.
KeyOf(p) == p \notin reconfigured => Listed(p) /\ (p \notin unsure => Keyed(p))

\* Nothing that OneKey says of p is touched, but for a first row of the listed key.
Spared(p) ==
    /\ config'[p] = config[p] /\ fed'[p] = fed[p] /\ RowKept(p) /\ Aside(p)
    /\ p \in reconfigured => p \in reconfigured'
    /\ p \in unsure => p \in unsure'

LEMMA KeyStays ==
    ASSUME Typed, NEW p \in Pipelines, KeyOf(p), Quiet,
           p \notin reconfigured' => Spared(p)
    PROVE  KeyOf(p)'
BY ListedStays, KeyedStays DEF KeyOf, Spared

LEMMA KeyTask ==
    ASSUME Typed, NEW p \in Pipelines, KeyOf(p), Task
    PROVE  KeyOf(p)'
<1>1. UNCHANGED <<config, registry, fed, reconfigured, unsure>>
  BY DEF Task, seed_registry, _ensure_schema_json, _write_schema_to_volume, onVolume,
         meta, tableHistory
<1>2. u'[p] = u[p]
  BY TaskMoves
<1> QED
  BY <1>1, <1>2, QuietTask, KeyStays DEF Spared, RowKept, Aside

LEMMA KeyElsewhere ==
    ASSUME Typed, NEW p \in Pipelines, KeyOf(p), NEW q \in Pipelines \ {p}, Elsewhere(q)
    PROVE  KeyOf(p)'
<1>0. p \in Workers /\ q \in Workers /\ p # q
  BY Kinds
<1>1. /\ u'[p] = u[p] /\ registry'[p] = registry[p] /\ config' = config /\ fed'[p] = fed[p]
      /\ reconfigured' = reconfigured /\ (p \in unsure => p \in unsure')
  <2>1. CASE gate_table_common(q)
    <3>1. PICK h \in HeadersRead(q), inserted \in BOOLEAN, read \in BOOLEAN :
            GateTakes(q, h, inserted, read)
      BY <2>1, GateOpens
    <3>2. u'[p] = u[p]
      BY <1>0, <3>1, GateMoves
    <3>3. registry'[p] = registry[p] /\ (p \in unsure => p \in unsure')
      BY <1>0, <3>1 DEF GateTakes, Typed
    <3> QED
      BY <2>1, <3>2, <3>3, GateOpens
  <2>2. CASE UpdateCompletes(q)
    BY <1>0, <2>2 DEF UpdateCompletes, onVolume, meta, Typed
  <2>3. CASE _load_registry(q)
    BY <1>0, <2>3 DEF _load_registry, onVolume, meta, Typed
  <2>4. CASE start_update(q) \/ Skipped(q)
    BY <1>0, <2>4 DEF start_update, Skipped, Skip, onVolume, meta, tableHistory, Typed
  <2>5. CASE _bootstrap_schema_json(q) \/ _load_typed_schemas(q) \/ SchemaSeen(q)
    BY <1>0, <2>5 DEF _bootstrap_schema_json, _load_typed_schemas, SchemaSeen, onVolume,
                      meta, tableHistory, Typed
  <2> QED
    BY <2>1, <2>2, <2>3, <2>4, <2>5 DEF Elsewhere
<1> QED
  BY <1>1, QuietUpdate, KeyStays DEF Spared, RowKept, Aside

LEMMA KeyOutside ==
    ASSUME Typed, NEW p \in Pipelines, KeyOf(p), NEW t \in Pipelines, Outside(t)
    PROVE  KeyOf(p)'
<1> SUFFICES ASSUME p \notin reconfigured' PROVE Spared(p)
  BY QuietRest, KeyStays
<1>1. u' = u /\ fed' = fed /\ unsure' = unsure /\ reconfigured \subseteq reconfigured'
  BY DEF Outside, upload_pk_config, ManualOverride, Land, _seed_registry_from_schema,
         tableHistory
<1>2. config'[p] = config[p]
  <2>1. CASE \E key \in Columns \cup {No} : upload_pk_config(t, key)
    <3>1. PICK key \in Columns \cup {No} : upload_pk_config(t, key)
      BY <2>1
    <3>2. config' = [config EXCEPT ![t] = key] /\ t # p
      BY <3>1 DEF upload_pk_config
    <3> QED
      BY <3>2 DEF Typed, Config
  <2>2. CASE ~\E key \in Columns \cup {No} : upload_pk_config(t, key)
    BY <2>2 DEF Outside, ManualOverride, Land, _seed_registry_from_schema, onVolume
  <2> QED
    BY <2>1, <2>2
<1>3. RowKept(p)
  <2>1. CASE _seed_registry_from_schema(t)
    <3>1. registry' = [registry EXCEPT ![t] = Inserted(@, FirstOrdinal)] /\ registry[t] = NoRow
      BY <2>1 DEF _seed_registry_from_schema
    <3>2. Inserted(NoRow, FirstOrdinal) # NoRow /\ Inserted(NoRow, FirstOrdinal).pk = FirstOrdinal
      BY Kinds, RowsMade DEF Row
    <3>3. p = t => registry'[p] # NoRow /\ registry[p] = NoRow /\ registry'[p].pk = FirstOrdinal
      BY <3>1, <3>2 DEF Typed
    <3>4. p # t => registry'[p] = registry[p]
      BY <3>1 DEF Typed
    <3>5. config[p] # No => config[p] = FirstOrdinal
      BY <1>1 DEF KeyOf, Listed
    <3> QED
      BY <3>3, <3>4, <3>5 DEF RowKept
  <2>2. CASE ~_seed_registry_from_schema(t)
    BY <2>2 DEF Outside, upload_pk_config, ManualOverride, Land, meta, RowKept, Typed
  <2> QED
    BY <2>1, <2>2
<1> QED
  BY <1>1, <1>2, <1>3 DEF Spared, Aside

LEMMA KeyFail ==
    ASSUME Typed, NEW p \in Pipelines, KeyOf(p), NEW w \in Workers, Fail(w)
    PROVE  KeyOf(p)'
<1>0. p \in Workers /\ Idle.pc = "idle"
  BY Kinds DEF Idle
<1>1. /\ UNCHANGED <<config, pkHash, registry, fed, reconfigured, unsure>>
      /\ u' = [u EXCEPT ![w] = Idle]
  BY DEF Fail, onVolume, meta, tableHistory
<1>2. u'[w] = Idle /\ \A v \in Workers \ {w} : u'[v] = u[v]
  BY <1>1, IdleTyped, Moves
<1>3. Aside(p) /\ (u'[p].pc \in Prepared => u[p].pc \in Prepared)
  BY <1>0, <1>2 DEF Aside, Prepared
<1>4. \A v \in Workers : Seeding(v)' => Seeding(v) /\ u'[v] = u[v]
  BY <1>0, <1>2 DEF Seeding
<1>5. Listed(p) => Listed(p)'
  BY <1>1, <1>3, <1>4 DEF Listed, Stored
<1>6. Listed(p) /\ Keyed(p) => Keyed(p)'
  BY <1>1, <1>3, KeyedStays DEF RowKept
<1> QED
  BY <1>1, <1>5, <1>6 DEF KeyOf

LEMMA KeySeed ==
    ASSUME Typed, Merging, NEW p \in Pipelines, KeyOf(p), NEW w \in Workers, Seed(w)
    PROVE  KeyOf(p)'
<1>0. p \in Workers /\ u[w] \in Work
  BY Kinds DEF Typed
<1>1. UNCHANGED <<config, fed, reconfigured, unsure>>
  BY DEF Seed, SeedUnchanged, SeedChanged, _seed_pk_registry,
         _delta_upsert_config_version, onVolume, tableHistory
<1> SUFFICES ASSUME p \notin reconfigured
             PROVE  Listed(p)' /\ RowKept(p) /\ Aside(p)
  BY <1>1, KeyedStays DEF KeyOf
<1>2. Listed(p)
  BY DEF KeyOf
<1>3. CASE SeedUnchanged(w)
  <2>1. /\ UNCHANGED <<pkHash, registry>> /\ Stored(pkHash) # {}
        /\ u'[w].pc \in {"write", "schema"} /\ \A v \in Workers \ {w} : u'[v] = u[v]
    BY <1>0, <1>3 DEF SeedUnchanged, AfterSeed, meta, Typed, Work
  <2>2. \A v \in Workers : Seeding(v)' => Seeding(v) /\ u'[v] = u[v]
    BY <2>1 DEF Seeding
  <2>3. Listed(p)'
    BY <1>1, <1>2, <2>1, <2>2 DEF Listed, Stored
  <2> QED
    BY <1>0, <2>1, <2>3 DEF RowKept, Aside
<1>4. CASE SeedChanged(w)
  <2>1. /\ UNCHANGED <<pkHash, registry>>
        /\ u'[w].pc = "merge" /\ u'[w].cfg = config
        /\ u'[w].todo = {"others"} \cup {t \in Pipelines : config[t] # No}
        /\ \A v \in Workers \ {w} : u'[v] = u[v]
    BY <1>0, <1>4 DEF SeedChanged, meta, Typed, Work
  <2>2. \A v \in Workers \ {w} : Seeding(v)' => Seeding(v) /\ u'[v] = u[v]
    BY <2>1 DEF Seeding
  <2>3. u'[p].pc \in Prepared => u[p].pc \in Prepared
    BY <1>0, <2>1 DEF Prepared
  <2>4. config[p] # No => p \in u'[w].todo
    BY <2>1
  <2>5. Listed(p)'
    BY <1>1, <1>2, <2>1, <2>2, <2>3, <2>4 DEF Listed, Stored
  <2> QED
    BY <1>0, <2>1, <2>5 DEF RowKept, Aside
<1>5. CASE _seed_pk_registry(w)
  <2>1. PICK t \in u[w].todo :
          /\ u' = [u EXCEPT ![w].todo = @ \ {t},
                            ![w].pc = IF u[w].todo = {t} THEN "hash" ELSE "merge"]
          /\ IF t = "others" THEN seeded' = TRUE /\ UNCHANGED registry
             ELSE /\ registry' = [registry EXCEPT ![t] = Merged(@, u[w].cfg[t])]
                  /\ UNCHANGED seeded
    BY <1>5 DEF _seed_pk_registry
  <2>2. /\ u'[w].todo = u[w].todo \ {t} /\ u'[w].cfg = u[w].cfg /\ u'[w].pc \in {"merge", "hash"}
        /\ \A v \in Workers \ {w} : u'[v] = u[v]
    BY <1>0, <2>1 DEF Typed, Work
  <2>3. pkHash' = pkHash /\ u[w].pc = "merge"
    BY <1>5 DEF _seed_pk_registry, At
  <2>4. u[w].cfg[p] = config[p]
    BY <1>2, <2>3 DEF Listed, Seeding
  <2>5. CASE t = p
    <3>1. config[p] \in Columns /\ t # "others"
      <4>1. config[p] \in Column
        BY DEF Typed, Config
      <4>2. u[w].cfg[p] # No
        BY <2>3, <2>5 DEF Merging, At
      <4> QED
        BY <2>4, <2>5, <4>1, <4>2, Kinds DEF Column
    <3>2. registry'[p] = Merged(registry[p], config[p]) /\ registry[p] \in Row
      BY <2>1, <2>4, <2>5, <3>1 DEF Typed
    <3>3. /\ Merged(registry[p], config[p]) # NoRow
          /\ Merged(registry[p], config[p]).pk \in {registry[p].pk, config[p]}
          /\ registry[p] = NoRow => Merged(registry[p], config[p]).pk = config[p]
      BY ONLY <3>1, <3>2, RowsMade
    <3>4. registry'[p] # NoRow /\ registry'[p].pk = config[p]
      BY <1>2, <3>1, <3>2, <3>3, Kinds DEF Listed
    <3>5. RowKept(p)
      BY <1>2, <3>1, <3>4, Kinds DEF RowKept, Listed
    <3> QED
      BY <1>0, <1>1, <1>2, <2>2, <2>3, <3>4, <3>5 DEF Listed, Stored, Seeding, Aside
  <2>6. CASE t # p
    <3>1. registry'[p] = registry[p]
      BY <2>1, <2>6 DEF Typed
    <3>2. u'[p].pc \in Prepared => u[p].pc \in Prepared
      BY <1>0, <2>2, <2>3 DEF Prepared
    <3>3. \A v \in Workers : Seeding(v)' =>
            Seeding(v) /\ u'[v].cfg = u[v].cfg /\ (p \in u[v].todo => p \in u'[v].todo)
      BY <2>2, <2>3, <2>6 DEF Seeding
    <3>4. Listed(p)'
      BY <1>1, <1>2, <2>3, <3>1, <3>2, <3>3 DEF Listed, Stored
    <3> QED
      BY <1>0, <2>2, <3>1, <3>4 DEF RowKept, Aside
  <2> QED
    BY <2>5, <2>6
<1>6. CASE _delta_upsert_config_version(w)
  <2>1. /\ registry' = registry
        /\ pkHash' = [pkHash EXCEPT ![u[w].project] = u[w].cfg]
        /\ \A v \in Workers \ {w} : u'[v] = u[v]
        /\ u'[w].pc \in {"write", "schema"} /\ u[w].pc = "hash"
    BY <1>0, <1>6 DEF _delta_upsert_config_version, AfterSeed, Typed, Work, At
  <2>2. /\ u[w].cfg[p] = config[p] /\ u[w].todo = {}
        /\ config[p] # No => registry[p] # NoRow
    BY <1>2, <2>1 DEF Listed, Seeding, Merging, At
  <2>3. Stored(pkHash)' \subseteq Stored(pkHash) \cup {u[w].cfg}
    BY <2>1 DEF Stored, Typed
  <2>4. \A v \in Workers : Seeding(v)' => Seeding(v) /\ u'[v] = u[v]
    BY <2>1 DEF Seeding
  <2>5. Listed(p)'
    BY <1>1, <1>2, <2>1, <2>2, <2>3, <2>4 DEF Listed
  <2> QED
    BY <1>0, <2>1, <2>5 DEF RowKept, Aside
<1> QED
  BY <1>3, <1>4, <1>5, <1>6 DEF Seed

\* The update of p itself.
LEMMA KeyUpdate ==
    ASSUME Typed, Running, NEW p \in Pipelines, KeyOf(p), Elsewhere(p)
    PROVE  KeyOf(p)'
<1>0. p \in Workers /\ u[p] \in Work /\ Idle.pc = "idle"
  BY Kinds DEF Typed, Idle
<1>1. CASE start_update(p) \/ Skipped(p)
  <2>1. UNCHANGED <<config, registry, fed, reconfigured, unsure>>
    BY <1>1 DEF start_update, Skipped, onVolume, meta, tableHistory
  <2>2. u'[p].pc \in {"idle", "seed"}
    <3>1. CASE start_update(p)
      BY <1>0, <3>1 DEF start_update, Idle, Typed
    <3>2. CASE Skipped(p)
      BY <1>0, <3>2 DEF Skipped, Skip, Typed
    <3> QED
      BY <1>1, <3>1, <3>2
  <2> QED
    BY <2>1, <2>2, QuietUpdate, KeyStays DEF Spared, RowKept, Aside
<1>2. CASE _bootstrap_schema_json(p) \/ _load_typed_schemas(p) \/ SchemaSeen(p)
  <2>1. UNCHANGED <<config, registry, fed, reconfigured, unsure>>
    BY <1>2 DEF _bootstrap_schema_json, _load_typed_schemas, SchemaSeen, onVolume, meta,
                tableHistory
  <2>2. u'[p] = u[p] \/ u'[p].pc \in {"registry", "schema_hash"}
    BY <1>0, <1>2 DEF _bootstrap_schema_json, _load_typed_schemas, SchemaSeen, Typed, Work
  <2> QED
    BY <2>1, <2>2, QuietUpdate, KeyStays DEF Spared, RowKept, Aside
<1>3. CASE _load_registry(p)
  <2>1. PICK ok \in BOOLEAN, typed \in BOOLEAN :
          /\ IF ok THEN UNCHANGED <<events, unsure>> ELSE Event /\ unsure' = unsure \cup {p}
          /\ u' = [u EXCEPT ![p].row = IF ok THEN registry[p] ELSE NoRow,
                            ![p].known = (ok /\ seeded) \/ (Common(p) /\ u[p].doc # No),
                            ![p].pc = IF typed THEN "cdc_seed" ELSE "gate"]
    BY <1>3 DEF _load_registry
  <2>2. u'[p].row = (IF ok THEN registry[p] ELSE NoRow) /\ u'[p].pc \in {"cdc_seed", "gate"}
    BY <1>0, <2>1 DEF Typed, Work
  <2>3. UNCHANGED <<config, registry, fed, reconfigured>> /\ u[p].pc \in Prepared
    BY <1>3 DEF _load_registry, onVolume, meta, Prepared, At
  <2>4. Listed(p) => Listed(p)'
    BY <1>3, <2>3, QuietUpdate, ListedStays DEF Elsewhere, RowKept
  <2>5. ASSUME Listed(p), p \notin unsure => Keyed(p), p \notin unsure'
        PROVE  Keyed(p)'
    <3>1. p \notin unsure /\ u'[p].row = registry[p]
      BY <2>1, <2>2, <2>5
    <3>2. config[p] # No => registry[p] # NoRow
      BY <2>3, <2>5 DEF Listed
    <3> QED
      BY <2>2, <2>3, <2>5, <3>1, <3>2 DEF Keyed, At
  <2> QED
    BY <2>3, <2>4, <2>5 DEF KeyOf
<1>4. CASE gate_table_common(p)
  <2>1. PICK h \in HeadersRead(p), inserted \in BOOLEAN, read \in BOOLEAN :
          GateTakes(p, h, inserted, read)
    BY <1>4, GateOpens
  <2>2. UNCHANGED <<config, fed, reconfigured>> /\ u[p].pc = "gate"
    BY <1>4, GateOpens
  <2>3. h \in Headers
    BY HeadersOf
  <2>4. h[1] \in Columns /\ registry[p] \in Row
    <3>1. h[1] \in Columns
      BY <2>3, FirstColumn
    <3> QED
      BY <3>1 DEF Typed
  <2>5. /\ Inserted(registry[p], h[1]) # NoRow
        /\ registry[p] # NoRow => Inserted(registry[p], h[1]) = registry[p]
        /\ registry[p] = NoRow => Inserted(registry[p], h[1]).pk = h[1]
    BY ONLY <2>4, RowsMade
  <2>6. /\ registry'[p] = IF u[p].row = NoRow /\ inserted THEN Inserted(registry[p], h[1])
                          ELSE registry[p]
        /\ unsure \subseteq unsure'
        /\ p \notin unsure' => inserted /\ (u[p].row = NoRow => registry[p] = NoRow)
    BY <2>1 DEF GateTakes, Typed
  <2>7. u'[p] = Idle \/ (u'[p].pc = "run" /\ u'[p].key = Key(p, h))
    BY <2>1, GateMoves DEF RunsAs
  <2>8. ASSUME Listed(p), p \notin unsure => Keyed(p)
        PROVE  Listed(p)' /\ (p \notin unsure' => Keyed(p)')
    <3>1. config[p] # No => registry[p] # NoRow
      BY <2>2, <2>8 DEF Listed, Prepared
    <3>2. RowKept(p)
      BY <2>5, <2>6, <3>1 DEF RowKept
    <3>3. Listed(p)'
      BY <1>4, <2>2, <2>8, <3>2, QuietUpdate, ListedStays DEF Elsewhere
    <3>4. ASSUME p \notin unsure'
          PROVE  Keyed(p)'
      <4>1. Keyed(p) /\ inserted /\ (u[p].row = NoRow => registry[p] = NoRow)
        BY <2>6, <2>8, <3>4
      <4>2. registry'[p] # NoRow /\ Key(p, h) = registry'[p].pk
        BY <2>2, <2>5, <2>6, <4>1 DEF Keyed, At, Key
      <4>3. fed'[p] # {} => fed'[p] = {registry'[p].pk}
        BY <2>2, <2>5, <2>6, <4>1 DEF Keyed
      <4> QED
        BY <1>0, <2>7, <4>2, <4>3 DEF Keyed, At
    <3> QED
      BY <3>3, <3>4
  <2> QED
    BY <2>2, <2>8 DEF KeyOf
<1>5. CASE UpdateCompletes(p)
  <2>1. UNCHANGED <<config, registry, reconfigured, unsure>> /\ u[p].pc = "run"
    BY <1>5 DEF UpdateCompletes, onVolume, meta, At
  <2>2. u'[p].pc = "idle"
    BY <1>0, <1>5 DEF UpdateCompletes, Typed
  <2>3. fed'[p] \in {fed[p], {u[p].key}, fed[p] \cup {u[p].key}}
    BY <1>5 DEF UpdateCompletes, Typed
  <2>4. Listed(p) => Listed(p)'
    BY <1>5, <2>1, QuietUpdate, ListedStays DEF Elsewhere, RowKept
  <2>5. Keyed(p) => Keyed(p)'
    BY <2>1, <2>2, <2>3 DEF Keyed, At
  <2> QED
    BY <2>1, <2>4, <2>5 DEF KeyOf
<1> QED
  BY <1>1, <1>2, <1>3, <1>4, <1>5 DEF Elsewhere

LEMMA KeyCdcSeed ==
    ASSUME Typed, NEW p \in Pipelines, KeyOf(p), CdcSeed
    PROVE  KeyOf(p)'
<1>0. p \in Workers /\ "cdc" \in Pipelines /\ "cdc" \in Workers /\ u["cdc"] \in Work
  BY Kinds DEF Typed
<1>1. UNCHANGED <<config, fed, reconfigured>> /\ unsure \subseteq unsure'
  BY DEF CdcSeed, seed_cdc_pk_registry_from_schemas, Reload, onVolume, tableHistory
<1>2. CASE p # "cdc"
  <2>1. u'[p] = u[p] /\ registry'[p] = registry[p]
    BY <1>0, <1>2 DEF CdcSeed, seed_cdc_pk_registry_from_schemas, Reload, meta, Typed
  <2> QED
    BY <1>1, <2>1, QuietRest, KeyStays DEF Spared, RowKept, Aside
<1>3. CASE p = "cdc" /\ seed_cdc_pk_registry_from_schemas
  <2>1. /\ registry'[p] = Inserted(registry[p], FirstOrdinal) /\ registry[p] \in Row
        /\ u'[p].pc = "reload" /\ u[p].pc \in Prepared
    BY <1>0, <1>3 DEF seed_cdc_pk_registry_from_schemas, Prepared, At, Typed, Work
  <2>2. /\ Inserted(registry[p], FirstOrdinal) # NoRow
        /\ registry[p] # NoRow => Inserted(registry[p], FirstOrdinal) = registry[p]
    BY ONLY <2>1, Kinds, RowsMade
  <2>3. Listed(p) => RowKept(p)
    BY <2>1, <2>2 DEF Listed, RowKept
  <2>4. Aside(p)
    BY <2>1 DEF Aside
  <2> QED
    BY <1>1, <2>3, <2>4, QuietRest, ListedStays, KeyedStays DEF KeyOf
<1>4. CASE p = "cdc" /\ Reload
  <2>1. PICK ok \in BOOLEAN :
          /\ IF ok THEN UNCHANGED <<events, unsure>> ELSE Event /\ unsure' = unsure \cup {"cdc"}
          /\ u' = [u EXCEPT !["cdc"].row = IF ok THEN registry["cdc"] ELSE NoRow,
                            !["cdc"].known = ok /\ (seeded \/ registry["cdc"] # NoRow),
                            !["cdc"].pc = "gate"]
    BY <1>4 DEF Reload
  <2>2. u'[p].row = (IF ok THEN registry[p] ELSE NoRow) /\ u'[p].pc = "gate"
    BY <1>0, <1>4, <2>1 DEF Typed, Work
  <2>3. registry' = registry /\ u[p].pc \in Prepared
    BY <1>4 DEF Reload, meta, Prepared, At
  <2>4. Listed(p) => Listed(p)'
    BY <1>1, <2>3, QuietRest, ListedStays DEF RowKept
  <2>5. ASSUME Listed(p), p \notin unsure => Keyed(p), p \notin unsure'
        PROVE  Keyed(p)'
    <3>1. p \notin unsure /\ u'[p].row = registry[p]
      BY <1>4, <2>1, <2>2, <2>5
    <3>2. config[p] # No => registry[p] # NoRow
      BY <2>3, <2>5 DEF Listed
    <3> QED
      BY <1>1, <2>2, <2>3, <2>5, <3>1, <3>2 DEF Keyed, At
  <2> QED
    BY <1>1, <2>4, <2>5 DEF KeyOf
<1> QED
  BY <1>2, <1>3, <1>4 DEF CdcSeed

LEMMA OneKeyKept ==
    ASSUME Typed, Merging, Running, OneKey, BronzeNext
    PROVE  OneKey'
<1> SUFFICES ASSUME NEW p \in Pipelines PROVE KeyOf(p)'
  BY DEF OneKey, KeyOf
<1>1. KeyOf(p)
  BY DEF OneKey, KeyOf
<1> QED
  BY <1>1, Steps, KeyTask, KeyElsewhere, KeyOutside, KeyFail, KeySeed, KeyUpdate, KeyCdcSeed

-----------------------------------------------------------------------------
(* What runs, and the types it declares *)

\* A folder is only added, and an update reads one that has landed.
LEMMA RunningKept ==
    ASSUME Typed, Running, BronzeNext
    PROVE  Running'
<1>1. \A p \in Pipelines : p \in Workers
  BY Kinds
<1>2. ASSUME landed' = landed, \A p \in Pipelines : u'[p] = u[p] \/ u'[p].pc # "run"
      PROVE  Running'
  BY <1>2 DEF Running, At
<1>3. ASSUME Task PROVE Running'
  <2>1. landed' = landed
    BY <1>3 DEF Task, seed_registry, _ensure_schema_json, _write_schema_to_volume, onVolume
  <2>2. \A p \in Pipelines : u'[p] = u[p]
    BY <1>3, TaskMoves
  <2> QED
    BY <1>2, <2>1, <2>2
<1>4. ASSUME CdcSeed PROVE Running'
  <2>1. landed' = landed
    BY <1>4 DEF CdcSeed, seed_cdc_pk_registry_from_schemas, Reload, onVolume
  <2>2. \A w \in Workers : u'[w] = u[w] \/ u'[w].pc # "run"
    BY <1>4, CdcMoves
  <2> QED
    BY <1>1, <1>2, <2>1, <2>2
<1>5. ASSUME NEW w \in Workers, Seed(w) PROVE Running'
  <2>0. u[w] \in Work
    BY DEF Typed
  <2>1. landed' = landed
    BY <1>5 DEF Seed, SeedUnchanged, SeedChanged, _seed_pk_registry,
                _delta_upsert_config_version, onVolume
  <2>2. \A v \in Workers \ {w} : u'[v] = u[v]
    BY <1>5 DEF Seed, SeedUnchanged, SeedChanged, _seed_pk_registry,
                _delta_upsert_config_version, Typed
  <2>3. u'[w].pc # "run"
    <3>1. CASE SeedUnchanged(w) \/ SeedChanged(w) \/ _delta_upsert_config_version(w)
      BY <2>0, <3>1 DEF SeedUnchanged, SeedChanged, _delta_upsert_config_version,
                        AfterSeed, Typed, Work
    <3>2. CASE _seed_pk_registry(w)
      BY <2>0, <3>2 DEF _seed_pk_registry, Typed, Work
    <3> QED
      BY <1>5, <3>1, <3>2 DEF Seed
  <2> QED
    BY <1>1, <1>2, <2>1, <2>2, <2>3
<1>6. ASSUME NEW w \in Workers, Fail(w) PROVE Running'
  <2>1. landed' = landed /\ u' = [u EXCEPT ![w] = Idle] /\ Idle.pc # "run"
    BY <1>6 DEF Fail, onVolume, Idle
  <2> QED
    BY <1>1, <1>2, <2>1, IdleTyped, Moves
<1>7. ASSUME NEW t \in Pipelines, Outside(t) PROVE Running'
  <2>1. u' = u
    BY <1>7 DEF Outside, upload_pk_config, ManualOverride, Land, _seed_registry_from_schema
  <2>2. CASE landed' = landed
    BY <1>2, <2>1, <2>2
  <2>3. CASE \E header \in Headers : Land(t, header)
    <3>1. PICK header \in Headers : Land(t, header)
      BY <2>3
    <3>2. Len(landed[t]) < 2 /\ landed' = [landed EXCEPT ![t] = Append(@, header)]
      BY <3>1 DEF Land
    <3>3. landed[t] \in Seq(Headers)
      BY DEF Typed
    <3>4. Len(Append(landed[t], header)) <= 2
      BY <3>2, <3>3
    <3>5. \A p \in Pipelines : landed'[p] = IF p = t THEN Append(landed[t], header) ELSE landed[p]
      BY <3>2 DEF Typed
    <3> QED
      BY <2>1, <3>4, <3>5 DEF Running, At
  <2> QED
    BY <1>7, <2>2, <2>3 DEF Outside, upload_pk_config, ManualOverride,
                            _seed_registry_from_schema, onVolume
<1>8. ASSUME NEW p \in Pipelines, Elsewhere(p) PROVE Running'
  <2>0. p \in Workers /\ u[p] \in Work /\ Idle.pc # "run"
    BY Kinds DEF Typed, Idle
  <2>1. CASE gate_table_common(p)
    <3>1. PICK h \in HeadersRead(p), inserted \in BOOLEAN, read \in BOOLEAN :
            GateTakes(p, h, inserted, read)
      BY <2>1, GateOpens
    <3>2. landed' = landed
      BY <2>1, GateOpens
    <3>3. landed[p] \in Seq(Headers) /\ Len(landed[p]) <= 2
      BY DEF Typed, Running
    <3>4. /\ \A w \in Workers \ {p} : u'[w] = u[w]
          /\ \/ u'[p] = Idle
             \/ u'[p].key \in Columns /\ u'[p].folder = Len(landed[p]) /\ Len(landed[p]) > 0
      BY <3>1, GateMoves DEF RunsAs
    <3>5. u'[p].pc = "run" => u'[p].key \in Columns /\ u'[p].folder \in 1..2
      BY <2>0, <3>3, <3>4
    <3> QED
      BY <1>1, <3>2, <3>4, <3>5 DEF Running, At
  <2>2. CASE ~gate_table_common(p)
    <3>1. landed' = landed /\ \A w \in Workers \ {p} : u'[w] = u[w]
      BY <1>8, <2>0, <2>2
         DEF Elsewhere, start_update, _bootstrap_schema_json, _load_typed_schemas, SchemaSeen,
             _load_registry, Skipped, Skip, UpdateCompletes, onVolume, Typed
    <3>2. u'[p] = u[p] \/ u'[p].pc # "run"
      <4>1. CASE start_update(p) \/ Skipped(p) \/ UpdateCompletes(p)
        BY <2>0, <4>1 DEF start_update, Skipped, Skip, UpdateCompletes, Idle, Typed
      <4>2. CASE _bootstrap_schema_json(p) \/ _load_typed_schemas(p) \/ SchemaSeen(p)
        BY <2>0, <4>2 DEF _bootstrap_schema_json, _load_typed_schemas, SchemaSeen, Typed, Work
      <4>3. CASE _load_registry(p)
        BY <4>3, LoadMoves
      <4> QED
        BY <1>8, <2>2, <4>1, <4>2, <4>3 DEF Elsewhere
    <3> QED
      BY <1>1, <1>2, <3>1, <3>2
  <2> QED
    BY <2>1, <2>2
<1> QED
  BY <1>3, <1>4, <1>5, <1>6, <1>7, <1>8, Steps


LEMMA SafeTypes ==
    /\ \A old \in {No, "string"} : Safe(old, "string")
    /\ \A old, new : Safe(old, _build_evolved_schema(old, new))
BY DEF Safe, _build_evolved_schema

\* The update of p stays where it is, or goes where nothing is claimed of its document.
NotedAside(p) ==
    /\ doc = doc' \/ doc' # No
    /\ bronze'[p] = bronze[p] /\ told \subseteq told' /\ (p \in unsure => p \in unsure')
    /\ \/ u'[p] = u[p]
       \/ u'[p].pc \notin Prepared \ {"schema"} /\ u'[p].doc \in {u[p].doc, No}

LEMMA NotedStays ==
    ASSUME NEW p \in Pipelines, Noted(p), NotedAside(p)
    PROVE  Noted(p)'
<1>1. Untyped(p)' = Untyped(p)
  BY DEF NotedAside, Untyped
<1>2. CASE u'[p] = u[p]
  BY <1>1, <1>2 DEF NotedAside, Noted, At
<1>3. CASE u'[p] # u[p]
  <2>1. u'[p].pc \notin Prepared \ {"schema"} /\ u'[p].doc \in {u[p].doc, No}
    BY <1>3 DEF NotedAside
  <2> QED
    BY <1>1, <2>1 DEF NotedAside, Noted, At, Prepared
<1> QED
  BY <1>2, <1>3

\* A hash that comes is that of a document that was told, or one in the other form.
LEMMA HashesStay ==
    ASSUME Typed, HashesTold, told \subseteq told',
           \/ schemaHash' = schemaHash
           \/ \E q \in Projects, d \in Types \cup {No} :
                 schemaHash' = [schemaHash EXCEPT ![q] = <<d, HashedForm>>]
           \/ \E q \in Projects, d \in told :
                 schemaHash' = [schemaHash EXCEPT ![q] = <<d, "file">>]
    PROVE  HashesTold'
<1> SUFFICES ASSUME NEW d \in Types \cup {No}, NEW q \in Projects, schemaHash'[q] = <<d, "file">>,
                    schemaHash'[q] # NoValue
             PROVE  d \in told'
  BY DEF HashesTold, Stored
<1>1. CASE schemaHash'[q] = schemaHash[q]
  BY <1>1 DEF HashesTold, Stored
<1>2. CASE \E e \in Types \cup {No} : schemaHash'[q] = <<e, HashedForm>>
  BY <1>2 DEF HashedForm
<1>3. CASE \E e \in told : schemaHash'[q] = <<e, "file">>
  BY <1>3
<1> QED
  BY <1>1, <1>2, <1>3 DEF Typed

LEMMA HashesKept ==
    ASSUME Typed, ToldFirst, BronzeNext
    PROVE  HashesTold'
<1>0. told \subseteq told'
  <2>1. ASSUME Task \/ CdcSeed PROVE told \subseteq told'
    BY <2>1 DEF Task, seed_registry, _ensure_schema_json, _write_schema_to_volume, CdcSeed,
                seed_cdc_pk_registry_from_schemas, Reload, tableHistory
  <2>2. ASSUME NEW w \in Workers, Seed(w) \/ Fail(w) PROVE told \subseteq told'
    BY <2>2 DEF Seed, SeedUnchanged, SeedChanged, _seed_pk_registry,
                _delta_upsert_config_version, Fail, tableHistory
  <2>3. ASSUME NEW p \in Pipelines, Elsewhere(p) PROVE told \subseteq told'
    BY <2>3 DEF Elsewhere, start_update, _bootstrap_schema_json, _load_typed_schemas,
                SchemaSeen, _load_registry, Skipped, gate_table_common, UpdateCompletes,
                tableHistory
  <2>4. ASSUME NEW p \in Pipelines, Outside(p) PROVE told \subseteq told'
    BY <2>4 DEF Outside, upload_pk_config, ManualOverride, Land,
                _seed_registry_from_schema, tableHistory
  <2> QED
    BY <2>1, <2>2, <2>3, <2>4, Steps
<1>1. CASE schemaHash' = schemaHash
  BY <1>0, <1>1, HashesStay DEF ToldFirst
<1>2. CASE _write_schema_to_volume
  <2>1. /\ u["seed_registry"] \in Work
        /\ schemaHash' = [schemaHash EXCEPT ![u["seed_registry"].project]
                                         = <<u["seed_registry"].doc, HashedForm>>]
    BY <1>2, Kinds DEF _write_schema_to_volume, Typed
  <2>2. u["seed_registry"].doc \in Types \cup {No}
    BY <2>1 DEF Work
  <2>3. CASE u["seed_registry"].project \in Projects
    BY <1>0, <2>1, <2>2, <2>3, HashesStay DEF ToldFirst
  <2>4. CASE u["seed_registry"].project \notin Projects
    <3>1. schemaHash' = schemaHash
      BY <2>1, <2>4 DEF Typed
    <3> QED
      BY <1>1, <3>1
  <2> QED
    BY <2>3, <2>4
<1>3. ASSUME NEW p \in Pipelines, SchemaSeen(p) PROVE HashesTold'
  <2>1. schemaHash' = [schemaHash EXCEPT ![u[p].project] = <<u[p].doc, "file">>]
    BY <1>3 DEF SchemaSeen
  <2>2. u[p].doc \in told
    BY <1>3 DEF SchemaSeen, ToldFirst, Noted
  <2>3. CASE u[p].project \in Projects
    BY <1>0, <2>1, <2>2, <2>3, HashesStay DEF ToldFirst
  <2>4. CASE u[p].project \notin Projects
    <3>1. schemaHash' = schemaHash
      BY <2>1, <2>4 DEF Typed
    <3> QED
      BY <1>1, <3>1
  <2> QED
    BY <2>3, <2>4
<1>4. ASSUME Task, ~_write_schema_to_volume PROVE schemaHash' = schemaHash
  BY <1>4 DEF Task, seed_registry, _ensure_schema_json, meta
<1>5. ASSUME CdcSeed PROVE schemaHash' = schemaHash
  BY <1>5 DEF CdcSeed, seed_cdc_pk_registry_from_schemas, Reload, meta
<1>6. ASSUME NEW w \in Workers, Seed(w) \/ Fail(w) PROVE schemaHash' = schemaHash
  BY <1>6 DEF Seed, SeedUnchanged, SeedChanged, _seed_pk_registry,
              _delta_upsert_config_version, Fail, meta
<1>7. ASSUME NEW p \in Pipelines, Elsewhere(p), ~SchemaSeen(p) PROVE schemaHash' = schemaHash
  BY <1>7 DEF Elsewhere, start_update, _bootstrap_schema_json, _load_typed_schemas,
              _load_registry, Skipped, gate_table_common, UpdateCompletes, meta
<1>8. ASSUME NEW p \in Pipelines, Outside(p) PROVE schemaHash' = schemaHash
  BY <1>8 DEF Outside, upload_pk_config, ManualOverride, Land, _seed_registry_from_schema,
              meta
<1> QED
  BY <1>1, <1>2, <1>3, <1>4, <1>5, <1>6, <1>7, <1>8, Steps


\* What the actions that are not updates of p change of what Noted is about.
LEMMA NotedElsewhere ==
    ASSUME Typed, NEW p \in Pipelines, Noted(p),
           \/ Task
           \/ \E q \in Pipelines \ {p} : Elsewhere(q)
           \/ \E t \in Pipelines : Outside(t)
           \/ \E w \in Workers : Fail(w) \/ Seed(w)
    PROVE  Noted(p)'
<1>0. p \in Workers /\ u[p] \in Work /\ Idle.pc = "idle" /\ Idle.doc = No
  BY Kinds DEF Typed, Idle
<1>1. ASSUME Task PROVE NotedAside(p)
  <2>1. u'[p] = u[p]
    BY <1>1, TaskMoves
  <2>2. UNCHANGED <<bronze, told, unsure>> /\ (doc = doc' \/ doc' # No)
    BY <1>1, Kinds DEF Task, seed_registry, _ensure_schema_json, _write_schema_to_volume,
                       onVolume, tableHistory
  <2> QED
    BY <2>1, <2>2 DEF NotedAside
<1>2. ASSUME NEW q \in Pipelines \ {p}, Elsewhere(q) PROVE NotedAside(p)
  <2>0. q \in Workers
    BY Kinds
  <2>1. CASE gate_table_common(q)
    <3>1. PICK h \in HeadersRead(q), inserted \in BOOLEAN, read \in BOOLEAN :
            GateTakes(q, h, inserted, read)
      BY <2>1, GateOpens
    <3>2. u'[p] = u[p] /\ (p \in unsure => p \in unsure')
      BY <1>0, <3>1, GateMoves DEF GateTakes
    <3> QED
      BY <2>1, <3>2, GateOpens DEF NotedAside
  <2>2. CASE UpdateCompletes(q) \/ start_update(q) \/ Skipped(q)
    BY <1>0, <2>0, <2>2 DEF UpdateCompletes, start_update, Skipped, Skip, onVolume,
                            tableHistory, NotedAside, Typed
  <2>3. CASE _load_registry(q)
    BY <1>0, <2>3, LoadMoves DEF TakesRow, _load_registry, onVolume, NotedAside
  <2>4. CASE _bootstrap_schema_json(q) \/ _load_typed_schemas(q) \/ SchemaSeen(q)
    BY <1>0, <2>0, <2>4, Kinds DEF _bootstrap_schema_json, _load_typed_schemas, SchemaSeen,
                                   onVolume, tableHistory, NotedAside, Typed
  <2> QED
    BY <1>2, <2>1, <2>2, <2>3, <2>4 DEF Elsewhere
<1>3. ASSUME NEW t \in Pipelines, Outside(t) PROVE NotedAside(p)
  BY <1>3 DEF Outside, upload_pk_config, ManualOverride, Land, _seed_registry_from_schema,
              onVolume, tableHistory, NotedAside
<1>4. ASSUME NEW w \in Workers, Fail(w) PROVE NotedAside(p)
  BY <1>0, <1>4, IdleTyped, Moves DEF Fail, onVolume, tableHistory, NotedAside, Prepared
<1>5. ASSUME NEW w \in Workers, Seed(w) PROVE NotedAside(p)
  <2>0. w \in Workers /\ u[w] \in Work
    BY DEF Typed
  <2>1. doc' = doc /\ bronze' = bronze /\ told' = told /\ unsure' = unsure
    BY <1>5 DEF Seed, SeedUnchanged, SeedChanged, _seed_pk_registry,
                _delta_upsert_config_version, onVolume, tableHistory
  <2>2. CASE SeedUnchanged(w) \/ SeedChanged(w) \/ _delta_upsert_config_version(w)
    <3>1. /\ \A v \in Workers \ {w} : u'[v] = u[v]
          /\ u'[w].pc \in {"write", "schema", "merge"} /\ u'[w].doc = u[w].doc
      BY <2>0, <2>2 DEF SeedUnchanged, SeedChanged, _delta_upsert_config_version,
                        AfterSeed, Typed, Work
    <3> QED
      BY <1>0, <2>1, <3>1 DEF NotedAside, Prepared
  <2>3. CASE _seed_pk_registry(w)
    <3>1. /\ \A v \in Workers \ {w} : u'[v] = u[v]
          /\ u'[w].pc \in {"merge", "hash"} /\ u'[w].doc = u[w].doc
      BY <2>0, <2>3 DEF _seed_pk_registry, Typed, Work
    <3> QED
      BY <1>0, <2>1, <3>1 DEF NotedAside, Prepared
  <2> QED
    BY <1>5, <2>2, <2>3 DEF Seed
<1> QED
  BY <1>1, <1>2, <1>3, <1>4, <1>5, NotedStays

\* An update that takes a row with it.
LEMMA NotedTakes ==
    ASSUME Typed, NEW p \in Pipelines, Noted(p), TakesRow(p, {"cdc_seed", "reload", "gate"}),
           u[p].pc \in {"registry", "cdc_seed", "reload"},
           doc' = doc, bronze' = bronze, told' = told
    PROVE  Noted(p)'
<1>1. Untyped(p)' = Untyped(p)
  BY DEF Untyped
<1>2. u'[p].doc = u[p].doc /\ u'[p].changed = u[p].changed /\ u'[p].pc \in {"cdc_seed", "reload", "gate"}
  BY DEF TakesRow
<1>3. IF u[p].doc = No THEN Untyped(p) ELSE u[p].changed \/ u[p].doc \in told
  BY DEF Noted, Prepared
<1> QED
  BY <1>1, <1>2, <1>3 DEF Noted, At

LEMMA NotedCdcSeed ==
    ASSUME Typed, NEW p \in Pipelines, Noted(p), CdcSeed
    PROVE  Noted(p)'
<1>0. p \in Workers
  BY Kinds
<1>1. /\ doc' = doc /\ bronze' = bronze /\ told' = told /\ (p \in unsure => p \in unsure')
      /\ TakesRow("cdc", {"reload", "gate"}) /\ u["cdc"].pc \in {"cdc_seed", "reload"}
  BY CdcMoves DEF CdcSeed, seed_cdc_pk_registry_from_schemas, Reload, onVolume, tableHistory
<1>2. CASE p # "cdc"
  BY <1>0, <1>1, <1>2, NotedStays DEF TakesRow, NotedAside
<1>3. CASE p = "cdc"
  BY <1>1, <1>3, NotedTakes DEF TakesRow
<1> QED
  BY <1>2, <1>3

LEMMA NotedUpdate ==
    ASSUME Typed, ToldFirst, NEW p \in Pipelines, Elsewhere(p)
    PROVE  Noted(p)'
<1>0. p \in Workers /\ u[p] \in Work /\ Idle.pc = "idle" /\ Idle.doc = No /\ Noted(p)
  BY Kinds DEF Typed, Idle, ToldFirst
<1>1. CASE start_update(p)
  <2>1. u'[p].pc = "seed" /\ u'[p].doc = No
    BY <1>0, <1>1 DEF start_update, Idle, Typed
  <2> QED
    BY <1>0, <1>1, <2>1, NotedStays DEF start_update, onVolume, tableHistory, NotedAside,
                                        Prepared
<1>2. CASE _bootstrap_schema_json(p)
  <2>1. bronze' = bronze /\ told' = told /\ unsure' = unsure /\ doc = No
    BY <1>2 DEF _bootstrap_schema_json, tableHistory
  <2>2. CASE u' = u /\ doc' \in Types
    BY <1>0, <2>1, <2>2, Kinds, NotedStays DEF NotedAside
  <2>3. CASE u' = [u EXCEPT ![p].pc = "registry"] /\ doc' = doc
    <3>1. u'[p].pc = "registry" /\ u'[p].doc = u[p].doc
      BY <1>0, <2>3 DEF Typed, Work
    <3>2. u[p].doc = No /\ Untyped(p)
      BY <1>0, <2>1 DEF Noted
    <3>3. Untyped(p)'
      BY <2>1, <3>2 DEF Untyped
    <3> QED
      BY <2>1, <3>1, <3>2, <3>3 DEF Noted, At
  <2> QED
    BY <1>2, <2>2, <2>3 DEF _bootstrap_schema_json
<1>3. CASE _load_typed_schemas(p)
  <2>1. /\ doc' = doc /\ doc # No /\ bronze' = bronze /\ unsure' = unsure /\ told \subseteq told'
        /\ u'[p].doc = doc /\ u'[p].pc \in {"registry", "schema_hash"}
    BY <1>0, <1>3 DEF _load_typed_schemas, onVolume, Typed, Work
  <2>2. /\ u'[p].pc = "schema_hash" => doc \in told'
        /\ u'[p].pc = "registry" => <<doc, "file">> \in Stored(schemaHash) \/ doc \in told'
    BY <1>0, <1>3 DEF _load_typed_schemas, Typed, Work
  <2>3. doc \in told'
    BY <2>1, <2>2 DEF ToldFirst, HashesTold, Typed
  <2> QED
    BY <2>1, <2>3 DEF Noted, At
<1>4. CASE SchemaSeen(p)
  <2>1. /\ doc' = doc /\ bronze' = bronze /\ told' = told /\ unsure' = unsure
        /\ u'[p].doc = u[p].doc /\ u'[p].pc = "registry"
    BY <1>0, <1>4 DEF SchemaSeen, onVolume, tableHistory, Typed, Work
  <2>2. u[p].doc # No /\ u[p].doc \in told
    BY <1>0, <1>4 DEF SchemaSeen, Noted
  <2>3. doc # No
    BY <1>0, <2>2 DEF Noted
  <2> QED
    BY <2>1, <2>2, <2>3 DEF Noted, At
<1>5. CASE _load_registry(p)
  <2>1. doc' = doc /\ bronze' = bronze /\ told' = told
    BY <1>5 DEF _load_registry, onVolume
  <2> QED
    BY <1>0, <1>5, <2>1, LoadMoves, NotedTakes DEF TakesRow
<1>6. CASE Skipped(p)
  <2>1. u'[p] = Idle
    BY <1>0, <1>6, IdleTyped, Moves DEF Skipped, Skip
  <2> QED
    BY <1>0, <1>6, <2>1, NotedStays DEF Skipped, onVolume, tableHistory, NotedAside, Prepared
<1>7. CASE gate_table_common(p)
  <2>1. PICK h \in HeadersRead(p), inserted \in BOOLEAN, read \in BOOLEAN :
          GateTakes(p, h, inserted, read)
    BY <1>7, GateOpens
  <2>2. /\ doc' = doc /\ bronze' = bronze /\ told' = told /\ u[p].pc = "gate"
        /\ unsure \subseteq unsure' /\ (~read => p \in unsure')
    BY <1>7, <2>1, GateOpens DEF GateTakes
  <2>3. CASE u'[p] = Idle
    BY <1>0, <2>2, <2>3, NotedStays DEF NotedAside, Prepared
  <2>4. CASE u'[p] # Idle
    <3>1. /\ u'[p].pc = "run" /\ u'[p].doc = u[p].doc /\ u'[p].changed = u[p].changed
          /\ u'[p].type = Declared(p, IF read THEN bronze[p].type ELSE No)
      BY <2>1, <2>4, GateMoves DEF RunsAs
    <3>2. IF u[p].doc = No THEN Untyped(p) ELSE u[p].changed \/ u[p].doc \in told
      BY <1>0, <2>2 DEF Noted, Prepared
    <3>3. CASE u[p].doc = No
      <4>1. u'[p].type = "string" /\ Untyped(p)
        BY <3>1, <3>2, <3>3 DEF Declared
      <4>2. Safe(bronze'[p].type, u'[p].type)
        BY <2>2, <4>1, SafeTypes DEF Untyped
      <4>3. Untyped(p)'
        BY <2>2, <4>1 DEF Untyped
      <4> QED
        BY <3>1, <3>3, <4>1, <4>2, <4>3 DEF Noted, At
    <3>4. CASE u[p].doc # No
      <4>1. doc # No
        BY <1>0, <3>4 DEF Noted
      <4>2. \/ Safe(bronze'[p].type, u'[p].type)
            \/ u'[p].doc \in told' /\ ~u'[p].changed
            \/ p \in unsure'
        <5>1. CASE read /\ u[p].changed
          <6>1. u'[p].type = _build_evolved_schema(bronze[p].type, u[p].doc)
            BY <3>1, <3>4, <5>1 DEF Declared
          <6> QED
            BY <2>2, <6>1, SafeTypes
        <5>2. CASE ~read \/ ~u[p].changed
          BY <2>2, <3>1, <3>2, <3>4, <5>2
        <5> QED
          BY <5>1, <5>2
      <4> QED
        BY <2>2, <3>1, <3>2, <3>4, <4>1, <4>2 DEF Noted, At
    <3> QED
      BY <3>3, <3>4
  <2> QED
    BY <2>3, <2>4
<1>8. CASE UpdateCompletes(p)
  <2>1. u'[p] = Idle /\ doc' = doc /\ told' = told /\ unsure' = unsure /\ u[p].pc = "run"
    BY <1>0, <1>8, IdleTyped, Moves DEF UpdateCompletes, onVolume, At
  <2>2. bronze'[p].type = u[p].type
    <3>1. CASE ~Ingests(p)
      <4>1. bronze' = [bronze EXCEPT ![p] = [bronze[p] EXCEPT !.type = u[p].type]]
        BY <1>8, <3>1 DEF UpdateCompletes
      <4> QED
        BY <4>1 DEF Typed
    <3>2. CASE Ingests(p)
      BY <1>8, <3>2 DEF UpdateCompletes, Typed
    <3> QED
      BY <3>1, <3>2
  <2>3. doc = No => u[p].doc = No /\ u[p].type = "string"
    BY <1>0, <2>1 DEF Noted, At
  <2>4. doc' = No => Untyped(p)'
    BY <2>1, <2>2, <2>3 DEF Untyped
  <2> QED
    BY <1>0, <2>1, <2>4 DEF Noted, At, Prepared
<1> QED
  BY <1>1, <1>2, <1>3, <1>4, <1>5, <1>6, <1>7, <1>8 DEF Elsewhere

LEMMA ToldFirstKept ==
    ASSUME Typed, ToldFirst, BronzeNext
    PROVE  ToldFirst'
<1>1. ASSUME NEW p \in Pipelines PROVE Noted(p)'
  <2>1. Noted(p)
    BY DEF ToldFirst
  <2>2. ASSUME Task \/ (\E w \in Workers : Fail(w) \/ Seed(w)) \/ \E t \in Pipelines : Outside(t)
        PROVE  Noted(p)'
    BY <2>1, <2>2, NotedElsewhere
  <2>3. ASSUME NEW q \in Pipelines, Elsewhere(q) PROVE Noted(p)'
    BY <2>1, <2>3, NotedElsewhere, NotedUpdate
  <2> QED
    BY <2>1, <2>2, <2>3, Steps, NotedCdcSeed
<1> QED
  BY <1>1, HashesKept DEF ToldFirst

-----------------------------------------------------------------------------
(* The theorems *)

LEMMA InitHolds == BronzeInit => TablesInv
<1> SUFFICES ASSUME BronzeInit PROVE TablesInv
  OBVIOUS
<1>1. Typed
  BY InitTyped
<1>2. \A w \in Workers : u[w] = Idle /\ Idle.pc = "idle" /\ Idle.doc = No
  BY DEF BronzeInit, Idle
<1>3. Merging /\ \A w \in Workers : ~Seeding(w)
  BY <1>2 DEF Merging, Seeding, At
<1>4. Running
  BY <1>2, Kinds DEF BronzeInit, Running, At
<1>5. Stored(pkHash) = {} /\ Stored(schemaHash) = {}
  BY DEF BronzeInit, Stored
<1>6. Followed
  BY <1>3, <1>5 DEF BronzeInit, Followed
<1>7. OneKey
  <2> SUFFICES ASSUME NEW p \in Pipelines PROVE Listed(p) /\ Keyed(p)
    BY DEF OneKey
  <2>1. config[p] \in {No, FirstOrdinal} /\ registry[p] = NoRow /\ fed[p] = {}
    BY DEF BronzeInit, FirstOrdinal
  <2> QED
    BY <1>2, <1>3, <1>5, <2>1, Kinds DEF Listed, Keyed, At, Prepared
<1>8. ToldFirst
  BY <1>2, <1>5, Kinds DEF BronzeInit, ToldFirst, HashesTold, Noted, Untyped, NoTable, At, Prepared
<1> QED
  BY <1>1, <1>3, <1>4, <1>6, <1>7, <1>8 DEF TablesInv

LEMMA NextKeeps == TablesInv /\ [BronzeNext]_bronzeVars => TablesInv'
<1> SUFFICES ASSUME TablesInv, [BronzeNext]_bronzeVars PROVE TablesInv'
  OBVIOUS
<1>1. CASE BronzeNext
  <2>1. Typed'
    BY <1>1, TypedKept DEF TablesInv
  <2> QED
    BY <1>1, <2>1, MergingKept, RunningKept, FollowedKept, OneKeyKept, ToldFirstKept DEF TablesInv
<1>2. CASE UNCHANGED bronzeVars
  <2>1. Typed'
    BY <1>2 DEF bronzeVars, TablesInv, Typed
  <2>2. Merging'
    BY <1>2 DEF bronzeVars, TablesInv, Merging, At
  <2>3. Running'
    BY <1>2 DEF bronzeVars, TablesInv, Running, At
  <2>4. Followed'
    BY <1>2 DEF bronzeVars, TablesInv, Followed, Applied, Stored, Seeding
  <2>5. OneKey'
    BY <1>2 DEF bronzeVars, TablesInv, OneKey, Listed, Keyed, Stored, Seeding, At
  <2>6. HashesTold'
    BY <1>2 DEF bronzeVars, TablesInv, ToldFirst, HashesTold, Stored
  <2>7. \A p \in Pipelines : Noted(p)'
    BY <1>2 DEF bronzeVars, TablesInv, ToldFirst, Noted, Untyped, At
  <2> QED
    BY <2>1, <2>2, <2>3, <2>4, <2>5, <2>6, <2>7 DEF TablesInv, ToldFirst
<1> QED
  BY <1>1, <1>2

\* What every reachable state of the notebooks' tables is like, for any projects,
\* deployments, updates, seed tasks and events.
THEOREM TablesHold == BronzeSpec => []TablesInv
<1>1. BronzeInit => TablesInv
  BY InitHolds
<1>2. TablesInv /\ [BronzeNext]_bronzeVars => TablesInv'
  BY NextKeeps
<1> QED
  BY <1>1, <1>2, PTL DEF BronzeSpec

\* When nobody seeds, the registry has the keys of the pk_config.json that the last
\* seeding applied or found unchanged, but for rows an operator set by hand.
THEOREM RegistryFollows == BronzeSpec => []SeedFollowsConfig
<1>1. TablesInv => SeedFollowsConfig
  BY DEF TablesInv, Followed, SeedFollowsConfig, Applied
<1> QED
  BY <1>1, TablesHold, PTL

\* A table is fed by one key until it is rebuilt, unless an operator changed its key or
\* the registry was read or written too late or not at all.
THEOREM KeyIsKept == BronzeSpec => []OneKeyUnlessConfigured
<1>1. ASSUME TablesInv, NEW t \in Pipelines, t \notin reconfigured \cup unsure
      PROVE  fed[t] = {} \/ fed[t] = {registry[t].pk}
  BY <1>1 DEF TablesInv, OneKey, Keyed
<1>2. TablesInv => OneKeyUnlessConfigured
  BY <1>1 DEF OneKeyUnlessConfigured
<1> QED
  BY <1>2, TablesHold, PTL

\* An update declares a type that could lose values only after some update has reported
\* the change of schema.json, or if it could not read what the table declares.
THEOREM UnsafeWasTold == BronzeSpec => []UnsafeTypeWasTold
<1>1. TablesInv => UnsafeTypeWasTold
  BY DEF TablesInv, ToldFirst, Noted, UnsafeTypeWasTold
<1> QED
  BY <1>1, TablesHold, PTL
=============================================================================
