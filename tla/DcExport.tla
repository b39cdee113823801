------------------------------- MODULE DcExport -------------------------------
(***************************************************************************)
(* From a Data Connector request to the files the pipelines read: a run    *)
(* asks ACC for an export (or two, a snapshot and the baseline of the      *)
(* cdc* groups), waits for the job, lists its files and lands them in one  *)
(* folder per export.  On the Flask path the backend copies every file; on *)
(* the notebook path it writes a manifest of signed URLs, and the          *)
(* workflow's bulk_downloader tasks, one per folder, fetch them in         *)
(* parallel.  One run; runs keep to folders of their own (ConnectionSync). *)
(* That a GET is tried again with a fresh token is in TokenServices.       *)
(***************************************************************************)
EXTENDS Naturals, Sequences, FiniteSets

CONSTANTS
    Files,          \* names of files of an export
    MaxFaults,      \* bound: answers that are lost, URLs that expire, errors, clusters lost
    Null

ASSUME ExportAssumption == MaxFaults \in Nat

VARIABLES
    notebook,       \* _ENABLE_NOTEBOOK_DOWNLOAD
    todo,           \* exports of the run that are left, the current one first
    pc,             \* where run_export is
    attempt,        \* of the POST that creates the request
    requests,       \* at ACC: the requests of each export, and the state of the job of each
    mine,           \* the request, then its job, that the run waits for
    listed,         \* data-listing of each export's job
    left,           \* listed files of the current export that are not done
    url,            \* signed URLs of each export
    folder,         \* what is in vol_dir of each export
    pool,           \* the download of each file: queued, open, ok or bad
    tries,          \* its attempts
    task,           \* the bulk_download task of each export
    faults,
    unanswered,     \* history: POSTs that may have been served and were repeated or given up
    uncleaned       \* history: folders whose clean-up did not happen

vars == <<notebook, todo, pc, attempt, requests, mine, listed, left, url, folder, pool, tries, task,
          faults, unanswered, uncleaned>>
acc == <<attempt, requests, mine, unanswered>>
volume == <<url, folder, pool, tries, task, uncleaned>>

-----------------------------------------------------------------------------
(* Types and helpers *)

Exports == {"snapshot", "cdc"}
MaxPosts == 3       \* RETRY_DELAYS
MaxTries == 3       \* RETRY_BACKOFFS_SEC

Of(x) == {r \in DOMAIN requests : requests[r].of = x}
Current == Head(todo)
Each(v) == [x \in Exports |-> [f \in Files |-> v]]

Init ==
    /\ notebook \in BOOLEAN
    /\ todo \in {<<"snapshot", "cdc">>, <<"cdc">>}
    /\ pc = "post" /\ attempt = 1
    /\ requests = <<>> /\ mine = Null
    /\ listed = [x \in Exports |-> Null] /\ left = {}
    /\ url = Each("none") /\ folder = Each("none") /\ pool = Each("queued") /\ tries = Each(0)
    /\ task = [x \in Exports |-> "none"]
    /\ faults = 0
    /\ unanswered = [x \in Exports |-> 0] /\ uncleaned = {}

Fault == faults < MaxFaults /\ faults' = faults + 1

\* Any error below is an exception that ends run_export.
Raise == pc' = "failed"

-----------------------------------------------------------------------------
(* run_dc_job: the request and its job *)

NewRequest == Append(requests, [of |-> Current, job |-> "none"])

\* _post of a request: it is repeated after a 429, a 5xx and a lost answer.
_dc_create_request ==
    /\ pc = "post"
    /\ \/ /\ requests' = NewRequest /\ mine' = Len(requests) + 1
          /\ pc' = "wait" /\ attempt' = 1
          /\ UNCHANGED <<faults, unanswered>>
       \/ /\ Fault
          /\ \/ requests' = requests /\ UNCHANGED unanswered
             \/ requests' = NewRequest /\ unanswered' = [unanswered EXCEPT ![Current] = @ + 1]
          /\ IF attempt < MaxPosts THEN attempt' = attempt + 1 /\ UNCHANGED pc
             ELSE Raise /\ UNCHANGED attempt
          /\ UNCHANGED mine
    /\ UNCHANGED <<notebook, todo, listed, left, volume>>

Job == requests[mine].job

\* Seeded bug: when no job appears another request is made.
WaitOrAskAgain ==
    /\ pc = "wait"
    /\ pc' = IF Job # "none" THEN "poll" ELSE "post"
    /\ UNCHANGED <<notebook, todo, acc, listed, left, volume, faults>>

\* The job appears, or DC_JOB_APPEAR_WAIT passes; the request is left as it is.
dc_wait_for_job ==
    /\ pc = "wait"
    /\ IF Job # "none" THEN pc' = "poll" ELSE Raise
    /\ UNCHANGED <<notebook, todo, acc, listed, left, volume, faults>>

\* The job ends, or DC_JOB_MAX_WAIT passes.
dc_poll_job ==
    /\ pc = "poll"
    /\ IF Job = "complete" THEN pc' = "list" ELSE Raise
    /\ UNCHANGED <<notebook, todo, acc, listed, left, volume, faults>>

dc_list_files ==
    /\ pc = "list"
    /\ \E files \in SUBSET Files :
          listed' = [listed EXCEPT ![Current] = files] /\ left' = files
    /\ pc' = "land"
    /\ UNCHANGED <<notebook, todo, acc, volume, faults>>

\* External: ACC queues and ends the jobs of all requests, whoever reads them.
AccJob(r, from, to) ==
    /\ r \in DOMAIN requests /\ requests[r].job = from
    /\ requests' = [requests EXCEPT ![r].job = to]
    /\ UNCHANGED <<notebook, todo, pc, attempt, mine, listed, left, volume, faults, unanswered>>

-----------------------------------------------------------------------------
(* land_files *)

\* _phase2_in_flask: signed URL, download and PUT, one file after the other.
_phase2_in_flask(f) ==
    /\ pc = "land" /\ ~notebook /\ f \in left
    /\ folder' = [folder EXCEPT ![Current][f] = "whole"]
    /\ left' = left \ {f}
    /\ UNCHANGED <<notebook, todo, pc, acc, listed, url, pool, tries, task, uncleaned, faults>>

\* _phase2_via_notebook: a signed URL for every file, schema documents and the metadata
\* last; the manifest of all of them is written by Landed.
_phase2_via_notebook(f) ==
    /\ pc = "land" /\ notebook /\ f \in left
    /\ url' = [url EXCEPT ![Current][f] = "fresh"]
    /\ left' = left \ {f}
    /\ UNCHANGED <<notebook, todo, pc, acc, listed, folder, pool, tries, task, uncleaned, faults>>

\* An empty listing gives no manifest, which run_export refuses before it starts the workflow.
Landed ==
    /\ pc = "land" /\ left = {}
    /\ todo' = Tail(todo) /\ mine' = Null
    /\ IF Len(todo) > 1 THEN pc' = "post"
       ELSE IF ~notebook THEN pc' = "pipeline"
       ELSE IF {} \in {listed[x] : x \in Exports} THEN Raise ELSE pc' = "workflow"
    /\ task' = IF pc' # "workflow" THEN task
               ELSE [x \in Exports |-> IF listed[x] = Null THEN "none" ELSE "running"]
    /\ UNCHANGED <<notebook, attempt, requests, unanswered, listed, left, url, folder, pool, tries, uncleaned, faults>>

\* A 4xx, a 401 after the retry, three 429s or errors in a row, a PUT that fails.  A lost
\* answer only delays dc_wait_for_job and dc_poll_job.
Fails ==
    /\ pc \in {"post", "wait", "poll", "list", "land"} /\ Fault
    /\ Raise
    /\ UNCHANGED <<notebook, todo, acc, listed, left, volume>>

-----------------------------------------------------------------------------
(* bulk_downloader: one task per folder, a pool of downloads in each *)

Settled(x) == \A f \in listed[x] : pool[x][f] \in {"ok", "bad"}
AllOk(x) == \A f \in listed[x] : pool[x][f] = "ok"

\* _download_one opens the URL, and then the file; a URL that is refused is final.
Open(x, f) ==
    /\ task[x] \notin {"none", "killed"} /\ f \in listed[x] /\ pool[x][f] = "queued"
    /\ IF url[x][f] = "stale"
       THEN pool' = [pool EXCEPT ![x][f] = "bad"] /\ UNCHANGED <<folder, tries>>
       ELSE /\ pool' = [pool EXCEPT ![x][f] = "open"]
            /\ tries' = [tries EXCEPT ![x][f] = @ + 1]
            /\ folder' = [folder EXCEPT ![x][f] = "part"]
    /\ UNCHANGED <<notebook, todo, pc, acc, listed, left, url, task, uncleaned, faults>>

Written(x, f) ==
    /\ task[x] # "killed" /\ pool[x][f] = "open"
    /\ pool' = [pool EXCEPT ![x][f] = "ok"]
    /\ folder' = [folder EXCEPT ![x][f] = "whole"]
    /\ UNCHANGED <<notebook, todo, pc, acc, listed, left, url, tries, task, uncleaned, faults>>

\* Seeded bug: a stream that breaks is taken for the end of the file.
BrokenIsEnd(x, f) ==
    /\ task[x] # "killed" /\ pool[x][f] = "open" /\ Fault
    /\ pool' = [pool EXCEPT ![x][f] = "ok"]
    /\ UNCHANGED <<notebook, todo, pc, acc, listed, left, url, folder, tries, task, uncleaned>>

\* The stream breaks; what was written stays, until the next attempt overwrites it.
Broken(x, f) ==
    /\ task[x] # "killed" /\ pool[x][f] = "open" /\ Fault
    /\ pool' = [pool EXCEPT ![x][f] = IF tries[x][f] < MaxTries THEN "queued" ELSE "bad"]
    /\ UNCHANGED <<notebook, todo, pc, acc, listed, left, url, folder, tries, task, uncleaned>>

Clean(x) == folder' = [folder EXCEPT ![x] = [f \in Files |-> "none"]]

\* Seeded bug: the folder is removed as soon as one download has failed.
EndAtOnce(x) ==
    /\ task[x] = "running"
    /\ IF AllOk(x)
       THEN task' = [task EXCEPT ![x] = "done"] /\ UNCHANGED <<folder, uncleaned, faults>>
       ELSE /\ \E f \in listed[x] : pool[x][f] = "bad"
            /\ task' = [task EXCEPT ![x] = "failed"]
            /\ Clean(x) /\ UNCHANGED <<faults, uncleaned>>
    /\ UNCHANGED <<notebook, todo, pc, acc, listed, left, url, pool, tries>>

\* Leaving the pool waits for every download, then the task succeeds or removes the
\* folder; if that fails it says so and goes on.
EndDownload(x) ==
    /\ task[x] = "running" /\ Settled(x)
    /\ IF AllOk(x)
       THEN task' = [task EXCEPT ![x] = "done"] /\ UNCHANGED <<folder, uncleaned, faults>>
       ELSE /\ task' = [task EXCEPT ![x] = "failed"]
            /\ \/ Clean(x) /\ UNCHANGED <<faults, uncleaned>>
               \/ Fault /\ uncleaned' = uncleaned \cup {x} /\ UNCHANGED folder
    /\ UNCHANGED <<notebook, todo, pc, acc, listed, left, url, pool, tries>>

\* The cluster is lost, or timeout_seconds passes.
Killed(x) ==
    /\ task[x] = "running" /\ Fault
    /\ task' = [task EXCEPT ![x] = "killed"]
    /\ uncleaned' = uncleaned \cup {x}
    /\ UNCHANGED <<notebook, todo, pc, acc, listed, left, url, folder, pool, tries>>

Tasks == {x \in Exports : task[x] # "none"}

\* seed_registry and the pipelines depend on all downloads.
PipelinesStart ==
    /\ pc = "workflow" /\ \A x \in Tasks : task[x] = "done"
    /\ pc' = "pipeline"
    /\ UNCHANGED <<notebook, todo, acc, listed, left, volume, faults>>

WorkflowFails ==
    /\ pc = "workflow" /\ \A x \in Tasks : task[x] # "running"
    /\ \E x \in Tasks : task[x] # "done"
    /\ Raise
    /\ UNCHANGED <<notebook, todo, acc, listed, left, volume, faults>>

\* External: the signed URLs of one export run out; how long they live is ACC's choice.
UrlsExpire(x) ==
    /\ Fault /\ \E f \in Files : url[x][f] = "fresh"
    /\ url' = [url EXCEPT ![x] = [f \in Files |-> IF url[x][f] = "fresh" THEN "stale" ELSE url[x][f]]]
    /\ UNCHANGED <<notebook, todo, pc, acc, listed, left, folder, pool, tries, task, uncleaned>>

Next ==
    \/ _dc_create_request \/ dc_wait_for_job \/ dc_poll_job \/ dc_list_files \/ Landed \/ Fails
    \/ \E f \in Files : _phase2_in_flask(f) \/ _phase2_via_notebook(f)
    \/ \E r \in DOMAIN requests :
          AccJob(r, "none", "running") \/ AccJob(r, "running", "complete") \/ AccJob(r, "running", "failed")
    \/ \E x \in Exports :
          \/ EndDownload(x) \/ Killed(x) \/ UrlsExpire(x)
          \/ \E f \in Files : Open(x, f) \/ Written(x, f) \/ Broken(x, f)
    \/ PipelinesStart \/ WorkflowFails

Spec == Init /\ [][Next]_vars

-----------------------------------------------------------------------------
(* Properties *)

\* The pipelines read a folder only when every file of the export's listing is in it and
\* whole, whatever was retried, and however long ago the URLs were signed.
PipelinesReadWhole ==
    pc = "pipeline" =>
        \A x \in Exports : listed[x] # Null => \A f \in listed[x] : folder[x][f] = "whole"

\* "a half-written CSV cannot poison the downstream pipeline": when a download task has
\* failed nothing is left in its folder, and nothing comes back, unless the cluster was
\* lost or the removal failed.
FailedMeansEmpty ==
    \A x \in Exports : task[x] \in {"failed", "killed"} /\ x \notin uncleaned =>
        \A f \in Files : folder[x][f] = "none"

\* A run asks for each export once, and once more for every answer that was lost; the
\* request it waits for is its newest one of this export.
RequestedOnce ==
    /\ \A x \in Exports : Cardinality(Of(x)) <= 1 + unanswered[x]
    /\ pc \in {"wait", "poll", "list", "land"} => requests[mine].of = Current /\ mine = Len(requests)
=============================================================================
