----------------------------- MODULE SyncWindow -----------------------------
(***************************************************************************)
(* The incremental export windows of one M2M connection: where the next    *)
(* Data Connector export starts, and whether consecutive exports chain.    *)
(*                                                                         *)
(* Each runner is a thread inside sync_steps.run_export.  More than one    *)
(* can be there at once (ConnectionSync, OverlapOnlyInGuardWindow).  The   *)
(* module keeps the calls of run_export that read or write the rows and    *)
(* watermarks; remote work is the time that passes in between.             *)
(*                                                                         *)
(* Instants are whole seconds, the precision of iso_window_from_timestamp. *)
(* A window is the pair of its first and last instant; a full export has   *)
(* no dates, and reaches back to 0.                                        *)
(***************************************************************************)
EXTENDS Naturals, Sequences

CONSTANTS
    Runners,    \* threads that run a sync of the connection
    MaxRuns,    \* bound: rows of connection_sync_runs
    MaxTime,    \* bound: last instant of the clock
    Null        \* SQL NULL, Python None

ASSUME WindowAssumption ==
    /\ MaxRuns \in Nat
    /\ MaxTime \in Nat
    /\ Null \notin Nat

VARIABLES
    now,        \* the clock
    rows,       \* connection_sync_runs of the connection
    lastRun,    \* the last run_id handed out
    watermark,  \* connection_watermarks of the connection, one per stream
    runner,     \* local state of every runner
    landed,     \* history: instants whose changes a completed run ingested
    reach       \* history: what a completed run covered, and until when it ran

vars == <<now, rows, lastRun, watermark, runner, landed, reach>>

-----------------------------------------------------------------------------
Times == 0..MaxTime
Modes == {"snapshot", "cdc"}
Streams == {"data_connector", "data_connector_cdc"}

\* updated_at is kept for successful runs only: of the others nobody reads it.
Row == [mode: Modes, state: {"running", "success", "failed"}, updated_at: Times \cup {Null}]
Window == [start: Times \cup {Null}, end: Times \cup {Null}]
FULL == [start |-> Null, end |-> Null]
KeyLists == {<<>>, <<"data_connector_cdc">>, <<"data_connector", "data_connector_cdc">>}

Runner == [pc: {"idle", "resolve", "export", "resolve_cdc", "export_cdc", "ingest", "commit"},
           run: 0..MaxRuns,
           window: [Streams -> Window],
           keys: KeyLists]          \* watermark keys still to be written

IdleRunner == [pc |-> "idle", run |-> 0, window |-> [s \in Streams |-> FULL], keys |-> <<>>]

\* No stream is covered by a run that has not completed.
Nothing == [upto |-> [s \in Streams |-> Null], left |-> Null]

Created == 1..lastRun

\* The modes of a successful run that advance a watermark key.
successful_sync_modes_for_watermark(key) ==
    CASE key = "data_connector_cdc" -> {"cdc", "snapshot"}
      [] key = "data_connector" -> {"snapshot"}

\* The keys a successful run of this mode writes, in order.  A manual snapshot
\* writes a third one, the time of the last manual full export, which this path
\* never reads.
watermark_keys_for(mode) ==
    IF mode = "cdc" THEN <<"data_connector_cdc">>
    ELSE <<"data_connector", "data_connector_cdc">>

\* Seeded bug: the mode of the run is not asked.
SuccessesOfAnyMode(key) == {r \in Created : rows[r].state = "success"}

Successes(key) ==
    {r \in Created : rows[r].state = "success"
                        /\ rows[r].mode \in successful_sync_modes_for_watermark(key)}

\* The completion time of the successful run with the highest run_id.
last_successful_timestamp(key) ==
    IF Successes(key) = {} THEN Null
    ELSE rows[CHOOSE r \in Successes(key) : \A i \in Successes(key) : i <= r].updated_at

\* Seeded bug: the watermark comes first.
AnchorWatermarkFirst(key) ==
    IF watermark[key] # Null THEN watermark[key] ELSE last_successful_timestamp(key)

\* Where the next window of a stream starts; the watermark is the fallback.
Anchor(key) ==
    IF last_successful_timestamp(key) # Null THEN last_successful_timestamp(key)
    ELSE watermark[key]

\* The window of an export: from the anchor until now, or everything.
resolve_window(key) ==
    IF Anchor(key) = Null THEN FULL ELSE [start |-> Anchor(key), end |-> now]

Init ==
    /\ now = 0
    /\ rows = [r \in 1..MaxRuns |-> Null]
    /\ lastRun = 0
    /\ watermark = [s \in Streams |-> Null]
    /\ runner = [w \in Runners |-> IdleRunner]
    /\ landed = [s \in Streams |-> {}]
    /\ reach = [r \in 1..MaxRuns |-> Nothing]

-----------------------------------------------------------------------------
create_run(w, m) ==
    /\ runner[w].pc = "idle"
    /\ lastRun < MaxRuns
    /\ lastRun' = lastRun + 1
    /\ rows' = [rows EXCEPT ![lastRun + 1] =
                   [mode |-> m, state |-> "running", updated_at |-> Null]]
    /\ runner' = [runner EXCEPT ![w] = [IdleRunner EXCEPT !.pc = "resolve", !.run = lastRun + 1]]
    /\ UNCHANGED <<now, watermark, landed, reach>>

\* The window of the run's own stream.
ResolveWindow(w) ==
    LET s == IF rows[runner[w].run].mode = "snapshot"
             THEN "data_connector" ELSE "data_connector_cdc" IN
    /\ runner[w].pc = "resolve"
    /\ runner' = [runner EXCEPT ![w].pc = IF s = "data_connector" THEN "export" ELSE "export_cdc",
                                ![w].window[s] = resolve_window(s)]
    /\ UNCHANGED <<now, rows, lastRun, watermark, landed, reach>>

\* A snapshot resolves the window of its cdc baseline once the first export has
\* landed.
ResolveBaseline(w) ==
    /\ runner[w].pc = "resolve_cdc"
    /\ runner' = [runner EXCEPT ![w].pc = "export_cdc",
                     ![w].window["data_connector_cdc"] = resolve_window("data_connector_cdc")]
    /\ UNCHANGED <<now, rows, lastRun, watermark, landed, reach>>

\* _dc_create_request, then the files.  A request without dates exports what is
\* there when it is made.
Exported(w, s, from, to) ==
    /\ runner[w].pc = from
    /\ runner' = [runner EXCEPT ![w].pc = to,
                     ![w].window[s].end = IF runner[w].window[s] = FULL
                                          THEN now ELSE runner[w].window[s].end]
    /\ UNCHANGED <<now, rows, lastRun, watermark, landed, reach>>

ExportSnapshot(w) == Exported(w, "data_connector", "export", "resolve_cdc")
ExportCdc(w) == Exported(w, "data_connector_cdc", "export_cdc", "ingest")

\* The instants of a window that was exported.
Instants(x) ==
    IF x.end = Null THEN {} ELSE {t \in Times : (x.start # Null => x.start <= t) /\ t <= x.end}

\* The pipelines have ingested the files: the run is successful.
Complete(w) ==
    LET r == runner[w].run IN
    /\ runner[w].pc = "ingest"
    /\ rows' = [rows EXCEPT ![r].state = "success", ![r].updated_at = now]
    /\ landed' = [s \in Streams |-> landed[s] \cup Instants(runner[w].window[s])]
    /\ reach' = [reach EXCEPT ![r].upto = [s \in Streams |-> runner[w].window[s].end]]
    /\ runner' = [runner EXCEPT ![w].pc = "commit",
                                ![w].keys = watermark_keys_for(rows[r].mode)]
    /\ UNCHANGED <<now, lastRun, watermark>>

\* commit_watermarks writes one key per transaction, each at the time it is
\* written.
set_watermark(w) ==
    /\ runner[w].pc = "commit" /\ runner[w].keys # <<>>
    /\ watermark' = [watermark EXCEPT ![Head(runner[w].keys)] = now]
    /\ runner' = [runner EXCEPT ![w].keys = Tail(runner[w].keys)]
    /\ UNCHANGED <<now, rows, lastRun, landed, reach>>

\* The runner is done with its run.
Leave(w) ==
    /\ runner' = [runner EXCEPT ![w] = IdleRunner]
    /\ reach' = [reach EXCEPT ![runner[w].run].left = now]
    /\ UNCHANGED <<now, lastRun, watermark, landed>>

Return(w) ==
    /\ runner[w].pc = "commit" /\ runner[w].keys = <<>>
    /\ Leave(w)
    /\ UNCHANGED rows

\* Any step may raise, the write of a watermark included, the third one of a
\* manual snapshot too.
Fail(w) ==
    /\ runner[w].pc # "idle"
    /\ Leave(w)
    /\ rows' = [rows EXCEPT ![runner[w].run].state = "failed",
                            ![runner[w].run].updated_at = Null]

\* The process is restarted.
Crash(w) ==
    /\ runner[w].pc # "idle"
    /\ Leave(w)
    /\ UNCHANGED rows

Tock ==
    /\ now < MaxTime
    /\ now' = now + 1
    /\ UNCHANGED <<rows, lastRun, watermark, runner, landed, reach>>

Next ==
    \/ \E w \in Runners :
          \/ \E m \in Modes : create_run(w, m)
          \/ ResolveWindow(w) \/ ResolveBaseline(w)
          \/ ExportSnapshot(w) \/ ExportCdc(w)
          \/ Complete(w)
          \/ set_watermark(w) \/ Return(w) \/ Fail(w) \/ Crash(w)
    \/ Tock

Spec == Init /\ [][Next]_vars

-----------------------------------------------------------------------------
(* Properties *)

\* A change before the next window was ingested, or it happened while a run that
\* completed was at work on an export that had already been cut: after the end
\* of its window and before the run was left.  Failed runs, retries, overlapping
\* runs and the order of their ids lose nothing else.
LostOnlyDuringRuns ==
    \A s \in Streams : \A t \in Times :
        (Anchor(s) # Null /\ t < Anchor(s) /\ t \notin landed[s]) =>
            \E r \in Created :
                /\ reach[r].upto[s] # Null /\ reach[r].upto[s] < t
                /\ t <= IF reach[r].left = Null THEN now ELSE reach[r].left

\* A run that fails leaves the next window of a stream where its own started,
\* provided that is where the last of the other successful runs, by run_id, ended:
\* whatever it wrote, the commit of its watermarks included, a retry exports the
\* same changes.
RetryKeepsWindow ==
    [][\A w \in Runners, s \in Streams :
          LET others == Successes(s) \ {runner[w].run}
              start == runner[w].window[s].start
          IN  (/\ Fail(w)
               /\ \E r \in others : rows[r].updated_at = start /\ \A i \in others : i <= r)
                  => Anchor(s)' = start]_vars

=============================================================================
