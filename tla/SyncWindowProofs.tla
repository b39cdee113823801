--------------------------- MODULE SyncWindowProofs ---------------------------
(***************************************************************************)
(* Windows chain, for any number of runners and runs and any clock.        *)
(*                                                                         *)
(* A change that was ingested, or that is excused because it happened      *)
(* while a completed run was still at work, stays so (Covered).  Every     *)
(* instant before a completion time, a watermark or the start of a window  *)
(* is covered, and these are all the places where a window can start.      *)
(***************************************************************************)
EXTENDS SyncWindow, WellFoundedInduction, TLAPS

Reach == [upto: [Streams -> Times \cup {Null}], left: Times \cup {Null}]

TypeOK ==
    /\ now \in Times
    /\ lastRun \in 0..MaxRuns
    /\ rows \in [1..MaxRuns -> Row \cup {Null}] /\ \A r \in Created : rows[r] \in Row
    /\ watermark \in [Streams -> Times \cup {Null}]
    /\ runner \in [Runners -> Runner]
    /\ landed \in [Streams -> SUBSET Times]
    /\ reach \in [1..MaxRuns -> Reach]

\* Instant t happened while the run with the reach x was at work, after its export.
Excused(x, s, t, n) ==
    x.upto[s] # Null /\ x.upto[s] < t /\ t <= IF x.left = Null THEN n ELSE x.left

\* The changes of instant t were ingested, or are excused.
Covered(s, t) == t \in landed[s] \/ \E r \in Created : Excused(reach[r], s, t, now)

\* A window of s may start at a.
CanStart(s, a) == \A t \in Times : t < a => Covered(s, t)

\* A stream whose watermark is still to be written.
Pending(x, s) == x.keys # <<>> /\ (s = "data_connector_cdc" \/ Len(x.keys) = 2)

\* A runner in state x has a run of the runs 1..n that nobody has left.
OwnsRun(x, n, rc) ==
    x.pc # "idle" => /\ x.run \in 1..n /\ rc[x.run].left = Null
                     /\ x.pc # "commit" => rc[x.run] = Nothing

\* Nobody else has it.
Owned ==
    /\ \A w \in Runners : OwnsRun(runner[w], lastRun, reach)
    /\ \A r \in 1..MaxRuns : r \notin Created => reach[r] = Nothing
    /\ \A v, w \in Runners :
          v # w /\ runner[v].pc # "idle" /\ runner[w].pc # "idle" => runner[v].run # runner[w].run

\* By the time the pipelines run, the streams of the run have been exported.
Exporting(x, rs) ==
    /\ \A s \in Streams : x.window[s] = FULL \/ x.window[s].end # Null
    /\ x.pc \in {"export", "resolve_cdc"} => rs[x.run].mode = "snapshot"
    /\ x.pc \in {"resolve_cdc", "export_cdc", "ingest"} /\ rs[x.run].mode = "snapshot"
          => x.window["data_connector"].end # Null
    /\ x.pc = "ingest" => x.window["data_connector_cdc"].end # Null

\* Where the window of s starts, and what a run that commits has covered.
Started(x, s) ==
    /\ x.window[s].start # Null => CanStart(s, x.window[s].start)
    /\ x.pc = "commit" /\ Pending(x, s) =>
          /\ reach[x.run].upto[s] # Null
          /\ \A t \in Times : t <= reach[x.run].upto[s] => Covered(s, t)

\* Where the next window can start.
Anchored ==
    \A s \in Streams :
        /\ watermark[s] # Null => CanStart(s, watermark[s])
        /\ \A r \in Successes(s) : rows[r].updated_at # Null /\ CanStart(s, rows[r].updated_at)

IInv ==
    /\ TypeOK /\ Owned /\ Anchored
    /\ \A w \in Runners : Exporting(runner[w], rows) /\ \A s \in Streams : Started(runner[w], s)

-----------------------------------------------------------------------------
(* The last of some runs *)

LEMMA Last ==
    ASSUME NEW n \in Nat, NEW S \in SUBSET (1..n), S # {}
    PROVE  \E r \in S : \A i \in S : i <= r
<1> DEFINE T == {n - i : i \in S}
<1>0. \A i \in S : i \in Nat /\ n - i \in Nat
  <2>1. \A i \in S : i \in 1..n
    OBVIOUS
  <2> QED
    BY <2>1
<1>1. T \subseteq Nat /\ T # {}
  BY <1>0
<1>2. PICK x \in T : \A y \in T : ~(<<y, x>> \in OpToRel(<, Nat))
  BY <1>1, NatLessThanWellFounded, WFMin
<1>3. \A y \in T : ~(y < x)
  BY <1>1, <1>2 DEF OpToRel
<1>4. PICK r \in S : x = n - r
  BY <1>2
<1>5. \A i \in S : n - i \in T /\ ~(n - i < n - r)
  BY <1>3, <1>4
<1> QED
  BY <1>0, <1>5

\* The completion time of the last success, if there is one.
LEMMA LastSuccess ==
    ASSUME TypeOK, NEW s \in Streams, Successes(s) # {}
    PROVE  \E r \in Successes(s) : /\ \A i \in Successes(s) : i <= r
                                   /\ last_successful_timestamp(s) = rows[r].updated_at
<1>1. Successes(s) \in SUBSET (1..lastRun) /\ lastRun \in Nat
  BY WindowAssumption DEF TypeOK, Successes, Created
<1>2. \E r \in Successes(s) : \A i \in Successes(s) : i <= r
  BY <1>1, Last
<1> DEFINE r == CHOOSE r \in Successes(s) : \A i \in Successes(s) : i <= r
<1>3. r \in Successes(s) /\ \A i \in Successes(s) : i <= r
  BY <1>2
<1>4. last_successful_timestamp(s) = rows[r].updated_at
  BY DEF last_successful_timestamp
<1> QED
  BY <1>3, <1>4

\* A window starts at a place where it can.
LEMMA AnchorOk ==
    ASSUME IInv, NEW s \in Streams, Anchor(s) # Null
    PROVE  CanStart(s, Anchor(s)) /\ Anchor(s) \in Times
<1>1. CASE last_successful_timestamp(s) # Null
  <2>1. Successes(s) # {}
    BY <1>1 DEF last_successful_timestamp
  <2>2. PICK r \in Successes(s) : last_successful_timestamp(s) = rows[r].updated_at
    BY <2>1, LastSuccess DEF IInv
  <2>3. rows[r] \in Row
    BY <2>2 DEF IInv, TypeOK, Successes
  <2> QED
    BY <1>1, <2>2, <2>3 DEF IInv, Anchored, Anchor, Row
<1>2. CASE last_successful_timestamp(s) = Null
  <2>1. Anchor(s) = watermark[s]
    BY <1>2 DEF Anchor
  <2>2. CanStart(s, watermark[s])
    BY <2>1 DEF IInv, Anchored
  <2> QED
    BY <2>1, <2>2 DEF IInv, TypeOK
<1> QED
  BY <1>1, <1>2

-----------------------------------------------------------------------------
(* What is covered stays covered *)

\* Nothing that a step does takes away what excuses or has ingested a change.
Grows ==
    /\ now <= now' /\ lastRun <= lastRun'
    /\ \A s \in Streams : landed[s] \subseteq landed'[s]
    /\ \A r \in Created : \A s \in Streams :
          reach[r].upto[s] # Null => reach'[r].upto[s] = reach[r].upto[s]
    /\ \A r \in Created : /\ reach[r].left # Null => reach'[r].left = reach[r].left
                          /\ reach[r].left = Null /\ reach'[r].left # Null => now <= reach'[r].left

LEMMA CoveredStays ==
    ASSUME TypeOK, TypeOK', Grows, NEW s \in Streams, NEW t \in Times, Covered(s, t)
    PROVE  Covered(s, t)'
<1>1. now \in Nat /\ now' \in Nat /\ lastRun \in Nat /\ lastRun' \in Nat /\ t \in Nat
  BY WindowAssumption DEF TypeOK, Times
<1>2. CASE t \in landed[s]
  BY <1>2 DEF Grows, Covered
<1>3. CASE \E r \in Created : Excused(reach[r], s, t, now)
  <2>1. PICK r \in Created : Excused(reach[r], s, t, now)
    BY <1>3
  <2>2. r \in Created'
    BY <1>1 DEF Grows, Created
  <2>3. reach'[r].upto[s] # Null /\ reach'[r].upto[s] < t
    BY <2>1 DEF Grows, Excused
  <2>4. r \in 1..MaxRuns
    BY WindowAssumption DEF TypeOK, Created
  <2>5. reach[r].left \in Times \cup {Null} /\ reach'[r].left \in Times \cup {Null}
    BY <2>4 DEF TypeOK, Reach
  <2>6. t <= IF reach'[r].left = Null THEN now' ELSE reach'[r].left
    <3>1. CASE reach[r].left # Null
      BY <2>1, <3>1 DEF Grows, Excused
    <3>2. CASE reach[r].left = Null /\ reach'[r].left = Null
      BY <1>1, <2>1, <3>2 DEF Grows, Excused
    <3>3. CASE reach[r].left = Null /\ reach'[r].left # Null
      <4>1. t <= now /\ now <= reach'[r].left /\ reach'[r].left \in Nat
        BY <2>1, <2>5, <3>3 DEF Grows, Excused, Times
      <4> QED
        BY <1>1, <3>3, <4>1
    <3> QED
      BY <3>1, <3>2, <3>3
  <2>7. Excused(reach[r], s, t, now)'
    BY <2>3, <2>6 DEF Excused
  <2> QED
    BY <2>2, <2>7 DEF Covered
<1> QED
  BY <1>2, <1>3 DEF Covered

LEMMA StartStays ==
    ASSUME TypeOK, TypeOK', Grows, NEW s \in Streams, NEW a, CanStart(s, a)
    PROVE  CanStart(s, a)'
BY CoveredStays DEF CanStart, Times

-----------------------------------------------------------------------------
(* Types *)

LEMMA RowTypes ==
    ASSUME TypeOK
    PROVE  /\ now \in Nat /\ lastRun \in Nat /\ Created \subseteq 1..MaxRuns
           /\ Streams = {"data_connector", "data_connector_cdc"}
           /\ FULL \in Window /\ IdleRunner \in Runner /\ Nothing \in Reach
           /\ \A w \in Runners : runner[w] \in Runner /\ runner[w].run \in 0..MaxRuns
                                 /\ runner[w].window \in [Streams -> Window]
           /\ \A r \in 1..MaxRuns : reach[r] \in Reach
<1>1. FULL \in Window
  BY DEF FULL, Window
<1>2. IdleRunner \in Runner
  <2>1. [s \in Streams |-> FULL] \in [Streams -> Window] /\ <<>> \in KeyLists /\ 0 \in 0..MaxRuns
    BY <1>1, WindowAssumption DEF KeyLists
  <2> QED
    BY <2>1 DEF IdleRunner, Runner
<1>3. Nothing \in Reach
  BY DEF Nothing, Reach
<1> QED
  BY <1>1, <1>2, <1>3, WindowAssumption DEF TypeOK, Created, Streams, Times, Runner

\* The keys to write, one by one.
LEMMA KeyFacts ==
    ASSUME NEW k \in KeyLists, k # <<>>
    PROVE  /\ Head(k) \in Streams /\ Tail(k) \in KeyLists
           /\ Head(k) = "data_connector_cdc" \/ Len(k) = 2
           /\ Tail(k) # <<>> => Len(k) = 2 /\ Len(Tail(k)) = 1
<1>1. CASE k = <<"data_connector_cdc">>
  BY <1>1 DEF KeyLists, Streams
<1>2. CASE k = <<"data_connector", "data_connector_cdc">>
  <2>1. Tail(k) = <<"data_connector_cdc">>
    BY <1>2
  <2> QED
    BY <1>2, <2>1 DEF KeyLists, Streams
<1> QED
  BY <1>1, <1>2 DEF KeyLists

\* A step of runner w to x that touches neither rows nor history.
LEMMA QuietType ==
    ASSUME TypeOK, NEW w \in Runners, NEW x \in Runner, runner' = [runner EXCEPT ![w] = x],
           UNCHANGED <<now, rows, lastRun, landed, reach>>,
           watermark' \in [Streams -> Times \cup {Null}]
    PROVE  TypeOK'
BY DEF TypeOK, Created

\* What each step makes of its runner.
LEMMA Resolved ==
    ASSUME TypeOK, NEW w \in Runners, NEW s \in Streams, NEW pc \in {"export", "export_cdc"}
    PROVE  /\ resolve_window(s) \in Window
           /\ [runner[w] EXCEPT !.pc = pc, !.window[s] = resolve_window(s)] \in Runner
<1>1. last_successful_timestamp(s) \in Times \cup {Null}
  <2>1. CASE Successes(s) # {}
    <3>1. PICK r \in Successes(s) : last_successful_timestamp(s) = rows[r].updated_at
      BY <2>1, LastSuccess
    <3>2. rows[r] \in Row
      BY <3>1 DEF TypeOK, Successes
    <3> QED
      BY <3>1, <3>2 DEF Row
  <2>2. CASE Successes(s) = {}
    BY <2>2 DEF last_successful_timestamp
  <2> QED
    BY <2>1, <2>2
<1>2. Anchor(s) \in Times \cup {Null}
  BY <1>1 DEF TypeOK, Anchor
<1>3. resolve_window(s) \in Window
  BY <1>2, RowTypes DEF TypeOK, resolve_window, Window
<1> DEFINE v == resolve_window(s)
<1> HIDE DEF v
<1>4. [runner[w].window EXCEPT ![s] = v] \in [Streams -> Window]
  BY <1>3, RowTypes DEF v
<1> DEFINE ws == [runner[w].window EXCEPT ![s] = v]
<1>5. [runner[w] EXCEPT !.pc = pc, !.window[s] = v] = [runner[w] EXCEPT !.pc = pc, !.window = ws]
  BY RowTypes DEF Runner
<1> HIDE DEF ws
<1>6. [runner[w] EXCEPT !.pc = pc, !.window = ws] \in Runner
  BY <1>4, RowTypes DEF Runner, ws
<1> QED
  BY <1>3, <1>5, <1>6 DEF v

-----------------------------------------------------------------------------
(* Runners *)

\* Runner w goes to x, the others and their runs stay as they are.
LEMMA RunnerStep ==
    ASSUME IInv, TypeOK', Grows, NEW w \in Runners, NEW x \in Runner,
           runner' = [runner EXCEPT ![w] = x],
           \A v \in Runners \ {w} : runner[v].pc # "idle" =>
              /\ reach'[runner[v].run] = reach[runner[v].run]
              /\ rows'[runner[v].run].mode = rows[runner[v].run].mode
              /\ x.pc # "idle" => x.run # runner[v].run,
           \A r \in 1..MaxRuns : r \notin Created' => reach'[r] = Nothing,
           OwnsRun(x, lastRun', reach'), Exporting(x, rows'),
           \A s \in Streams : Started(x, s)'
    PROVE  Owned' /\ \A v \in Runners : Exporting(runner'[v], rows') /\ \A s \in Streams : Started(runner[v], s)'
<1>1. runner'[w] = x /\ \A v \in Runners \ {w} : runner'[v] = runner[v]
  BY DEF IInv, TypeOK
<1>2. lastRun \in Nat /\ lastRun' \in Nat /\ lastRun <= lastRun'
  BY WindowAssumption DEF IInv, TypeOK, Grows
<1>3. ASSUME NEW v \in Runners \ {w}
      PROVE  OwnsRun(runner[v], lastRun', reach') /\ Exporting(runner[v], rows')
  <2>1. OwnsRun(runner[v], lastRun, reach) /\ Exporting(runner[v], rows)
    BY DEF IInv, Owned
  <2>2. CASE runner[v].pc = "idle"
    BY <2>1, <2>2 DEF OwnsRun, Exporting
  <2>3. CASE runner[v].pc # "idle"
    BY <1>2, <2>1, <2>3 DEF OwnsRun, Exporting
  <2> QED
    BY <2>2, <2>3
<1>4. ASSUME NEW v \in Runners \ {w}, NEW s \in Streams
      PROVE  Started(runner[v], s)'
  <2>1. Started(runner[v], s)
    BY DEF IInv
  <2> DEFINE y == runner[v]
  <2>2. y.window[s].start # Null => CanStart(s, y.window[s].start)'
    <3>1. ASSUME NEW a, CanStart(s, a)
          PROVE  CanStart(s, a)'
      BY <3>1, StartStays DEF IInv
    <3>2. ASSUME NEW a, a = y.window[s].start, a # Null
          PROVE  CanStart(s, a)'
      <4>1. CanStart(s, a)
        BY <2>1, <3>2 DEF Started
      <4> QED
        BY <3>1, <4>1
    <3>3. y' = y
      BY <1>1
    <3> QED
      BY <3>2, <3>3 DEF CanStart
  <2>3. y.pc = "commit" /\ Pending(y, s) =>
          /\ reach'[y.run].upto[s] # Null
          /\ \A t \in Times : t <= reach'[y.run].upto[s] => Covered(s, t)'
    <3> SUFFICES ASSUME y.pc = "commit", Pending(y, s)
                 PROVE  /\ reach'[y.run].upto[s] # Null
                        /\ \A t \in Times : t <= reach'[y.run].upto[s] => Covered(s, t)'
      OBVIOUS
    <3>1. reach'[y.run] = reach[y.run]
      OBVIOUS
    <3>2. reach[y.run].upto[s] # Null /\ \A t \in Times : t <= reach[y.run].upto[s] => Covered(s, t)
      BY <2>1 DEF Started
    <3>3. \A t \in Times : Covered(s, t) => Covered(s, t)'
      BY CoveredStays DEF IInv
    <3> QED
      BY <3>1, <3>2, <3>3
  <2> QED
    BY <1>1, <2>2, <2>3 DEF Started, Pending
<1>5. \A v \in Runners : OwnsRun(runner'[v], lastRun', reach') /\ Exporting(runner'[v], rows')
  BY <1>1, <1>3
<1>6. \A v \in Runners, s \in Streams : Started(runner[v], s)'
  <2> SUFFICES ASSUME NEW v \in Runners, NEW s \in Streams
               PROVE  Started(runner[v], s)'
    OBVIOUS
  <2>1. CASE v = w
    <3>1. Started(x, s)'
      OBVIOUS
    <3>2. runner'[v] = x
      BY <1>1, <2>1
    <3> QED
      BY <3>1, <3>2 DEF Started, Pending
  <2>2. CASE v # w
    BY <1>4, <2>2
  <2> QED
    BY <2>1, <2>2
<1>7. \A u, v \in Runners :
         u # v /\ runner'[u].pc # "idle" /\ runner'[v].pc # "idle" => runner'[u].run # runner'[v].run
  <2> SUFFICES ASSUME NEW u \in Runners, NEW v \in Runners, u # v, runner'[u].pc # "idle", runner'[v].pc # "idle"
               PROVE  runner'[u].run # runner'[v].run
    OBVIOUS
  <2>1. CASE u = w
    BY <1>1, <2>1
  <2>2. CASE v = w
    BY <1>1, <2>2
  <2>3. CASE u # w /\ v # w
    BY <1>1, <2>3 DEF IInv, Owned
  <2> QED
    BY <2>1, <2>2, <2>3
<1>8. Owned'
  BY <1>5, <1>7 DEF Owned
<1> QED
  BY <1>5, <1>6, <1>8

\* The runs that count are those that counted, at the times they had.
LEMMA AnchorsStay ==
    ASSUME IInv, TypeOK', Grows, watermark' = watermark,
           \A s \in Streams : \A r \in Successes(s)' : r \in Successes(s) /\ rows'[r].updated_at = rows[r].updated_at
    PROVE  Anchored'
<1> SUFFICES ASSUME NEW s \in Streams
             PROVE  /\ watermark'[s] # Null => CanStart(s, watermark[s])'
                    /\ \A r \in Successes(s)' : rows'[r].updated_at # Null /\ CanStart(s, rows[r].updated_at)'
  BY DEF Anchored
<1>1. ASSUME NEW a, CanStart(s, a)
      PROVE  CanStart(s, a)'
  BY <1>1, StartStays DEF IInv
<1>2. ASSUME NEW a, a = watermark[s], a # Null
      PROVE  CanStart(s, a)'
  BY <1>1, <1>2 DEF IInv, Anchored
<1>3. ASSUME NEW r \in Successes(s)'
      PROVE  rows'[r].updated_at # Null /\ CanStart(s, rows[r].updated_at)'
  <2>1. rows[r].updated_at # Null /\ CanStart(s, rows[r].updated_at) /\ rows'[r].updated_at = rows[r].updated_at
    BY <1>3 DEF IInv, Anchored
  <2>2. ASSUME NEW a, a = rows[r].updated_at
        PROVE  CanStart(s, a)'
    BY <1>1, <2>1, <2>2
  <2> QED
    BY <2>1, <2>2 DEF CanStart
<1> QED
  BY <1>2, <1>3 DEF CanStart

\* A step of w to x that only resolves or exports.
LEMMA QuietStep ==
    ASSUME IInv, NEW w \in Runners, NEW x \in Runner, runner' = [runner EXCEPT ![w] = x],
           UNCHANGED <<now, rows, lastRun, watermark, landed, reach>>,
           x.run = runner[w].run, runner[w].pc \notin {"idle", "commit"}, x.pc \notin {"idle", "commit"},
           Exporting(x, rows),
           \A s \in Streams : x.window[s].start # Null => CanStart(s, x.window[s].start)
    PROVE  IInv'
<1>1. TypeOK'
  BY QuietType DEF IInv, TypeOK
<1>2. Grows
  BY DEF Grows, IInv, TypeOK, Times
<1>3. Anchored'
  BY <1>1, <1>2, AnchorsStay DEF Successes, Created
<1>4. \A v \in Runners \ {w} : runner[v].pc # "idle" =>
         /\ reach'[runner[v].run] = reach[runner[v].run]
         /\ rows'[runner[v].run].mode = rows[runner[v].run].mode
         /\ x.pc # "idle" => x.run # runner[v].run
  BY DEF IInv, Owned
<1>5. OwnsRun(x, lastRun', reach') /\ Exporting(x, rows')
  BY DEF IInv, Owned, OwnsRun
<1>6. \A r \in 1..MaxRuns : r \notin Created' => reach'[r] = Nothing
  BY DEF IInv, Owned, Created
<1>7. \A s \in Streams : Started(x, s)'
  BY DEF Started, CanStart, Covered, Created, Excused
<1> QED
  BY <1>1, <1>2, <1>3, <1>4, <1>5, <1>6, <1>7, RunnerStep DEF IInv

LEMMA ResolveStep ==
    ASSUME IInv, NEW w \in Runners, ResolveWindow(w) \/ ResolveBaseline(w)
    PROVE  IInv'
<1> DEFINE m == rows[runner[w].run].mode
<1> DEFINE z == runner[w]
<1>1. PICK s \in Streams, pc \in {"export", "export_cdc"} :
         /\ runner' = [runner EXCEPT ![w] = [z EXCEPT !.pc = pc, !.window[s] = resolve_window(s)]]
         /\ \/ z.pc = "resolve" /\ pc = "export" /\ s = "data_connector" /\ m = "snapshot"
            \/ z.pc = "resolve" /\ pc = "export_cdc" /\ s = "data_connector_cdc" /\ m # "snapshot"
            \/ z.pc = "resolve_cdc" /\ pc = "export_cdc" /\ s = "data_connector_cdc"
  <2>1. CASE ResolveWindow(w) /\ m = "snapshot"
    BY <2>1 DEF ResolveWindow, Streams
  <2>2. CASE ResolveWindow(w) /\ m # "snapshot"
    BY <2>2 DEF ResolveWindow, Streams
  <2>3. CASE ResolveBaseline(w)
    BY <2>3 DEF ResolveBaseline, Streams
  <2> QED
    BY <2>1, <2>2, <2>3
<1> DEFINE x == [z EXCEPT !.pc = pc, !.window[s] = resolve_window(s)]
<1>2. UNCHANGED <<now, rows, lastRun, watermark, landed, reach>>
  BY DEF ResolveWindow, ResolveBaseline
<1>3. x \in Runner
  BY Resolved DEF IInv
<1>4. /\ z \in Runner /\ z.window \in [Streams -> Window]
      /\ x.pc = pc /\ x.run = z.run /\ x.window = [z.window EXCEPT ![s] = resolve_window(s)]
  BY RowTypes DEF IInv, Runner
<1> HIDE DEF x
<1>5. resolve_window(s) = FULL \/ (resolve_window(s).end # Null /\ resolve_window(s).start = Anchor(s) /\ Anchor(s) # Null)
  BY WindowAssumption DEF resolve_window, IInv, TypeOK, Times
<1>6. resolve_window(s).start # Null => CanStart(s, resolve_window(s).start)
  BY <1>5, AnchorOk DEF FULL
<1>7. Exporting(z, rows) /\ \A i \in Streams : Started(z, i)
  BY DEF IInv
<1>8. Exporting(x, rows)
  BY <1>1, <1>4, <1>5, <1>7 DEF Exporting, Streams
<1>9. \A i \in Streams : x.window[i].start # Null => CanStart(i, x.window[i].start)
  <2> SUFFICES ASSUME NEW i \in Streams, x.window[i].start # Null
               PROVE  CanStart(i, x.window[i].start)
    OBVIOUS
  <2>1. CASE i = s
    BY <1>4, <1>6, <2>1
  <2>2. CASE i # s
    BY <1>4, <1>7, <2>2 DEF Started
  <2> QED
    BY <2>1, <2>2
<1>10. z.pc \notin {"idle", "commit"} /\ x.pc \notin {"idle", "commit"}
  BY <1>1, <1>4
<1>11. runner' = [runner EXCEPT ![w] = x]
  BY <1>1 DEF x
<1> QED
  BY <1>2, <1>3, <1>4, <1>8, <1>9, <1>10, <1>11, QuietStep

LEMMA ExportStep ==
    ASSUME IInv, NEW w \in Runners, ExportSnapshot(w) \/ ExportCdc(w)
    PROVE  IInv'
<1> DEFINE z == runner[w]
<1>1. PICK s \in Streams, pc \in {"resolve_cdc", "ingest"} :
         /\ runner' = [runner EXCEPT ![w].pc = pc, ![w].window[s].end = IF z.window[s] = FULL THEN now ELSE z.window[s].end]
         /\ \/ z.pc = "export" /\ pc = "resolve_cdc" /\ s = "data_connector"
            \/ z.pc = "export_cdc" /\ pc = "ingest" /\ s = "data_connector_cdc"
  BY DEF ExportSnapshot, ExportCdc, Exported, Streams
<1> DEFINE e == IF z.window[s] = FULL THEN now ELSE z.window[s].end
<1> DEFINE v == [z.window[s] EXCEPT !.end = e]
<1> DEFINE ws == [z.window EXCEPT ![s] = v]
<1> DEFINE x == [z EXCEPT !.pc = pc, !.window = ws]
<1>2. UNCHANGED <<now, rows, lastRun, watermark, landed, reach>>
  BY DEF ExportSnapshot, ExportCdc, Exported
<1>3. z \in Runner /\ z.window \in [Streams -> Window] /\ now \in Times
  BY RowTypes DEF IInv, TypeOK
<1>4. Exporting(z, rows) /\ \A i \in Streams : Started(z, i)
  BY DEF IInv
<1>5. e \in Times /\ e # Null
  BY <1>3, <1>4, WindowAssumption DEF Exporting, Window, FULL, Times
<1> HIDE DEF e
<1>6. v \in Window /\ v.end = e /\ v.start = z.window[s].start
  BY <1>3, <1>5 DEF Window
<1>7. runner' = [runner EXCEPT ![w] = x]
  BY <1>1, <1>3 DEF e, Runner, IInv, TypeOK
<1> HIDE DEF v
<1>8. ws \in [Streams -> Window] /\ \A i \in Streams : ws[i] = IF i = s THEN v ELSE z.window[i]
  BY <1>3, <1>6
<1> HIDE DEF ws
<1>9. x \in Runner /\ x.pc = pc /\ x.run = z.run /\ x.window = ws
  BY <1>3, <1>8 DEF Runner
<1> HIDE DEF x
<1>10. Exporting(x, rows)
  BY <1>1, <1>4, <1>5, <1>6, <1>8, <1>9 DEF Exporting, Streams
<1>11. \A i \in Streams : x.window[i].start # Null => CanStart(i, x.window[i].start)
  BY <1>4, <1>6, <1>8, <1>9 DEF Started
<1>12. z.pc \notin {"idle", "commit"} /\ x.pc \notin {"idle", "commit"}
  BY <1>1, <1>9
<1> QED
  BY <1>2, <1>7, <1>9, <1>10, <1>11, <1>12, QuietStep

LEMMA CreateStep ==
    ASSUME IInv, NEW w \in Runners, NEW m \in Modes, create_run(w, m)
    PROVE  IInv'
<1>0. PICK n : n = lastRun + 1
  OBVIOUS
<1> DEFINE row == [mode |-> m, state |-> "running", updated_at |-> Null]
<1> DEFINE x == [IdleRunner EXCEPT !.pc = "resolve", !.run = n]
<1>1. /\ n \in 1..MaxRuns /\ lastRun' = n /\ Created' = Created \cup {n} /\ n \notin Created
      /\ UNCHANGED <<now, watermark, landed, reach>>
  BY <1>0, WindowAssumption DEF create_run, IInv, TypeOK, Created
<1>2. row \in Row
  BY DEF Row
<1>3. x \in Runner /\ x.pc = "resolve" /\ x.run = n /\ x.window = [s \in Streams |-> FULL]
  <2>1. n \in 0..MaxRuns /\ IdleRunner \in Runner
    BY <1>1, RowTypes DEF IInv
  <2>2. x \in Runner
    BY <2>1 DEF Runner
  <2> QED
    BY <2>2 DEF IdleRunner
<1>4. rows' = [rows EXCEPT ![n] = row] /\ runner' = [runner EXCEPT ![w] = x]
  BY <1>0 DEF create_run
<1> HIDE DEF x, row
<1>5. TypeOK'
  <2>1. rows' \in [1..MaxRuns -> Row \cup {Null}] /\ \A r \in Created' : rows'[r] \in Row
    BY <1>1, <1>2, <1>4 DEF IInv, TypeOK
  <2>2. lastRun' \in 0..MaxRuns
    BY <1>1 DEF IInv, TypeOK
  <2>3. runner' \in [Runners -> Runner]
    BY <1>3, <1>4 DEF IInv, TypeOK
  <2> QED
    BY <1>1, <2>1, <2>2, <2>3 DEF IInv, TypeOK
<1>6. Grows
  BY <1>0, <1>1, WindowAssumption DEF Grows, IInv, TypeOK, Times
<1>7. row.state = "running"
  BY DEF row
<1>8. Anchored'
  <2>1. \A s \in Streams : \A r \in Successes(s)' : r \in Successes(s) /\ rows'[r].updated_at = rows[r].updated_at
    BY <1>1, <1>4, <1>7 DEF Successes, IInv, TypeOK
  <2> QED
    BY <1>1, <1>5, <1>6, <2>1, AnchorsStay
<1>9. \A v \in Runners \ {w} : runner[v].pc # "idle" =>
         /\ reach'[runner[v].run] = reach[runner[v].run]
         /\ rows'[runner[v].run].mode = rows[runner[v].run].mode
         /\ x.pc # "idle" => x.run # runner[v].run
  <2> SUFFICES ASSUME NEW v \in Runners \ {w}, runner[v].pc # "idle"
               PROVE  /\ reach'[runner[v].run] = reach[runner[v].run]
                      /\ rows'[runner[v].run].mode = rows[runner[v].run].mode
                      /\ x.run # runner[v].run
    OBVIOUS
  <2>1. runner[v].run \in Created /\ Created \subseteq 1..MaxRuns
    BY RowTypes DEF IInv, Owned, OwnsRun, Created
  <2> QED
    BY <1>1, <1>3, <1>4, <2>1 DEF IInv, TypeOK
<1>10. OwnsRun(x, lastRun', reach')
  <2>1. reach[n] = Nothing /\ n \in 1..n
    BY <1>1 DEF IInv, Owned
  <2> QED
    BY <1>1, <1>3, <2>1 DEF OwnsRun, Nothing
<1>11. Exporting(x, rows')
  BY <1>3 DEF Exporting
<1>12. \A r \in 1..MaxRuns : r \notin Created' => reach'[r] = Nothing
  BY <1>1 DEF IInv, Owned
<1>13. \A s \in Streams : Started(x, s)'
  <2>1. \A s \in Streams : x.window[s].start = Null /\ x.pc # "commit"
    BY <1>3 DEF FULL
  <2> QED
    BY <2>1 DEF Started
<1> QED
  BY <1>3, <1>4, <1>5, <1>6, <1>8, <1>9, <1>10, <1>11, <1>12, <1>13, RunnerStep DEF IInv

\* What a completed run has ingested, and what is excused while it goes on.
LEMMA CompleteCovers ==
    ASSUME IInv, TypeOK', Grows, NEW w \in Runners, Complete(w), NEW s \in Streams, runner[w].window[s].end # Null
    PROVE  /\ reach'[runner[w].run].upto[s] = runner[w].window[s].end
           /\ \A t \in Times : t <= now \/ t <= runner[w].window[s].end => Covered(s, t)'
<1>0. PICK z, e : z = runner[w] /\ e = z.window[s].end /\ e # Null
  OBVIOUS
<1>1. z.run \in Created /\ reach[z.run].left = Null /\ z.run \in 1..MaxRuns /\ z.window[s] \in Window
  BY <1>0, RowTypes DEF IInv, Owned, OwnsRun, Complete, Created
<1>2. /\ reach'[z.run].upto[s] = e /\ reach'[z.run].left = Null
      /\ landed'[s] = landed[s] \cup Instants(z.window[s]) /\ now' = now /\ Created' = Created
  <2>1. PICK f : f = [i \in Streams |-> z.window[i].end]
    OBVIOUS
  <2>2. reach' = [reach EXCEPT ![z.run] = [reach[z.run] EXCEPT !.upto = f]]
    BY <1>0, <1>1, <2>1, SMTT(30) DEF Complete, IInv, TypeOK
  <2>3. reach[z.run] \in Reach
    BY <1>1, RowTypes DEF IInv
  <2>4. reach'[z.run] = [reach[z.run] EXCEPT !.upto = f]
    BY <1>1, <2>2 DEF IInv, TypeOK
  <2>5. reach'[z.run].upto = f /\ reach'[z.run].left = reach[z.run].left
    BY <2>3, <2>4 DEF Reach
  <2> QED
    BY <1>0, <1>1, <2>1, <2>5 DEF Complete, Created
<1>3. ASSUME NEW t \in Times, t <= now \/ t <= e
      PROVE  Covered(s, t)'
  <2>1. t \in Nat /\ e \in Nat
    BY <1>0, <1>1, WindowAssumption DEF Times, Window
  <2>2. CASE z.window[s].start # Null /\ t < z.window[s].start
    <3>1. Started(z, s)
      BY <1>0 DEF IInv
    <3>2. Covered(s, t)
      BY <2>2, <3>1 DEF Started, CanStart
    <3> QED
      BY <3>2, CoveredStays DEF IInv
  <2>3. CASE (z.window[s].start # Null => z.window[s].start <= t) /\ t <= e
    <3>1. t \in Instants(z.window[s])
      BY <1>0, <2>1, <2>3, WindowAssumption DEF Instants, Times
    <3> QED
      BY <1>2, <3>1 DEF Covered
  <2>4. CASE e < t
    <3>1. t <= now
      BY <1>3, <2>1, <2>4
    <3>2. Excused(reach[z.run], s, t, now)'
      BY <1>0, <1>2, <2>4, <3>1 DEF Excused
    <3> QED
      BY <1>1, <1>2, <3>2 DEF Covered
  <2>5. z.window[s].start # Null => z.window[s].start \in Nat
    BY <1>1 DEF Window, Times
  <2> QED
    BY <2>1, <2>2, <2>3, <2>4, <2>5
<1> QED
  BY <1>0, <1>2, <1>3

LEMMA CompleteStep ==
    ASSUME IInv, NEW w \in Runners, Complete(w)
    PROVE  IInv'
<1>0. PICK z, r, row : z = runner[w] /\ r = z.run /\ row = [rows[r] EXCEPT !.state = "success", !.updated_at = now]
  OBVIOUS
<1>1. /\ z \in Runner /\ r \in Created /\ r \in 1..MaxRuns /\ rows[r] \in Row /\ reach[r] = Nothing
      /\ z.pc = "ingest" /\ z.window \in [Streams -> Window] /\ now \in Times
  BY <1>0, RowTypes DEF Complete, IInv, TypeOK, Owned, OwnsRun, Created
<1>2. PICK x : x = [z EXCEPT !.pc = "commit", !.keys = watermark_keys_for(rows[r].mode)]
  OBVIOUS
<1>3. PICK y : y = [upto |-> [s \in Streams |-> z.window[s].end], left |-> Null]
  OBVIOUS
<1>4. /\ row \in Row /\ row.mode = rows[r].mode /\ row.state = "success" /\ row.updated_at = now
      /\ rows' = [rows EXCEPT ![r] = row]
  <2>1. row \in Row /\ row.mode = rows[r].mode /\ row.state = "success" /\ row.updated_at = now
    BY <1>0, <1>1 DEF Row
  <2>2. rows' = [rows EXCEPT ![r] = row]
    BY <1>0, <1>1 DEF Complete, IInv, TypeOK, Row
  <2> QED
    BY <2>1, <2>2
<1>5. /\ x \in Runner /\ x.pc = "commit" /\ x.run = r /\ x.window = z.window
      /\ x.keys = watermark_keys_for(rows[r].mode) /\ runner' = [runner EXCEPT ![w] = x]
  <2>1. watermark_keys_for(rows[r].mode) \in KeyLists
    BY DEF watermark_keys_for, KeyLists
  <2>2. x \in Runner /\ x.pc = "commit" /\ x.run = r /\ x.window = z.window
        /\ x.keys = watermark_keys_for(rows[r].mode)
    BY <1>0, <1>1, <1>2, <2>1 DEF Runner
  <2>3. runner' = [runner EXCEPT ![w] = x]
    BY <1>0, <1>1, <1>2 DEF Complete, IInv, TypeOK, Runner
  <2> QED
    BY <2>2, <2>3
<1>6. y \in Reach /\ y.left = Null /\ reach' = [reach EXCEPT ![r] = y]
  <2>1. y \in Reach
    BY <1>1, <1>3 DEF Reach, Window
  <2>2. PICK f : f = [s \in Streams |-> z.window[s].end]
    OBVIOUS
  <2>3. [reach[r] EXCEPT !.upto = f] = y
    BY <1>1, <1>3, <2>2 DEF Nothing
  <2>4. reach' = [reach EXCEPT ![r] = [reach[r] EXCEPT !.upto = f]]
    BY <1>0, <1>1, <2>2 DEF Complete, IInv, TypeOK
  <2>5. reach' = [reach EXCEPT ![r] = y]
    BY <2>3, <2>4, Zenon
  <2>6. y.left = Null
    BY <1>3
  <2> QED
    BY <2>1, <2>5, <2>6
<1>7. UNCHANGED <<now, lastRun, watermark>> /\ landed' = [s \in Streams |-> landed[s] \cup Instants(z.window[s])]
  BY <1>0 DEF Complete
<1>8. Created' = Created
  BY <1>7 DEF Created
<1>9. TypeOK'
  <2>1. \A s \in Streams : Instants(z.window[s]) \subseteq Times
    BY DEF Instants
  <2>2. landed' \in [Streams -> SUBSET Times]
    BY <1>7, <2>1 DEF IInv, TypeOK
  <2>3. rows' \in [1..MaxRuns -> Row \cup {Null}] /\ \A i \in Created' : rows'[i] \in Row
    BY <1>1, <1>4, <1>8 DEF IInv, TypeOK
  <2>4. runner' \in [Runners -> Runner] /\ reach' \in [1..MaxRuns -> Reach]
    BY <1>1, <1>5, <1>6 DEF IInv, TypeOK
  <2> QED
    BY <1>7, <2>2, <2>3, <2>4 DEF IInv, TypeOK
<1>10. \A i \in 1..MaxRuns \ {r} : reach'[i] = reach[i] /\ rows'[i] = rows[i]
  BY <1>1, <1>4, <1>6 DEF IInv, TypeOK
<1>11. reach'[r] = y /\ rows'[r] = row
  BY <1>1, <1>4, <1>6 DEF IInv, TypeOK
<1>12. Grows
  <2>1. now <= now' /\ lastRun <= lastRun'
    BY <1>7, RowTypes DEF IInv
  <2>2. \A i \in Created : \A s \in Streams : reach[i].upto[s] # Null => reach'[i].upto[s] = reach[i].upto[s]
    BY <1>1, <1>10, RowTypes DEF IInv, Nothing
  <2>3. \A i \in Created : reach'[i].left = reach[i].left
    BY <1>1, <1>6, <1>10, <1>11, RowTypes DEF IInv, Nothing
  <2> QED
    BY <1>7, <2>1, <2>2, <2>3 DEF Grows
<1>13. \A s \in Streams : z.window[s].end # Null =>
          /\ y.upto[s] = z.window[s].end
          /\ \A t \in Times : t <= now \/ t <= z.window[s].end => Covered(s, t)'
  BY <1>0, <1>9, <1>11, <1>12, CompleteCovers
<1>14. \A s \in Streams : rows[r].mode \in successful_sync_modes_for_watermark(s) => z.window[s].end # Null
  <2>1. Exporting(z, rows)
    BY <1>0 DEF IInv
  <2> QED
    BY <1>0, <1>1, <2>1 DEF Exporting, successful_sync_modes_for_watermark, Streams
<1>15. Anchored'
  <2> SUFFICES ASSUME NEW s \in Streams
               PROVE  /\ watermark'[s] # Null => CanStart(s, watermark[s])'
                      /\ \A i \in Successes(s)' : rows'[i].updated_at # Null /\ CanStart(s, rows[i].updated_at)'
    BY DEF Anchored
  <2>1. ASSUME NEW a, CanStart(s, a)
        PROVE  CanStart(s, a)'
    BY <1>9, <1>12, <2>1, StartStays DEF IInv
  <2>2. ASSUME NEW a, a = watermark[s], a # Null
        PROVE  CanStart(s, a)'
    BY <2>1, <2>2 DEF IInv, Anchored
  <2>3. ASSUME NEW i \in Successes(s)'
        PROVE  rows'[i].updated_at # Null /\ CanStart(s, rows[i].updated_at)'
    <3>1. CASE i # r
      <4>1. i \in Successes(s) /\ rows'[i] = rows[i]
        BY <1>8, <1>10, <2>3, <3>1, RowTypes DEF Successes, IInv
      <4>2. rows[i].updated_at # Null /\ CanStart(s, rows[i].updated_at)
        BY <4>1 DEF IInv, Anchored
      <4>3. ASSUME NEW a, a = rows[i].updated_at
            PROVE  CanStart(s, a)'
        BY <2>1, <4>2, <4>3
      <4> QED
        BY <4>1, <4>2, <4>3 DEF CanStart
    <3>2. CASE i = r
      <4>1. rows[r].mode \in successful_sync_modes_for_watermark(s)
        BY <1>4, <1>11, <2>3, <3>2 DEF Successes
      <4>2. \A t \in Times : t <= now => Covered(s, t)'
        BY <1>13, <1>14, <4>1
      <4>3. rows'[r].updated_at = now /\ now # Null
        BY <1>1, <1>4, <1>11, WindowAssumption DEF Times
      <4>4. \A t \in Times : t < now => t <= now
        BY <1>1 DEF Times
      <4> QED
        BY <3>2, <4>2, <4>3, <4>4 DEF CanStart
    <3> QED
      BY <3>1, <3>2
  <2> QED
    BY <1>7, <2>2, <2>3 DEF CanStart
<1>16. \A v \in Runners \ {w} : runner[v].pc # "idle" =>
         /\ reach'[runner[v].run] = reach[runner[v].run]
         /\ rows'[runner[v].run].mode = rows[runner[v].run].mode
         /\ x.pc # "idle" => x.run # runner[v].run
  <2> SUFFICES ASSUME NEW v \in Runners \ {w}, runner[v].pc # "idle"
               PROVE  /\ reach'[runner[v].run] = reach[runner[v].run]
                      /\ rows'[runner[v].run].mode = rows[runner[v].run].mode
                      /\ x.run # runner[v].run
    OBVIOUS
  <2>1. runner[v].run \in 1..MaxRuns
    BY RowTypes DEF IInv, Owned, OwnsRun, Created
  <2>2. runner[v].run # r
    BY <1>0, <1>1 DEF IInv, Owned
  <2> QED
    BY <1>5, <1>10, <2>1, <2>2
<1>17. OwnsRun(x, lastRun', reach')
  BY <1>1, <1>5, <1>6, <1>7, <1>11 DEF OwnsRun, Created
<1>18. Exporting(x, rows')
  <2>1. Exporting(z, rows)
    BY <1>0 DEF IInv
  <2> QED
    BY <1>5, <2>1 DEF Exporting
<1>19. \A i \in 1..MaxRuns : i \notin Created' => reach'[i] = Nothing
  BY <1>1, <1>8, <1>10 DEF IInv, Owned
<1>20. \A s \in Streams : Started(x, s)'
  <2> SUFFICES ASSUME NEW s \in Streams
               PROVE  Started(x, s)'
    OBVIOUS
  <2>1. ASSUME NEW a, a = z.window[s].start, a # Null
        PROVE  CanStart(s, a)'
    <3>1. CanStart(s, a)
      BY <1>0, <2>1 DEF IInv, Started
    <3> QED
      BY <1>9, <1>12, <3>1, StartStays DEF IInv
  <2>2. x.window[s].start # Null => CanStart(s, x.window[s].start)'
    BY <1>5, <2>1
  <2>3. Pending(x, s) => z.window[s].end # Null
    <3>1. Pending(x, s) => rows[r].mode \in successful_sync_modes_for_watermark(s)
      BY <1>1, <1>5 DEF Pending, watermark_keys_for, successful_sync_modes_for_watermark, Row, Modes, Streams
    <3> QED
      BY <1>14, <3>1
  <2> QED
    BY <1>5, <1>11, <1>13, <2>2, <2>3 DEF Started
<1> QED
  BY <1>5, <1>9, <1>12, <1>15, <1>16, <1>17, <1>18, <1>19, <1>20, RunnerStep DEF IInv

LEMMA SetWatermarkStep ==
    ASSUME IInv, NEW w \in Runners, set_watermark(w)
    PROVE  IInv'
<1>0. PICK z, k, n : z = runner[w] /\ k = Head(z.keys) /\ n = now
  OBVIOUS
<1>1. PICK x : x = [z EXCEPT !.keys = Tail(z.keys)]
  OBVIOUS
<1>2. /\ z \in Runner /\ z.keys \in KeyLists /\ z.keys # <<>> /\ z.pc = "commit"
      /\ n \in Times /\ n \in Nat /\ n # Null
  BY <1>0, RowTypes, WindowAssumption DEF set_watermark, IInv, TypeOK, Runner
<1>3. /\ k \in Streams /\ Tail(z.keys) \in KeyLists /\ (k = "data_connector_cdc" \/ Len(z.keys) = 2)
      /\ Tail(z.keys) # <<>> => Len(z.keys) = 2
  BY <1>0, <1>2, KeyFacts
<1>4. /\ x \in Runner /\ x.pc = "commit" /\ x.run = z.run /\ x.window = z.window /\ x.keys = Tail(z.keys)
      /\ runner' = [runner EXCEPT ![w] = x]
  <2>1. x \in Runner /\ x.pc = "commit" /\ x.run = z.run /\ x.window = z.window /\ x.keys = Tail(z.keys)
    BY <1>1, <1>2, <1>3 DEF Runner
  <2>2. runner' = [runner EXCEPT ![w] = x]
    BY <1>0, <1>1 DEF set_watermark, IInv, TypeOK
  <2> QED
    BY <2>1, <2>2
<1>5. UNCHANGED <<now, rows, lastRun, landed, reach>> /\ watermark' = [watermark EXCEPT ![k] = n]
  BY <1>0 DEF set_watermark
<1>6. TypeOK'
  <2>1. watermark' \in [Streams -> Times \cup {Null}]
    BY <1>2, <1>5 DEF IInv, TypeOK
  <2> QED
    BY <1>4, <1>5, <2>1, QuietType DEF IInv
<1>7. Grows
  BY <1>5 DEF Grows, IInv, TypeOK, Times
<1>8. CanStart(k, n)
  <2>1. /\ z.run \in Created /\ reach[z.run].left = Null /\ reach[z.run].upto[k] # Null
        /\ \A t \in Times : t <= reach[z.run].upto[k] => Covered(k, t)
    <3>1. OwnsRun(z, lastRun, reach) /\ Started(z, k)
      BY <1>0, <1>3 DEF IInv, Owned
    <3> QED
      BY <1>2, <1>3, <3>1 DEF OwnsRun, Started, Pending, Created
  <2>2. reach[z.run].upto[k] \in Nat
    <3>1. reach[z.run] \in Reach
      BY <2>1, RowTypes DEF IInv
    <3> QED
      BY <1>3, <2>1, <3>1, WindowAssumption DEF Reach, Times
  <2>3. ASSUME NEW t \in Times, t < n
        PROVE  Covered(k, t)
    <3>1. t \in Nat
      BY DEF Times
    <3>2. CASE reach[z.run].upto[k] < t
      <4>1. Excused(reach[z.run], k, t, now)
        <5>1. reach[z.run].left = Null /\ reach[z.run].upto[k] # Null
          BY <2>1
        <5>2. t <= now
          BY <1>0, <1>2, <2>3, <3>1
        <5> QED
          BY <3>2, <5>1, <5>2 DEF Excused
      <4> QED
        BY <2>1, <4>1 DEF Covered
    <3>3. CASE t <= reach[z.run].upto[k]
      BY <2>1, <3>3
    <3> QED
      BY <2>2, <3>1, <3>2, <3>3
  <2> QED
    BY <2>3 DEF CanStart
<1>9. \A s \in Streams : \A a : CanStart(s, a) => CanStart(s, a)'
  BY <1>6, <1>7, StartStays DEF IInv
<1>10. Anchored'
  <2> SUFFICES ASSUME NEW s \in Streams
               PROVE  /\ watermark'[s] # Null => CanStart(s, watermark[s])'
                      /\ \A i \in Successes(s)' : rows'[i].updated_at # Null /\ CanStart(s, rows[i].updated_at)'
    BY DEF Anchored
  <2>1. ASSUME NEW a, a = watermark'[s], a # Null
        PROVE  CanStart(s, a)'
    <3>1. CASE s = k
      <4>1. a = n
        BY <1>5, <2>1, <3>1 DEF IInv, TypeOK
      <4> QED
        BY <1>8, <1>9, <3>1, <4>1
    <3>2. CASE s # k
      <4>1. a = watermark[s]
        BY <1>5, <2>1, <3>2 DEF IInv, TypeOK
      <4>2. CanStart(s, a)
        BY <2>1, <4>1 DEF IInv, Anchored
      <4> QED
        BY <1>9, <4>2
    <3> QED
      BY <3>1, <3>2
  <2>2. ASSUME NEW i \in Successes(s)'
        PROVE  rows'[i].updated_at # Null /\ CanStart(s, rows[i].updated_at)'
    <3>1. i \in Successes(s) /\ rows' = rows
      BY <1>5, <2>2 DEF Successes, Created
    <3>2. rows[i].updated_at # Null /\ CanStart(s, rows[i].updated_at)
      BY <3>1 DEF IInv, Anchored
    <3>3. ASSUME NEW a, a = rows[i].updated_at
          PROVE  CanStart(s, a)'
      BY <1>9, <3>2, <3>3
    <3> QED
      BY <3>1, <3>2, <3>3 DEF CanStart
  <2> QED
    BY <2>1, <2>2 DEF CanStart
<1>11. \A v \in Runners \ {w} : runner[v].pc # "idle" =>
         /\ reach'[runner[v].run] = reach[runner[v].run]
         /\ rows'[runner[v].run].mode = rows[runner[v].run].mode
         /\ x.pc # "idle" => x.run # runner[v].run
  BY <1>0, <1>2, <1>4, <1>5 DEF IInv, Owned
<1>12. OwnsRun(x, lastRun', reach') /\ Exporting(x, rows')
  <2>1. OwnsRun(z, lastRun, reach) /\ Exporting(z, rows)
    BY <1>0 DEF IInv, Owned
  <2> QED
    BY <1>2, <1>4, <1>5, <2>1 DEF OwnsRun, Exporting
<1>13. \A i \in 1..MaxRuns : i \notin Created' => reach'[i] = Nothing
  BY <1>5 DEF IInv, Owned, Created
<1>14. \A s \in Streams : Started(x, s)'
  <2> SUFFICES ASSUME NEW s \in Streams
               PROVE  Started(x, s)'
    OBVIOUS
  <2>1. Started(z, s)
    BY <1>0 DEF IInv
  <2>2. x.window[s].start # Null => CanStart(s, x.window[s].start)'
    <3>1. ASSUME NEW a, a = z.window[s].start, a # Null
          PROVE  CanStart(s, a)'
      BY <1>9, <2>1, <3>1 DEF Started
    <3> QED
      BY <1>4, <3>1
  <2>3. Pending(x, s) => Pending(z, s)
    BY <1>2, <1>3, <1>4 DEF Pending
  <2>4. \A t \in Times : Covered(s, t) => Covered(s, t)'
    BY <1>6, <1>7, CoveredStays DEF IInv
  <2> QED
    BY <1>2, <1>4, <1>5, <2>1, <2>2, <2>3, <2>4 DEF Started
<1> QED
  BY <1>4, <1>6, <1>7, <1>10, <1>11, <1>12, <1>13, <1>14, RunnerStep DEF IInv

LEMMA LeaveStep ==
    ASSUME IInv, NEW w \in Runners, Return(w) \/ Fail(w) \/ Crash(w)
    PROVE  IInv'
<1>0. PICK r, row : r = runner[w].run /\ row = [rows[r] EXCEPT !.state = "failed", !.updated_at = Null]
  OBVIOUS
<1>1. PICK y : y = [reach[r] EXCEPT !.left = now]
  OBVIOUS
<1>2. /\ runner[w].pc # "idle" /\ r \in Created /\ r \in 1..MaxRuns /\ rows[r] \in Row
      /\ reach[r] \in Reach /\ reach[r].left = Null /\ now \in Times /\ now \in Nat
  <2>1. runner[w].pc # "idle"
    BY DEF Return, Fail, Crash
  <2>2. OwnsRun(runner[w], lastRun, reach)
    BY DEF IInv, Owned
  <2> QED
    BY <1>0, <2>1, <2>2, RowTypes DEF OwnsRun, IInv, TypeOK, Created
<1>3. y \in Reach /\ y.left = now /\ y.upto = reach[r].upto
  BY <1>1, <1>2 DEF Reach
<1>4. row \in Row /\ row.state = "failed" /\ row.mode = rows[r].mode
  BY <1>0, <1>2 DEF Row
<1>5. /\ runner' = [runner EXCEPT ![w] = IdleRunner] /\ reach' = [reach EXCEPT ![r] = y]
      /\ UNCHANGED <<now, lastRun, watermark, landed>> /\ Created' = Created
      /\ rows' = rows \/ rows' = [rows EXCEPT ![r] = row]
  <2>1. Leave(w)
    BY DEF Return, Fail, Crash
  <2>2. UNCHANGED <<now, lastRun, watermark, landed>> /\ runner' = [runner EXCEPT ![w] = IdleRunner]
    BY <2>1 DEF Leave
  <2>3. reach' = [reach EXCEPT ![r] = y]
    BY <1>0, <1>1, <1>2, <2>1 DEF Leave, IInv, TypeOK
  <2>4. rows' = rows \/ rows' = [rows EXCEPT ![r] = row]
    <3>1. CASE Fail(w)
      BY <1>0, <1>2, <3>1 DEF Fail, IInv, TypeOK, Row
    <3>2. CASE Return(w) \/ Crash(w)
      BY <3>2 DEF Return, Crash
    <3> QED
      BY <3>1, <3>2
  <2> QED
    BY <2>2, <2>3, <2>4 DEF Created
<1>6. \A i \in 1..MaxRuns \ {r} : reach'[i] = reach[i] /\ rows'[i] = rows[i]
  BY <1>2, <1>5 DEF IInv, TypeOK
<1>7. reach'[r] = y /\ (rows'[r] = rows[r] \/ rows'[r] = row)
  BY <1>2, <1>5 DEF IInv, TypeOK
<1>8. TypeOK'
  <2>1. rows' \in [1..MaxRuns -> Row \cup {Null}]
    BY <1>4, <1>5 DEF IInv, TypeOK
  <2>2. \A i \in Created' : rows'[i] \in Row
    BY <1>2, <1>4, <1>5, <1>6, <1>7, RowTypes DEF IInv, TypeOK
  <2>3. runner' \in [Runners -> Runner] /\ reach' \in [1..MaxRuns -> Reach]
    BY <1>2, <1>3, <1>5, RowTypes DEF IInv, TypeOK
  <2> QED
    BY <1>5, <2>1, <2>2, <2>3 DEF IInv, TypeOK
<1>9. Grows
  <2>1. now <= now' /\ lastRun <= lastRun'
    BY <1>5, RowTypes DEF IInv
  <2>2. \A i \in Created : reach'[i].upto = reach[i].upto
    BY <1>2, <1>3, <1>6, <1>7, RowTypes DEF IInv
  <2>3. \A i \in Created : /\ reach[i].left # Null => reach'[i].left = reach[i].left
                           /\ reach[i].left = Null /\ reach'[i].left # Null => now <= reach'[i].left
    BY <1>2, <1>3, <1>6, <1>7, RowTypes DEF IInv
  <2> QED
    BY <1>5, <2>1, <2>2, <2>3 DEF Grows
<1>10. Anchored'
  <2>1. \A s \in Streams : \A i \in Successes(s)' : i \in Successes(s) /\ rows'[i].updated_at = rows[i].updated_at
    <3> SUFFICES ASSUME NEW s \in Streams, NEW i \in Successes(s)'
                 PROVE  i \in Successes(s) /\ rows'[i].updated_at = rows[i].updated_at
      OBVIOUS
    <3>1. i \in Created /\ rows'[i].state = "success" /\ rows'[i].mode \in successful_sync_modes_for_watermark(s)
      BY <1>5 DEF Successes
    <3>2. rows'[i] = rows[i]
      BY <1>4, <1>6, <1>7, <3>1, RowTypes DEF IInv
    <3> QED
      BY <3>1, <3>2 DEF Successes
  <2> QED
    BY <1>5, <1>8, <1>9, <2>1, AnchorsStay
<1>11. \A v \in Runners \ {w} : runner[v].pc # "idle" =>
          /\ reach'[runner[v].run] = reach[runner[v].run]
          /\ rows'[runner[v].run].mode = rows[runner[v].run].mode
          /\ IdleRunner.pc # "idle" => IdleRunner.run # runner[v].run
  <2> SUFFICES ASSUME NEW v \in Runners \ {w}, runner[v].pc # "idle"
               PROVE  /\ reach'[runner[v].run] = reach[runner[v].run]
                      /\ rows'[runner[v].run].mode = rows[runner[v].run].mode
    BY DEF IdleRunner
  <2>1. runner[v].run \in 1..MaxRuns
    BY RowTypes DEF IInv, Owned, OwnsRun, Created
  <2>2. runner[v].run # r
    BY <1>0, <1>2 DEF IInv, Owned
  <2> QED
    BY <1>6, <2>1, <2>2
<1>12. IdleRunner.pc = "idle" /\ \A s \in Streams : IdleRunner.window[s] = FULL
  BY DEF IdleRunner
<1>13. OwnsRun(IdleRunner, lastRun', reach') /\ Exporting(IdleRunner, rows')
  BY <1>12 DEF OwnsRun, Exporting
<1>14. \A i \in 1..MaxRuns : i \notin Created' => reach'[i] = Nothing
  BY <1>2, <1>5, <1>6 DEF IInv, Owned
<1>15. \A s \in Streams : Started(IdleRunner, s)'
  <2>1. \A s \in Streams : IdleRunner.window[s].start = Null /\ IdleRunner.pc # "commit"
    BY <1>12 DEF FULL
  <2> QED
    BY <2>1 DEF Started
<1>16. IdleRunner \in Runner
  BY RowTypes DEF IInv
<1> QED
  BY <1>5, <1>8, <1>9, <1>10, <1>11, <1>13, <1>14, <1>15, <1>16, RunnerStep DEF IInv

LEMMA TockStep ==
    ASSUME IInv, Tock
    PROVE  IInv'
<1>1. /\ now' = now + 1 /\ UNCHANGED <<rows, lastRun, watermark, runner, landed, reach>>
      /\ now \in Nat /\ now' \in Times /\ Created' = Created
  BY WindowAssumption DEF Tock, IInv, TypeOK, Times, Created
<1>2. TypeOK'
  BY <1>1 DEF IInv, TypeOK
<1>3. Grows
  BY <1>1, RowTypes DEF Grows, IInv
<1>4. Anchored'
  BY <1>1, <1>2, <1>3, AnchorsStay DEF Successes
<1>5. Owned'
  BY <1>1 DEF IInv, Owned, OwnsRun
<1>6. \A w \in Runners : Exporting(runner'[w], rows')
  BY <1>1 DEF IInv
<1>7. ASSUME NEW w \in Runners, NEW s \in Streams
      PROVE  Started(runner[w], s)'
  <2>1. PICK z : z = runner[w]
    OBVIOUS
  <2>2. Started(z, s)
    BY <2>1 DEF IInv
  <2>3. \A a : CanStart(s, a) => CanStart(s, a)'
    BY <1>2, <1>3, StartStays DEF IInv
  <2>4. \A t \in Times : Covered(s, t) => Covered(s, t)'
    BY <1>2, <1>3, CoveredStays DEF IInv
  <2>5. Started(z, s)'
    BY <1>1, <2>2, <2>3, <2>4 DEF Started, Pending
  <2> QED
    BY <1>1, <2>1, <2>5 DEF Started, Pending
<1> QED
  BY <1>2, <1>4, <1>5, <1>6, <1>7 DEF IInv

LEMMA InitInv == Init => IInv
<1> SUFFICES ASSUME Init
             PROVE  IInv
  OBVIOUS
<1>1. /\ Created = {} /\ now \in Times /\ lastRun \in 0..MaxRuns
      /\ watermark \in [Streams -> Times \cup {Null}] /\ landed \in [Streams -> SUBSET Times]
  BY WindowAssumption DEF Init, Created, Times
<1>2. /\ rows \in [1..MaxRuns -> Row \cup {Null}]
      /\ reach \in [1..MaxRuns -> Reach] /\ \A r \in 1..MaxRuns : reach[r] = Nothing
  BY DEF Init, Reach, Nothing
<1>3. IdleRunner \in Runner /\ IdleRunner.pc = "idle" /\ \A s \in Streams : IdleRunner.window[s] = FULL
  <2>1. [s \in Streams |-> FULL] \in [Streams -> Window] /\ <<>> \in KeyLists /\ 0 \in 0..MaxRuns
    BY WindowAssumption DEF KeyLists, FULL, Window
  <2> QED
    BY <2>1 DEF IdleRunner, Runner
<1>4. runner \in [Runners -> Runner] /\ \A w \in Runners : runner[w] = IdleRunner
  BY <1>3 DEF Init
<1>5. TypeOK
  BY <1>1, <1>2, <1>4 DEF TypeOK
<1>6. Owned
  BY <1>2, <1>3, <1>4 DEF Owned, OwnsRun
<1>7. Anchored
  BY <1>1 DEF Init, Anchored, Successes
<1>8. \A w \in Runners : Exporting(runner[w], rows)
  BY <1>3, <1>4 DEF Exporting
<1>9. \A w \in Runners, s \in Streams : Started(runner[w], s)
  BY <1>3, <1>4 DEF Started, FULL
<1> QED
  BY <1>5, <1>6, <1>7, <1>8, <1>9 DEF IInv

LEMMA StepInv == IInv /\ [Next]_vars => IInv'
<1> SUFFICES ASSUME IInv, [Next]_vars
             PROVE  IInv'
  OBVIOUS
<1>1. CASE UNCHANGED vars
  <2>1. UNCHANGED <<now, rows, lastRun, watermark, runner, landed, reach>>
    BY <1>1 DEF vars
  <2>2. TypeOK' /\ Owned'
    BY <2>1 DEF IInv, TypeOK, Owned, OwnsRun, Created
  <2>3. \A s \in Streams : \A a : CanStart(s, a) => CanStart(s, a)'
    BY <2>1 DEF CanStart, Covered, Created, Excused
  <2>4. Anchored'
    BY <2>1, <2>3 DEF IInv, Anchored, Successes, Created, CanStart, Covered, Excused
  <2>5. \A w \in Runners : Exporting(runner'[w], rows')
    BY <2>1 DEF IInv
  <2>6. \A w \in Runners, s \in Streams : Started(runner[w], s)'
    BY <2>1 DEF IInv, Started, Pending, CanStart, Covered, Created, Excused
  <2> QED
    BY <2>2, <2>4, <2>5, <2>6 DEF IInv
<1>2. CASE Tock
  BY <1>2, TockStep
<1>3. ASSUME NEW w \in Runners,
             \/ \E m \in Modes : create_run(w, m)
             \/ ResolveWindow(w) \/ ResolveBaseline(w) \/ ExportSnapshot(w) \/ ExportCdc(w)
             \/ Complete(w) \/ set_watermark(w) \/ Return(w) \/ Fail(w) \/ Crash(w)
      PROVE  IInv'
  BY <1>3, CreateStep, ResolveStep, ExportStep, CompleteStep, SetWatermarkStep, LeaveStep
<1> QED
  BY <1>1, <1>2, <1>3 DEF Next

-----------------------------------------------------------------------------
(* Theorems *)

\* Where a window starts, everything before was ingested or is excused; nobody
\* but its runner leaves a run.
THEOREM WindowsHold == Spec => []IInv
BY InitInv, StepInv, PTL DEF Spec

\* Only changes of instants at which a completed run was at work after its export
\* can be missing before the next window.
THEOREM NothingElseLost == Spec => []LostOnlyDuringRuns
<1>1. ASSUME IInv
      PROVE  LostOnlyDuringRuns
  <2> SUFFICES ASSUME NEW s \in Streams, NEW t \in Times, Anchor(s) # Null, t < Anchor(s), t \notin landed[s]
               PROVE  \E r \in Created : Excused(reach[r], s, t, now)
    BY DEF LostOnlyDuringRuns, Excused
  <2>1. Covered(s, t)
    BY <1>1, AnchorOk DEF CanStart
  <2> QED
    BY <2>1 DEF Covered
<1> QED
  BY <1>1, WindowsHold, PTL

\* A failed run is not asked when its successor looks for the last success.
LEMMA FailKeeps ==
    ASSUME IInv, IInv', NEW w \in Runners, Fail(w), NEW s \in Streams,
           NEW r \in Successes(s) \ {runner[w].run},
           \A i \in Successes(s) \ {runner[w].run} : i <= r
    PROVE  Anchor(s)' = rows[r].updated_at
<1>1. runner[w].run \in 1..MaxRuns /\ Created' = Created
  <2>1. OwnsRun(runner[w], lastRun, reach)
    BY DEF IInv, Owned
  <2> QED
    BY <2>1, RowTypes DEF IInv, OwnsRun, Fail, Leave, Created
<1>2. PICK q : q = runner[w].run
  OBVIOUS
<1>3. rows'[q].state = "failed" /\ \A i \in 1..MaxRuns \ {q} : rows'[i] = rows[i]
  <2>1. rows[q] \in Row
    BY <1>1, <1>2 DEF IInv, TypeOK, Owned, OwnsRun, Fail, Created
  <2>2. rows' = [rows EXCEPT ![q] = [rows[q] EXCEPT !.state = "failed", !.updated_at = Null]]
    BY <1>1, <1>2, <2>1 DEF Fail, IInv, TypeOK, Row
  <2>3. [rows[q] EXCEPT !.state = "failed", !.updated_at = Null].state = "failed"
    BY <2>1 DEF Row
  <2> QED
    BY <1>1, <1>2, <2>2, <2>3 DEF IInv, TypeOK
<1>4. Successes(s)' = Successes(s) \ {q}
  <2>1. Created \subseteq 1..MaxRuns
    BY RowTypes DEF IInv
  <2> QED
    BY <1>1, <1>3, <2>1 DEF Successes
<1>5. r \in Successes(s)' /\ \A i \in Successes(s)' : i <= r
  BY <1>2, <1>4
<1>6. rows'[r] = rows[r] /\ rows[r].updated_at # Null /\ r \in Nat /\ r \in 1..MaxRuns
  BY <1>2, <1>3, RowTypes, WindowAssumption DEF IInv, Anchored, Successes
<1>7. last_successful_timestamp(s)' = rows[r].updated_at
  <2>1. PICK S : S = Successes(s)'
    OBVIOUS
  <2>2. PICK i : i = CHOOSE c \in S : \A j \in S : j <= c
    OBVIOUS
  <2>3. i \in S /\ \A j \in S : j <= i
    BY <1>5, <2>1, <2>2
  <2>4. last_successful_timestamp(s)' = rows'[i].updated_at
    BY <2>1, <2>2, <2>3 DEF last_successful_timestamp
  <2>5. i \in Nat
    BY <1>4, <2>1, <2>3, RowTypes, WindowAssumption DEF IInv, Successes
  <2>6. i = r
    BY <1>5, <1>6, <2>1, <2>3, <2>5
  <2> QED
    BY <1>6, <2>4, <2>6
<1> QED
  BY <1>6, <1>7 DEF Anchor

\* A run that fails leaves the next window where its own started.
THEOREM RetrySameWindow == Spec => RetryKeepsWindow
<1>1. ASSUME IInv, IInv', [Next]_vars
      PROVE  [\A w \in Runners, s \in Streams :
                 LET others == Successes(s) \ {runner[w].run}
                     start == runner[w].window[s].start
                 IN  (/\ Fail(w)
                      /\ \E r \in others : rows[r].updated_at = start /\ \A i \in others : i <= r)
                         => Anchor(s)' = start]_vars
  BY <1>1, FailKeeps
<1> QED
  BY <1>1, WindowsHold, PTL DEF Spec, RetryKeepsWindow

=============================================================================
