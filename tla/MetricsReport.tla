---------------------------- MODULE MetricsReport ----------------------------
(***************************************************************************)
(* The metrics thread beside the other two: PageTable with the latency an  *)
(* access is booked with (Metrics.hpp:49-52) and periodicalMetrics(), which *)
(* copies ten counters one by one while the manager and the scanner        *)
(* increment them, appends the differences from the last time to a file,   *)
(* and reads the layer counts as it writes them (Metrics.cpp:126-223).     *)
(*                                                                         *)
(* The columns of a row: 1 the latency, 2 to 4 the accesses of the layers, *)
(* 5 to 10 the migrations of the routes, 11 to 13 the pages of the layers. *)
(***************************************************************************)
EXTENDS PageTable

CONSTANT MaxReports  \* bound for model checking

ASSUME MetricsAssumption == MaxReports \in Nat

VARIABLES
  latency,  \* total_latency_, counted in accesses: none takes no time at all
  booked,   \* the manager has booked the latency of its present access
  repPc,    \* position of the metrics thread
  loaded,   \* how many columns it has loaded
  now,      \* what it has loaded
  last,     \* last_period_...
  row,      \* the differences it is about to write
  reports,  \* calls of periodicalMetrics() so far
  written,  \* what the rows of the file add up to
  complete  \* the file could be opened every time

bookVars == <<latency, booked>>
reportVars == <<repPc, loaded, now, last, row, reports, written, complete>>
metricsVars == <<vars, bookVars, reportVars>>

Deltas == 1 .. 10
Columns == 1 .. 13

LayerOrder == <<Local, Remote, Pmem>>
RouteOrder == << <<Local, Remote>>, <<Remote, Local>>, <<Pmem, Remote>>,
                 <<Remote, Pmem>>, <<Local, Pmem>>, <<Pmem, Local>> >>

\* Mutant: the pages of the local tier are written in the column of the remote one.
LocalTwice(i) ==
  CASE i = 1 -> latency
    [] i \in 2 .. 4 -> accessed[LayerOrder[i - 1]]
    [] i \in 5 .. 10 -> moved[RouteOrder[i - 4]]
    [] OTHER -> count[IF i = 12 THEN Local ELSE LayerOrder[i - 10]]

\* The variable each column is loaded from, in the order of the loads.
Counter(i) ==
  CASE i = 1 -> latency
    [] i \in 2 .. 4 -> accessed[LayerOrder[i - 1]]
    [] i \in 5 .. 10 -> moved[RouteOrder[i - 4]]
    [] OTHER -> count[LayerOrder[i - 10]]

Zeros(S) == [i \in S |-> 0]

MInit ==
  /\ Init
  /\ latency = 0 /\ booked = FALSE
  /\ repPc = "load" /\ loaded = 0 /\ now = Zeros(Columns)
  /\ last = Zeros(Deltas) /\ row = Zeros(Deltas)
  /\ reports = 0 /\ written = Zeros(Deltas) /\ complete = TRUE

-----------------------------------------------------------------------------
(* The manager books an access in two steps: recordAccessLatency(), then   *)
(* the counter of the layer.                                               *)

RecordLatency ==
  /\ ManagerAt("record") /\ ~booked
  /\ latency' = latency + 1
  /\ booked' = TRUE
  /\ UNCHANGED <<vars, reportVars>>

RecordBooked ==
  /\ booked
  /\ RecordAccess
  /\ booked' = FALSE
  /\ UNCHANGED <<latency, reportVars>>

-----------------------------------------------------------------------------
(* periodicalMetrics().                                                    *)

reportFrame == <<vars, bookVars>>

\* periodicalMetrics() returns, and its locals are gone.
EndReport ==
  /\ repPc' = "load" /\ loaded' = 0
  /\ now' = Zeros(Columns) /\ row' = Zeros(Deltas)
  /\ reports' = reports + 1

\* Mutant: the counters are copied from the last to the first.
LoadBackwards ==
  /\ repPc = "load" /\ status = "running" /\ scPc # "fill"
  /\ reports < MaxReports
  /\ now' = [now EXCEPT ![10 - loaded] = Counter(10 - loaded)]
  /\ loaded' = loaded + 1
  /\ repPc' = IF loaded + 1 = 10 THEN "open" ELSE "load"
  /\ UNCHANGED <<last, row, reports, written, complete, reportFrame>>

\* One load of a counter; the first starts a report.
LoadCounter ==
  /\ repPc = "load" /\ status = "running" /\ scPc # "fill"
  /\ reports < MaxReports
  /\ now' = [now EXCEPT ![loaded + 1] = Counter(loaded + 1)]
  /\ loaded' = loaded + 1
  /\ repPc' = IF loaded + 1 = 10 THEN "open" ELSE "load"
  /\ UNCHANGED <<last, row, reports, written, complete, reportFrame>>

\* Mutant: last_period_... is loaded from the counters once more.
OpenReloading ==
  /\ repPc = "open" /\ status = "running"
  /\ last' = [i \in Deltas |-> Counter(i)]
  /\ \/ /\ row' = [i \in Deltas |-> now[i] - last[i]]
        /\ repPc' = "pages"
        /\ UNCHANGED <<loaded, now, reports, complete>>
     \/ complete' = FALSE /\ EndReport
  /\ UNCHANGED <<written, reportFrame>>

\* Mutant: last_period_... is added to, not replaced.
OpenAdding ==
  /\ repPc = "open" /\ status = "running"
  /\ last' = [i \in Deltas |-> last[i] + now[i]]
  /\ \/ /\ row' = [i \in Deltas |-> now[i] - last[i]]
        /\ repPc' = "pages"
        /\ UNCHANGED <<loaded, now, reports, complete>>
     \/ complete' = FALSE /\ EndReport
  /\ UNCHANGED <<written, reportFrame>>

\* The differences are computed and last_period_... brought up to date before
\* the file is opened; if that fails the report is given up.
OpenFile ==
  /\ repPc = "open" /\ status = "running"
  /\ last' = [i \in Deltas |-> now[i]]
  /\ \/ /\ row' = [i \in Deltas |-> now[i] - last[i]]
        /\ repPc' = "pages"
        /\ UNCHANGED <<loaded, now, reports, complete>>
     \/ complete' = FALSE /\ EndReport
  /\ UNCHANGED <<written, reportFrame>>

\* Mutant: one column too many.
LoadPastPmem ==
  /\ repPc = "pages" /\ status = "running"
  /\ now' = [now EXCEPT ![loaded + 1] = Counter(loaded + 1)]
  /\ loaded' = loaded + 1
  /\ repPc' = IF loaded + 1 > 13 THEN "write" ELSE "pages"
  /\ UNCHANGED <<last, row, reports, written, complete, reportFrame>>

\* The layer counts are read, as they are by then, while the row is written.
LoadPages ==
  /\ repPc = "pages" /\ status = "running"
  /\ now' = [now EXCEPT ![loaded + 1] = Counter(loaded + 1)]
  /\ loaded' = loaded + 1
  /\ repPc' = IF loaded + 1 = 13 THEN "write" ELSE "pages"
  /\ UNCHANGED <<last, row, reports, written, complete, reportFrame>>

WriteRow ==
  /\ repPc = "write" /\ status = "running"
  /\ written' = [i \in Deltas |-> written[i] + row[i]]
  /\ EndReport
  /\ UNCHANGED <<last, complete, reportFrame>>

Reporter == LoadCounter \/ OpenFile \/ LoadPages \/ WriteRow

-----------------------------------------------------------------------------
\* The other steps of the manager, and those of the scanner.
Unreported ==
  /\ \/ FillPage \/ Tick \/ Scanner
     \/ BeginAccess \/ Mark \/ ReadClock \/ StoreAccessTime \/ CountAccess
  /\ UNCHANGED <<bookVars, reportVars>>

MNext == Unreported \/ RecordLatency \/ RecordBooked \/ Reporter

MSpec == MInit /\ [][MNext]_metricsVars

-----------------------------------------------------------------------------
(* Properties                                                              *)

MTypeOK ==
  /\ latency \in Nat /\ booked \in BOOLEAN
  /\ repPc \in {"load", "open", "pages", "write"} /\ loaded \in 0 .. 13
  /\ now \in [Columns -> Nat]
  /\ last \in [Deltas -> Nat] /\ row \in [Deltas -> Int]
  /\ reports \in Nat
  /\ written \in [Deltas -> Int] /\ complete \in BOOLEAN

\* The rows of the file account for everything counted up to the last report,
\* although the counters never stand still while they are copied, unless the
\* file could not be opened: what happened in that period is in no row
\* (Metrics.cpp:141-194).
RowsAddUp ==
  complete => \A i \in Deltas :
    written[i] + (IF repPc \in {"pages", "write"} THEN row[i] ELSE 0) = last[i]

\* No difference is negative: the unsigned subtractions do not wrap
\* (Metrics.cpp:142-159).
DeltasCount == \A i \in Deltas : row[i] >= 0 /\ last[i] <= Counter(i)

\* An access is booked with its latency first, and the latency is copied first:
\* a report never knows of the latency of more than one access that it does not
\* count (PageTable.cpp:165-177, Metrics.cpp:128-132).
LatencyAheadByOne ==
  repPc = "open" => now[1] <= now[2] + now[3] + now[4] + 1

AllMoves == moved[RouteOrder[1]] + moved[RouteOrder[2]] + moved[RouteOrder[3]]
              + moved[RouteOrder[4]] + moved[RouteOrder[5]] + moved[RouteOrder[6]]
MovesSinceCopied == AllMoves - (last[5] + last[6] + last[7] + last[8] + last[9] + last[10])

\* The layer counts of a row add up to the number of pages, but for one page
\* with each migration since the counters of the routes were copied and for the
\* one whose counting has begun: a row can lack its page until the counter of
\* the route is incremented, or have it twice once its target has been counted
\* up (Metrics.cpp:134-139, 217-219; PageTable.cpp:272-297).
PagesInRow ==
  repPc = "write" =>
    now[11] + now[12] + now[13]
      \in NumPages - MovesSinceCopied - (IF Counting THEN 1 ELSE 0)
         .. NumPages + MovesSinceCopied + (IF scPc = "countRoute" THEN 1 ELSE 0)

=============================================================================
