--------------------------- MODULE MetricsProofs ---------------------------
(***************************************************************************)
(* The counters: that the migration counters balance the layer counts, and *)
(* what the reports of the metrics thread say, however long they take and  *)
(* whatever the other two threads do in the meantime.                      *)
(***************************************************************************)
EXTENDS MetricsReport, PlacementProofs

-----------------------------------------------------------------------------
(* The counters of the page table                                          *)

\* The only steps that change a counter, or begin and end a part of counting a
\* migration.
LEMMA CounterChanges ==
  ASSUME [Next]_vars
  PROVE  \/ /\ UNCHANGED <<count, moved, accessed>>
            /\ scPc' = "countUp" <=> scPc = "countUp"
            /\ scPc' = "countRoute" <=> scPc = "countRoute"
            /\ scPc' = "fill" <=> scPc = "fill"
            /\ Counting => frame' = frame
         \/ FillPage \/ CountDown \/ CountUp \/ CountRoute \/ RecordAccess
<1> USE DEF ScannerAt, ManagerAt, Counting
<1>1. CASE Tick \/ UNCHANGED vars
  BY <1>1 DEF Tick, vars, scanVars, managerVars
<1>2. CASE Manager /\ ~RecordAccess
  BY <1>2 DEF Manager, BeginAccess, Mark, ReadClock, StoreAccessTime, CountAccess,
     accessFrame, scanVars
<1>3. CASE Classify
  BY <1>3 DEF Classify, ScanNext, LoadCount, ClassifyHot, ClassifyCold, Recheck, Dispatch,
     classifyFrame, scannerFrame, managerVars
<1>4. CASE Migrate /\ ~CountDown /\ ~CountUp /\ ~CountRoute
  BY <1>4 DEF Migrate, Unlink, CheckCapacity, SweepPast, Evict, Move, Link, TakeStamp,
     StoreStamp, ResetCount, Return, migrateFrame, scannerFrame, managerVars
<1>5. CASE Halt
  BY <1>5 DEF Halt, AssertRemove, DoubleFree, AssertEmpty, AssertInsert, AliasNode, Stop,
     scanVars, managerVars
<1> QED BY <1>1, <1>2, <1>3, <1>4, <1>5 DEF Next, Scanner

LEMMA CountDownFacts ==
  ASSUME IInv, CountDown
  PROVE  /\ UNCHANGED <<moved, accessed, frame>>
         /\ frame.from \in Layers /\ frame.target \in Layers /\ frame.from # frame.target
         /\ count' = [count EXCEPT ![frame.from] = @ - 1]
         /\ scPc = "countDown" /\ scPc' = "countUp"
BY DEF IInv, FlowInv, FrameInv, Scanning, Frames, CountDown, ScannerAt, migrateFrame,
   scannerFrame, managerVars

LEMMA CountUpFacts ==
  ASSUME IInv, CountUp
  PROVE  /\ UNCHANGED <<moved, accessed, frame>>
         /\ frame.from \in Layers /\ frame.target \in Layers /\ frame.from # frame.target
         /\ count' = [count EXCEPT ![frame.target] = @ + 1]
         /\ scPc = "countUp" /\ scPc' = "countRoute"
BY DEF IInv, FlowInv, FrameInv, Scanning, Frames, CountUp, ScannerAt, migrateFrame,
   scannerFrame, managerVars

LEMMA CountRouteFacts ==
  ASSUME IInv, CountRoute
  PROVE  /\ UNCHANGED <<count, accessed>>
         /\ frame.from \in Layers /\ frame.target \in Layers /\ frame.from # frame.target
         /\ moved' = [moved EXCEPT ![<<frame.from, frame.target>>] = @ + 1]
         /\ scPc = "countRoute" /\ scPc' \in {"scan", "move"}
BY DEF IInv, FlowInv, FrameInv, Scanning, Frames, CountRoute, ScannerAt, Return,
   migrateFrame, scannerFrame, managerVars

LEMMA FillFacts ==
  ASSUME FillPage
  PROVE  UNCHANGED <<moved, accessed>> /\ scPc = "fill" /\ scPc' \in {"fill", "scan"}
BY DEF FillPage, ScannerAt, managerVars

LEMMA RecordFacts ==
  ASSUME RecordAccess
  PROVE  /\ UNCHANGED <<count, moved, scPc, frame>>
         /\ accessed' = [accessed EXCEPT ![layer[mgPage]] = @ + 1]
BY DEF RecordAccess, accessFrame, scanVars

-----------------------------------------------------------------------------
(* The balance of the migration counters                                   *)

NothingMoved == scPc = "fill" => \A r \in Routes : moved[r] = 0

LEMMA RouteType ==
  ASSUME NEW l \in Layers, NEW m \in Layers, l # m
  PROVE  <<l, m>> \in Routes
BY DEF Routes

\* When the last page has been placed, the counts are the loads.
LEMMA Loaded ==
  ASSUME IInv, IInv', FirstLayer, FillPage, scPc' # "fill", NEW l \in Layers
  PROVE  count'[l] = Load(l)
<1>1. scPc = "fill" /\ scPc' = "scan" /\ layer' = [layer EXCEPT ![filled] = InitLayer[filled]]
  BY FillFacts DEF FillPage
<1>2. \A p \in Pages : layer'[p] = InitLayer[p]
  <2> SUFFICES ASSUME NEW p \in Pages PROVE layer'[p] = InitLayer[p]
    OBVIOUS
  <2>1. layer'[p] \in {Null, InitLayer[p]}
    BY <1>1 DEF FirstLayer, IInv, TypeOK
  <2>2. filled' = NumPages
    BY <1>1, ConstantFacts DEF IInv, FlowInv, FillInv, TypeOK
  <2>3. layer'[p] # Null
    BY <2>2, ConstantFacts DEF IInv, FlowInv, FillInv
  <2> QED BY <2>1, <2>3
<1>3. Resident(l)' = {p \in Pages : InitLayer[p] = l}
  BY <1>2 DEF Resident
<1>4. count'[l] \in Nat
  BY DEF IInv, TypeOK
<1>5. Cardinality(Resident(l))' = Load(l) /\ Load(l) \in Nat
  <2>1. IsFiniteSet({p \in Pages : InitLayer[p] = l})
    BY Finite, FS_Subset
  <2> QED BY <1>3, <2>1, FS_CardinalityType DEF Load
<1> QED BY <1>1, <1>4, <1>5 DEF IInv, CountsMatchLayers, BeforeCountUp, BeforeCountDown

LEMMA FlowStep ==
  ASSUME IInv, IInv', FirstLayer, FlowBalance, NothingMoved, [Next]_vars
  PROVE  FlowBalance' /\ NothingMoved'
<1>0. /\ count \in [Layers -> Nat] /\ moved \in [Routes -> Nat]
      /\ \A l \in Layers : count[l] \in Int
      /\ \A l, m \in Layers : l # m => moved[<<l, m>>] \in Int
      /\ \A l \in Layers : Load(l) \in Int
  <2>1. \A l \in Layers : Load(l) \in Int
    <3> SUFFICES ASSUME NEW l \in Layers PROVE Load(l) \in Int
      OBVIOUS
    <3>1. IsFiniteSet({p \in Pages : InitLayer[p] = l})
      BY Finite, FS_Subset
    <3> QED BY <3>1, FS_CardinalityType DEF Load
  <2>2. count \in [Layers -> Nat] /\ moved \in [Routes -> Nat]
    BY DEF IInv, TypeOK
  <2> QED BY <2>1, <2>2, RouteType
<1>1. CASE /\ UNCHANGED <<count, moved>>
           /\ scPc' = "countUp" <=> scPc = "countUp"
           /\ scPc' = "countRoute" <=> scPc = "countRoute"
           /\ scPc' = "fill" <=> scPc = "fill"
           /\ Counting => frame' = frame
  <2>1. (Counting' <=> Counting) /\ (Counting => frame' = frame)
    BY <1>1 DEF Counting
  <2>2. \A l : /\ (Counting' /\ l = frame'.from) <=> (Counting /\ l = frame.from)
               /\ (scPc' = "countRoute" /\ l = frame'.target)
                    <=> (scPc = "countRoute" /\ l = frame.target)
    BY <1>1, <2>1 DEF Counting
  <2> QED BY <1>1, <2>2 DEF FlowBalance, NothingMoved
<1>2. CASE FillPage
  <2>1. UNCHANGED moved /\ scPc = "fill" /\ scPc' \in {"fill", "scan"}
    BY <1>2, FillFacts
  <2>2. CASE scPc' = "fill"
    BY <2>1, <2>2 DEF FlowBalance, NothingMoved
  <2>3. CASE scPc' # "fill"
    <3>1. \A l \in Layers : count'[l] = Load(l)
      BY <1>2, <2>3, Loaded
    <3>2. \A l, m \in Layers : l # m => moved'[<<l, m>>] = 0
      BY <2>1, RouteType DEF NothingMoved
    <3>3. ~Counting' /\ scPc' # "countRoute"
      BY <2>1 DEF Counting
    <3> QED BY <1>0, <2>1, <2>3, <3>1, <3>2, <3>3 DEF FlowBalance, NothingMoved
  <2> QED BY <2>2, <2>3
<1>3. CASE CountDown
  <2>1. /\ UNCHANGED <<moved, frame>> /\ frame.from \in Layers
        /\ count' = [count EXCEPT ![frame.from] = @ - 1]
        /\ scPc = "countDown" /\ scPc' = "countUp" /\ ~Counting /\ Counting'
    BY <1>3, CountDownFacts DEF Counting
  <2>2. \A l \in Layers : count'[l] = IF l = frame.from THEN count[l] - 1 ELSE count[l]
    BY <1>0, <2>1
  <2>3. FlowBalance'
    <3> SUFFICES ASSUME NEW l \in Layers, NEW m \in Layers, NEW n \in Layers,
                        l # m, m # n, n # l
                 PROVE  count'[l] + moved[<<l, m>>] + moved[<<l, n>>]
                          + (IF l = frame.from THEN 1 ELSE 0)
                        = Load(l) + moved[<<m, l>>] + moved[<<n, l>>] + 0
      BY <2>1 DEF FlowBalance
    <3>1. count[l] + moved[<<l, m>>] + moved[<<l, n>>] + 0
            = Load(l) + moved[<<m, l>>] + moved[<<n, l>>] + 0
      BY <2>1 DEF FlowBalance
    <3> QED BY <1>0, <2>2, <3>1
  <2> QED BY <2>1, <2>3 DEF NothingMoved
<1>4. CASE CountUp
  <2>1. /\ UNCHANGED <<moved, frame>> /\ frame.target \in Layers
        /\ count' = [count EXCEPT ![frame.target] = @ + 1]
        /\ scPc = "countUp" /\ scPc' = "countRoute" /\ Counting /\ Counting'
    BY <1>4, CountUpFacts DEF Counting
  <2>2. \A l \in Layers : count'[l] = IF l = frame.target THEN count[l] + 1 ELSE count[l]
    BY <1>0, <2>1
  <2>3. FlowBalance'
    <3> SUFFICES ASSUME NEW l \in Layers, NEW m \in Layers, NEW n \in Layers,
                        l # m, m # n, n # l
                 PROVE  count'[l] + moved[<<l, m>>] + moved[<<l, n>>]
                          + (IF l = frame.from THEN 1 ELSE 0)
                        = Load(l) + moved[<<m, l>>] + moved[<<n, l>>]
                            + (IF l = frame.target THEN 1 ELSE 0)
      BY <2>1 DEF FlowBalance
    <3>1. count[l] + moved[<<l, m>>] + moved[<<l, n>>] + (IF l = frame.from THEN 1 ELSE 0)
            = Load(l) + moved[<<m, l>>] + moved[<<n, l>>] + 0
      BY <2>1 DEF FlowBalance
    <3> QED BY <1>0, <2>2, <3>1
  <2> QED BY <2>1, <2>3 DEF NothingMoved
<1>5. CASE CountRoute
  <2> DEFINE a == frame.from
             b == frame.target
  <2>1. /\ a \in Layers /\ b \in Layers /\ a # b
        /\ UNCHANGED count
        /\ moved' = [moved EXCEPT ![<<a, b>>] = @ + 1]
        /\ scPc = "countRoute" /\ scPc' \in {"scan", "move"} /\ Counting /\ ~Counting'
    BY <1>5, CountRouteFacts DEF Counting
  <2>2. FlowBalance'
    <3> SUFFICES ASSUME NEW l \in Layers, NEW m \in Layers, NEW n \in Layers,
                        l # m, m # n, n # l
                 PROVE  count[l] + moved'[<<l, m>>] + moved'[<<l, n>>] + 0
                        = Load(l) + moved'[<<m, l>>] + moved'[<<n, l>>] + 0
      BY <2>1 DEF FlowBalance
    <3>1. count[l] + moved[<<l, m>>] + moved[<<l, n>>] + (IF l = a THEN 1 ELSE 0)
            = Load(l) + moved[<<m, l>>] + moved[<<n, l>>] + (IF l = b THEN 1 ELSE 0)
      BY <2>1 DEF FlowBalance
    <3> HIDE DEF a, b
    <3>2. \A x, y \in Layers : x # y =>
            moved'[<<x, y>>] = moved[<<x, y>>] + (IF a = x /\ b = y THEN 1 ELSE 0)
      BY <1>0, <2>1, RouteType
    <3>3. a \in {l, m, n} /\ b \in {l, m, n}
      BY <2>1 DEF Layers
    <3> DEFINE lm == moved[<<l, m>>]
               ln == moved[<<l, n>>]
               ml == moved[<<m, l>>]
               nl == moved[<<n, l>>]
               out(x) == IF a = l /\ b = x THEN 1 ELSE 0
               in(x) == IF a = x /\ b = l THEN 1 ELSE 0
    <3>4. /\ moved'[<<l, m>>] = lm + out(m) /\ moved'[<<l, n>>] = ln + out(n)
          /\ moved'[<<m, l>>] = ml + in(m) /\ moved'[<<n, l>>] = nl + in(n)
      BY <3>2
    <3>5. lm \in Int /\ ln \in Int /\ ml \in Int /\ nl \in Int /\ count[l] \in Int
          /\ Load(l) \in Int
      BY <1>0
    <3>6. /\ out(m) + out(n) = IF l = a THEN 1 ELSE 0
          /\ in(m) + in(n) = IF l = b THEN 1 ELSE 0
          /\ out(m) \in Int /\ out(n) \in Int /\ in(m) \in Int /\ in(n) \in Int
      BY <2>1, <3>3
    <3> HIDE DEF lm, ln, ml, nl, out, in
    <3> DEFINE oa == IF l = a THEN 1 ELSE 0
               ob == IF l = b THEN 1 ELSE 0
    <3>7. count[l] + lm + ln + oa = Load(l) + ml + nl + ob
      BY <3>1 DEF lm, ln, ml, nl
    <3>8. out(m) + out(n) = oa /\ in(m) + in(n) = ob
      BY <3>6
    <3> HIDE DEF oa, ob
    <3> QED BY <3>4, <3>5, <3>6, <3>7, <3>8
  <2> QED BY <2>1, <2>2 DEF NothingMoved
<1>6. CASE RecordAccess
  BY <1>6, RecordFacts DEF FlowBalance, NothingMoved, Counting
<1> QED BY <1>1, <1>2, <1>3, <1>4, <1>5, <1>6, CounterChanges

\* What the metrics say went into a layer and out of it explains its count, in
\* every behaviour of the page table (PageTable.cpp:270-297).
THEOREM FlowBalanced == Spec => []FlowBalance
<1> DEFINE FInv == PlacementInv /\ FlowBalance /\ NothingMoved
<1>1. Init => FlowBalance /\ NothingMoved
  BY DEF Init, FlowBalance, NothingMoved
<1>2. FInv /\ PlacementInv' /\ [Next]_vars => FInv'
  BY FlowStep DEF PlacementInv
<1>3. Init => PlacementInv
  BY InitInv, InitPlacement DEF PlacementInv
<1>4. Init => FInv
  BY <1>1, <1>3
<1>5. FInv => FlowBalance
  OBVIOUS
<1> HIDE DEF FInv
<1> QED BY <1>2, <1>4, <1>5, PlacementInvariance, PTL DEF Spec

-----------------------------------------------------------------------------
(* The invariant of the reports                                            *)

\* The manager is at work only on a page of the table.
AccessInv == mgPc # "idle" => mgPage \in Pages /\ scPc # "fill"

\* The latencies are those of the accesses, and of the one being booked.
LatencyInv ==
  /\ latency = accessed[Local] + accessed[Remote] + accessed[Pmem] + (IF booked THEN 1 ELSE 0)
  /\ booked => mgPc = "record"

\* No page is in no layer but the one whose migration is being counted.
SumInv ==
  count[Local] + count[Remote] + count[Pmem] + (IF scPc = "countUp" THEN 1 ELSE 0) = filled

PositionInv ==
  /\ repPc = "load" => loaded \in 0 .. 9
  /\ repPc = "open" => loaded = 10
  /\ repPc = "pages" => loaded \in 10 .. 12
  /\ repPc = "write" => loaded = 13
  /\ loaded > 0 => scPc # "fill"
  /\ repPc \in {"load", "open"} => \A i \in Deltas : row[i] = 0

\* What has been copied lies between the last copy and the present value.
CopiedInv ==
  repPc \in {"load", "open"} =>
    \A i \in Deltas : i <= loaded => last[i] <= now[i] /\ now[i] <= Counter(i)

\* A column as it is, or as it would be copied at this moment.
Part(i) == IF i <= loaded THEN now[i] ELSE Counter(i)

LatencyCopied ==
  repPc \in {"load", "open"} /\ loaded > 0 =>
    now[1] <= Part(2) + Part(3) + Part(4) + 1

PagesCopied ==
  repPc \in {"pages", "write"} =>
    /\ NumPages - MovesSinceCopied - (IF Counting THEN 1 ELSE 0)
         <= Part(11) + Part(12) + Part(13)
    /\ Part(11) + Part(12) + Part(13)
         <= NumPages + MovesSinceCopied + (IF scPc = "countRoute" THEN 1 ELSE 0)

ThreadInv == AccessInv /\ LatencyInv /\ SumInv
ReportInv == PositionInv /\ CopiedInv /\ LatencyCopied /\ PagesCopied

MInv == MTypeOK /\ ThreadInv /\ ReportInv /\ RowsAddUp /\ DeltasCount

-----------------------------------------------------------------------------
(* The counters as columns                                                 *)

LEMMA ColumnValues ==
  /\ Counter(1) = latency
  /\ Counter(2) = accessed[Local] /\ Counter(3) = accessed[Remote] /\ Counter(4) = accessed[Pmem]
  /\ Counter(5) = moved[<<Local, Remote>>] /\ Counter(6) = moved[<<Remote, Local>>]
  /\ Counter(7) = moved[<<Pmem, Remote>>] /\ Counter(8) = moved[<<Remote, Pmem>>]
  /\ Counter(9) = moved[<<Local, Pmem>>] /\ Counter(10) = moved[<<Pmem, Local>>]
  /\ Counter(11) = count[Local] /\ Counter(12) = count[Remote] /\ Counter(13) = count[Pmem]
BY DEF Counter, LayerOrder, RouteOrder

LEMMA ColumnCases ==
  /\ Deltas = {1, 2, 3, 4, 5, 6, 7, 8, 9, 10}
  /\ Columns = {1, 2, 3, 4, 5, 6, 7, 8, 9, 10, 11, 12, 13}
BY DEF Deltas, Columns

LEMMA RouteCases ==
  /\ <<Local, Remote>> \in Routes /\ <<Remote, Local>> \in Routes
  /\ <<Pmem, Remote>> \in Routes /\ <<Remote, Pmem>> \in Routes
  /\ <<Local, Pmem>> \in Routes /\ <<Pmem, Local>> \in Routes
BY LayerFacts, RouteType

LEMMA ColumnTypes ==
  ASSUME IInv, latency \in Nat
  PROVE  \A i \in Columns : Counter(i) \in Nat
<1>1. accessed \in [Layers -> Nat] /\ count \in [Layers -> Nat] /\ moved \in [Routes -> Nat]
  BY DEF IInv, TypeOK
<1> QED BY <1>1, ColumnValues, ColumnCases, RouteCases, LayerFacts

LEMMA MovesValue ==
  AllMoves = Counter(5) + Counter(6) + Counter(7) + Counter(8) + Counter(9) + Counter(10)
BY ColumnValues DEF AllMoves, RouteOrder

-----------------------------------------------------------------------------
(* The steps of the other two threads                                      *)

LEMMA ThreadsAreNext ==
  ASSUME MNext
  PROVE  /\ [Next]_vars
         /\ Reporter => UNCHANGED <<vars, bookVars>>
         /\ ~Reporter => UNCHANGED reportVars
BY DEF MNext, Unreported, RecordLatency, RecordBooked, Reporter, LoadCounter, OpenFile,
   LoadPages, WriteRow, reportFrame, Next, Manager

LEMMA UnreportedKeeps ==
  ASSUME Unreported
  PROVE  /\ [Next]_vars /\ UNCHANGED <<latency, booked, accessed>>
         /\ mgPc = "record" => mgPc' = "record"
<1> USE DEF Unreported, bookVars, Next, Manager
<1>1. CASE FillPage \/ Tick
  BY <1>1 DEF FillPage, Tick, managerVars
<1>2. CASE Classify
  BY <1>2 DEF Classify, ScanNext, LoadCount, ClassifyHot, ClassifyCold, Recheck, Scanner,
     classifyFrame, scannerFrame, managerVars
<1>3. CASE Migrate
  BY <1>3 DEF Migrate, Unlink, CheckCapacity, SweepPast, Evict, Move, Link, TakeStamp,
     StoreStamp, ResetCount, CountDown, CountUp, CountRoute, Scanner, migrateFrame,
     scannerFrame, managerVars
<1>4. CASE Halt
  BY <1>4 DEF Halt, AssertRemove, DoubleFree, AssertEmpty, AssertInsert, AliasNode, Stop,
     Scanner, managerVars
<1>5. CASE BeginAccess \/ Mark \/ ReadClock \/ StoreAccessTime \/ CountAccess
  BY <1>5 DEF BeginAccess, Mark, ReadClock, StoreAccessTime, CountAccess, ManagerAt
<1> QED BY <1>1, <1>2, <1>3, <1>4, <1>5 DEF Scanner

\* A scanner's step leaves the manager alone, a manager's step the position of the
\* scanner; an access begins after the table has been filled.
LEMMA ManagerSteps ==
  ASSUME [Next]_vars
  PROVE  \/ UNCHANGED <<mgPc, mgPage>>
         \/ mgPc' # "idle" /\ mgPage' \in Pages /\ UNCHANGED scPc /\ scPc # "fill"
         \/ mgPc' # "idle" /\ mgPage' = mgPage /\ mgPc # "idle" /\ UNCHANGED scPc
         \/ mgPc' = "idle"
<1>1. CASE FillPage \/ Tick \/ UNCHANGED vars
  BY <1>1 DEF FillPage, Tick, managerVars, vars
<1>2. CASE Classify
  BY <1>2 DEF Classify, ScanNext, LoadCount, ClassifyHot, ClassifyCold, Recheck,
     classifyFrame, scannerFrame, managerVars
<1>3. CASE Migrate
  BY <1>3 DEF Migrate, Unlink, CheckCapacity, SweepPast, Evict, Move, Link, TakeStamp,
     StoreStamp, ResetCount, CountDown, CountUp, CountRoute, migrateFrame, scannerFrame,
     managerVars
<1>4. CASE Halt
  BY <1>4 DEF Halt, AssertRemove, DoubleFree, AssertEmpty, AssertInsert, AliasNode, Stop,
     managerVars
<1>5. CASE Manager
  BY <1>5 DEF Manager, BeginAccess, Mark, ReadClock, StoreAccessTime, CountAccess,
     RecordAccess, ManagerAt, accessFrame, scanVars
<1> QED BY <1>1, <1>2, <1>3, <1>4, <1>5 DEF Next, Scanner

LEMMA NotFilledAgain ==
  ASSUME IInv, [Next]_vars, scPc # "fill"
  PROVE  scPc' # "fill"
BY CounterChanges, FillFacts, CountDownFacts, CountUpFacts, CountRouteFacts, RecordFacts

LEMMA AccessStep ==
  ASSUME IInv, AccessInv, [Next]_vars
  PROVE  AccessInv'
BY ManagerSteps, NotFilledAgain DEF AccessInv

\* The page of a booked access is in a layer, whose counter goes up.
LEMMA BookedStep ==
  ASSUME IInv, ThreadInv, RecordBooked
  PROVE  /\ accessed'[Local] + accessed'[Remote] + accessed'[Pmem]
              = accessed[Local] + accessed[Remote] + accessed[Pmem] + 1
         /\ \A l \in Layers : accessed[l] <= accessed'[l] /\ accessed'[l] \in Nat
<1> DEFINE l == layer[mgPage]
<1>1. l \in Layers
  <2>1. mgPage \in Pages /\ scPc # "fill"
    BY DEF RecordBooked, RecordAccess, ManagerAt, ThreadInv, AccessInv
  <2>2. layer[mgPage] # Null
    BY <2>1, ConstantFacts DEF IInv, TypeOK, FlowInv, FillInv
  <2> QED BY <2>1, <2>2 DEF IInv, TypeOK
<1>2. accessed \in [Layers -> Nat] /\ accessed' = [accessed EXCEPT ![l] = @ + 1]
  BY RecordFacts DEF RecordBooked, IInv, TypeOK
<1> HIDE DEF l
<1>3. \A k \in Layers : accessed[k] \in Nat
                        /\ accessed'[k] = IF k = l THEN accessed[k] + 1 ELSE accessed[k]
  BY <1>1, <1>2
<1>4. l = Local \/ l = Remote \/ l = Pmem
  BY <1>1 DEF Layers
<1> QED BY <1>3, <1>4, LayerFacts

LEMMA LatencyStep ==
  ASSUME IInv, ThreadInv, latency \in Nat, MNext
  PROVE  LatencyInv'
<1>0. accessed[Local] \in Nat /\ accessed[Remote] \in Nat /\ accessed[Pmem] \in Nat
  BY LayerFacts DEF IInv, TypeOK
<1>1. CASE Reporter
  BY <1>1, ThreadsAreNext DEF ThreadInv, LatencyInv, vars, bookVars, managerVars
<1>2. CASE Unreported
  BY <1>2, UnreportedKeeps DEF ThreadInv, LatencyInv
<1>3. CASE RecordLatency
  BY <1>0, <1>3 DEF RecordLatency, ManagerAt, ThreadInv, LatencyInv, vars, managerVars
<1>4. CASE RecordBooked
  <2>1. accessed'[Local] \in Nat /\ accessed'[Remote] \in Nat /\ accessed'[Pmem] \in Nat
    BY <1>4, BookedStep, LayerFacts
  <2>2. booked /\ ~booked' /\ latency' = latency
    BY <1>4 DEF RecordBooked
  <2>3. latency = accessed[Local] + accessed[Remote] + accessed[Pmem] + 1
    BY <2>2 DEF ThreadInv, LatencyInv
  <2> QED BY <1>4, <2>1, <2>2, <2>3, BookedStep DEF LatencyInv
<1> QED BY <1>1, <1>2, <1>3, <1>4 DEF MNext

\* One of the three layer counts changes, by d.
OneBy(d) ==
  \/ /\ count'[Local] = count[Local] + d
     /\ count'[Remote] = count[Remote] /\ count'[Pmem] = count[Pmem]
  \/ /\ count'[Remote] = count[Remote] + d
     /\ count'[Local] = count[Local] /\ count'[Pmem] = count[Pmem]
  \/ /\ count'[Pmem] = count[Pmem] + d
     /\ count'[Local] = count[Local] /\ count'[Remote] = count[Remote]

LEMMA OneLayer ==
  ASSUME count \in [Layers -> Nat], NEW l \in Layers, NEW d \in Int,
         \A k \in Layers : count'[k] = IF k = l THEN count[k] + d ELSE count[k]
  PROVE  OneBy(d)
<1>1. l = Local \/ l = Remote \/ l = Pmem
  BY DEF Layers
<1> QED BY <1>1, LayerFacts DEF OneBy

LEMMA SumOne ==
  ASSUME count \in [Layers -> Nat], NEW d \in Int, OneBy(d)
  PROVE  /\ count'[Local] \in Int /\ count'[Remote] \in Int /\ count'[Pmem] \in Int
         /\ count'[Local] + count'[Remote] + count'[Pmem]
              = count[Local] + count[Remote] + count[Pmem] + d
<1>1. count[Local] \in Int /\ count[Remote] \in Int /\ count[Pmem] \in Int
  BY LayerFacts
<1> QED BY <1>1 DEF OneBy

LEMMA CountsDown ==
  ASSUME IInv, CountDown, NEW d, d = -1
  PROVE  OneBy(d) /\ UNCHANGED moved /\ scPc = "countDown" /\ scPc' = "countUp"
<1>1. /\ UNCHANGED moved /\ frame.from \in Layers /\ scPc = "countDown" /\ scPc' = "countUp"
      /\ count' = [count EXCEPT ![frame.from] = @ - 1]
  BY CountDownFacts
<1>2. count \in [Layers -> Nat]
  BY DEF IInv, TypeOK
<1>3. \A k \in Layers : count'[k] = IF k = frame.from THEN count[k] + d ELSE count[k]
  BY <1>1, <1>2
<1>4. d \in Int
  OBVIOUS
<1>5. OneBy(d)
  BY <1>1, <1>2, <1>3, <1>4, OneLayer
<1> QED BY <1>1, <1>5

\* One route gets one more migration.
LEMMA OneRoute ==
  ASSUME moved \in [Routes -> Nat], NEW a \in Layers, NEW b \in Layers, a # b,
         moved' = [moved EXCEPT ![<<a, b>>] = @ + 1]
  PROVE  AllMoves' = AllMoves + 1 /\ \A r \in Routes : moved[r] <= moved'[r]
<1>1. \A r \in Routes : moved[r] \in Nat
                        /\ moved'[r] = moved[r] + (IF r = <<a, b>> THEN 1 ELSE 0)
  BY RouteType
<1>2. \A r \in Routes : moved[r] <= moved'[r]
  BY <1>1
<1> DEFINE one(x, y) == IF a = x /\ b = y THEN 1 ELSE 0
<1>3. \A x, y \in Layers : x # y => moved'[<<x, y>>] = moved[<<x, y>>] + one(x, y)
                                    /\ moved[<<x, y>>] \in Nat
  BY <1>1, RouteType
<1>4. /\ moved'[<<Local, Remote>>] = moved[<<Local, Remote>>] + one(Local, Remote)
      /\ moved'[<<Remote, Local>>] = moved[<<Remote, Local>>] + one(Remote, Local)
      /\ moved'[<<Pmem, Remote>>] = moved[<<Pmem, Remote>>] + one(Pmem, Remote)
      /\ moved'[<<Remote, Pmem>>] = moved[<<Remote, Pmem>>] + one(Remote, Pmem)
      /\ moved'[<<Local, Pmem>>] = moved[<<Local, Pmem>>] + one(Local, Pmem)
      /\ moved'[<<Pmem, Local>>] = moved[<<Pmem, Local>>] + one(Pmem, Local)
  BY <1>3, LayerFacts
<1>5. /\ moved[<<Local, Remote>>] \in Nat /\ moved[<<Remote, Local>>] \in Nat
      /\ moved[<<Pmem, Remote>>] \in Nat /\ moved[<<Remote, Pmem>>] \in Nat
      /\ moved[<<Local, Pmem>>] \in Nat /\ moved[<<Pmem, Local>>] \in Nat
  BY <1>3, LayerFacts
<1>6. one(Local, Remote) + one(Remote, Local) + one(Pmem, Remote)
        + one(Remote, Pmem) + one(Local, Pmem) + one(Pmem, Local) = 1
  <2>1. /\ a = Local \/ a = Remote \/ a = Pmem
        /\ b = Local \/ b = Remote \/ b = Pmem
    BY DEF Layers
  <2>2. Local # Remote /\ Local # Pmem /\ Remote # Pmem
    BY LayerFacts
  <2>3. CASE a = Local
    BY <2>1, <2>2, <2>3
  <2>4. CASE a = Remote
    BY <2>1, <2>2, <2>4
  <2>5. CASE a = Pmem
    BY <2>1, <2>2, <2>5
  <2> QED BY <2>1, <2>3, <2>4, <2>5
<1>7. \A x, y : one(x, y) \in Nat
  OBVIOUS
<1> HIDE DEF one
<1>8. AllMoves = moved[<<Local, Remote>>] + moved[<<Remote, Local>>] + moved[<<Pmem, Remote>>]
                   + moved[<<Remote, Pmem>>] + moved[<<Local, Pmem>>] + moved[<<Pmem, Local>>]
  BY DEF AllMoves, RouteOrder
<1>9. AllMoves' = moved'[<<Local, Remote>>] + moved'[<<Remote, Local>>] + moved'[<<Pmem, Remote>>]
                   + moved'[<<Remote, Pmem>>] + moved'[<<Local, Pmem>>] + moved'[<<Pmem, Local>>]
  BY DEF AllMoves, RouteOrder
<1>10. AllMoves' = AllMoves + 1
  <2> DEFINE o1 == one(Local, Remote)
             o2 == one(Remote, Local)
             o3 == one(Pmem, Remote)
             o4 == one(Remote, Pmem)
             o5 == one(Local, Pmem)
             o6 == one(Pmem, Local)
  <2>1. o1 \in Nat /\ o2 \in Nat /\ o3 \in Nat /\ o4 \in Nat /\ o5 \in Nat /\ o6 \in Nat
    BY <1>7
  <2>2. o1 + o2 + o3 + o4 + o5 + o6 = 1
    BY <1>6
  <2>3. /\ moved'[<<Local, Remote>>] = moved[<<Local, Remote>>] + o1
        /\ moved'[<<Remote, Local>>] = moved[<<Remote, Local>>] + o2
        /\ moved'[<<Pmem, Remote>>] = moved[<<Pmem, Remote>>] + o3
        /\ moved'[<<Remote, Pmem>>] = moved[<<Remote, Pmem>>] + o4
        /\ moved'[<<Local, Pmem>>] = moved[<<Local, Pmem>>] + o5
        /\ moved'[<<Pmem, Local>>] = moved[<<Pmem, Local>>] + o6
    BY <1>4
  <2> DEFINE m1 == moved[<<Local, Remote>>]
             m2 == moved[<<Remote, Local>>]
             m3 == moved[<<Pmem, Remote>>]
             m4 == moved[<<Remote, Pmem>>]
             m5 == moved[<<Local, Pmem>>]
             m6 == moved[<<Pmem, Local>>]
  <2>4. AllMoves = m1 + m2 + m3 + m4 + m5 + m6
    BY <1>8
  <2>5. AllMoves' = (m1 + o1) + (m2 + o2) + (m3 + o3) + (m4 + o4) + (m5 + o5) + (m6 + o6)
    BY <1>9, <2>3
  <2>6. m1 \in Nat /\ m2 \in Nat /\ m3 \in Nat /\ m4 \in Nat /\ m5 \in Nat /\ m6 \in Nat
    BY <1>5
  <2> HIDE DEF o1, o2, o3, o4, o5, o6, m1, m2, m3, m4, m5, m6
  <2> QED BY <2>1, <2>2, <2>4, <2>5, <2>6
<1> QED BY <1>2, <1>10

LEMMA CountsUp ==
  ASSUME IInv, CountUp
  PROVE  OneBy(1) /\ UNCHANGED moved /\ scPc = "countUp" /\ scPc' = "countRoute"
<1>1. /\ UNCHANGED moved /\ frame.target \in Layers /\ scPc = "countUp" /\ scPc' = "countRoute"
      /\ count' = [count EXCEPT ![frame.target] = @ + 1]
  BY CountUpFacts
<1>2. count \in [Layers -> Nat]
  BY DEF IInv, TypeOK
<1>3. \A k \in Layers : count'[k] = IF k = frame.target THEN count[k] + 1 ELSE count[k]
  BY <1>1, <1>2
<1>4. OneBy(1)
  BY <1>1, <1>2, <1>3, OneLayer
<1> QED BY <1>1, <1>4

LEMMA CountsRoute ==
  ASSUME IInv, CountRoute
  PROVE  /\ AllMoves' = AllMoves + 1 /\ \A r \in Routes : moved[r] <= moved'[r]
         /\ UNCHANGED count
         /\ scPc = "countRoute" /\ scPc' \notin {"countUp", "countRoute", "fill"}
<1>1. moved \in [Routes -> Nat]
  BY DEF IInv, TypeOK
<1> QED BY <1>1, CountRouteFacts, OneRoute

LEMMA SumStep ==
  ASSUME IInv, SumInv, [Next]_vars
  PROVE  SumInv'
<1>0. count \in [Layers -> Nat] /\ filled \in Nat
      /\ count[Local] \in Nat /\ count[Remote] \in Nat /\ count[Pmem] \in Nat
  BY LayerFacts DEF IInv, TypeOK
<1>1. UNCHANGED filled \/ FillPage
  <2>1. CASE Tick \/ UNCHANGED vars
    BY <2>1 DEF Tick, vars
  <2>2. CASE Classify
    BY <2>2 DEF Classify, ScanNext, LoadCount, ClassifyHot, ClassifyCold, Recheck,
       classifyFrame, scannerFrame
  <2>3. CASE Migrate
    BY <2>3 DEF Migrate, Unlink, CheckCapacity, SweepPast, Evict, Move, Link, TakeStamp,
       StoreStamp, ResetCount, CountDown, CountUp, CountRoute, migrateFrame, scannerFrame
  <2>4. CASE Halt
    BY <2>4 DEF Halt, AssertRemove, DoubleFree, AssertEmpty, AssertInsert, AliasNode, Stop
  <2>5. CASE Manager
    BY <2>5 DEF Manager, BeginAccess, Mark, ReadClock, StoreAccessTime, CountAccess,
       RecordAccess, accessFrame
  <2> QED BY <2>1, <2>2, <2>3, <2>4, <2>5 DEF Next, Scanner
<1>2. CASE FillPage
  <2>1. filled < NumPages /\ filled' = filled + 1
        /\ count' = [count EXCEPT ![InitLayer[filled]] = @ + 1]
    BY <1>2 DEF FillPage
  <2>2. InitLayer[filled] \in Layers
    BY <1>0, <2>1, ConstantFacts
  <2>3. \A k \in Layers : count'[k] = IF k = InitLayer[filled] THEN count[k] + 1 ELSE count[k]
    BY <1>0, <2>1
  <2>4. OneBy(1)
    BY <1>0, <2>2, <2>3, OneLayer
  <2>5. scPc # "countUp" /\ scPc' # "countUp"
    BY <1>2, FillFacts
  <2> QED BY <1>0, <2>1, <2>4, <2>5, SumOne DEF SumInv
<1>3. CASE UNCHANGED filled
  <2>1. CASE CountDown
    <3> DEFINE d == -1
    <3>1. OneBy(d) /\ scPc # "countUp" /\ scPc' = "countUp" /\ d \in Int
      BY <2>1, CountsDown
    <3> QED BY <1>0, <1>3, <3>1, SumOne DEF SumInv
  <2>2. CASE CountUp
    <3>1. OneBy(1) /\ scPc = "countUp" /\ scPc' # "countUp"
      BY <2>2, CountsUp
    <3> QED BY <1>0, <1>3, <3>1, SumOne DEF SumInv
  <2>3. CASE ~CountDown /\ ~CountUp /\ ~FillPage
    <3>1. UNCHANGED count /\ (scPc' = "countUp" <=> scPc = "countUp")
      <4>1. CASE RecordAccess
        BY <4>1, RecordFacts
      <4>2. CASE CountRoute
        BY <4>2, CountsRoute
      <4>3. CASE ~RecordAccess /\ ~CountRoute
        BY <2>3, <4>3, CounterChanges
      <4> QED BY <4>1, <4>2, <4>3
    <3> QED BY <1>3, <3>1 DEF SumInv
  <2> QED BY <1>2, <2>1, <2>2, <2>3
<1> QED BY <1>1, <1>2, <1>3

LEMMA ThreadStep ==
  ASSUME IInv, ThreadInv, latency \in Nat, MNext
  PROVE  ThreadInv'
BY AccessStep, LatencyStep, SumStep, ThreadsAreNext DEF ThreadInv

-----------------------------------------------------------------------------
(* Reports while the other threads go on                                   *)

LEMMA ColumnValuesNext ==
  /\ Counter(1)' = latency'
  /\ Counter(2)' = accessed'[Local] /\ Counter(3)' = accessed'[Remote]
  /\ Counter(4)' = accessed'[Pmem]
  /\ Counter(5)' = moved'[<<Local, Remote>>] /\ Counter(6)' = moved'[<<Remote, Local>>]
  /\ Counter(7)' = moved'[<<Pmem, Remote>>] /\ Counter(8)' = moved'[<<Remote, Pmem>>]
  /\ Counter(9)' = moved'[<<Local, Pmem>>] /\ Counter(10)' = moved'[<<Pmem, Local>>]
  /\ Counter(11)' = count'[Local] /\ Counter(12)' = count'[Remote]
  /\ Counter(13)' = count'[Pmem]
BY DEF Counter, LayerOrder, RouteOrder

\* The counters a report takes differences of never go back.
LEMMA CountersGrow ==
  ASSUME IInv, ThreadInv, latency \in Nat, MNext
  PROVE  \A i \in Deltas : Counter(i) <= Counter(i)'
<1>1. accessed \in [Layers -> Nat] /\ moved \in [Routes -> Nat]
  BY DEF IInv, TypeOK
<1>2. latency <= latency'
  <2>1. CASE Reporter
    BY <2>1, ThreadsAreNext DEF bookVars
  <2>2. CASE ~Reporter
    BY <2>2, UnreportedKeeps DEF MNext, RecordLatency, RecordBooked
  <2> QED BY <2>1, <2>2
<1>3. \A l \in Layers : accessed[l] <= accessed'[l]
  <2>1. CASE Reporter
    BY <1>1, <2>1, ThreadsAreNext DEF vars, managerVars
  <2>2. CASE Unreported
    BY <1>1, <2>2, UnreportedKeeps
  <2>3. CASE RecordLatency
    BY <1>1, <2>3 DEF RecordLatency, vars, managerVars
  <2>4. CASE RecordBooked
    BY <2>4, BookedStep
  <2> QED BY <2>1, <2>2, <2>3, <2>4 DEF MNext
<1>4. \A r \in Routes : moved[r] <= moved'[r]
  <2>1. CASE CountRoute
    BY <2>1, CountsRoute
  <2>2. CASE ~CountRoute
    <3>1. UNCHANGED moved
      BY <2>2, ThreadsAreNext, CounterChanges, FillFacts, CountDownFacts, CountUpFacts,
         RecordFacts
    <3> QED BY <1>1, <3>1
  <2> QED BY <2>1, <2>2
<1> QED BY <1>2, <1>3, <1>4, ColumnValues, ColumnValuesNext, ColumnCases, RouteCases, LayerFacts

LEMMA MovesValueNext ==
  AllMoves' = Counter(5)' + Counter(6)' + Counter(7)' + Counter(8)' + Counter(9)' + Counter(10)'
BY ColumnValuesNext DEF AllMoves, RouteOrder

\* A change of one layer count shows in the columns not copied yet.
LEMMA PagesShift ==
  ASSUME IInv, MTypeOK, loaded \in 10 .. 13, UNCHANGED <<now, loaded>>, NEW d \in Int, OneBy(d)
  PROVE  Part(11)' + Part(12)' + Part(13)' \in
           {Part(11) + Part(12) + Part(13), Part(11) + Part(12) + Part(13) + d}
<1>1. now[11] \in Nat /\ now[12] \in Nat /\ now[13] \in Nat
  BY DEF MTypeOK, Columns
<1>2. count[Local] \in Nat /\ count[Remote] \in Nat /\ count[Pmem] \in Nat
  BY LayerFacts DEF IInv, TypeOK
<1>3. /\ Part(11) = IF 11 <= loaded THEN now[11] ELSE count[Local]
      /\ Part(12) = IF 12 <= loaded THEN now[12] ELSE count[Remote]
      /\ Part(13) = IF 13 <= loaded THEN now[13] ELSE count[Pmem]
      /\ Part(11)' = IF 11 <= loaded THEN now[11] ELSE count'[Local]
      /\ Part(12)' = IF 12 <= loaded THEN now[12] ELSE count'[Remote]
      /\ Part(13)' = IF 13 <= loaded THEN now[13] ELSE count'[Pmem]
  BY ColumnValues, ColumnValuesNext DEF Part
<1>4. loaded = 10 \/ loaded = 11 \/ loaded = 12 \/ loaded = 13
  OBVIOUS
<1> QED BY <1>1, <1>2, <1>3, <1>4 DEF OneBy

\* A column, copied or not, is a number.
LEMMA PartTypes ==
  ASSUME IInv, MTypeOK
  PROVE  \A i \in Columns : Part(i) \in Nat /\ Counter(i) \in Nat
<1>1. \A i \in Columns : Counter(i) \in Nat
  BY ColumnTypes DEF MTypeOK
<1> QED BY <1>1 DEF Part, MTypeOK

LEMMA SinceType ==
  ASSUME IInv, MTypeOK
  PROVE  /\ MovesSinceCopied \in Int /\ AllMoves \in Int
         /\ last[5] + last[6] + last[7] + last[8] + last[9] + last[10] \in Int
<1>1. AllMoves \in Int
  <2>1. /\ Counter(5) \in Nat /\ Counter(6) \in Nat /\ Counter(7) \in Nat
        /\ Counter(8) \in Nat /\ Counter(9) \in Nat /\ Counter(10) \in Nat
    BY PartTypes, ColumnCases
  <2> QED BY <2>1, MovesValue
<1>2. last[5] + last[6] + last[7] + last[8] + last[9] + last[10] \in Int
  <2>1. /\ last[5] \in Nat /\ last[6] \in Nat /\ last[7] \in Nat
        /\ last[8] \in Nat /\ last[9] \in Nat /\ last[10] \in Nat
    BY ColumnCases DEF MTypeOK
  <2> QED BY <2>1
<1> QED BY <1>1, <1>2 DEF MovesSinceCopied

LEMMA PagesWhileOthers ==
  ASSUME IInv, MTypeOK, PositionInv, PagesCopied, [Next]_vars, UNCHANGED reportVars
  PROVE  PagesCopied'
<1> SUFFICES ASSUME repPc \in {"pages", "write"}
             PROVE  /\ NumPages - MovesSinceCopied' - (IF Counting' THEN 1 ELSE 0)
                         <= Part(11)' + Part(12)' + Part(13)'
                    /\ Part(11)' + Part(12)' + Part(13)'
                         <= NumPages + MovesSinceCopied' + (IF scPc' = "countRoute" THEN 1 ELSE 0)
  BY DEF PagesCopied, reportVars
<1> DEFINE sum == Part(11) + Part(12) + Part(13)
           sumNext == Part(11)' + Part(12)' + Part(13)'
<1>1. loaded \in 10 .. 13 /\ scPc # "fill" /\ UNCHANGED <<now, loaded, last>>
  BY DEF PositionInv, reportVars
<1>2. sum \in Int /\ MovesSinceCopied \in Int /\ AllMoves \in Int /\ NumPages \in Int
  <2>1. Part(11) \in Nat /\ Part(12) \in Nat /\ Part(13) \in Nat
    BY PartTypes, ColumnCases
  <2> QED BY <2>1, SinceType, ConstantFacts
<1>3. /\ NumPages - MovesSinceCopied - (IF Counting THEN 1 ELSE 0) <= sum
      /\ sum <= NumPages + MovesSinceCopied + (IF scPc = "countRoute" THEN 1 ELSE 0)
  BY DEF PagesCopied
<1>4. AllMoves' = AllMoves + 1 => MovesSinceCopied' = MovesSinceCopied + 1
  BY <1>1, SinceType DEF MovesSinceCopied
<1>5. UNCHANGED moved => MovesSinceCopied' = MovesSinceCopied
  BY <1>1 DEF MovesSinceCopied, AllMoves
<1>6. UNCHANGED count => sumNext = sum
  <2> SUFFICES ASSUME UNCHANGED count PROVE sumNext = sum
    OBVIOUS
  <2>1. Part(11)' = Part(11) /\ Part(12)' = Part(12) /\ Part(13)' = Part(13)
    BY <1>1, ColumnValues, ColumnValuesNext DEF Part
  <2> QED BY <2>1
<1>7. CASE CountDown
  <2> DEFINE d == -1
  <2>1. d \in Int /\ OneBy(d) /\ UNCHANGED moved /\ scPc = "countDown" /\ scPc' = "countUp"
    BY <1>7, CountsDown
  <2>2. sumNext \in {sum, sum + d}
    BY <1>1, <2>1, PagesShift
  <2>3. Counting' /\ ~Counting
    BY <2>1 DEF Counting
  <2> HIDE DEF sum, sumNext
  <2> QED BY <1>2, <1>3, <1>5, <2>1, <2>2, <2>3 DEF sumNext
<1>8. CASE CountUp
  <2>1. OneBy(1) /\ UNCHANGED moved /\ scPc = "countUp" /\ scPc' = "countRoute"
    BY <1>8, CountsUp
  <2>2. sumNext \in {sum, sum + 1}
    BY <1>1, <2>1, PagesShift
  <2>3. Counting' /\ Counting
    BY <2>1 DEF Counting
  <2> HIDE DEF sum, sumNext
  <2> QED BY <1>2, <1>3, <1>5, <2>1, <2>2, <2>3 DEF sumNext
<1>9. CASE CountRoute
  <2>1. /\ AllMoves' = AllMoves + 1 /\ UNCHANGED count /\ scPc = "countRoute"
        /\ scPc' # "countRoute" /\ ~Counting' /\ Counting
    BY <1>9, CountsRoute DEF Counting
  <2>2. sumNext = sum
    BY <1>6, <2>1
  <2> HIDE DEF sum, sumNext
  <2> QED BY <1>2, <1>3, <1>4, <2>1, <2>2 DEF sumNext
<1>10. CASE ~CountDown /\ ~CountUp /\ ~CountRoute
  <2>1. /\ UNCHANGED <<count, moved>> /\ (scPc' = "countRoute" <=> scPc = "countRoute")
        /\ Counting' <=> Counting
    BY <1>1, <1>10, CounterChanges, FillFacts, RecordFacts DEF Counting
  <2> QED BY <1>3, <1>5, <1>6, <2>1
<1> QED BY <1>7, <1>8, <1>9, <1>10

LEMMA ReportWhileOthers ==
  ASSUME IInv, IInv', MInv, latency' \in Nat, MNext, ~Reporter
  PROVE  (ReportInv /\ RowsAddUp /\ DeltasCount)'
<1> USE DEF MInv, ReportInv
<1>1. [Next]_vars /\ UNCHANGED <<repPc, loaded, now, last, row, written, complete>>
      /\ UNCHANGED reportVars
  BY ThreadsAreNext DEF reportVars
<1>2. \A i \in Deltas : Counter(i) <= Counter(i)'
  BY CountersGrow DEF MTypeOK
<1>3. /\ \A i \in Deltas : Counter(i) \in Nat
      /\ \A i \in Deltas : Counter(i)' \in Nat
      /\ \A i \in Deltas : now[i] \in Nat /\ last[i] \in Nat
  <2>1. \A i \in Columns : Counter(i) \in Nat
    BY ColumnTypes DEF MTypeOK
  <2>2. \A i \in Deltas : Counter(i)' \in Nat
    <3>1. accessed' \in [Layers -> Nat] /\ moved' \in [Routes -> Nat]
      BY DEF IInv, TypeOK
    <3> QED BY <3>1, ColumnValuesNext, ColumnCases, RouteCases, LayerFacts
  <2>3. \A i \in Deltas : i \in Columns
    BY ColumnCases
  <2> QED BY <2>1, <2>2, <2>3 DEF MTypeOK
<1>4. PositionInv'
  BY <1>1, NotFilledAgain DEF PositionInv
<1>5. CopiedInv'
  BY <1>1, <1>2, <1>3 DEF CopiedInv
<1>6. LatencyCopied'
  <2>1. /\ 2 \in Deltas /\ 3 \in Deltas /\ 4 \in Deltas /\ 1 \in Deltas
    BY ColumnCases
  <2>2. \A i \in Deltas : Part(i) <= Part(i)' /\ Part(i) \in Nat /\ Part(i)' \in Nat
    BY <1>1, <1>2, <1>3 DEF Part
  <2>3. now[1] \in Nat
    BY <1>3, <2>1
  <2> QED BY <1>1, <2>1, <2>2, <2>3 DEF LatencyCopied
<1>7. PagesCopied'
  BY <1>1, PagesWhileOthers
<1>8. RowsAddUp'
  BY <1>1 DEF RowsAddUp
<1>9. DeltasCount'
  BY <1>1, <1>2, <1>3 DEF DeltasCount
<1> QED BY <1>4, <1>5, <1>6, <1>7, <1>8, <1>9

-----------------------------------------------------------------------------
(* The steps of the metrics thread                                         *)

\* The next column is copied.
LEMMA CopyFacts ==
  ASSUME IInv, MInv, LoadCounter \/ LoadPages
  PROVE  /\ loaded + 1 \in Columns /\ loaded \in Nat
         /\ loaded' = loaded + 1
         /\ now' \in [Columns -> Nat]
         /\ now'[loaded + 1] = Counter(loaded + 1)
         /\ \A i \in Columns : i # loaded + 1 => now'[i] = now[i]
         /\ UNCHANGED <<vars, bookVars, last, row, reports, written, complete>>
<1>1. loaded + 1 \in Columns /\ loaded \in Nat
  BY DEF MInv, ReportInv, PositionInv, LoadCounter, LoadPages, Columns
<1>2. Counter(loaded + 1) \in Nat
  BY <1>1, PartTypes DEF MInv
<1>3. now' = [now EXCEPT ![loaded + 1] = Counter(loaded + 1)] /\ loaded' = loaded + 1
      /\ UNCHANGED <<vars, bookVars, last, row, reports, written, complete>>
  BY DEF LoadCounter, LoadPages, reportFrame
<1>4. now' \in [Columns -> Nat]
      /\ \A i \in Columns : now'[i] = IF i = loaded + 1 THEN Counter(loaded + 1) ELSE now[i]
  <2>1. now \in [Columns -> Nat]
    BY DEF MInv, MTypeOK
  <2> QED BY <1>1, <1>2, <1>3, <2>1
<1> QED BY <1>1, <1>3, <1>4

\* What is in the program's counters does not change with the metrics thread.
LEMMA SameCounters ==
  ASSUME UNCHANGED <<vars, bookVars>>
  PROVE  /\ \A i : Counter(i)' = Counter(i)
         /\ UNCHANGED <<scPc, AllMoves, latency, booked>>
<1>1. UNCHANGED <<count, moved, accessed, latency, booked, scPc>>
  BY DEF vars, bookVars, managerVars, scanVars
<1> QED BY <1>1 DEF Counter, AllMoves

\* A report that ends leaves nothing to compare.
LEMMA EndFacts ==
  ASSUME EndReport
  PROVE  /\ repPc' = "load" /\ loaded' = 0 /\ reports' = reports + 1
         /\ now' \in [Columns -> Nat] /\ row' \in [Deltas -> Int]
         /\ \A i \in Deltas : row'[i] = 0
BY DEF EndReport, Zeros

LEMMA OpenFacts ==
  ASSUME IInv, MInv, OpenFile
  PROVE  /\ last' \in [Deltas -> Nat] /\ repPc = "open" /\ loaded = 10
         /\ \A i \in Deltas : /\ last'[i] = now[i] /\ now[i] \in Nat /\ last[i] \in Nat
                              /\ last[i] <= now[i] /\ now[i] <= Counter(i)
         /\ UNCHANGED <<vars, bookVars, written>>
         /\ \/ /\ row' \in [Deltas -> Int] /\ repPc' = "pages"
               /\ \A i \in Deltas : row'[i] = now[i] - last[i]
               /\ UNCHANGED <<loaded, now, reports, complete>>
            \/ complete' = FALSE /\ EndReport
<1>1. repPc = "open" /\ loaded = 10
  BY DEF OpenFile, MInv, ReportInv, PositionInv
<1>2. \A i \in Deltas : i \in Columns /\ i <= loaded
  BY <1>1, ColumnCases
<1>3. \A i \in Deltas : /\ now[i] \in Nat /\ last[i] \in Nat
                        /\ last[i] <= now[i] /\ now[i] <= Counter(i)
  BY <1>1, <1>2 DEF MInv, ReportInv, CopiedInv, MTypeOK
<1>4. /\ last' = [i \in Deltas |-> now[i]] /\ UNCHANGED <<vars, bookVars, written>>
      /\ \/ /\ row' = [i \in Deltas |-> now[i] - last[i]]
            /\ repPc' = "pages" /\ UNCHANGED <<loaded, now, reports, complete>>
         \/ complete' = FALSE /\ EndReport
  BY DEF OpenFile, reportFrame
<1> QED BY <1>1, <1>3, <1>4

LEMMA MetricsTypeStep ==
  ASSUME IInv, IInv', MInv, MNext
  PROVE  MTypeOK'
<1> USE DEF MTypeOK
<1>0. MTypeOK
  BY DEF MInv
<1>1. CASE Unreported
  BY <1>0, <1>1, UnreportedKeeps DEF Unreported, bookVars, reportVars
<1>2. CASE RecordLatency \/ RecordBooked
  <2>1. UNCHANGED <<repPc, loaded, now, last, row, reports, written, complete>>
    BY <1>2 DEF RecordLatency, RecordBooked, reportVars
  <2>2. latency' \in Nat
    BY <1>0, <1>2 DEF RecordLatency, RecordBooked
  <2>3. booked' \in BOOLEAN
    BY <1>2 DEF RecordLatency, RecordBooked
  <2> QED BY <1>0, <2>1, <2>2, <2>3
<1>3. CASE LoadCounter
  <2>1. loaded + 1 \in 0 .. 13
    BY <1>3, CopyFacts DEF Columns
  <2> QED BY <1>0, <1>3, <2>1, CopyFacts DEF LoadCounter, bookVars
<1>4. CASE OpenFile
  <2>1. UNCHANGED <<latency, booked, written>> /\ last' \in [Deltas -> Nat]
    BY <1>4, OpenFacts DEF bookVars
  <2>2. CASE /\ row' \in [Deltas -> Int] /\ repPc' = "pages"
             /\ UNCHANGED <<loaded, now, reports, complete>>
    BY <1>0, <2>1, <2>2
  <2>3. CASE complete' = FALSE /\ EndReport
    <3>1. /\ repPc' = "load" /\ loaded' = 0 /\ reports' \in Nat
          /\ now' \in [Columns -> Nat] /\ row' \in [Deltas -> Int]
      BY <1>0, <2>3, EndFacts
    <3>2. complete' \in BOOLEAN
      BY <2>3
    <3> QED BY <1>0, <2>1, <3>1, <3>2
  <2> QED BY <1>4, <2>2, <2>3, OpenFacts
<1>5. CASE LoadPages
  <2>1. loaded + 1 \in 0 .. 13
    BY <1>5, CopyFacts DEF Columns
  <2> QED BY <1>0, <1>5, <2>1, CopyFacts DEF LoadPages, bookVars
<1>6. CASE WriteRow
  <2>1. written' \in [Deltas -> Int] /\ UNCHANGED <<last, complete, latency, booked>>
    BY <1>0, <1>6 DEF WriteRow, reportFrame, bookVars
  <2>2. EndReport
    BY <1>6 DEF WriteRow
  <2> QED BY <1>0, <2>1, <2>2, EndFacts
<1> HIDE DEF MTypeOK
<1> QED BY <1>1, <1>2, <1>3, <1>4, <1>5, <1>6 DEF MNext, Reporter

LEMMA CopyKeeps ==
  ASSUME IInv, MInv, LoadCounter \/ LoadPages
  PROVE  (ReportInv /\ RowsAddUp /\ DeltasCount)'
<1> USE DEF MInv, ReportInv
<1>0. /\ \A i : Counter(i)' = Counter(i)
      /\ UNCHANGED <<scPc, AllMoves, latency, booked>>
  BY CopyFacts, SameCounters
<1>1. /\ loaded + 1 \in Columns /\ loaded \in Nat /\ loaded' = loaded + 1
      /\ now'[loaded + 1] = Counter(loaded + 1)
      /\ \A i \in Columns : i # loaded + 1 => now'[i] = now[i]
      /\ UNCHANGED <<last, row, written, complete>>
  BY CopyFacts
<1>2. \A i \in Columns : i \in Nat /\ Counter(i) \in Nat /\ Part(i) \in Nat
  BY PartTypes DEF Columns
<1>3. \A i \in Columns : Part(i)' = Part(i)
  BY <1>0, <1>1, <1>2 DEF Part
<1>4. Deltas \subseteq Columns /\ {1, 2, 3, 4, 11, 12, 13} \subseteq Columns /\ 1 \in Deltas
  BY ColumnCases
<1>5. UNCHANGED MovesSinceCopied
  BY <1>0, <1>1 DEF MovesSinceCopied
<1>6. scPc # "fill"
  BY DEF LoadCounter, LoadPages, PositionInv
<1>7. PositionInv'
  BY <1>0, <1>1, <1>6 DEF LoadCounter, LoadPages, PositionInv
<1>8. CopiedInv'
  <2> SUFFICES ASSUME repPc' \in {"load", "open"}, NEW i \in Deltas, i <= loaded + 1
               PROVE  last[i] <= now'[i] /\ now'[i] <= Counter(i)
    BY <1>0, <1>1 DEF CopiedInv
  <2>1. LoadCounter /\ repPc = "load"
    BY DEF LoadCounter, LoadPages
  <2>2. CASE i = loaded + 1
    BY <1>1, <1>2, <1>4, <2>2 DEF DeltasCount
  <2>3. CASE i # loaded + 1
    <3>1. i <= loaded /\ now'[i] = now[i]
      BY <1>1, <1>2, <1>4, <2>3
    <3> QED BY <2>1, <3>1 DEF CopiedInv
  <2> QED BY <2>2, <2>3
<1>9. LatencyCopied'
  <2> SUFFICES ASSUME repPc' \in {"load", "open"}
               PROVE  now'[1] <= Part(2) + Part(3) + Part(4) + 1
    BY <1>3, <1>4 DEF LatencyCopied
  <2>1. LoadCounter /\ repPc = "load"
    BY DEF LoadCounter, LoadPages
  <2>2. CASE loaded = 0
    <3>1. now'[1] = latency
      BY <1>1, <2>2, ColumnValues
    <3>2. /\ Part(2) = accessed[Local] /\ Part(3) = accessed[Remote] /\ Part(4) = accessed[Pmem]
      BY <2>2, ColumnValues DEF Part
    <3>3. accessed[Local] \in Nat /\ accessed[Remote] \in Nat /\ accessed[Pmem] \in Nat
      BY LayerFacts DEF IInv, TypeOK
    <3> QED BY <3>1, <3>2, <3>3 DEF ThreadInv, LatencyInv
  <2>3. CASE loaded # 0
    <3>1. loaded > 0 /\ now'[1] = now[1]
      BY <1>1, <1>4, <2>3
    <3> QED BY <2>1, <3>1 DEF LatencyCopied
  <2> QED BY <2>2, <2>3
<1>10. PagesCopied'
  <2>1. repPc' \in {"pages", "write"} => repPc = "pages"
    BY DEF LoadCounter, LoadPages
  <2>2. Part(11)' = Part(11) /\ Part(12)' = Part(12) /\ Part(13)' = Part(13)
    BY <1>3, <1>4
  <2> QED BY <1>0, <1>5, <2>1, <2>2 DEF PagesCopied, Counting
<1>11. RowsAddUp'
  <2>1. repPc' \in {"pages", "write"} <=> repPc \in {"pages", "write"}
    BY DEF LoadCounter, LoadPages
  <2> QED BY <1>1, <2>1 DEF RowsAddUp
<1>12. DeltasCount'
  BY <1>0, <1>1 DEF DeltasCount
<1> QED BY <1>7, <1>8, <1>9, <1>10, <1>11, <1>12

\* A report that has been given up or written.
LEMMA EndKeeps ==
  ASSUME EndReport
  PROVE  (PositionInv /\ CopiedInv /\ LatencyCopied /\ PagesCopied)'
<1>1. repPc' = "load" /\ loaded' = 0 /\ \A i \in Deltas : row'[i] = 0
  BY EndFacts
<1>2. \A i \in Deltas : ~(i <= loaded')
  BY <1>1 DEF Deltas
<1> QED BY <1>1, <1>2 DEF PositionInv, CopiedInv, LatencyCopied, PagesCopied

LEMMA OpenKeeps ==
  ASSUME IInv, MInv, OpenFile
  PROVE  (ReportInv /\ RowsAddUp /\ DeltasCount)'
<1> USE DEF MInv, ReportInv
<1>1. /\ repPc = "open" /\ loaded = 10
      /\ \A i \in Deltas : /\ last'[i] = now[i] /\ now[i] \in Nat /\ last[i] \in Nat
                           /\ last[i] <= now[i] /\ now[i] <= Counter(i)
      /\ UNCHANGED <<vars, bookVars, written>>
  BY OpenFacts
<1>2. /\ \A i : Counter(i)' = Counter(i)
      /\ UNCHANGED <<scPc, AllMoves, latency, booked>>
  BY <1>1, SameCounters
<1>3. CASE /\ repPc' = "pages" /\ UNCHANGED <<loaded, now, complete>>
           /\ \A i \in Deltas : row'[i] = now[i] - last[i]
  <2>1. PositionInv'
    BY <1>1, <1>2, <1>3 DEF PositionInv
  <2>2. CopiedInv' /\ LatencyCopied'
    BY <1>3 DEF CopiedInv, LatencyCopied
  <2>3. PagesCopied'
    <3>1. filled = NumPages /\ NumPages \in Nat
      BY <1>1, ConstantFacts DEF PositionInv, IInv, FlowInv, FillInv, TypeOK
    <3>2. count[Local] \in Nat /\ count[Remote] \in Nat /\ count[Pmem] \in Nat
      BY LayerFacts DEF IInv, TypeOK
    <3>3. Part(11)' = count[Local] /\ Part(12)' = count[Remote] /\ Part(13)' = count[Pmem]
      BY <1>1, <1>2, <1>3, ColumnValues DEF Part
    <3>4. MovesSinceCopied' \in Int /\ MovesSinceCopied' >= 0
      <4>1. MovesSinceCopied'
              = AllMoves - (now[5] + now[6] + now[7] + now[8] + now[9] + now[10])
        BY <1>1, <1>2, ColumnCases DEF MovesSinceCopied
      <4>2. /\ now[5] \in Nat /\ now[5] <= Counter(5) /\ now[6] \in Nat /\ now[6] <= Counter(6)
            /\ now[7] \in Nat /\ now[7] <= Counter(7) /\ now[8] \in Nat /\ now[8] <= Counter(8)
            /\ now[9] \in Nat /\ now[9] <= Counter(9) /\ now[10] \in Nat /\ now[10] <= Counter(10)
        BY <1>1, ColumnCases
      <4>3. /\ Counter(5) \in Nat /\ Counter(6) \in Nat /\ Counter(7) \in Nat
            /\ Counter(8) \in Nat /\ Counter(9) \in Nat /\ Counter(10) \in Nat
        BY PartTypes, ColumnCases
      <4> QED BY <4>1, <4>2, <4>3, MovesValue
    <3>5. count[Local] + count[Remote] + count[Pmem] + (IF scPc = "countUp" THEN 1 ELSE 0)
            = NumPages
      BY <3>1 DEF ThreadInv, SumInv
    <3> QED BY <1>2, <3>1, <3>2, <3>3, <3>4, <3>5 DEF PagesCopied, Counting
  <2>4. RowsAddUp'
    <3> SUFFICES ASSUME complete, NEW i \in Deltas PROVE written[i] + row'[i] = last'[i]
      BY <1>1, <1>3 DEF RowsAddUp
    <3>1. written[i] + 0 = last[i] /\ written[i] \in Int
      BY <1>1 DEF RowsAddUp, MTypeOK
    <3> QED BY <1>1, <1>3, <3>1
  <2>5. DeltasCount'
    BY <1>1, <1>2, <1>3 DEF DeltasCount
  <2> QED BY <2>1, <2>2, <2>3, <2>4, <2>5
<1>4. CASE complete' = FALSE /\ EndReport
  <2>1. RowsAddUp'
    BY <1>4 DEF RowsAddUp
  <2>2. DeltasCount'
    BY <1>1, <1>2, <1>4, EndFacts DEF DeltasCount
  <2> QED BY <1>4, <2>1, <2>2, EndKeeps
<1> QED BY <1>3, <1>4, OpenFacts

LEMMA WriteKeeps ==
  ASSUME IInv, MInv, WriteRow
  PROVE  (ReportInv /\ RowsAddUp /\ DeltasCount)'
<1> USE DEF MInv, ReportInv
<1>1. /\ repPc = "write" /\ EndReport /\ UNCHANGED <<vars, bookVars, last, complete>>
      /\ written' = [i \in Deltas |-> written[i] + row[i]]
  BY DEF WriteRow, reportFrame
<1>2. RowsAddUp'
  <2>1. repPc' = "load"
    BY <1>1, EndFacts
  <2> SUFFICES ASSUME complete, NEW i \in Deltas PROVE written'[i] + 0 = last[i]
    BY <1>1, <2>1 DEF RowsAddUp
  <2>2. written[i] + row[i] = last[i] /\ written[i] \in Int /\ row[i] \in Int
    BY <1>1 DEF RowsAddUp, MTypeOK
  <2> QED BY <1>1, <2>2
<1>3. DeltasCount'
  BY <1>1, SameCounters, EndFacts DEF DeltasCount
<1> QED BY <1>1, <1>2, <1>3, EndKeeps

LEMMA MetricsStep ==
  ASSUME IInv, IInv', MInv, MNext
  PROVE  MInv'
<1>1. MTypeOK'
  BY MetricsTypeStep
<1>2. ThreadInv'
  BY ThreadStep DEF MInv, MTypeOK
<1>3. (ReportInv /\ RowsAddUp /\ DeltasCount)'
  <2>1. CASE ~Reporter
    BY <1>1, <2>1, ReportWhileOthers DEF MTypeOK
  <2>2. CASE Reporter
    BY <2>2, CopyKeeps, OpenKeeps, WriteKeeps DEF Reporter
  <2> QED BY <2>1, <2>2
<1> QED BY <1>1, <1>2, <1>3 DEF MInv

LEMMA MetricsStutter ==
  ASSUME MInv, UNCHANGED metricsVars
  PROVE  MInv'
<1>1. UNCHANGED <<vars, bookVars, repPc, loaded, now, last, row, written, complete, reports,
                  mgPc, mgPage, filled, count, accessed>>
  BY DEF metricsVars, reportVars, vars, managerVars
<1>2. /\ \A i : Counter(i)' = Counter(i)
      /\ UNCHANGED <<scPc, AllMoves, latency, booked>>
  BY <1>1, SameCounters
<1>3. \A i : Part(i)' = Part(i)
  BY <1>1, <1>2 DEF Part
<1>4. UNCHANGED MovesSinceCopied
  BY <1>1, <1>2 DEF MovesSinceCopied
<1> QED
  BY <1>1, <1>2, <1>3, <1>4 DEF MInv, MTypeOK, ThreadInv, AccessInv, LatencyInv, SumInv,
     ReportInv, PositionInv, CopiedInv, LatencyCopied, PagesCopied, Counting, RowsAddUp,
     DeltasCount

-----------------------------------------------------------------------------
(* Theorems                                                                *)

LEMMA MetricsInit == MInit => MInv
<1> SUFFICES ASSUME MInit PROVE MInv
  OBVIOUS
<1>1. /\ latency = 0 /\ booked = FALSE /\ repPc = "load" /\ loaded = 0
      /\ now = [i \in Columns |-> 0] /\ last = [i \in Deltas |-> 0]
      /\ row = [i \in Deltas |-> 0] /\ written = [i \in Deltas |-> 0]
      /\ reports = 0 /\ complete = TRUE
  BY DEF MInit, Zeros
<1>2. /\ \A l \in Layers : accessed[l] = 0 /\ count[l] = 0
      /\ filled = 0 /\ scPc = "fill" /\ mgPc = "idle"
  BY DEF MInit, Init
<1>3. ThreadInv
  BY <1>1, <1>2, LayerFacts DEF ThreadInv, AccessInv, LatencyInv, SumInv
<1>4. MTypeOK
  <2>1. /\ now \in [Columns -> Nat] /\ last \in [Deltas -> Nat]
        /\ row \in [Deltas -> Int] /\ written \in [Deltas -> Int]
    BY <1>1
  <2>2. booked \in BOOLEAN /\ complete \in BOOLEAN
    BY <1>1
  <2>3. latency \in Nat /\ reports \in Nat /\ loaded \in 0 .. 13
        /\ repPc \in {"load", "open", "pages", "write"}
    BY <1>1
  <2> QED BY <2>1, <2>2, <2>3 DEF MTypeOK
<1>5. \A i \in Deltas : ~(i <= loaded)
  BY <1>1 DEF Deltas
<1>6. ReportInv
  BY <1>1, <1>5 DEF ReportInv, PositionInv, CopiedInv, LatencyCopied, PagesCopied
<1>7. RowsAddUp
  BY <1>1 DEF RowsAddUp
<1>8. DeltasCount
  <2>1. IInv
    BY InitInv DEF MInit
  <2>2. \A i \in Columns : Counter(i) \in Nat
    BY <1>1, <2>1, ColumnTypes
  <2>3. \A i \in Deltas : i \in Columns
    BY ColumnCases
  <2> QED BY <1>1, <2>2, <2>3 DEF DeltasCount
<1> QED BY <1>3, <1>4, <1>6, <1>7, <1>8 DEF MInv

\* The metrics thread does not get in the way of the other two: with it the page
\* table behaves as it does without, and all that is proved of it stays true
\* (Metrics.cpp:126-223 only reads it).
THEOREM ReporterOnlyReads == MSpec => Spec
<1>1. MInit => Init
  BY DEF MInit
<1>2. [MNext]_metricsVars => [Next]_vars
  BY ThreadsAreNext DEF metricsVars
<1> QED BY <1>1, <1>2, PTL DEF MSpec, Spec

LEMMA MetricsInvariance == MSpec => []MInv
<1>1. IInv /\ IInv' /\ MInv /\ [MNext]_metricsVars => MInv'
  BY MetricsStep, MetricsStutter
<1> QED BY <1>1, MetricsInit, Invariance, ReporterOnlyReads, PTL DEF MSpec

\* The metrics have their types; the latency is a number.
THEOREM MetricsTypeCorrect == MSpec => []MTypeOK
<1>1. MInv => MTypeOK
  BY DEF MInv
<1> QED BY <1>1, MetricsInvariance, PTL

\* However the copying of the counters interleaves with their updates, and however
\* often: nothing is reported twice, and nothing is lost while the file opens
\* (Metrics.cpp:128-194).
THEOREM ReportsAddUp == MSpec => []RowsAddUp
<1>1. MInv => RowsAddUp
  BY DEF MInv
<1> QED BY <1>1, MetricsInvariance, PTL

\* No unsigned difference of a report wraps (Metrics.cpp:142-159).
THEOREM DifferencesCount == MSpec => []DeltasCount
<1>1. MInv => DeltasCount
  BY DEF MInv
<1> QED BY <1>1, MetricsInvariance, PTL

\* A report holds the latency of at most one access that it does not count
\* (PageTable.cpp:165-177, Metrics.cpp:128-132).
THEOREM LatencyBound == MSpec => []LatencyAheadByOne
<1>1. MInv => LatencyAheadByOne
  <2> SUFFICES ASSUME MInv, repPc = "open" PROVE now[1] <= now[2] + now[3] + now[4] + 1
    BY DEF LatencyAheadByOne
  <2>1. loaded = 10
    BY DEF MInv, ReportInv, PositionInv
  <2> QED BY <2>1 DEF MInv, ReportInv, LatencyCopied, Part
<1> QED BY <1>1, MetricsInvariance, PTL

\* The layer counts of a row miss a page or count it twice only for migrations
\* since the counters of the routes were copied, and for the one whose counting
\* is not finished (Metrics.cpp:134-139, 217-219, PageTable.cpp:272-297).
THEOREM PagesBounded == MSpec => []PagesInRow
<1>1. IInv /\ MInv => PagesInRow
  <2> SUFFICES ASSUME IInv, MInv, repPc = "write"
               PROVE  now[11] + now[12] + now[13]
                        \in NumPages - MovesSinceCopied - (IF Counting THEN 1 ELSE 0)
                           .. NumPages + MovesSinceCopied + (IF scPc = "countRoute" THEN 1 ELSE 0)
    BY DEF PagesInRow
  <2>1. loaded = 13
    BY DEF MInv, ReportInv, PositionInv
  <2>2. /\ Part(11) = now[11] /\ Part(12) = now[12] /\ Part(13) = now[13]
    BY <2>1 DEF Part
  <2>3. now[11] \in Nat /\ now[12] \in Nat /\ now[13] \in Nat
    BY DEF MInv, MTypeOK, Columns
  <2>4. MovesSinceCopied \in Int /\ NumPages \in Int
    BY SinceType, ConstantFacts DEF MInv
  <2> QED BY <2>2, <2>3, <2>4 DEF MInv, ReportInv, PagesCopied
<1> QED BY <1>1, MetricsInvariance, Invariance, ReporterOnlyReads, PTL

=============================================================================
