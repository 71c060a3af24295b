----------------------------- MODULE RingProofs -----------------------------
(***************************************************************************)
(* Where every page that leaves the local tier finds room, the ring is a   *)
(* picture of that tier and no assertion about it fails, for any number of *)
(* pages and whatever the two threads interleave; but for the insert, once *)
(* an eviction has deleted a node twice.  And everywhere the ring evicts   *)
(* the pages in second-chance order.                                       *)
(***************************************************************************)
EXTENDS PlacementProofs, RingQueue, Recursion, SequenceTheorems

\* The page that migrates is without a node from its removal to its insertion.
Unnoded ==
  (scPc \in {"capacity", "move"} /\ frame.from = Local) \/ scPc = "link"

\* Every other page of the local tier has one.
NodesKept ==
  \A p \in Resident(Local) : nodePtr[p] # Null \/ (p = frame.page /\ Unnoded)

\* A block without a node is free: to delete one again leaves it on the free
\* list twice for good, and until then size_ is right.
HeapInv ==
  /\ \A b \in Blocks : Live(b) \/ avail[b] >= 1
  /\ HeapIntact => RingSizeExact

\* A page comes to the local tier, or waits for an eviction that has been
\* counted down: there is room for it.
Arriving ==
  \/ (scPc = "move" \/ BeforeCountUp) /\ frame.target = Local
  \/ Counting /\ Nested

LocalRoomInv ==
  /\ count[Local] <= Capacity[Local]
  /\ scPc = "evict" => Full(Local)
  /\ Arriving => count[Local] < Capacity[Local]

MirrorInv == NodesKept /\ HeapInv /\ LocalRoomInv /\ NoAssertFails

-----------------------------------------------------------------------------
(* Nodes and pages *)

\* There are no more nodes than there are pages they can be for.
LEMMA NodesInto ==
  ASSUME IInv, NEW S \in SUBSET Pages, \A b \in LiveBlocks : page_id[b] \in S
  PROVE  /\ IsFiniteSet(LiveBlocks) /\ Cardinality(LiveBlocks) \in Nat
         /\ Cardinality(LiveBlocks) <= Cardinality(S)
<1> DEFINE f == [b \in LiveBlocks |-> page_id[b]]
<1>1. \A b \in LiveBlocks : nodePtr[page_id[b]] = b
  BY DEF IInv, RingInv, NodesInv
<1>2. f \in Injection(LiveBlocks, S)
  BY <1>1 DEF Injection, IsInjective
<1>3. IsFiniteSet(S)
  BY Finite, FS_Subset
<1> QED BY <1>2, <1>3, FS_Injection, FS_CardinalityType

LEMMA FiniteNodes == IInv => IsFiniteSet(LiveBlocks) /\ Cardinality(LiveBlocks) \in Nat
<1> SUFFICES ASSUME IInv PROVE IsFiniteSet(LiveBlocks) /\ Cardinality(LiveBlocks) \in Nat
  OBVIOUS
<1>1. \A b \in LiveBlocks : page_id[b] \in Pages
  BY NodeOfPage DEF IInv
<1> QED BY <1>1, NodesInto

\* A pointer that is not null leads to the page's node, between migrations.
LEMMA PointerLeads ==
  ASSUME IInv, scPc # "enter", NEW p \in Pages, nodePtr[p] # Null
  PROVE  nodePtr[p] \in LiveBlocks /\ page_id[nodePtr[p]] = p
<1>1. Live(nodePtr[p]) /\ page_id[nodePtr[p]] = p
  BY DEF IInv, RingInv, PointersInv, EvictedAgain
<1>2. nodePtr[p] \in Blocks
  BY DEF IInv, TypeOK
<1> QED BY <1>1, <1>2 DEF LiveBlocks

\* If every local page has its node there are as many nodes as local pages.
LEMMA NodesMatchPages ==
  ASSUME IInv, scPc # "enter", \A p \in Resident(Local) : nodePtr[p] # Null
  PROVE  Cardinality(LiveBlocks) = Cardinality(Resident(Local))
<1> DEFINE g == [p \in Resident(Local) |-> nodePtr[p]]
<1>1. Resident(Local) \subseteq Pages /\ \A b \in LiveBlocks : page_id[b] \in Resident(Local)
  BY NodeOfPage DEF IInv, Resident
<1>2. Cardinality(LiveBlocks) <= Cardinality(Resident(Local))
  BY <1>1, NodesInto
<1>3. \A p \in Resident(Local) : nodePtr[p] \in LiveBlocks /\ page_id[nodePtr[p]] = p
  BY <1>1, PointerLeads
<1>4. g \in Injection(Resident(Local), LiveBlocks)
  BY <1>3 DEF Injection, IsInjective
<1>5. Cardinality(Resident(Local)) <= Cardinality(LiveBlocks)
  BY <1>4, FiniteNodes, FS_Injection
<1> QED BY <1>2, <1>5, FiniteNodes, Finite

-----------------------------------------------------------------------------
(* The heap *)

LEMMA InsertHeap ==
  ASSUME IInv, HeapInv, NEW p \in Pages, NEW b \in Blocks, Insert(p, b)
  PROVE  HeapInv'
<1>1. /\ LiveBlocks' = LiveBlocks \cup {b}
      /\ \A x \in Blocks : x # b => page_id'[x] = page_id[x]
      /\ page_id'[b] = p
  BY InsertLive DEF IInv, TypeOK
<1>2. /\ ~Live(b) /\ avail[b] \in Nat /\ ringSize \in Nat /\ ringSize' = ringSize + 1
      /\ avail'[b] = avail[b] - 1 /\ \A x \in Blocks : x # b => avail'[x] = avail[x]
  BY DEF Insert, IInv, TypeOK, RingTypeOK
<1>3. Live(b)' /\ \A x \in Blocks : x # b => (Live(x)' <=> Live(x))
  BY <1>1, LayerFacts DEF Live
<1>4. HeapIntact' => HeapIntact
  BY <1>2, <1>3 DEF HeapIntact
<1>5. Cardinality(LiveBlocks') = Cardinality(LiveBlocks) + 1
  BY <1>1, <1>2, FiniteNodes, FS_AddElement DEF LiveBlocks
<1>6. HeapIntact' => RingSizeExact'
  BY <1>2, <1>4, <1>5 DEF HeapInv, RingSizeExact
<1> QED BY <1>2, <1>3, <1>6 DEF HeapInv

LEMMA RemoveHeap ==
  ASSUME IInv, HeapInv, NEW b \in Blocks, Remove(b)
  PROVE  HeapInv'
<1>1. /\ LiveBlocks' = LiveBlocks \ {b}
      /\ \A x \in Blocks : x # b => page_id'[x] = page_id[x]
      /\ page_id'[b] = Null
  BY RemoveLive DEF IInv, TypeOK
<1>2. /\ avail[b] \in Nat /\ ringSize \in Nat
      /\ ringSize' = IF ringSize = 0 THEN SizeMax ELSE ringSize - 1
      /\ avail'[b] = avail[b] + 1 /\ \A x \in Blocks : x # b => avail'[x] = avail[x]
  BY DEF Remove, IInv, TypeOK, RingTypeOK
<1>3. ~Live(b)' /\ \A x \in Blocks : x # b => (Live(x)' <=> Live(x))
  BY <1>1 DEF Live
<1>4. \A x \in Blocks : Live(x)' \/ avail'[x] >= 1
  BY <1>2, <1>3 DEF HeapInv
<1>5. HeapIntact' => HeapIntact /\ Live(b)
  <2>1. HeapIntact' => avail[b] + 1 <= 1
    BY <1>2, <1>3 DEF HeapIntact
  <2>2. avail[b] + 1 <= 1 => avail[b] <= 0 /\ Live(b)
    BY <1>2 DEF HeapInv
  <2> QED BY <1>2, <1>3, <2>1, <2>2 DEF HeapIntact
<1>6. Live(b) => Cardinality(LiveBlocks') = Cardinality(LiveBlocks) - 1 /\ b \in LiveBlocks
  BY <1>1, FiniteNodes, FS_RemoveElement DEF LiveBlocks
<1>7. b \in LiveBlocks => Cardinality(LiveBlocks) # 0
  BY FiniteNodes, FS_EmptySet
<1>8. HeapIntact' => RingSizeExact'
  BY <1>2, <1>5, <1>6, <1>7, FiniteNodes DEF HeapInv, RingSizeExact
<1> QED BY <1>4, <1>8 DEF HeapInv

LEMMA SameHeap ==
  HeapInv /\ UNCHANGED <<page_id, avail, ringSize>> => HeapInv'
BY DEF HeapInv, HeapIntact, RingSizeExact, LiveBlocks, Live

\* The page of the frame, and its node.
LEMMA FrameFacts ==
  ASSUME IInv, Migrate
  PROVE  /\ frame.page \in Pages /\ frame.from \in Layers /\ frame.target \in Layers
         /\ frame.from # frame.target
         /\ nodePtr[frame.page] # Null => nodePtr[frame.page] \in Blocks
         /\ status = "running"
<1>1. /\ ~Scanning /\ status = "running"
  BY DEF Scanning, ScannerAt, Migrate, Unlink, CheckCapacity, SweepPast, Evict, Move, Link,
     TakeStamp, StoreStamp, ResetCount, CountDown, CountUp, CountRoute
<1>2. frame \in Frames /\ frame.from # frame.target
  BY <1>1 DEF IInv, FlowInv, FrameInv
<1> QED BY <1>1, <1>2 DEF Frames, IInv, TypeOK

LEMMA StepHeap == IInv /\ HeapInv /\ [Next]_vars => HeapInv'
<1> SUFFICES ASSUME IInv, HeapInv, [Next]_vars PROVE HeapInv'
  OBVIOUS
<1>1. CASE FillPage
  <2>1. filled \in Pages
    BY <1>1, ConstantFacts DEF FillPage, IInv, TypeOK
  <2>2. (\E b \in Blocks : Insert(filled, b)) \/ UNCHANGED ringVars
    BY <1>1 DEF FillPage
  <2> QED BY <2>1, <2>2, InsertHeap, SameHeap DEF ringVars
<1>2. CASE Unlink
  <2>1. UNCHANGED ringVars \/ (nodePtr[frame.page] # Null /\ Remove(nodePtr[frame.page]))
    BY <1>2 DEF Unlink
  <2>2. nodePtr[frame.page] # Null => nodePtr[frame.page] \in Blocks
    BY <1>2, FrameFacts DEF Migrate
  <2> QED BY <2>1, <2>2, RemoveHeap, SameHeap DEF ringVars
<1>3. CASE Evict
  <2>1. hand \in Blocks /\ Remove(hand)
    BY <1>3 DEF Evict, TakeVictim, IInv, TypeOK, RingTypeOK
  <2> QED BY <2>1, RemoveHeap
<1>4. CASE Link
  BY <1>4, FrameFacts, InsertHeap DEF Link, Migrate
<1>5. CASE ~(FillPage \/ Unlink \/ Evict \/ Link)
  <2>1. UNCHANGED <<page_id, avail, ringSize>>
    BY <1>5 DEF Next, Scanner, Classify, Migrate, Halt, Manager, Tick, ScanNext, LoadCount,
       ClassifyHot, ClassifyCold, Recheck, classifyFrame, CheckCapacity, SweepPast,
       PassReferenced, Move, TakeStamp, StoreStamp, ResetCount, CountDown, CountUp, CountRoute,
       AssertRemove, DoubleFree, AssertEmpty, AssertInsert, AliasNode, Stop, BeginAccess,
       Mark, MarkAccessed, ReadClock, StoreAccessTime, CountAccess, RecordAccess, ringVars,
       vars
  <2> QED BY <2>1, SameHeap
<1> QED BY <1>1, <1>2, <1>3, <1>4, <1>5

-----------------------------------------------------------------------------
(* Room *)

\* Between two migrations, and before a page is moved, the counts are exact.
LEMMA CountExact ==
  ASSUME IInv, ~BeforeCountUp, NEW l \in Layers
  PROVE  count[l] = Cardinality(Resident(l)) /\ count[l] \in Nat
<1>1. ~BeforeCountDown
  BY DEF BeforeCountUp
<1>2. count[l] + 0 = Cardinality(Resident(l)) + 0
  BY <1>1 DEF IInv, CountsMatchLayers
<1> QED BY <1>2, Finite DEF IInv, TypeOK

\* No page but the one that migrates can keep it out of the tiers below.
LEMMA NeverFull ==
  ASSUME RoomBelow, IInv, RouteInv, CheckCapacity, frame.target # Local
  PROVE  ~Full(frame.target)
<1> DEFINE t == frame.target
<1>1. /\ scPc = "capacity" /\ frame.page \in Pages /\ t \in Layers
      /\ frame.from # t /\ layer[frame.page] = frame.from
  BY FrameFacts DEF CheckCapacity, ScannerAt, Migrate, IInv, FlowInv, FrameInv, BeforeMove
<1>2. Capacity[t] >= NumPages
  BY <1>1 DEF RoomBelow, RouteInv, BeforeMove
<1>3. count[t] = Cardinality(Resident(t))
  BY <1>1, CountExact DEF BeforeCountUp, BeforeCountDown
<1>4. Resident(t) \subseteq Pages \ {frame.page}
  BY <1>1 DEF Resident
<1>5. IsFiniteSet(Pages) /\ Cardinality(Pages) = NumPages
  BY ConstantFacts, FS_Interval
<1>6. IsFiniteSet(Pages \ {frame.page}) /\ Cardinality(Pages \ {frame.page}) = NumPages - 1
  BY <1>1, <1>5, FS_RemoveElement
<1>7. Cardinality(Resident(t)) <= NumPages - 1
  BY <1>4, <1>6, FS_Subset
<1> QED BY <1>1, <1>2, <1>3, <1>7, Finite, ConstantFacts DEF Full

LEMMA StepLocalRoom ==
  ASSUME RoomBelow, PlacementInv, PlacementInv', LocalRoomInv, [Next]_vars
  PROVE  LocalRoomInv'
<1>1. /\ IInv /\ RouteInv /\ count \in [Layers -> Nat] /\ FrameInv
      /\ count' \in [Layers -> Nat] /\ Local \in Layers /\ Capacity[Local] \in Nat
  BY LayerFacts, ConstantFacts DEF PlacementInv, IInv, FlowInv, TypeOK
<1> USE <1>1
<1>2. CASE FillPage
  <2>1. scPc = "fill" /\ scPc' \in {"fill", "scan"}
        /\ layer' = [layer EXCEPT ![filled] = InitLayer[filled]]
    BY <1>2 DEF FillPage, ScannerAt
  <2>2. ~BeforeCountUp' /\ ~Arriving'
    BY <2>1 DEF BeforeCountUp, BeforeCountDown, Arriving, Counting
  <2>3. count'[Local] = Cardinality(Resident(Local)')
    <3>1. ~BeforeCountDown' /\ IInv'
      BY <2>2 DEF BeforeCountUp, PlacementInv
    <3>2. count'[Local] + 0 = Cardinality(Resident(Local)') + 0
      BY <2>2, <3>1 DEF IInv, CountsMatchLayers
    <3>3. Resident(Local)' \subseteq Pages
      BY DEF Resident
    <3> QED BY <3>2, <3>3, Finite, FS_Subset, FS_CardinalityType
  <2> DEFINE Placed == {p \in Pages : InitLayer[p] = Local}
  <2>4. Resident(Local)' \subseteq Placed
    BY <2>1, LayerFacts DEF PlacementInv, FirstLayer, IInv, TypeOK, Resident
  <2>5. Cardinality(Resident(Local)') <= Cardinality(Placed)
    BY <2>4, Finite, FS_Subset
  <2>6. Cardinality(Placed) <= Capacity[Local]
    BY PageTableAssumption DEF Load
  <2>7. Cardinality(Resident(Local)') \in Nat /\ Cardinality(Placed) \in Nat
    BY <2>4, Finite, FS_Subset, FS_CardinalityType
  <2> QED BY <2>1, <2>2, <2>3, <2>5, <2>6, <2>7 DEF LocalRoomInv
<1>3. CASE CheckCapacity
  <2>1. scPc = "capacity" /\ UNCHANGED count
    BY <1>3 DEF CheckCapacity, ScannerAt
  <2>2. CASE ~Full(frame.target)
    <3>1. scPc' = "move" /\ UNCHANGED frame
      BY <1>3, <2>2 DEF CheckCapacity
    <3>2. frame.target = Local => count[Local] < Capacity[Local]
      BY <2>2 DEF Full
    <3> QED BY <2>1, <3>1, <3>2 DEF LocalRoomInv, Arriving, Counting, BeforeCountUp, BeforeCountDown
  <2>3. CASE Full(frame.target)
    <3>1. frame.target = Local
      BY <1>3, <2>3, NeverFull
    <3>2. scPc' = "evict" /\ Full(Local)
      BY <1>3, <2>3, <3>1 DEF CheckCapacity, RoomBelow
    <3> QED BY <2>1, <3>2 DEF LocalRoomInv, Arriving, Counting, BeforeCountUp, BeforeCountDown, Full
  <2> QED BY <2>2, <2>3
<1>4. CASE CountDown
  <2>1. /\ scPc = "countDown" /\ scPc' = "countUp" /\ UNCHANGED <<frame, pending>>
        /\ count' = [count EXCEPT ![frame.from] = @ - 1]
    BY <1>4 DEF CountDown, ScannerAt
  <2>2. frame.from \in Layers /\ frame.from # frame.target
    BY <1>4, FrameFacts DEF Migrate
  <2>3. count'[Local] = IF frame.from = Local THEN count[Local] - 1 ELSE count[Local]
    BY <2>1, <2>2
  <2>4. Nested => frame.from = Local
    BY DEF FrameInv
  <2>5. frame.target = Local => count[Local] < Capacity[Local]
    BY <2>1 DEF LocalRoomInv, Arriving, Counting, BeforeCountUp, BeforeCountDown
  <2>6. count[Local] <= Capacity[Local] /\ count[Local] \in Nat /\ count'[Local] \in Nat
    BY DEF LocalRoomInv
  <2>7. count'[Local] <= Capacity[Local]
    BY <2>3, <2>6
  <2>8. Arriving' => count'[Local] < Capacity[Local]
    BY <2>1, <2>3, <2>4, <2>5, <2>6 DEF Arriving, Counting, Nested
  <2> QED BY <2>1, <2>7, <2>8 DEF LocalRoomInv
<1>5. CASE CountUp
  <2>1. /\ scPc = "countUp" /\ count' = [count EXCEPT ![frame.target] = @ + 1]
        /\ scPc' = "countRoute" /\ UNCHANGED <<frame, pending>>
    BY <1>5 DEF CountUp, ScannerAt
  <2>2. count'[Local] = IF frame.target = Local THEN count[Local] + 1 ELSE count[Local]
    BY <1>5, <2>1, FrameFacts DEF Migrate
  <2>3. frame.target = Local \/ Nested => count[Local] < Capacity[Local]
    BY <2>1 DEF LocalRoomInv, Arriving, Counting, BeforeCountUp
  <2>4. Nested => frame.target # Local
    BY DEF FrameInv
  <2>5. count[Local] <= Capacity[Local] /\ count[Local] \in Nat
    BY DEF LocalRoomInv
  <2>6. count'[Local] <= Capacity[Local]
    BY <2>2, <2>3, <2>5
  <2>7. Arriving' => count'[Local] < Capacity[Local]
    BY <2>1, <2>2, <2>3, <2>4 DEF Arriving, BeforeCountUp, BeforeCountDown, Nested
  <2> QED BY <2>1, <2>6, <2>7 DEF LocalRoomInv
<1>9. CASE CountRoute
  <2>1. /\ scPc = "countRoute" /\ UNCHANGED count
        /\ IF Nested THEN scPc' = "move" ELSE scPc' = "scan"
    BY <1>9 DEF CountRoute, ScannerAt, Return, Nested
  <2>2. Nested => count[Local] < Capacity[Local]
    BY <2>1 DEF LocalRoomInv, Arriving, Counting
  <2> QED BY <2>1, <2>2 DEF LocalRoomInv, Arriving, Counting, BeforeCountUp, BeforeCountDown
<1>6. CASE Classify \/ Unlink \/ Evict
  <2>1. UNCHANGED count /\ scPc' \in {"scan", "count", "hot", "cold", "recheck", "enter", "capacity"}
    BY <1>6 DEF Classify, ScanNext, LoadCount, ClassifyHot, ClassifyCold, Recheck, Dispatch,
       classifyFrame, Unlink, Evict
  <2> QED BY <2>1 DEF LocalRoomInv, Arriving, Counting, BeforeCountUp, BeforeCountDown
<1>7. CASE Move \/ Link \/ TakeStamp \/ StoreStamp \/ ResetCount
  <2>1. UNCHANGED <<count, frame, pending>>
    BY <1>7 DEF Move, Link, TakeStamp, StoreStamp, ResetCount
  <2>2. (scPc = "move" \/ BeforeCountDown) /\ BeforeCountDown'
    BY <1>7 DEF Move, Link, TakeStamp, StoreStamp, ResetCount, ScannerAt, BeforeCountDown
  <2> QED BY <2>1, <2>2 DEF LocalRoomInv, Arriving, Counting, BeforeCountUp, BeforeCountDown
<1>8. CASE SweepPast \/ Halt \/ Manager \/ Tick \/ UNCHANGED vars
  <2>1. UNCHANGED <<count, frame, pending, scPc>>
    BY <1>8 DEF SweepPast, Halt, AssertRemove, DoubleFree, AssertEmpty, AssertInsert, AliasNode,
       Stop, Manager, Tick, BeginAccess, Mark, ReadClock, StoreAccessTime, CountAccess,
       RecordAccess, accessFrame, scanVars, vars
  <2> QED BY <2>1 DEF LocalRoomInv, Arriving, Counting, BeforeCountUp, BeforeCountDown, Full, Nested
<1> QED BY <1>2, <1>3, <1>4, <1>5, <1>6, <1>7, <1>8, <1>9 DEF Next, Scanner, Migrate

-----------------------------------------------------------------------------
(* Nodes *)

LEMMA StepNodesKept ==
  ASSUME RoomBelow, IInv, RouteInv, NodesKept, [Next]_vars
  PROVE  NodesKept'
<1>1. TypeOK /\ FrameInv /\ UseRing /\ layer \in [Pages -> Layers \cup {Null}]
      /\ nodePtr \in [Pages -> Blocks \cup {Null}]
  BY DEF IInv, FlowInv, TypeOK, RoomBelow
<1> USE <1>1
<1>2. CASE FillPage
  <2>1. filled \in Pages
    BY <1>2, ConstantFacts DEF FillPage, TypeOK
  <2>2. /\ scPc = "fill" /\ layer' = [layer EXCEPT ![filled] = InitLayer[filled]]
        /\ \/ \E b \in Blocks : nodePtr' = [nodePtr EXCEPT ![filled] = b]
           \/ InitLayer[filled] # Local /\ UNCHANGED nodePtr
    BY <1>2 DEF FillPage, ScannerAt
  <2>3. \A p \in Resident(Local) : nodePtr[p] # Null
    BY <2>2 DEF NodesKept, Unnoded
  <2> QED BY <2>1, <2>2, <2>3, LayerFacts DEF NodesKept, Resident
<1>3. CASE Unlink
  <2>1. /\ scPc = "enter" /\ scPc' = "capacity" /\ UNCHANGED <<layer, frame>>
        /\ \A p \in Resident(Local) : nodePtr[p] # Null
    BY <1>3 DEF Unlink, ScannerAt, NodesKept, Unnoded
  <2>2. \/ UNCHANGED nodePtr
        \/ frame.from = Local /\ nodePtr' = [nodePtr EXCEPT ![frame.page] = Null]
    BY <1>3 DEF Unlink, LeavesRing
  <2> QED BY <2>1, <2>2 DEF NodesKept, Unnoded, Resident
<1>4. CASE CheckCapacity
  <2>1. scPc = "capacity" /\ UNCHANGED <<layer, nodePtr>>
    BY <1>4 DEF CheckCapacity, ScannerAt, metaVars
  <2>2. \/ scPc' = "move" /\ UNCHANGED frame
        \/ frame.target = Local
    BY <1>4, NeverFull DEF CheckCapacity
  <2>3. CASE scPc' = "move" /\ UNCHANGED frame
    BY <2>1, <2>3 DEF NodesKept, Unnoded, Resident
  <2>4. CASE frame.target = Local
    <3>1. frame.from # Local
      BY <1>4, <2>4, FrameFacts DEF Migrate
    <3>2. \A p \in Resident(Local) : nodePtr[p] # Null
      BY <2>1, <3>1 DEF NodesKept, Unnoded
    <3> QED BY <2>1, <3>2 DEF NodesKept, Resident
  <2> QED BY <2>2, <2>3, <2>4
<1>5. CASE Move
  <2>1. /\ scPc = "move" /\ scPc' \in {"link", "clock"} /\ UNCHANGED <<nodePtr, frame>>
        /\ frame.target = Local => scPc' = "link"
    BY <1>5 DEF Move, ScannerAt
  <2>2. /\ frame.page \in Pages /\ frame.from # frame.target
        /\ layer' = [layer EXCEPT ![frame.page] = frame.target]
        /\ layer[frame.page] = frame.from
    BY <1>5, MoveFacts
  <2>3. \A p \in Resident(Local)' : p # frame.page => nodePtr[p] # Null
    BY <2>2 DEF NodesKept, Resident
  <2>4. frame.page \in Resident(Local)' => scPc' = "link"
    BY <2>1, <2>2 DEF Resident
  <2> QED BY <2>1, <2>3, <2>4 DEF NodesKept, Unnoded
<1>6. CASE Link
  <2>1. /\ UNCHANGED layer
        /\ \E b \in Blocks : nodePtr' = [nodePtr EXCEPT ![frame.page] = b]
    BY <1>6 DEF Link
  <2> QED BY <2>1, LayerFacts DEF NodesKept, Resident
<1>7. CASE Classify \/ SweepPast \/ Evict \/ TakeStamp \/ StoreStamp \/ ResetCount
           \/ CountDown \/ CountUp \/ CountRoute
  <2>1. ~Unnoded
    BY <1>7 DEF Classify, ScanNext, LoadCount, ClassifyHot, ClassifyCold, Recheck, SweepPast,
       Evict, TakeStamp, StoreStamp, ResetCount, CountDown, CountUp, CountRoute, ScannerAt, Unnoded
  <2>2. UNCHANGED <<layer, nodePtr>>
    BY <1>7 DEF Classify, ScanNext, LoadCount, ClassifyHot, ClassifyCold, Recheck,
       classifyFrame, SweepPast, Evict, TakeStamp, StoreStamp, ResetCount, CountDown, CountUp, CountRoute,
       metaVars
  <2> QED BY <2>1, <2>2 DEF NodesKept, Resident
<1>8. CASE Halt \/ Manager \/ Tick \/ UNCHANGED vars
  <2>1. UNCHANGED <<layer, nodePtr, scPc, frame>>
    BY <1>8 DEF Halt, AssertRemove, DoubleFree, AssertEmpty, AssertInsert, AliasNode, Stop,
       Manager, Tick, BeginAccess, Mark, ReadClock, StoreAccessTime, CountAccess,
       RecordAccess, accessFrame, scanVars, metaVars, vars
  <2> QED BY <2>1 DEF NodesKept, Unnoded, Resident
<1> QED BY <1>2, <1>3, <1>4, <1>5, <1>6, <1>7, <1>8 DEF Next, Scanner, Migrate

-----------------------------------------------------------------------------
(* The assertions *)

\* remove() is called with the node of the page.
LEMMA RemoveHasNode == RoomBelow /\ IInv /\ NodesKept => ~AssertRemove
<1> SUFFICES ASSUME IInv, NodesKept, AssertRemove PROVE FALSE
  OBVIOUS
<1>1. scPc = "enter" /\ frame.from = Local /\ nodePtr[frame.page] = Null
  BY DEF AssertRemove, ScannerAt, LeavesRing
<1>2. frame \in Frames /\ layer[frame.page] = Local
  BY <1>1 DEF IInv, FlowInv, FrameInv, Scanning, BeforeMove
<1>3. frame.page \in Resident(Local)
  BY <1>2 DEF Frames, Resident
<1> QED BY <1>1, <1>3 DEF NodesKept, Unnoded

\* A full local tier has a page, and the page has a node for the hand to find.
LEMMA VictimFound == RoomBelow /\ IInv /\ NodesKept /\ LocalRoomInv => ~AssertEmpty
<1> SUFFICES ASSUME RoomBelow, IInv, NodesKept, LocalRoomInv, AssertEmpty PROVE FALSE
  OBVIOUS
<1>1. scPc = "evict" /\ hand = Null /\ count[Local] >= Capacity[Local]
  BY DEF AssertEmpty, ScannerAt, LocalRoomInv, Full
<1>2. count[Local] = Cardinality(Resident(Local)) /\ Cardinality(Resident(Local)) \in Nat
  BY <1>1, CountExact, Finite, LayerFacts DEF BeforeCountUp, BeforeCountDown
<1>3. Cardinality(Resident(Local)) # 0
  BY <1>1, <1>2, ConstantFacts, LayerFacts DEF RoomBelow
<1>4. Resident(Local) # {}
  BY <1>3, FS_EmptySet
<1>5. PICK p \in Resident(Local) : nodePtr[p] # Null
  BY <1>1, <1>4 DEF NodesKept, Unnoded
<1>6. nodePtr[p] \in LiveBlocks
  BY <1>1, <1>5, PointerLeads DEF Resident
<1> QED BY <1>1, <1>6 DEF IInv, RingInv, RingLinked

\* insert() finds room: the ring holds the other pages of the tier at most.
LEMMA InsertHasRoom ==
  RoomBelow /\ IInv /\ HeapInv /\ LocalRoomInv /\ HeapIntact => ~AssertInsert
<1> SUFFICES ASSUME RoomBelow, IInv, HeapInv, LocalRoomInv, HeapIntact, AssertInsert
             PROVE  FALSE
  OBVIOUS
<1> DEFINE Others == Resident(Local) \ {frame.page}
<1>1. scPc = "link" /\ ringSize >= Capacity[Local] /\ ringSize = Cardinality(LiveBlocks)
  BY DEF AssertInsert, ScannerAt, RingFull, RoomBelow, HeapInv, RingSizeExact
<1>2. /\ frame \in Frames /\ frame.target = Local /\ frame.from # Local
      /\ layer[frame.page] = Local
  BY <1>1 DEF IInv, FlowInv, FrameInv, Scanning, BeforeCountUp, BeforeCountDown
<1>3. frame.page \in Resident(Local)
  BY <1>2 DEF Frames, Resident
<1>4. count[Local] < Capacity[Local] /\ count[Local] \in Nat /\ Capacity[Local] \in Nat
  BY <1>1, <1>2, LayerFacts, ConstantFacts
     DEF LocalRoomInv, Arriving, BeforeCountUp, BeforeCountDown, IInv, TypeOK
<1>5. count[Local] + 1 = Cardinality(Resident(Local)) + 0
  BY <1>1, <1>2, LayerFacts DEF IInv, CountsMatchLayers, BeforeCountUp, BeforeCountDown
<1>6. Cardinality(Others) = Cardinality(Resident(Local)) - 1
  BY <1>3, Finite, FS_RemoveElement
<1>7. \A b \in LiveBlocks : page_id[b] \in Others
  BY <1>1, NodeOfPage DEF IInv, RingInv, NodesInv, Resident
<1>8. Cardinality(LiveBlocks) <= Cardinality(Others) /\ Cardinality(LiveBlocks) \in Nat
  BY <1>7, NodesInto DEF Resident
<1> QED BY <1>1, <1>4, <1>5, <1>6, <1>8, Finite

LEMMA StepAsserts ==
  ASSUME RoomBelow, IInv, MirrorInv, [Next]_vars
  PROVE  NoAssertFails'
<1>1. /\ status \notin {"assert_remove", "assert_empty"}
      /\ HeapIntact => status # "assert_insert"
  BY DEF MirrorInv, NoAssertFails
<1>2. CASE Halt
  <2>1. UNCHANGED <<page_id, avail>>
        /\ status' \in {"assert_remove", "double_free", "assert_empty", "assert_insert", "aliased"}
    BY <1>2 DEF Halt, AssertRemove, DoubleFree, AssertEmpty, AssertInsert, AliasNode, Stop, ringVars
  <2>2. ~AssertRemove /\ ~AssertEmpty /\ (HeapIntact => ~AssertInsert)
    BY RemoveHasNode, VictimFound, InsertHasRoom DEF MirrorInv
  <2>3. status' \notin {"assert_remove", "assert_empty"}
        /\ (status' = "assert_insert" => AssertInsert)
    BY <1>2, <2>2 DEF Halt, AssertRemove, DoubleFree, AssertEmpty, AssertInsert, AliasNode, Stop
  <2>4. HeapIntact' <=> HeapIntact
    BY <2>1 DEF HeapIntact, Live
  <2> QED BY <2>2, <2>3, <2>4 DEF NoAssertFails
<1>3. CASE UNCHANGED vars
  BY <1>1, <1>3 DEF vars, ringVars, NoAssertFails, HeapIntact, Live
<1>4. CASE Next /\ ~Halt
  <2>1. status' = "running"
    BY <1>4 DEF Next, Scanner, Classify, Migrate, Manager, FillPage, Tick, ScanNext, LoadCount,
       ClassifyHot, ClassifyCold, Recheck, classifyFrame, Unlink, CheckCapacity, SweepPast,
       Evict, Move, Link, TakeStamp, StoreStamp, ResetCount, CountDown, CountUp, CountRoute, migrateFrame,
       BeginAccess, Mark, ReadClock, StoreAccessTime, CountAccess, RecordAccess, accessFrame,
       scannerFrame, ScannerAt, ManagerAt
  <2> QED BY <2>1 DEF NoAssertFails
<1> QED BY <1>2, <1>3, <1>4

-----------------------------------------------------------------------------
(* The invariant *)

LEMMA InitMirror == Init => MirrorInv
<1> SUFFICES ASSUME Init PROVE MirrorInv
  OBVIOUS
<1> USE DEF Init, RingInit
<1>1. LiveBlocks = {} /\ Resident(Local) = {}
  BY LayerFacts DEF LiveBlocks, Live, Resident
<1>2. NodesKept
  BY <1>1 DEF NodesKept
<1>3. HeapInv
  BY <1>1, FS_EmptySet DEF HeapInv, RingSizeExact
<1>4. LocalRoomInv
  BY LayerFacts, ConstantFacts DEF LocalRoomInv, Arriving, Counting, BeforeCountUp, BeforeCountDown
<1>5. NoAssertFails
  BY DEF NoAssertFails
<1> QED BY <1>2, <1>3, <1>4, <1>5 DEF MirrorInv

LEMMA StepMirror ==
  PlacementInv /\ PlacementInv' /\ (RoomBelow => MirrorInv) /\ [Next]_vars
    => (RoomBelow => MirrorInv')
BY StepNodesKept, StepHeap, StepLocalRoom, StepAsserts DEF PlacementInv, MirrorInv

LEMMA MirrorInvariance == Spec => [](RoomBelow => MirrorInv)
<1>1. Init => (RoomBelow => MirrorInv)
  BY InitMirror
<1>2. PlacementInv /\ PlacementInv' /\ (RoomBelow => MirrorInv) /\ [Next]_vars
        => (RoomBelow => MirrorInv)'
  BY StepMirror DEF RoomBelow
<1> QED BY <1>1, <1>2, PlacementInvariance, PTL DEF Spec

\* Where the tiers below have room and the ring is as large as the local tier, a
\* page that leaves the tier has a node, a full tier has a victim, and until a
\* node is deleted twice a page that comes finds room in the ring
\* (PageTable.cpp:210-260, ClockRing.cpp:16, 38, 60).
THEOREM AssertionsHold == Spec => []NoAssertFails
<1>1. (RoomBelow => MirrorInv) => NoAssertFails
  BY DEF MirrorInv, NoAssertFails
<1> QED BY <1>1, MirrorInvariance, PTL

\* There, the ring is a picture of the local tier between two migrations, also
\* after evictions (PageTable.cpp:210-260).
THEOREM RingIsPicture == Spec => []RingMirrorsLocal
<1>1. IInv /\ (RoomBelow => MirrorInv) => RingMirrorsLocal
  <2> SUFFICES ASSUME IInv, MirrorInv, scPc \in {"scan", "count", "hot", "cold", "recheck"}
               PROVE  /\ \A p \in Resident(Local) :
                           nodePtr[p] # Null /\ Live(nodePtr[p]) /\ page_id[nodePtr[p]] = p
                      /\ Cardinality(LiveBlocks) = Cardinality(Resident(Local))
                      /\ HeapIntact => RingSizeExact
    BY DEF RingMirrorsLocal
  <2>1. \A p \in Resident(Local) : nodePtr[p] # Null /\ p \in Pages
    BY DEF MirrorInv, NodesKept, Unnoded, Resident
  <2>2. \A p \in Resident(Local) : Live(nodePtr[p]) /\ page_id[nodePtr[p]] = p
    BY <2>1, PointerLeads DEF LiveBlocks
  <2>3. Cardinality(LiveBlocks) = Cardinality(Resident(Local))
    BY <2>1, NodesMatchPages
  <2>4. HeapIntact => RingSizeExact
    BY DEF MirrorInv, HeapInv
  <2> QED BY <2>1, <2>2, <2>3, <2>4
<1> QED BY <1>1, Invariance, MirrorInvariance, PTL

-----------------------------------------------------------------------------
(* Sequences, place by place *)

LEMMA AppendIs ==
  ASSUME NEW S, NEW s \in Seq(S), NEW e \in S
  PROVE  Append(s, e) = [k \in 1 .. Len(s) + 1 |-> IF k = Len(s) + 1 THEN e ELSE s[k]]
<1> DEFINE n == Len(s)
           t == [k \in 1 .. n + 1 |-> IF k = n + 1 THEN e ELSE s[k]]
<1>1. n \in Nat /\ \A k \in 1 .. n : s[k] \in S
  OBVIOUS
<1>2. Append(s, e) \in Seq(S) /\ Len(Append(s, e)) = n + 1
      /\ \A k \in 1 .. n : Append(s, e)[k] = s[k]
      /\ Append(s, e)[n + 1] = e
  BY AppendProperties
<1>3. \A k \in 1 .. n + 1 : t[k] = Append(s, e)[k]
  BY <1>1, <1>2
<1>4. t \in Seq(S) /\ Len(t) = n + 1
  BY <1>1
<1> HIDE DEF n, t
<1>5. t = Append(s, e)
  BY <1>1, <1>2, <1>3, <1>4, SeqEqual
<1> QED BY <1>5 DEF n, t

LEMMA RemoveAtIs ==
  ASSUME NEW S, NEW s \in Seq(S), NEW i \in 1 .. Len(s)
  PROVE  Chance!RemoveAt(s, i) = [k \in 1 .. Len(s) - 1 |-> IF k < i THEN s[k] ELSE s[k + 1]]
<1> DEFINE n == Len(s)
           a == SubSeq(s, 1, i - 1)
           b == SubSeq(s, i + 1, n)
           t == [k \in 1 .. n - 1 |-> IF k < i THEN s[k] ELSE s[k + 1]]
<1>0. n \in Nat /\ \A k \in 1 .. n : s[k] \in S
  OBVIOUS
<1>1. a \in Seq(S) /\ Len(a) = i - 1 /\ \A k \in 1 .. i - 1 : a[k] = s[k]
  BY SubSeqProperties
<1>2. b \in Seq(S) /\ Len(b) = n - i /\ \A k \in 1 .. n - i : b[k] = s[k + i]
  <2>1. \A k \in (i + 1) .. n : s[k] \in S
    OBVIOUS
  <2>2. b \in Seq(S) /\ Len(b) = n - i /\ \A k \in 1 .. n - i : b[k] = s[i + 1 + k - 1]
    BY SubSeqProperties
  <2> QED BY <2>2
<1> HIDE DEF a, b
<1>3. a \o b \in Seq(S) /\ Len(a \o b) = n - 1
      /\ \A k \in 1 .. n - 1 : (a \o b)[k] = IF k <= i - 1 THEN a[k] ELSE b[k - (i - 1)]
  <2>1. a \o b \in Seq(S) /\ Len(a \o b) = Len(a) + Len(b)
        /\ \A k \in 1 .. Len(a) + Len(b) :
             (a \o b)[k] = IF k <= Len(a) THEN a[k] ELSE b[k - Len(a)]
    BY <1>1, <1>2, ConcatProperties
  <2>2. Len(a) = i - 1 /\ Len(b) = n - i /\ (i - 1) + (n - i) = n - 1
    BY <1>0, <1>1, <1>2
  <2> HIDE DEF n
  <2> QED BY <2>1, <2>2
<1>4. \A k \in 1 .. n - 1 : t[k] = (a \o b)[k]
  <2> TAKE k \in 1 .. n - 1
  <2>1. CASE k < i
    BY <1>0, <1>1, <1>3, <2>1
  <2>2. CASE ~(k < i)
    <3>1. k - (i - 1) \in 1 .. n - i /\ (k - (i - 1)) + i = k + 1
      BY <1>0, <2>2
    <3>2. b[k - (i - 1)] = s[k + 1]
      BY <1>2, <3>1
    <3> QED BY <1>0, <1>3, <2>2, <3>2
  <2> QED BY <2>1, <2>2
<1>5. t \in Seq(S) /\ Len(t) = n - 1
  BY <1>0
<1> HIDE DEF t, n
<1>6. t = a \o b
  BY <1>0, <1>3, <1>4, <1>5, SeqEqual
<1> QED BY <1>6 DEF a, b, t, n, Chance!RemoveAt

LEMMA TurnIs ==
  ASSUME NEW S, NEW s \in Seq(S), s # <<>>
  PROVE  Append(Tail(s), Head(s)) = [k \in 1 .. Len(s) |-> IF k = Len(s) THEN s[1] ELSE s[k + 1]]
<1> DEFINE n == Len(s)
<1>1. n \in Nat \ {0} /\ n - 1 \in Nat /\ (n - 1) + 1 = n
  BY EmptySeq
<1>2. /\ Head(s) \in S /\ Head(s) = s[1]
      /\ Tail(s) \in Seq(S) /\ Len(Tail(s)) = n - 1
      /\ \A k \in 1 .. n - 1 : Tail(s)[k] = s[k + 1]
  BY HeadTailProperties
<1> HIDE DEF n
<1>3. Append(Tail(s), Head(s))
        = [k \in 1 .. (n - 1) + 1 |-> IF k = (n - 1) + 1 THEN Head(s) ELSE Tail(s)[k]]
  <2> DEFINE t == Tail(s)
  <2>1. t \in Seq(S) /\ Len(t) = n - 1 /\ Head(s) \in S
    BY <1>2
  <2> HIDE DEF t
  <2>2. Append(t, Head(s)) = [k \in 1 .. (n - 1) + 1 |-> IF k = (n - 1) + 1 THEN Head(s) ELSE t[k]]
    BY <2>1, AppendIs
  <2> QED BY <2>2 DEF t
<1>4. \A k \in 1 .. n : (IF k = n THEN Head(s) ELSE Tail(s)[k]) = IF k = n THEN s[1] ELSE s[k + 1]
  BY <1>1, <1>2
<1> QED BY <1>1, <1>3, <1>4 DEF n

LEMMA RemoveFirst ==
  ASSUME NEW S, NEW s \in Seq(S), s # <<>>
  PROVE  Chance!RemoveAt(s, 1) = Tail(s)
<1>1. Tail(s) = SubSeq(s, 2, Len(s)) /\ Tail(s) \in Seq(S)
  BY TailIsSubSeq, HeadTailProperties
<1>2. SubSeq(s, 1, 0) = <<>>
  BY SubSeqEmpty
<1> QED BY <1>1, <1>2, ConcatEmptySeq DEF Chance!RemoveAt

-----------------------------------------------------------------------------
(* The queue of the ring *)

Nodes == Cardinality(LiveBlocks)

\* The walk of RingQueue is one, before and after a step.
LEMMA WalkNow == ASSUME IInv, hand # Null PROVE Walks(Walk, hand, next, LiveBlocks)
<1>1. hand \in LiveBlocks /\ \A x \in LiveBlocks : next[x] \in LiveBlocks
  BY DEF IInv, RingInv, RingLinked
<1> QED BY <1>1, WalkGoes DEF Walk

LEMMA WalkNext == ASSUME IInv', hand' # Null PROVE Walks(Walk', hand', next', LiveBlocks')
<1>1. hand' \in LiveBlocks' /\ \A x \in LiveBlocks' : next'[x] \in LiveBlocks'
  BY DEF IInv, RingInv, RingLinked
<1> QED BY <1>1, WalkGoes DEF Walk

\* Once round the ring.
LEMMA RoundTrip ==
  ASSUME IInv, hand # Null
  PROVE  /\ Nodes \in Nat \ {0}
         /\ \A k \in Nat : Walk[k] \in LiveBlocks /\ Walk[k + 1] = next[Walk[k]]
         /\ Walk[0] = hand /\ Walk[Nodes] = hand
         /\ \A i, j \in 0 .. Nodes - 1 : Walk[i] = Walk[j] => i = j
         /\ \A x \in LiveBlocks : \E k \in 0 .. Nodes - 1 : Walk[k] = x
<1>1. \A x \in LiveBlocks : next[x] \in LiveBlocks /\ prev[next[x]] = x
  BY DEF IInv, RingInv, RingLinked
<1>2. \A S \in SUBSET LiveBlocks : S # {} /\ (\A x \in S : next[x] \in S) => S = LiveBlocks
  BY DEF IInv, RingInv, RingConnected
<1>3. Walks(Walk, hand, next, LiveBlocks) /\ IsFiniteSet(LiveBlocks)
  BY WalkNow, FiniteNodes
<1>4. /\ Nodes \in Nat \ {0} /\ Walk[Nodes] = hand
      /\ \A i, j \in 0 .. Nodes - 1 : Walk[i] = Walk[j] => i = j
      /\ \A x \in LiveBlocks : \E k \in 0 .. Nodes - 1 : Walk[k] = x
  BY <1>1, <1>2, <1>3, Lap DEF Nodes
<1> QED BY <1>3, <1>4 DEF Walks

\* The node before one is the one that the walk met before it.
LEMMA NodeBefore ==
  ASSUME IInv, hand # Null, NEW k \in Nat
  PROVE  prev[Walk[k + 1]] = Walk[k]
BY RoundTrip DEF IInv, RingInv, RingLinked

\* A list from the hand on, along next, gives the queue after a step.
LEMMA QueueNext ==
  ASSUME IInv', hand' # Null, NEW n \in Nat, NEW v, Along(v, hand', next', n)
  PROVE  n = Nodes' => Queue' = [k \in 1 .. n |-> page_id'[v[k - 1]]]
<1>1. Walks(Walk', hand', next', LiveBlocks')
  BY WalkNext
<1>2. \A k \in 0 .. n - 1 : Walk'[k] = v[k]
  BY <1>1, SameWalk
<1>3. ASSUME NEW k \in 1 .. n PROVE Walk'[k - 1] = v[k - 1]
  <2>1. k - 1 \in 0 .. n - 1
    OBVIOUS
  <2> QED BY <1>2, <2>1
<1> QED BY <1>3 DEF Queue, Nodes

LEMMA EmptyQueue == ASSUME IInv, hand = Null PROVE Nodes = 0 /\ Queue = <<>>
<1>1. LiveBlocks = {}
  BY DEF IInv, RingInv, RingLinked
<1>2. Nodes = 0
  BY <1>1, FS_EmptySet DEF Nodes
<1> QED BY <1>2 DEF Queue, Nodes

LEMMA EmptyQueueNext == ASSUME LiveBlocks' = {} PROVE Nodes' = 0 /\ Queue' = <<>>
<1>1. Nodes' = 0
  BY FS_EmptySet DEF Nodes
<1> QED BY <1>1 DEF Queue, Nodes

\* The queue has the pages of the nodes, each once.
LEMMA QueueHas ==
  ASSUME IInv
  PROVE  /\ Nodes \in Nat /\ Queue \in Seq(Pages) /\ Len(Queue) = Nodes
         /\ \A k \in 1 .. Nodes : Queue[k] = page_id[Walk[k - 1]]
         /\ Chance!Queued = {page_id[b] : b \in LiveBlocks}
<1>1. CASE hand = Null
  <2>1. Nodes = 0 /\ Queue = <<>> /\ LiveBlocks = {}
    BY <1>1, EmptyQueue DEF IInv, RingInv, RingLinked
  <2> QED BY <2>1 DEF Chance!Queued, Chance!ToSet
<1>2. CASE hand # Null
  <2>1. /\ Nodes \in Nat
        /\ \A k \in 1 .. Nodes : Walk[k - 1] \in LiveBlocks
        /\ \A x \in LiveBlocks : \E k \in 1 .. Nodes : Walk[k - 1] = x
    <3>1. \A x \in LiveBlocks : \E k \in 0 .. Nodes - 1 : Walk[k] = x /\ k + 1 \in 1 .. Nodes
      BY <1>2, RoundTrip
    <3>2. \A x \in LiveBlocks : \E k \in 1 .. Nodes : Walk[k - 1] = x
      <4> TAKE x \in LiveBlocks
      <4>1. PICK k \in 0 .. Nodes - 1 : Walk[k] = x /\ k + 1 \in 1 .. Nodes
        BY <3>1
      <4>2. (k + 1) - 1 = k
        OBVIOUS
      <4> QED BY <4>1, <4>2
    <3> QED BY <1>2, <3>2, RoundTrip
  <2>2. \A k \in 1 .. Nodes : page_id[Walk[k - 1]] \in Pages
    BY <2>1, NodeOfPage DEF IInv
  <2>3. Queue = [k \in 1 .. Nodes |-> page_id[Walk[k - 1]]]
    BY DEF Queue, Nodes
  <2>4. Queue \in Seq(Pages) /\ Len(Queue) = Nodes
    BY <2>1, <2>2, <2>3
  <2>5. DOMAIN Queue = 1 .. Nodes
    BY <2>3
  <2>6. Chance!Queued = {Queue[k] : k \in 1 .. Nodes}
    BY <2>5 DEF Chance!Queued, Chance!ToSet
  <2> QED BY <2>1, <2>3, <2>4, <2>6
<1> QED BY <1>1, <1>2

\* insert(): the new page is the last.
LEMMA InsertQueue ==
  ASSUME IInv, IInv', NEW p \in Pages, NEW b \in Blocks, Insert(p, b)
  PROVE  Queue' = Append(Queue, p)
<1>1. /\ LiveBlocks' = LiveBlocks \cup {b} /\ b \notin LiveBlocks
      /\ \A x \in LiveBlocks : page_id'[x] = page_id[x]
      /\ page_id'[b] = p /\ hand' # Null
  <2>1. /\ LiveBlocks' = LiveBlocks \cup {b} /\ page_id'[b] = p
        /\ \A x \in Blocks : x # b => page_id'[x] = page_id[x]
    BY InsertLive DEF IInv, TypeOK
  <2>2. b \notin LiveBlocks /\ LiveBlocks \subseteq Blocks
    BY DEF Insert, LiveBlocks
  <2>3. hand' # Null
    BY LayerFacts DEF Insert
  <2> QED BY <2>1, <2>2, <2>3
<1>2. Nodes' = Nodes + 1 /\ Nodes \in Nat
  BY <1>1, FiniteNodes, FS_AddElement DEF Nodes
<1>3. CASE hand = Null
  <2>1. Nodes = 0 /\ Queue = <<>> /\ hand' = b
    BY <1>3, EmptyQueue DEF Insert
  <2> DEFINE v == [k \in 0 .. 0 |-> b]
  <2>2. Nodes' = 1 /\ v[0] = b
    BY <1>2, <2>1
  <2> HIDE DEF v
  <2>3. Along(v, hand', next', 1)
    BY <2>1, <2>2 DEF Along
  <2>4. Queue' = [k \in 1 .. 1 |-> page_id'[v[k - 1]]]
    BY <1>1, <2>2, <2>3, QueueNext
  <2>5. \A k \in 1 .. 1 : page_id'[v[k - 1]] = p
    BY <1>1, <2>2
  <2>6. Queue' = [k \in 1 .. 1 |-> p]
    BY <2>4, <2>5
  <2> QED BY <2>1, <2>6
<1>4. CASE hand # Null
  <2> DEFINE n == Nodes
             v == [k \in 0 .. n |-> IF k = n THEN b ELSE Walk[k]]
  <2>1. /\ n \in Nat \ {0} /\ n - 1 \in Nat /\ (n - 1) + 1 = n
        /\ \A k \in Nat : Walk[k] \in LiveBlocks /\ Walk[k + 1] = next[Walk[k]]
        /\ Walk[0] = hand /\ Walk[n] = hand
        /\ \A i, j \in 0 .. n - 1 : Walk[i] = Walk[j] => i = j
    BY <1>4, RoundTrip
  <2>2. prev[hand] = Walk[n - 1]
    BY <1>4, <2>1, NodeBefore
  <2>3. /\ hand' = hand /\ next'[prev[hand]] = b
        /\ \A x \in LiveBlocks : x # prev[hand] => next'[x] = next[x]
    <3>1. next' = [next EXCEPT ![b] = hand, ![prev[hand]] = b] /\ hand' = hand
      BY <1>4 DEF Insert
    <3>2. next \in [Blocks -> Blocks \cup {Null}] /\ prev[hand] \in Blocks /\ LiveBlocks \subseteq Blocks
      BY <2>1, <2>2 DEF IInv, TypeOK, RingTypeOK, LiveBlocks
    <3> QED BY <1>1, <3>1, <3>2
  <2>4. v[n] = b /\ \A k \in 0 .. n - 1 : v[k] = Walk[k]
    BY <2>1
  <2> HIDE DEF v, n
  <2>5. v[0] = hand'
    BY <2>1, <2>3, <2>4
  <2>6. ASSUME NEW k \in 0 .. n PROVE k + 1 < n + 1 => v[k + 1] = next'[v[k]]
    <3> SUFFICES ASSUME k + 1 < n + 1 PROVE v[k + 1] = next'[v[k]]
      OBVIOUS
    <3>1. k \in 0 .. n - 1 /\ k \in Nat
      BY <2>1
    <3>2. v[k] = Walk[k] /\ Walk[k] \in LiveBlocks
      BY <2>1, <2>4, <3>1
    <3>3. CASE k = n - 1
      <4>1. k + 1 = n
        BY <2>1, <3>3
      <4> QED BY <2>2, <2>3, <2>4, <3>2, <3>3, <4>1
    <3>4. CASE k # n - 1
      <4>1. k + 1 \in 0 .. n - 1 /\ n - 1 \in 0 .. n - 1
        BY <2>1, <3>1, <3>4
      <4>2. v[k + 1] = Walk[k + 1] /\ Walk[k + 1] = next[Walk[k]]
        BY <2>1, <2>4, <3>1, <4>1
      <4>3. Walk[k] # prev[hand]
        BY <2>1, <2>2, <3>1, <3>4, <4>1
      <4> QED BY <2>3, <3>2, <4>2, <4>3
    <3> QED BY <3>3, <3>4
  <2>7. Along(v, hand', next', n + 1)
    <3>1. (n + 1) - 1 = n
      BY <2>1
    <3> QED BY <2>5, <2>6, <3>1 DEF Along
  <2>8. Queue' = [k \in 1 .. n + 1 |-> page_id'[v[k - 1]]]
    <3>1. n + 1 \in Nat /\ n + 1 = Nodes'
      BY <1>2, <2>1 DEF n
    <3> QED BY <1>1, <2>7, <3>1, QueueNext
  <2>9. Queue \in Seq(Pages) /\ Len(Queue) = n /\ \A k \in 1 .. n : Queue[k] = page_id[Walk[k - 1]]
    BY QueueHas DEF n
  <2>10. \A k \in 1 .. n + 1 : page_id'[v[k - 1]] = IF k = n + 1 THEN p ELSE Queue[k]
    <3> TAKE k \in 1 .. n + 1
    <3>1. CASE k = n + 1
      <4>1. k - 1 = n
        BY <2>1, <3>1
      <4> QED BY <1>1, <2>4, <3>1, <4>1
    <3>2. CASE k # n + 1
      <4>1. k \in 1 .. n /\ k - 1 \in 0 .. n - 1 /\ k - 1 \in Nat
        BY <2>1, <3>2
      <4>2. v[k - 1] = Walk[k - 1] /\ Walk[k - 1] \in LiveBlocks
        BY <2>1, <2>4, <4>1
      <4> QED BY <1>1, <2>9, <3>2, <4>1, <4>2
    <3> QED BY <3>1, <3>2
  <2>11. Append(Queue, p) = [k \in 1 .. n + 1 |-> IF k = n + 1 THEN p ELSE Queue[k]]
    BY <2>9, AppendIs
  <2> QED BY <2>8, <2>10, <2>11
<1> QED BY <1>3, <1>4

\* remove() of a node: its page leaves the queue.
LEMMA RemoveQueue ==
  ASSUME IInv, IInv', NEW j \in 0 .. Nodes - 1, Remove(Walk[j]), hand # Null
  PROVE  Queue' = Chance!RemoveAt(Queue, j + 1)
<1> DEFINE n == Nodes
           b == Walk[j]
           v == [k \in 0 .. n |-> IF k < j THEN Walk[k] ELSE Walk[k + 1]]
<1>1. /\ n \in Nat \ {0} /\ n - 1 \in Nat /\ (n - 1) + 1 = n
      /\ \A k \in Nat : Walk[k] \in LiveBlocks /\ Walk[k + 1] = next[Walk[k]]
      /\ Walk[0] = hand /\ Walk[n] = hand
      /\ \A i, k \in 0 .. n - 1 : Walk[i] = Walk[k] => i = k
  BY RoundTrip
<1>2. b \in LiveBlocks /\ b \in Blocks /\ b # Null /\ j \in Nat
  BY <1>1, LayerFacts DEF LiveBlocks
<1>3. /\ LiveBlocks' = LiveBlocks \ {b}
      /\ \A x \in LiveBlocks : x # b => page_id'[x] = page_id[x]
  BY <1>2, RemoveLive DEF IInv, TypeOK, LiveBlocks
<1>4. Nodes' = n - 1
  BY <1>2, <1>3, FiniteNodes, FS_RemoveElement DEF Nodes
<1>5. Queue \in Seq(Pages) /\ Len(Queue) = n /\ \A k \in 1 .. n : Queue[k] = page_id[Walk[k - 1]]
  BY QueueHas
<1>6. Chance!RemoveAt(Queue, j + 1)
        = [k \in 1 .. n - 1 |-> IF k < j + 1 THEN Queue[k] ELSE Queue[k + 1]]
  <2>1. j + 1 \in 1 .. Len(Queue)
    BY <1>1, <1>5
  <2> QED BY <1>5, <2>1, RemoveAtIs
<1>7. CASE n = 1
  <2>1. next[b] = b
    <3>1. j = 0 /\ Walk[0 + 1] = next[Walk[0]]
      BY <1>1, <1>7
    <3> QED BY <1>1, <1>7, <3>1
  <2>2. LiveBlocks = {b}
    BY <1>2, <2>1, LastNode DEF IInv, RingInv
  <2>3. Queue' = <<>>
    BY <1>3, <2>2, EmptyQueueNext
  <2> QED BY <1>6, <1>7, <2>3
<1>8. CASE n # 1
  <2>1. Walk[j + 1] = next[b] /\ Walk[j + 1] \in LiveBlocks /\ next[b] # b
    <3>1. Walk[j + 1] = next[b] /\ Walk[j + 1] \in LiveBlocks
      BY <1>1, <1>2
    <3>2. CASE j = n - 1
      <4>1. next[b] = Walk[0]
        BY <1>1, <3>1, <3>2
      <4> QED BY <1>1, <1>8, <3>1, <3>2, <4>1
    <3>3. CASE j # n - 1
      <4>1. j + 1 \in 0 .. n - 1
        BY <1>1, <3>3
      <4> QED BY <1>1, <3>1, <4>1
    <3> QED BY <3>1, <3>2, <3>3
  <2>2. /\ next'[prev[b]] = next[b]
        /\ \A x \in LiveBlocks : x # prev[b] => next'[x] = next[x]
        /\ hand' = IF hand = b THEN next[b] ELSE hand
    BY <1>2, <2>1, RemoveSplices DEF IInv, TypeOK, RingInv
  <2>3. prev[b] = IF j = 0 THEN Walk[n - 1] ELSE Walk[j - 1]
    <3>1. CASE j = 0
      <4>1. prev[Walk[(n - 1) + 1]] = Walk[n - 1]
        BY <1>1, NodeBefore
      <4> QED BY <1>1, <3>1, <4>1
    <3>2. CASE j # 0
      <4>1. j - 1 \in Nat /\ (j - 1) + 1 = j
        BY <1>2, <3>2
      <4>2. prev[Walk[(j - 1) + 1]] = Walk[j - 1]
        BY <4>1, NodeBefore
      <4> QED BY <3>2, <4>1, <4>2
    <3> QED BY <3>1, <3>2
  <2>4. \A k \in 0 .. n - 1 : v[k] = IF k < j THEN Walk[k] ELSE Walk[k + 1]
    BY <1>1
  <2> HIDE DEF v
  <2>5. v[0] = hand'
    <3>1. v[0] = IF j = 0 THEN Walk[0 + 1] ELSE Walk[0]
      <4>1. 0 \in 0 .. n - 1 /\ (0 < j <=> j # 0)
        BY <1>1, <1>2
      <4> QED BY <2>4, <4>1
    <3>2. CASE j = 0
      BY <1>1, <2>1, <2>2, <3>1, <3>2
    <3>3. CASE j # 0
      <4>1. 0 \in 0 .. n - 1 /\ b # hand
        BY <1>1, <3>3
      <4> QED BY <1>1, <2>2, <3>1, <3>3, <4>1
    <3> QED BY <3>2, <3>3
  <2>6. hand' # Null
    BY <1>1, <2>1, <2>2, LayerFacts DEF LiveBlocks
  <2>7. ASSUME NEW k \in 0 .. n - 2, k + 1 < n - 1 PROVE v[k + 1] = next'[v[k]]
    <3>1. /\ k \in Nat /\ k + 1 \in Nat /\ k \in 0 .. n - 1 /\ k + 1 \in 0 .. n - 1
          /\ k + 2 \in 0 .. n - 1 /\ (k + 1) + 1 = k + 2
      BY <1>1, <2>7
    <3>2. /\ Walk[k + 1] = next[Walk[k]] /\ Walk[k + 2] = next[Walk[k + 1]]
          /\ Walk[k] \in LiveBlocks /\ Walk[k + 1] \in LiveBlocks
      BY <1>1, <3>1
    <3>3. /\ v[k] = IF k < j THEN Walk[k] ELSE Walk[k + 1]
          /\ v[k + 1] = IF k + 1 < j THEN Walk[k + 1] ELSE Walk[k + 2]
      BY <2>4, <3>1
    <3>4. CASE k + 1 < j
      <4>1. k < j /\ j # 0 /\ j - 1 \in 0 .. n - 1 /\ k # j - 1
        BY <1>1, <3>1, <3>4
      <4>2. Walk[k] # prev[b]
        BY <1>1, <2>3, <3>1, <4>1
      <4> QED BY <2>2, <3>2, <3>3, <3>4, <4>1, <4>2
    <3>5. CASE k + 1 = j
      <4>1. k < j /\ j # 0 /\ k = j - 1 /\ ~(k + 1 < j)
        BY <1>1, <3>1, <3>5
      <4>2. v[k] = prev[b] /\ v[k + 1] = next[b]
        BY <2>3, <3>2, <3>3, <3>5, <4>1
      <4> QED BY <2>2, <4>2
    <3>6. CASE k + 1 > j
      <4>1. ~(k < j) /\ ~(k + 1 < j)
        BY <1>2, <3>1, <3>6
      <4>2. Walk[k + 1] # prev[b]
        <5>1. CASE j = 0
          <6>1. k + 1 # n - 1 /\ n - 1 \in 0 .. n - 1
            BY <1>1, <2>7, <3>1
          <6> QED BY <1>1, <2>3, <3>1, <5>1, <6>1
        <5>2. CASE j # 0
          <6>1. j - 1 \in 0 .. n - 1 /\ k + 1 # j - 1
            BY <1>1, <3>1, <3>6, <5>2
          <6> QED BY <1>1, <2>3, <3>1, <5>2, <6>1
        <5> QED BY <5>1, <5>2
      <4> QED BY <2>2, <3>2, <3>3, <4>1, <4>2
    <3>7. k + 1 < j \/ k + 1 = j \/ k + 1 > j
      BY <1>2, <3>1
    <3> QED BY <3>4, <3>5, <3>6, <3>7
  <2>8. Along(v, hand', next', n - 1)
    <3>1. (n - 1) - 1 = n - 2
      BY <1>1
    <3> QED BY <2>5, <2>7, <3>1 DEF Along
  <2>9. Queue' = [k \in 1 .. n - 1 |-> page_id'[v[k - 1]]]
    BY <1>1, <1>4, <2>6, <2>8, QueueNext
  <2>10. ASSUME NEW k \in 1 .. n - 1
         PROVE  page_id'[v[k - 1]] = IF k < j + 1 THEN Queue[k] ELSE Queue[k + 1]
    <3>1. /\ k - 1 \in 0 .. n - 1 /\ k \in 0 .. n - 1 /\ k \in Nat /\ k - 1 \in Nat
          /\ k \in 1 .. n /\ k + 1 \in 1 .. n /\ (k + 1) - 1 = k /\ (k - 1) + 1 = k
      BY <1>1
    <3>2. v[k - 1] = IF k - 1 < j THEN Walk[k - 1] ELSE Walk[k]
      BY <2>4, <3>1
    <3>3. Queue[k] = page_id[Walk[k - 1]] /\ Queue[k + 1] = page_id[Walk[k]]
      BY <1>5, <3>1
    <3>4. CASE k - 1 < j
      <4>1. k < j + 1 /\ k - 1 # j
        BY <1>2, <3>1, <3>4
      <4>2. Walk[k - 1] # b /\ Walk[k - 1] \in LiveBlocks
        BY <1>1, <3>1, <4>1
      <4> QED BY <1>3, <3>2, <3>3, <3>4, <4>1, <4>2
    <3>5. CASE ~(k - 1 < j)
      <4>1. ~(k < j + 1) /\ k # j
        BY <1>2, <3>1, <3>5
      <4>2. Walk[k] # b /\ Walk[k] \in LiveBlocks
        BY <1>1, <3>1, <4>1
      <4> QED BY <1>3, <3>2, <3>3, <3>5, <4>1, <4>2
    <3> QED BY <3>4, <3>5
  <2> QED BY <1>6, <2>9, <2>10
<1> QED BY <1>7, <1>8

\* The hand passes over the first page, which becomes the last.
LEMMA PassQueue ==
  ASSUME IInv, IInv', PassReferenced
  PROVE  Queue # <<>> /\ Queue' = Append(Tail(Queue), Head(Queue))
<1> DEFINE n == Nodes
           v == [k \in 0 .. n |-> Walk[k + 1]]
<1>1. /\ hand # Null /\ hand' = next[hand]
      /\ next' = next /\ page_id' = page_id /\ LiveBlocks' = LiveBlocks /\ Nodes' = n
  BY DEF PassReferenced, LiveBlocks, Live, Nodes
<1>2. /\ n \in Nat \ {0} /\ n - 1 \in Nat /\ (n - 1) + 1 = n
      /\ \A k \in Nat : Walk[k] \in LiveBlocks /\ Walk[k + 1] = next[Walk[k]]
      /\ Walk[0] = hand /\ Walk[n] = hand
  BY <1>1, RoundTrip
<1>3. Queue \in Seq(Pages) /\ Len(Queue) = n /\ \A k \in 1 .. n : Queue[k] = page_id[Walk[k - 1]]
  BY QueueHas
<1>4. \A k \in 0 .. n : v[k] = Walk[k + 1]
  OBVIOUS
<1> HIDE DEF v, n
<1>5. hand' # Null
  <2>1. Walk[0 + 1] = next[Walk[0]] /\ Walk[0 + 1] \in LiveBlocks
    BY <1>2
  <2> QED BY <1>1, <1>2, <2>1, LayerFacts DEF LiveBlocks
<1>6. Along(v, hand', next', n)
  <2>1. v[0] = hand'
    BY <1>1, <1>2, <1>4
  <2>2. ASSUME NEW k \in 0 .. n - 1 PROVE k + 1 < n => v[k + 1] = next'[v[k]]
    <3>1. k \in 0 .. n /\ k + 1 \in 0 .. n /\ k + 1 \in Nat
      BY <1>2
    <3>2. v[k] = Walk[k + 1] /\ v[k + 1] = Walk[(k + 1) + 1]
      BY <1>4, <3>1
    <3> QED BY <1>1, <1>2, <3>1, <3>2
  <2> QED BY <2>1, <2>2 DEF Along
<1>7. Queue' = [k \in 1 .. n |-> page_id'[v[k - 1]]]
  BY <1>1, <1>2, <1>5, <1>6, QueueNext
<1>8. ASSUME NEW k \in 1 .. n
      PROVE  page_id'[v[k - 1]] = IF k = n THEN Queue[1] ELSE Queue[k + 1]
  <2>1. k - 1 \in 0 .. n /\ (k - 1) + 1 = k /\ (k + 1) - 1 = k /\ 1 \in 1 .. n /\ 1 - 1 = 0
    BY <1>2
  <2>2. v[k - 1] = Walk[k]
    BY <1>4, <2>1
  <2>3. CASE k = n
    <3>1. Queue[1] = page_id[Walk[0]]
      BY <1>3, <2>1
    <3> QED BY <1>1, <1>2, <2>2, <2>3, <3>1
  <2>4. CASE k # n
    <3>1. k + 1 \in 1 .. n
      BY <1>2, <2>4
    <3>2. Queue[k + 1] = page_id[Walk[k]]
      BY <1>3, <2>1, <3>1
    <3> QED BY <1>1, <2>2, <2>4, <3>2
  <2> QED BY <2>3, <2>4
<1>9. Queue # <<>>
  BY <1>2, <1>3
<1>10. Append(Tail(Queue), Head(Queue))
         = [k \in 1 .. n |-> IF k = n THEN Queue[1] ELSE Queue[k + 1]]
  BY <1>3, <1>9, TurnIs
<1> QED BY <1>7, <1>8, <1>9, <1>10

\* A step that leaves the list as it is.
LEMMA SameQueue ==
  ASSUME IInv, IInv', LiveBlocks' = LiveBlocks, hand' = hand,
         \A x \in LiveBlocks : next'[x] = next[x] /\ page_id'[x] = page_id[x]
  PROVE  Queue' = Queue
<1>1. CASE hand = Null
  <2>1. LiveBlocks' = {}
    BY <1>1 DEF IInv, RingInv, RingLinked
  <2> QED BY <1>1, <2>1, EmptyQueue, EmptyQueueNext
<1>2. CASE hand # Null
  <2> DEFINE n == Nodes
             v == Walk
  <2>1. /\ n \in Nat /\ Nodes' = n /\ hand' # Null
        /\ \A k \in Nat : Walk[k] \in LiveBlocks /\ Walk[k + 1] = next[Walk[k]]
        /\ Walk[0] = hand
    BY <1>2, RoundTrip DEF Nodes
  <2> HIDE DEF n
  <2>2. \A k \in 0 .. n - 1 : k + 1 < n => v[k + 1] = next'[v[k]]
    BY <2>1
  <2>3. Along(v, hand', next', n)
    BY <2>1, <2>2 DEF Along
  <2>4. Queue' = [k \in 1 .. n |-> page_id'[v[k - 1]]]
    BY <2>1, <2>3, QueueNext
  <2>5. ASSUME NEW k \in 1 .. n PROVE page_id'[v[k - 1]] = page_id[Walk[k - 1]]
    <3>1. k - 1 \in Nat
      BY <2>1
    <3> QED BY <2>1, <3>1
  <2>6. Queue = [k \in 1 .. n |-> page_id[Walk[k - 1]]]
    BY DEF Queue, n, Nodes
  <2> QED BY <2>4, <2>5, <2>6
<1> QED BY <1>1, <1>2

\* The first page of the queue is the page under the hand.
LEMMA FirstIsHand ==
  ASSUME IInv, hand # Null
  PROVE  Queue # <<>> /\ Head(Queue) = page_id[hand] /\ Queue \in Seq(Pages)
<1>1. Nodes \in Nat \ {0} /\ Walk[0] = hand
  BY RoundTrip
<1>2. 1 \in 1 .. Nodes /\ 1 - 1 = 0
  BY <1>1
<1>3. Queue \in Seq(Pages) /\ Len(Queue) = Nodes /\ Queue[1] = page_id[Walk[0]]
  BY <1>2, QueueHas
<1>4. Queue # <<>>
  BY <1>1, <1>3
<1> QED BY <1>1, <1>3, <1>4, HeadTailProperties

-----------------------------------------------------------------------------
(* The steps of the queue *)

\* A page has one node.
LEMMA OneNode == IInv => \A a, b \in LiveBlocks : page_id[a] = page_id[b] => a = b
BY DEF IInv, RingInv, NodesInv

LEMMA OneNodeNext == IInv' => \A a, b \in LiveBlocks' : page_id'[a] = page_id'[b] => a = b
BY DEF IInv, RingInv, NodesInv

\* A page that comes is queued last.
LEMMA InsertQueues ==
  ASSUME IInv, IInv', NEW p \in Pages, NEW b \in Blocks, Insert(p, b)
  PROVE  /\ p \notin Chance!Queued /\ Queue' = Append(Queue, p)
         /\ Referenced' = Referenced
<1>1. /\ LiveBlocks' = LiveBlocks \cup {b}
      /\ \A x \in Blocks : x # b => page_id'[x] = page_id[x]
      /\ page_id'[b] = p
  BY InsertLive DEF IInv, TypeOK
<1>2. /\ b \notin LiveBlocks /\ ~ref_bit'[b] /\ LiveBlocks \subseteq Blocks
      /\ \A x \in Blocks : x # b => (ref_bit'[x] <=> ref_bit[x])
  BY DEF Insert, LiveBlocks, IInv, TypeOK, RingTypeOK
<1>3. \A x \in LiveBlocks : x # b /\ page_id'[x] = page_id[x] /\ (ref_bit'[x] <=> ref_bit[x])
  BY <1>1, <1>2
<1>4. p \notin Chance!Queued
  <2> SUFFICES ASSUME NEW x \in LiveBlocks, page_id[x] = p PROVE FALSE
    BY QueueHas
  <2> QED BY <1>1, <1>3, OneNodeNext
<1>5. Referenced' = Referenced
  BY <1>1, <1>2, <1>3 DEF Referenced
<1> QED BY <1>4, <1>5, InsertQueue

\* A node that is removed takes its reference bit along.
LEMMA RemoveReferenced ==
  ASSUME IInv, NEW b \in LiveBlocks, Remove(b)
  PROVE  Referenced' = Referenced \ {page_id[b]}
<1>1. b \in Blocks
  BY DEF LiveBlocks
<1>2. /\ LiveBlocks' = LiveBlocks \ {b}
      /\ \A x \in LiveBlocks : x # b => page_id'[x] = page_id[x]
  BY <1>1, RemoveLive DEF IInv, TypeOK, LiveBlocks
<1>3. ref_bit' = ref_bit
  BY DEF Remove
<1>4. \A x \in LiveBlocks : x # b <=> page_id[x] # page_id[b]
  BY OneNode
<1> QED BY <1>2, <1>3, <1>4 DEF Referenced

\* A page whose node is removed leaves the queue from its place.
LEMMA RemoveWithdraws ==
  ASSUME IInv, IInv', NEW b \in LiveBlocks, Remove(b)
  PROVE  /\ \E i \in DOMAIN Queue : Queue[i] = page_id[b] /\ Queue' = Chance!RemoveAt(Queue, i)
         /\ Referenced' = Referenced \ {page_id[b]}
<1>1. hand # Null
  BY DEF IInv, RingInv, RingLinked
<1>2. PICK j \in 0 .. Nodes - 1 : Walk[j] = b
  BY <1>1, RoundTrip
<1>3. Nodes \in Nat /\ Len(Queue) = Nodes /\ Queue \in Seq(Pages)
      /\ \A k \in 1 .. Nodes : Queue[k] = page_id[Walk[k - 1]]
  BY QueueHas
<1>4. j + 1 \in 1 .. Nodes /\ (j + 1) - 1 = j
  BY <1>3
<1>5. j + 1 \in DOMAIN Queue /\ Queue[j + 1] = page_id[b]
  BY <1>2, <1>3, <1>4
<1>6. Queue' = Chance!RemoveAt(Queue, j + 1)
  BY <1>1, <1>2, RemoveQueue
<1>7. Referenced' = Referenced \ {page_id[b]}
  BY RemoveReferenced
<1> QED BY <1>5, <1>6, <1>7

\* Whether a page is referenced is the bit of its node.
LEMMA BitOfPage ==
  ASSUME IInv, NEW b \in LiveBlocks
  PROVE  page_id[b] \in Referenced <=> ref_bit[b]
BY OneNode DEF Referenced

\* A page the hand passes over is first, referenced, and becomes the last.
LEMMA PassTurns ==
  ASSUME IInv, IInv', PassReferenced
  PROVE  /\ Queue # <<>> /\ Head(Queue) \in Referenced
         /\ Queue' = Append(Tail(Queue), Head(Queue))
         /\ Referenced' = Referenced \ {Head(Queue)}
<1>1. /\ hand # Null /\ hand \in LiveBlocks /\ ref_bit[hand]
      /\ ref_bit' = [ref_bit EXCEPT ![hand] = FALSE]
      /\ page_id' = page_id /\ LiveBlocks' = LiveBlocks
  BY DEF PassReferenced, IInv, RingInv, RingLinked, LiveBlocks, Live
<1>2. Queue # <<>> /\ Head(Queue) = page_id[hand]
  BY <1>1, FirstIsHand
<1>3. page_id[hand] \in Referenced
  BY <1>1, BitOfPage
<1>4. \A x \in LiveBlocks : ref_bit'[x] <=> ref_bit[x] /\ page_id[x] # page_id[hand]
  BY <1>1, OneNode DEF IInv, TypeOK, RingTypeOK, LiveBlocks
<1>5. Referenced' = Referenced \ {page_id[hand]}
  BY <1>1, <1>4 DEF Referenced
<1> QED BY <1>2, <1>3, <1>5, PassQueue

\* A victim is the first of the queue, and not referenced.
LEMMA TakeTakesHead ==
  ASSUME IInv, IInv', TakeVictim
  PROVE  /\ Queue # <<>> /\ Head(Queue) \notin Referenced /\ Head(Queue) = page_id[hand]
         /\ Queue' = Tail(Queue)
         /\ Referenced' = Referenced
<1>1. hand # Null /\ hand \in LiveBlocks /\ ~ref_bit[hand] /\ Remove(hand)
  BY DEF TakeVictim, IInv, RingInv, RingLinked
<1>2. Queue # <<>> /\ Head(Queue) = page_id[hand] /\ Queue \in Seq(Pages)
  BY <1>1, FirstIsHand
<1>3. page_id[hand] \notin Referenced
  BY <1>1, BitOfPage
<1>4. Referenced' = Referenced
  BY <1>1, <1>3, RemoveReferenced
<1>5. Queue' = Tail(Queue)
  <2>1. 0 \in 0 .. Nodes - 1 /\ Walk[0] = hand
    BY <1>1, RoundTrip
  <2>2. Queue' = Chance!RemoveAt(Queue, 0 + 1)
    BY <1>1, <2>1, RemoveQueue
  <2>3. Chance!RemoveAt(Queue, 1) = Tail(Queue)
    BY <1>2, RemoveFirst
  <2>4. 0 + 1 = 1
    OBVIOUS
  <2> QED BY <2>2, <2>3, <2>4
<1> QED BY <1>2, <1>3, <1>4, <1>5

\* A mark through a pointer loaded earlier: the node may have been deleted, or
\* its block may hold another page's node by then.
LEMMA MarkReferences ==
  ASSUME IInv, IInv', NEW b \in Blocks \cup {Null}, MarkAccessed(b)
  PROVE  /\ Queue' = Queue
         /\ \/ \E p \in Pages : p \in Chance!Queued /\ Referenced' = Referenced \cup {p}
            \/ Referenced' = Referenced
<1>1. /\ UNCHANGED <<hand, page_id, prev, next>> /\ LiveBlocks' = LiveBlocks
      /\ ref_bit' = IF b = Null THEN ref_bit ELSE [ref_bit EXCEPT ![b] = TRUE]
  BY DEF MarkAccessed, LiveBlocks, Live
<1>2. Queue' = Queue
  BY <1>1, SameQueue
<1>3. LiveBlocks \subseteq Blocks /\ Null \notin Blocks /\ ref_bit \in [Blocks -> BOOLEAN]
  BY LayerFacts DEF LiveBlocks, IInv, TypeOK, RingTypeOK
<1>4. CASE b \in LiveBlocks
  <2>1. page_id[b] \in Pages /\ page_id[b] \in Chance!Queued
    BY <1>4, NodeOfPage, QueueHas DEF IInv
  <2>2. ref_bit'[b] /\ \A x \in LiveBlocks : x # b => (ref_bit'[x] <=> ref_bit[x])
    BY <1>1, <1>3, <1>4
  <2>3. Referenced' = Referenced \cup {page_id[b]}
    BY <1>1, <1>4, <2>2 DEF Referenced
  <2> QED BY <1>2, <2>1, <2>3
<1>5. CASE b \notin LiveBlocks
  <2>1. \A x \in LiveBlocks : ref_bit'[x] <=> ref_bit[x]
    BY <1>1, <1>3, <1>5
  <2>2. Referenced' = Referenced
    BY <1>1, <2>1 DEF Referenced
  <2> QED BY <1>2, <2>2
<1> QED BY <1>4, <1>5

\* A step that leaves the list and the bits as they are.
LEMMA SameChance ==
  ASSUME IInv, IInv', UNCHANGED <<hand, page_id, prev, next, ref_bit>>
  PROVE  UNCHANGED <<Queue, Referenced>>
<1>1. LiveBlocks' = LiveBlocks
  BY DEF LiveBlocks, Live
<1>2. Queue' = Queue
  BY <1>1, SameQueue
<1>3. Referenced' = Referenced
  BY <1>1 DEF Referenced
<1> QED BY <1>2, <1>3

-----------------------------------------------------------------------------
(* What is going on in the queue *)

\* At each position of the scanner.
LEMMA TaskNow ==
  ASSUME IInv
  PROVE  /\ scPc = "evict" => Task = "sweep" /\ Going = Null
         /\ Nested => Task = "evicted" /\ Going = frame.page
         /\ ~Nested /\ scPc = "enter" /\ LeavesRing => Task = "leave" /\ Going = frame.page
         /\ ~Nested /\ scPc # "evict" /\ ~(scPc = "enter" /\ LeavesRing) =>
              Task = "rest" /\ Going = Null
BY DEF Task, Going, Nested, IInv, FlowInv, FrameInv

LEMMA TaskNext ==
  ASSUME IInv'
  PROVE  /\ scPc' = "evict" => Task' = "sweep" /\ Going' = Null
         /\ Nested' => Task' = "evicted" /\ Going' = frame'.page
         /\ ~Nested' /\ scPc' = "enter" /\ LeavesRing' => Task' = "leave" /\ Going' = frame'.page
         /\ ~Nested' /\ scPc' # "evict" /\ ~(scPc' = "enter" /\ LeavesRing') =>
              Task' = "rest" /\ Going' = Null
BY DEF Task, Going, Nested, IInv, FlowInv, FrameInv

\* A step of the scanner inside a migration, or of the manager.
LEMMA SameTask ==
  ASSUME UNCHANGED <<frame, pending>>,
         scPc' = "evict" <=> scPc = "evict", scPc' = "enter" <=> scPc = "enter"
  PROVE  UNCHANGED <<Task, Going>>
<1>1. LeavesRing' <=> LeavesRing
  BY DEF LeavesRing
<1>2. UNCHANGED Task
  BY <1>1 DEF Task
<1> QED BY <1>2 DEF Going

\* Between two migrations nothing is going on.
LEMMA RestsNow ==
  ASSUME IInv, Scanning
  PROVE  Task = "rest" /\ Going = Null /\ pending = NoFrame
<1>1. ~Nested /\ pending = NoFrame /\ scPc # "evict" /\ scPc # "enter"
  BY DEF Nested, Scanning, IInv, FlowInv, FrameInv
<1> QED BY <1>1, TaskNow

\* A migration begins: the page is named, if it is to leave the local tier.
LEMMA ClassifyTask ==
  ASSUME IInv, IInv', Classify
  PROVE  \/ \E p \in Pages : Task = "rest" /\ Task' = "leave" /\ Going' = p
         \/ UNCHANGED <<Task, Going>>
<1> USE DEF Classify, ScanNext, LoadCount, ClassifyHot, ClassifyCold, Recheck, classifyFrame,
            Dispatch, ScannerAt
<1>1. Task = "rest" /\ Going = Null /\ pending = NoFrame
  BY RestsNow DEF Scanning
<1>2. pending' = pending /\ scPc' # "evict"
  OBVIOUS
<1>3. ~Nested'
  BY <1>1, <1>2 DEF Nested
<1> HIDE DEF Classify
<1>4. CASE scPc' = "enter" /\ LeavesRing'
  <2>1. ~Scanning'
    BY <1>4 DEF Scanning
  <2>2. frame'.page \in Pages
    BY <2>1 DEF IInv, FlowInv, FrameInv, Frames
  <2>3. Task' = "leave" /\ Going' = frame'.page
    BY <1>3, <1>4, TaskNext
  <2> QED BY <1>1, <2>2, <2>3
<1>5. CASE ~(scPc' = "enter" /\ LeavesRing')
  <2>1. Task' = "rest" /\ Going' = Null
    BY <1>2, <1>3, <1>5, TaskNext
  <2> QED BY <1>1, <2>1
<1> QED BY <1>4, <1>5

\* A migration ends: if it was an eviction, the page evicted is gone.
LEMMA ReturnTask ==
  ASSUME IInv, IInv', Return, scPc \notin {"enter", "evict"}
  PROVE  \/ Task = "evicted" /\ Task' = "rest" /\ Going' = Null
         \/ UNCHANGED <<Task, Going>>
<1>1. pending' = NoFrame /\ scPc' \in {"scan", "move"}
  BY DEF Return
<1>2. ~Nested'
  BY <1>1 DEF Nested
<1>3. Task' = "rest" /\ Going' = Null
  BY <1>1, <1>2, TaskNext
<1>4. CASE Nested
  <2>1. Task = "evicted"
    BY <1>4, TaskNow
  <2> QED BY <1>3, <2>1
<1>5. CASE ~Nested
  <2>1. Task = "rest" /\ Going = Null
    BY <1>5, TaskNow
  <2> QED BY <1>3, <2>1
<1> QED BY <1>4, <1>5

-----------------------------------------------------------------------------
(* The refinement *)

chanceVars == <<Queue, Referenced, Task, Going>>

LEMMA InitChance == Init => Chance!QueueInit
<1> SUFFICES ASSUME Init PROVE Chance!QueueInit
  OBVIOUS
<1>1. LiveBlocks = {}
  BY DEF Init, RingInit, LiveBlocks, Live
<1>2. Cardinality({}) = 0
  BY FS_EmptySet
<1>3. Queue = <<>>
  BY <1>1, <1>2 DEF Queue
<1>4. Referenced = {}
  BY <1>1 DEF Referenced
<1>5. Scanning
  BY DEF Init, Scanning
<1>6. Task = "rest" /\ Going = Null
  BY <1>5, InitInv, RestsNow
<1> QED BY <1>3, <1>4, <1>6 DEF Chance!QueueInit

\* The table is filled, and a page comes to the local tier.
LEMMA InsertChance ==
  ASSUME IInv, IInv', FillPage \/ Link
  PROVE  Chance!QueueNext \/ UNCHANGED chanceVars
<1>1. CASE FillPage
  <2>1. filled \in Pages
    BY <1>1, ConstantFacts DEF FillPage, IInv, TypeOK
  <2>2. (\E b \in Blocks : Insert(filled, b)) \/ UNCHANGED ringVars
    BY <1>1 DEF FillPage
  <2>3. Task = "rest" /\ Going = Null /\ UNCHANGED <<Task, Going>>
    <3>1. Scanning /\ UNCHANGED <<frame, pending>> /\ scPc = "fill" /\ scPc' \in {"scan", "fill"}
      BY <1>1 DEF FillPage, Scanning, ScannerAt
    <3> QED BY <3>1, RestsNow, SameTask
  <2>4. CASE UNCHANGED ringVars
    BY <2>3, <2>4, SameChance DEF ringVars, chanceVars
  <2>5. CASE \E b \in Blocks : Insert(filled, b)
    <3>1. Chance!Enqueue(filled)
      BY <2>1, <2>3, <2>5, InsertQueues DEF Chance!Enqueue
    <3> QED BY <2>1, <3>1 DEF Chance!QueueNext
  <2> QED BY <2>2, <2>4, <2>5
<1>2. CASE Link
  <2>1. frame.page \in Pages /\ \E b \in Blocks : Insert(frame.page, b)
    BY <1>2, FrameFacts DEF Link, Migrate
  <2>2. scPc = "link" /\ scPc' = "clock" /\ UNCHANGED <<frame, pending>>
    BY <1>2 DEF Link, ScannerAt
  <2>3. ~Nested
    BY <2>2 DEF IInv, FlowInv, FrameInv
  <2>4. Task = "rest" /\ UNCHANGED <<Task, Going>>
    BY <2>2, <2>3, TaskNow, SameTask
  <2>5. Chance!Enqueue(frame.page)
    BY <2>1, <2>4, InsertQueues DEF Chance!Enqueue
  <2> QED BY <2>1, <2>5 DEF Chance!QueueNext
<1> QED BY <1>1, <1>2

\* The page that migrates gives up its node: in a call that is not nested it is
\* the page that was named, in a nested one it has left the queue before.
LEMMA UnlinkChance ==
  ASSUME IInv, IInv', Unlink
  PROVE  Chance!QueueNext \/ UNCHANGED chanceVars
<1> DEFINE b == nodePtr[frame.page]
<1>1. frame.page \in Pages /\ (b # Null => b \in Blocks) /\ scPc = "enter"
  BY FrameFacts DEF Migrate, Unlink, ScannerAt
<1>2. UNCHANGED <<frame, pending>> /\ scPc' = "capacity"
  BY DEF Unlink
<1>3. IF LeavesRing THEN b # Null /\ Remove(b) ELSE UNCHANGED ringVars
  BY DEF Unlink
<1>4. Nested' <=> Nested
  BY <1>2 DEF Nested
<1>5. CASE Nested
  <2>1. UNCHANGED <<Task, Going>>
    BY <1>2, <1>4, <1>5, TaskNow, TaskNext
  <2>2. UNCHANGED <<hand, page_id, prev, next, ref_bit>>
    <3>1. CASE LeavesRing
      <4>1. ~Live(b) /\ ClosedOver(b)
        BY <1>1, <1>5 DEF IInv, RingInv, PointersInv, EvictedAgain
      <4>2. UNCHANGED <<hand, page_id, prev, next>>
        BY <1>1, <1>3, <3>1, <4>1, RemoveAgain DEF IInv, TypeOK
      <4> QED BY <1>3, <3>1, <4>2 DEF Remove
    <3>2. CASE ~LeavesRing
      BY <1>3, <3>2 DEF ringVars
    <3> QED BY <3>1, <3>2
  <2> QED BY <2>1, <2>2, SameChance DEF chanceVars
<1>6. CASE ~Nested
  <2>1. Task' = "rest" /\ Going' = Null
    BY <1>2, <1>4, <1>6, TaskNext
  <2>2. CASE LeavesRing
    <3>1. Task = "leave" /\ Going = frame.page
      BY <1>1, <1>6, <2>2, TaskNow
    <3>2. b \in LiveBlocks /\ page_id[b] = frame.page
      BY <1>1, <1>3, <1>6, <2>2 DEF IInv, RingInv, PointersInv, EvictedAgain, LiveBlocks
    <3>3. Chance!Withdraw
      BY <1>3, <2>1, <2>2, <3>1, <3>2, RemoveWithdraws DEF Chance!Withdraw
    <3> QED BY <3>3 DEF Chance!QueueNext
  <2>3. CASE ~LeavesRing
    <3>1. Task = "rest" /\ Going = Null
      BY <1>1, <1>6, <2>3, TaskNow
    <3> QED BY <1>3, <2>1, <2>3, <3>1, SameChance DEF ringVars, chanceVars
  <2> QED BY <2>2, <2>3
<1> QED BY <1>5, <1>6

\* Room is asked for, or the migration goes on, or it ends here.
LEMMA CheckChance ==
  ASSUME IInv, IInv', CheckCapacity
  PROVE  Chance!QueueNext \/ UNCHANGED chanceVars
<1>1. scPc = "capacity" /\ UNCHANGED <<Queue, Referenced>>
  BY SameChance DEF CheckCapacity, ScannerAt, ringVars
<1>2. \/ scPc' = "move" /\ UNCHANGED <<frame, pending>>
      \/ scPc' = "evict" /\ frame.target = Local
      \/ Return
  BY DEF CheckCapacity
<1>3. CASE scPc' = "move" /\ UNCHANGED <<frame, pending>>
  BY <1>1, <1>3, SameTask DEF chanceVars
<1>4. CASE scPc' = "evict" /\ frame.target = Local
  <2>1. ~Nested
    BY <1>4 DEF IInv, FlowInv, FrameInv
  <2>2. Task = "rest" /\ Going = Null /\ Task' = "sweep" /\ Going' = Null
    BY <1>1, <1>4, <2>1, TaskNow, TaskNext
  <2>3. Chance!AskForRoom
    BY <1>1, <2>2 DEF Chance!AskForRoom
  <2> QED BY <2>3 DEF Chance!QueueNext
<1>5. CASE Return
  BY <1>1, <1>5, ReturnTask DEF Chance!QueueNext, Chance!Gone, chanceVars
<1> QED BY <1>2, <1>3, <1>4, <1>5

\* The hand passes over a page, or the page under it is evicted: the nested
\* call is for that page.
LEMMA SweepChance ==
  ASSUME IInv, IInv', SweepPast \/ Evict
  PROVE  Chance!QueueNext
<1>1. scPc = "evict" /\ Task = "sweep" /\ Going = Null
  BY TaskNow DEF SweepPast, Evict, ScannerAt
<1>2. CASE SweepPast
  <2>1. UNCHANGED <<Task, Going>>
    BY <1>2, SameTask DEF SweepPast
  <2>2. Chance!PassOver
    BY <1>1, <1>2, <2>1, PassTurns DEF SweepPast, Chance!PassOver
  <2> QED BY <2>2 DEF Chance!QueueNext
<1>3. CASE Evict
  <2>1. TakeVictim /\ frame'.page = page_id[hand] /\ pending' = frame
    BY <1>3 DEF Evict
  <2>2. frame \in Frames
    BY <1>1 DEF IInv, FlowInv, FrameInv, Scanning
  <2>3. Nested'
    BY <2>1, <2>2, NoFrameIsNone DEF Nested
  <2>4. Task' = "evicted" /\ Going' = page_id[hand]
    BY <2>1, <2>3, TaskNext
  <2>5. Chance!EvictHead
    BY <1>1, <2>1, <2>4, TakeTakesHead DEF Chance!EvictHead
  <2> QED BY <2>5 DEF Chance!QueueNext
<1> QED BY <1>2, <1>3

LEMMA MarkChance ==
  ASSUME IInv, IInv', Mark
  PROVE  Chance!QueueNext \/ UNCHANGED chanceVars
<1>1. MarkAccessed(mgPtr) /\ mgPtr \in Blocks \cup {Null}
  BY DEF Mark, IInv, TypeOK
<1>2. UNCHANGED <<Task, Going>>
  BY SameTask DEF Mark, accessFrame, scanVars
<1>3. Queue' = Queue
  BY <1>1, MarkReferences
<1>4. CASE Referenced' = Referenced
  BY <1>2, <1>3, <1>4 DEF chanceVars
<1>5. CASE \E p \in Pages : p \in Chance!Queued /\ Referenced' = Referenced \cup {p}
  <2>1. PICK p \in Pages : p \in Chance!Queued /\ Referenced' = Referenced \cup {p}
    BY <1>5
  <2>2. Chance!Reference(p)
    BY <1>2, <1>3, <2>1 DEF Chance!Reference
  <2> QED BY <2>2 DEF Chance!QueueNext
<1> QED BY <1>1, <1>4, <1>5, MarkReferences

LEMMA StepChance ==
  ASSUME IInv, IInv', [Next]_vars
  PROVE  [Chance!QueueNext]_<<Queue, Referenced, Task, Going>>
<1>1. CASE FillPage \/ Link
  BY <1>1, InsertChance DEF chanceVars
<1>2. CASE Unlink
  BY <1>2, UnlinkChance DEF chanceVars
<1>3. CASE CheckCapacity
  BY <1>3, CheckChance DEF chanceVars
<1>4. CASE SweepPast \/ Evict
  BY <1>4, SweepChance
<1>5. CASE Mark
  BY <1>5, MarkChance DEF chanceVars
<1>6. CASE Classify
  <2>1. UNCHANGED <<Queue, Referenced>>
    <3>1. UNCHANGED ringVars
      BY <1>6 DEF Classify, ScanNext, LoadCount, ClassifyHot, ClassifyCold, Recheck,
         classifyFrame
    <3> QED BY <3>1, SameChance DEF ringVars
  <2> QED BY <1>6, <2>1, ClassifyTask DEF Chance!QueueNext, Chance!Name
<1>7. CASE CountRoute
  <2>1. UNCHANGED <<Queue, Referenced>> /\ Return /\ scPc = "countRoute"
    BY <1>7, SameChance DEF CountRoute, ScannerAt, ringVars
  <2> QED BY <2>1, ReturnTask DEF Chance!QueueNext, Chance!Gone
<1>8. CASE ~(FillPage \/ Link \/ Unlink \/ CheckCapacity \/ SweepPast \/ Evict \/ Mark
               \/ Classify \/ CountRoute)
  <2>1. /\ UNCHANGED ringVars /\ UNCHANGED <<frame, pending>>
        /\ scPc' = "evict" <=> scPc = "evict"
        /\ scPc' = "enter" <=> scPc = "enter"
    BY <1>8 DEF Next, Scanner, Migrate, Halt, Manager, Tick, Move, TakeStamp, StoreStamp,
       ResetCount, CountDown, CountUp, AssertRemove, DoubleFree, AssertEmpty, AssertInsert,
       AliasNode, Stop, BeginAccess, ReadClock, StoreAccessTime, CountAccess, RecordAccess,
       accessFrame, scanVars, ScannerAt, vars
  <2> QED BY <2>1, SameChance, SameTask DEF ringVars
<1> QED BY <1>1, <1>2, <1>3, <1>4, <1>5, <1>6, <1>7, <1>8

\* Every step of the page table is one of the queue or leaves it as it is: for
\* any number of pages, with the ring smaller than the tier or as large, and
\* whatever the two threads interleave, the page moved out to make room is the
\* first of the queue that has not been referenced, and no other page leaves
\* the queue unless it is the one being migrated (ClockRing.cpp:15-75,
\* PageTable.cpp:210-240).
THEOREM SecondChanceOrder == Spec => ImplementsSecondChance
<1>1. IInv /\ IInv' /\ [Next]_vars => [Chance!QueueNext]_<<Queue, Referenced, Task, Going>>
  BY StepChance
<1> QED BY <1>1, InitChance, Invariance, PTL DEF Spec, ImplementsSecondChance, Chance!QueueSpec

=============================================================================
