-------------------------- MODULE PageTableProofs --------------------------
(***************************************************************************)
(* PageTable keeps its inductive invariant, for every number of pages,     *)
(* every capacity, every policy, with and without the ring.                *)
(***************************************************************************)
EXTENDS PageTableInvariant, ClockRingProofs, FiniteSetTheorems

LEMMA ConstantFacts ==
  /\ NumPages \in Nat /\ NumPages > 0 /\ Pages = 0 .. NumPages - 1
  /\ CountMod \in Nat /\ CountMod > 0
  /\ Capacity \in [Layers -> Nat] /\ InitLayer \in [Pages -> Layers]
BY PageTableAssumption

\* Counting up keeps a counter a number.
LEMMA Increment ==
  ASSUME NEW S, NEW f \in [S -> Nat], NEW x
  PROVE  [f EXCEPT ![x] = @ + 1] \in [S -> Nat]
<1> DEFINE g == [f EXCEPT ![x] = @ + 1]
<1>1. \A y \in S : g[y] = IF y = x THEN f[y] + 1 ELSE f[y]
  OBVIOUS
<1>2. \A y \in S : f[y] + 1 \in Nat
  OBVIOUS
<1>3. \A y \in S : g[y] \in Nat
  BY <1>1, <1>2
<1>4. g = [y \in S |-> g[y]]
  OBVIOUS
<1> QED BY <1>3, <1>4

\* A demotion or promotion that keeps a page in its tier is none.
LEMMA TargetLayerType ==
  ASSUME NEW l \in Layers, NEW s
  PROVE  TargetLayer(l, s) \in Layers
BY DEF TargetLayer, Layers, Local, Remote, Pmem

LEMMA LayerFacts ==
  /\ Local \in Layers /\ Remote \in Layers /\ Pmem \in Layers
  /\ Null \notin Layers /\ Null \notin Pages /\ Null \notin Blocks
  /\ Local # Remote /\ Local # Pmem /\ Remote # Pmem
BY PageTableAssumption, ClockRingAssumption DEF Layers, Local, Remote, Pmem

LEMMA NoFrameIsNone == NoFrame \notin Frames
BY LayerFacts DEF NoFrame, Frames

LEMMA InitInv == Init => IInv
<1> SUFFICES ASSUME Init PROVE IInv
  OBVIOUS
<1> USE DEF Init, RingInit
<1>1. TypeOK
  <2>1. RingTypeOK
    BY ClockRingAssumption DEF RingTypeOK
  <2>2. 0 \in Pages /\ 0 \in 0 .. NumPages /\ 0 \in 0 .. CountMod - 1
    BY PageTableAssumption
  <2> QED BY <2>1, <2>2, PageTableAssumption DEF TypeOK, ScannerPcs, Statuses
<1>2. FlowInv
  BY PageTableAssumption DEF FlowInv, FillInv, SeenInv, FrameInv, RoomInv, Scanning,
     BeforeMove, BeforeCountUp, BeforeCountDown, Nested
<1>3. RingInv
  <2>1. LiveBlocks = {}
    BY DEF LiveBlocks, Live
  <2> QED BY <2>1 DEF RingInv, RingLinked, RingConnected, NodesInv, PointersInv, EvictedAgain
<1>4. CountsMatchLayers
  <2>1. \A l \in Layers : Resident(l) = {}
    BY LayerFacts DEF Resident
  <2> QED BY <2>1, FS_EmptySet DEF CountsMatchLayers, BeforeCountUp, BeforeCountDown
<1> QED BY <1>1, <1>2, <1>3, <1>4 DEF IInv

-----------------------------------------------------------------------------
(* Types *)

LEMMA ClassifyType == TypeOK /\ FillInv /\ SeenInv /\ Classify => TypeOK'
<1> SUFFICES ASSUME TypeOK, FillInv, SeenInv, Classify PROVE TypeOK'
  OBVIOUS
<1> USE DEF TypeOK, RingTypeOK, ScannerPcs, ringVars, metaVars, managerVars, scannerFrame,
            classifyFrame, ScannerAt
<1>1. CASE ScanNext
  <2>1. filled = NumPages
    BY <1>1, ConstantFacts DEF ScanNext, FillInv
  <2>2. layer[scanIndex] \in Layers /\ stamp[scanIndex] \in Nat
    <3>1. scanIndex \in Pages /\ ~(scanIndex >= filled)
      BY <2>1, ConstantFacts
    <3>2. layer[scanIndex] # Null
      BY <3>1 DEF FillInv
    <3> QED BY <3>1, <3>2
  <2>3. scanIndex' \in Pages
    BY <1>1, <2>1, ConstantFacts DEF ScanNext
  <2>4. seen' \in [page : Pages, layer : Layers, last : Nat, cnt : 0 .. CountMod - 1]
    BY <1>1, <2>2, ConstantFacts DEF ScanNext
  <2> QED BY <1>1, <2>3, <2>4 DEF ScanNext
<1>2. CASE LoadCount
  <2>1. seen \in [page : Pages, layer : Layers, last : Nat, cnt : 0 .. CountMod - 1]
    BY <1>2 DEF LoadCount, SeenInv
  <2>2. seen' \in [page : Pages, layer : Layers, last : Nat, cnt : 0 .. CountMod - 1]
    BY <1>2, <2>1 DEF LoadCount
  <2> QED BY <1>2, <2>2 DEF LoadCount
<1>3. ASSUME NEW s, Dispatch(s), SeenInv, scPc \in {"hot", "cold", "recheck"}
      PROVE  /\ frame' \in Frames \cup {NoFrame}
             /\ scPc' \in ScannerPcs
             /\ seen' \in [page : Pages, layer : Layers, last : Nat, cnt : 0 .. CountMod - 1]
                          \cup {NothingSeen}
  <2>1. seen \in [page : Pages, layer : Layers, last : Nat, cnt : 0 .. CountMod - 1]
    BY <1>3 DEF SeenInv
  <2>2. layer[seen.page] = seen.layer /\ seen.layer \in Layers /\ seen.page \in Pages
    BY <1>3, <2>1 DEF SeenInv
  <2>3. TargetLayer(seen.layer, s) \in Layers
    BY <2>2, TargetLayerType
  <2> QED BY <1>3, <2>1, <2>2, <2>3 DEF Dispatch, Frames
<1>4. CASE ClassifyHot
  BY <1>3, <1>4 DEF ClassifyHot
<1>5. CASE ClassifyCold
  BY <1>3, <1>5 DEF ClassifyCold
<1>6. CASE Recheck
  BY <1>3, <1>6 DEF Recheck
<1> QED BY <1>1, <1>2, <1>4, <1>5, <1>6 DEF Classify

LEMMA Finite == /\ IsFiniteSet(Pages)
                /\ \A l : /\ IsFiniteSet(Resident(l))
                          /\ Cardinality(Resident(l)) \in Nat
<1>1. IsFiniteSet(Pages)
  BY ConstantFacts, FS_Interval
<1>2. \A l : Resident(l) \subseteq Pages
  BY DEF Resident
<1> QED BY <1>1, <1>2, FS_Subset, FS_CardinalityType

\* The victim of an eviction is a page of the local tier.
LEMMA VictimIsLocal ==
  ASSUME TypeOK, RingLinked, NodesInv, hand # Null
  PROVE  /\ hand \in LiveBlocks /\ hand \in Blocks
         /\ page_id[hand] \in Pages
         /\ layer[page_id[hand]] = Local /\ nodePtr[page_id[hand]] = hand
<1>1. hand \in LiveBlocks
  BY DEF RingLinked
<1>2. hand \in Blocks /\ page_id[hand] # Null
  BY <1>1 DEF LiveBlocks, Live
<1> QED BY <1>1, <1>2 DEF NodesInv, TypeOK, RingTypeOK

LEMMA MigrateType ==
  TypeOK /\ FrameInv /\ CountsMatchLayers /\ RingLinked /\ NodesInv /\ Migrate => TypeOK'
<1> SUFFICES ASSUME TypeOK, FrameInv, CountsMatchLayers, RingLinked, NodesInv, Migrate
             PROVE  TypeOK'
  OBVIOUS
<1> USE DEF TypeOK, ScannerPcs, ringVars, metaVars, managerVars, scannerFrame,
            migrateFrame, ScannerAt
<1>1. CASE Unlink
  <2>1. RingTypeOK'
    <3>1. CASE LeavesRing
      <4>1. frame.page \in Pages
        BY <1>1 DEF Unlink, FrameInv, Scanning, Frames
      <4>2. nodePtr[frame.page] \in Blocks
        BY <1>1, <3>1, <4>1 DEF Unlink
      <4> QED BY <1>1, <3>1, <4>2, RemoveType DEF Unlink
    <3>2. CASE ~LeavesRing
      BY <1>1, <3>2 DEF Unlink, RingTypeOK
    <3> QED BY <3>1, <3>2
  <2>2. nodePtr' \in [Pages -> Blocks \cup {Null}]
    BY <1>1 DEF Unlink
  <2> QED BY <1>1, <2>1, <2>2 DEF Unlink
<1>2. CASE CheckCapacity
  BY <1>2 DEF CheckCapacity, Return, RingTypeOK
<1>3. CASE SweepPast
  <2>1. RingTypeOK'
    <3>1. hand \in Blocks /\ next[hand] \in Blocks
      BY <1>3, VictimIsLocal DEF SweepPast, PassReferenced, RingLinked, LiveBlocks
    <3> QED BY <1>3, <3>1 DEF SweepPast, PassReferenced, RingTypeOK
  <2> QED BY <1>3, <2>1 DEF SweepPast
<1>4. CASE Evict
  <2>1. hand # Null
    BY <1>4 DEF Evict, TakeVictim
  <2>2. RingTypeOK'
    BY <1>4, <2>1, VictimIsLocal, RemoveType DEF Evict, TakeVictim
  <2>3. frame' \in Frames
    BY <1>4, <2>1, VictimIsLocal, LayerFacts DEF Evict, Frames
  <2> QED BY <1>4, <2>2, <2>3 DEF Evict
<1>5. CASE Move
  <2>1. frame.target \in Layers
    BY <1>5 DEF Move, FrameInv, Scanning, Frames
  <2>2. layer' \in [Pages -> Layers \cup {Null}]
    BY <1>5, <2>1 DEF Move
  <2> QED BY <1>5, <2>2 DEF Move, RingTypeOK
<1>6. CASE Link
  <2>1. PICK b \in Blocks : /\ Insert(frame.page, b)
                            /\ nodePtr' = [nodePtr EXCEPT ![frame.page] = b]
    BY <1>6 DEF Link
  <2>2. frame.page \in Pages
    BY <1>6 DEF Link, FrameInv, Scanning, Frames
  <2>3. RingTypeOK'
    BY <2>1, <2>2, InsertType
  <2>4. nodePtr' \in [Pages -> Blocks \cup {Null}]
    BY <2>1
  <2> QED BY <1>6, <2>3, <2>4 DEF Link
<1>7. CASE TakeStamp
  BY <1>7 DEF TakeStamp, RingTypeOK
<1>8. CASE StoreStamp
  BY <1>8 DEF StoreStamp, RingTypeOK
<1>9. CASE ResetCount
  <2>1. 0 \in 0 .. CountMod - 1
    BY ConstantFacts
  <2>2. cnt' \in [Pages -> 0 .. CountMod - 1]
    BY <1>9, <2>1 DEF ResetCount
  <2> QED BY <1>9, <2>2 DEF ResetCount, RingTypeOK
<1>10. CASE CountDown
  <2>1. frame.from \in Layers /\ frame.from # frame.target
    BY <1>10 DEF CountDown, FrameInv, Scanning, Frames
  <2>2. count[frame.from] = Cardinality(Resident(frame.from)) + 1
    BY <1>10, <2>1 DEF CountDown, CountsMatchLayers, BeforeCountDown, BeforeCountUp
  <2>3. count[frame.from] - 1 \in Nat
    BY <2>2, Finite
  <2>4. count' \in [Layers -> Nat]
    BY <1>10, <2>3 DEF CountDown
  <2> QED BY <1>10, <2>4 DEF CountDown, RingTypeOK
<1>11. CASE CountUp
  <2>1. count' = [count EXCEPT ![frame.target] = @ + 1]
    BY <1>11 DEF CountUp
  <2>2. count' \in [Layers -> Nat]
    BY <2>1, Increment
  <2> QED BY <1>11, <2>2 DEF CountUp, RingTypeOK
<1>12. CASE CountRoute
  <2>1. moved' = [moved EXCEPT ![<<frame.from, frame.target>>] = @ + 1]
    BY <1>12 DEF CountRoute
  <2>2. moved' \in [Routes -> Nat]
    BY <2>1, Increment
  <2> QED BY <1>12, <2>2 DEF CountRoute, Return, RingTypeOK
<1> QED
  BY <1>1, <1>2, <1>3, <1>4, <1>5, <1>6, <1>7, <1>8, <1>9, <1>10, <1>11, <1>12 DEF Migrate

LEMMA ManagerType == TypeOK /\ FillInv /\ (Manager \/ Tick) => TypeOK'
<1> SUFFICES ASSUME TypeOK, FillInv, Manager \/ Tick PROVE TypeOK'
  OBVIOUS
<1> USE DEF TypeOK, RingTypeOK, ringVars, metaVars, scanVars, managerVars, accessFrame,
            ManagerAt
<1>1. CASE BeginAccess
  BY <1>1 DEF BeginAccess
<1>2. CASE Mark
  BY <1>2 DEF Mark, MarkAccessed
<1>3. CASE ReadClock
  BY <1>3 DEF ReadClock
<1>4. CASE StoreAccessTime
  BY <1>4 DEF StoreAccessTime
<1>5. CASE CountAccess
  <2>1. \A n \in 0 .. CountMod - 1 : (n + 1) % CountMod \in 0 .. CountMod - 1
    BY ConstantFacts
  <2>2. cnt' \in [Pages -> 0 .. CountMod - 1]
    BY <1>5, <2>1 DEF CountAccess
  <2> QED BY <1>5, <2>2 DEF CountAccess
<1>6. CASE RecordAccess
  <2>1. accessed' \in [Layers -> Nat]
    <3>1. accessed' = [accessed EXCEPT ![layer[mgPage]] = @ + 1]
      BY <1>6 DEF RecordAccess
    <3> QED BY <3>1, Increment
  <2> QED BY <1>6, <2>1 DEF RecordAccess
<1>7. CASE Tick
  BY <1>7 DEF Tick
<1> QED BY <1>1, <1>2, <1>3, <1>4, <1>5, <1>6, <1>7 DEF Manager

LEMMA FillType == TypeOK /\ FillPage => TypeOK'
<1> SUFFICES ASSUME TypeOK, FillPage PROVE TypeOK'
  OBVIOUS
<1> USE DEF TypeOK, ScannerPcs, ringVars, managerVars, ScannerAt
<1>1. filled \in Pages /\ filled + 1 \in 0 .. NumPages
  <2>1. filled \in Nat /\ filled < NumPages
    BY DEF FillPage
  <2> QED BY ONLY <2>1, ConstantFacts
<1>2. InitLayer[filled] \in Layers
  BY <1>1, ConstantFacts
<1>3. RingTypeOK' /\ nodePtr' \in [Pages -> Blocks \cup {Null}]
  <2>1. CASE UseRing /\ InitLayer[filled] = Local
    <3>1. PICK b \in Blocks : /\ Insert(filled, b)
                              /\ nodePtr' = [nodePtr EXCEPT ![filled] = b]
      BY <2>1 DEF FillPage
    <3> QED BY <1>1, <3>1, InsertType
  <2>2. CASE ~(UseRing /\ InitLayer[filled] = Local)
    BY <2>2 DEF FillPage, RingTypeOK
  <2> QED BY <2>1, <2>2
<1>4. clock * UsPerMs \in Nat
  BY PageTableAssumption
<1>5. stamp' \in [Pages -> Nat]
  BY <1>4 DEF FillPage
<1>6. cnt' \in [Pages -> 0 .. CountMod - 1]
  <2>1. \A c \in UninitCounts : c \in 0 .. CountMod - 1
    BY PageTableAssumption
  <2> QED BY <2>1 DEF FillPage
<1>7. layer' \in [Pages -> Layers \cup {Null}]
  BY <1>2 DEF FillPage
<1>8. count' \in [Layers -> Nat]
  <2>1. count' = [count EXCEPT ![InitLayer[filled]] = @ + 1]
    BY DEF FillPage
  <2> QED BY <2>1, Increment
<1> QED BY <1>1, <1>3, <1>5, <1>6, <1>7, <1>8 DEF FillPage

-----------------------------------------------------------------------------
(* Where the scanner is *)

flowVars == <<layer, filled, scPc, seen, frame, pending, count>>

LEMMA SameFlow == FlowInv /\ UNCHANGED flowVars => FlowInv'
BY DEF FlowInv, FillInv, SeenInv, FrameInv, RoomInv, Scanning, BeforeMove, BeforeCountUp,
       BeforeCountDown, Nested, flowVars

LEMMA FillFlow == TypeOK /\ FlowInv /\ FillPage => FlowInv'
<1> SUFFICES ASSUME TypeOK, FlowInv, FillPage PROVE FlowInv'
  OBVIOUS
<1>1. /\ scPc = "fill" /\ filled \in Nat /\ filled < NumPages /\ filled \in Pages
      /\ filled' = filled + 1
      /\ layer' = [layer EXCEPT ![filled] = InitLayer[filled]]
      /\ scPc' = IF filled + 1 = NumPages THEN "scan" ELSE "fill"
      /\ frame = NoFrame /\ pending = NoFrame /\ UNCHANGED <<frame, pending>>
  BY ConstantFacts DEF FillPage, ScannerAt, TypeOK, FlowInv, FrameInv, Scanning
<1>2. InitLayer[filled] # Null
  BY <1>1, ConstantFacts, LayerFacts
<1>3. FillInv'
  <2>1. \A p \in Pages : layer[p] = Null <=> p >= filled
    BY DEF FlowInv, FillInv
  <2>2. \A p \in Pages : layer'[p] = IF p = filled THEN InitLayer[filled] ELSE layer[p]
    BY <1>1 DEF TypeOK
  <2>3. \A p \in Pages : layer'[p] = Null <=> p >= filled + 1
    BY <1>1, <1>2, <2>1, <2>2, ConstantFacts
  <2>4. scPc' = "fill" <=> filled + 1 < NumPages
    BY <1>1, ConstantFacts
  <2> QED BY <1>1, <2>3, <2>4 DEF FillInv
<1>4. SeenInv' /\ FrameInv' /\ RoomInv'
  BY <1>1 DEF SeenInv, FrameInv, RoomInv, Scanning, BeforeMove, BeforeCountUp,
     BeforeCountDown, Nested
<1> QED BY <1>3, <1>4 DEF FlowInv

LEMMA ClassifyFlow == TypeOK /\ FlowInv /\ Classify => FlowInv'
<1> SUFFICES ASSUME TypeOK, FlowInv, Classify PROVE FlowInv'
  OBVIOUS
<1>1. scPc \in {"scan", "count", "hot", "cold", "recheck"}
  BY DEF Classify, ScanNext, LoadCount, ClassifyHot, ClassifyCold, Recheck, ScannerAt
<1>2. frame = NoFrame /\ pending = NoFrame
  BY <1>1 DEF FlowInv, FrameInv, Scanning
<1>3. UNCHANGED <<layer, filled, pending, count>>
  BY DEF Classify, ScanNext, LoadCount, ClassifyHot, ClassifyCold, Recheck, classifyFrame,
         scannerFrame, metaVars
<1>4. scPc' # "fill"
  BY DEF Classify, ScanNext, LoadCount, ClassifyHot, ClassifyCold, Recheck, Dispatch
<1>5. FillInv'
  BY <1>1, <1>3, <1>4 DEF FlowInv, FillInv
<1> USE DEF ScannerAt
<1>6. CASE ScanNext
  <2>1. seen' # NothingSeen /\ seen'.layer = layer[seen'.page]
    <3>1. seen' = [page |-> scanIndex, layer |-> layer[scanIndex],
                   last |-> stamp[scanIndex], cnt |-> 0]
      BY <1>6 DEF ScanNext
    <3>2. scanIndex # Null
      BY LayerFacts DEF TypeOK
    <3> QED BY <3>1, <3>2 DEF NothingSeen
  <2>2. scPc' = "count" /\ frame' = NoFrame
    BY <1>2, <1>6 DEF ScanNext
  <2> QED BY <1>2, <1>3, <1>5, <2>1, <2>2 DEF FlowInv, SeenInv, FrameInv, RoomInv, Scanning,
          BeforeMove, BeforeCountUp, BeforeCountDown, Nested
<1>7. CASE LoadCount
  <2>1. /\ seen \in [page : Pages, layer : Layers, last : Nat, cnt : 0 .. CountMod - 1]
        /\ seen.layer = layer[seen.page]
    BY <1>7 DEF LoadCount, FlowInv, SeenInv, TypeOK
  <2>2. seen'.page = seen.page /\ seen'.layer = seen.layer
    BY <1>7, <2>1 DEF LoadCount
  <2>3. seen' # NothingSeen
    BY <2>1, <2>2, LayerFacts DEF NothingSeen
  <2>4. scPc' = "hot" /\ frame' = NoFrame
    BY <1>2, <1>7 DEF LoadCount
  <2> QED BY <1>2, <1>3, <1>5, <2>1, <2>2, <2>3, <2>4 DEF FlowInv, SeenInv, FrameInv, RoomInv,
          Scanning, BeforeMove, BeforeCountUp, BeforeCountDown, Nested
<1>8. ASSUME NEW s, Dispatch(s), scPc \in {"hot", "cold", "recheck"} PROVE FlowInv'
  <2>1. /\ seen \in [page : Pages, layer : Layers, last : Nat, cnt : 0 .. CountMod - 1]
        /\ seen.layer = layer[seen.page]
    BY <1>8 DEF FlowInv, SeenInv, TypeOK
  <2>2. CASE TargetLayer(seen.layer, s) = seen.layer
    <3>1. scPc' = "scan" /\ frame' = NoFrame
      BY <1>8, <2>2 DEF Dispatch
    <3> QED BY <1>2, <1>3, <1>5, <3>1 DEF FlowInv, SeenInv, FrameInv, RoomInv,
            Scanning, BeforeMove, BeforeCountUp, BeforeCountDown, Nested
  <2>3. CASE TargetLayer(seen.layer, s) # seen.layer
    <3>1. /\ scPc' = "enter"
          /\ frame' = [page |-> seen.page, target |-> TargetLayer(seen.layer, s),
                       from |-> layer[seen.page]]
      BY <1>8, <2>3 DEF Dispatch
    <3>2. frame' \in Frames /\ frame'.from # frame'.target
      BY <2>1, <2>3, <3>1, TargetLayerType DEF Frames
    <3>3. layer'[frame'.page] = frame'.from
      BY <1>3, <3>1
    <3> QED BY <1>2, <1>3, <1>5, <3>1, <3>2, <3>3 DEF FlowInv, SeenInv, FrameInv, RoomInv,
            Scanning, BeforeMove, BeforeCountUp, BeforeCountDown, Nested
  <2> QED BY <2>2, <2>3
<1>9. ASSUME scPc' \in {"cold", "recheck"}, UNCHANGED <<seen, frame>>,
             scPc \in {"hot", "cold"}
      PROVE  FlowInv'
  BY <1>2, <1>3, <1>5, <1>9 DEF FlowInv, SeenInv, FrameInv, RoomInv, Scanning, BeforeMove,
     BeforeCountUp, BeforeCountDown, Nested
<1>10. CASE ClassifyHot
  BY <1>8, <1>9, <1>10 DEF ClassifyHot
<1>11. CASE ClassifyCold
  BY <1>8, <1>9, <1>11 DEF ClassifyCold
<1>12. CASE Recheck
  BY <1>8, <1>12 DEF Recheck
<1> QED BY <1>6, <1>7, <1>10, <1>11, <1>12 DEF Classify

LEMMA MigrateFlow ==
  TypeOK /\ FlowInv /\ RingLinked /\ NodesInv /\ Migrate => FlowInv'
<1> SUFFICES ASSUME TypeOK, FlowInv, RingLinked, NodesInv, Migrate PROVE FlowInv'
  OBVIOUS
<1> USE DEF FillInv, SeenInv, FrameInv, RoomInv, Scanning, BeforeMove, BeforeCountUp,
            BeforeCountDown, Nested, ScannerAt
<1>1. FillInv /\ SeenInv /\ FrameInv /\ RoomInv
  BY DEF FlowInv
<1>2. ~Scanning /\ frame \in Frames /\ frame.from # frame.target
  BY <1>1 DEF Migrate, Unlink, CheckCapacity, SweepPast, Evict, Move, Link, TakeStamp,
     StoreStamp, ResetCount, CountDown, CountUp, CountRoute
<1>3. /\ frame.page \in Pages /\ frame.from \in Layers /\ frame.target \in Layers
      /\ pending \in Frames \cup {NoFrame}
  BY <1>2 DEF Frames, TypeOK
<1>4. UNCHANGED filled /\ scPc' # "fill" /\ scPc # "fill"
  BY <1>2 DEF Migrate, Unlink, CheckCapacity, SweepPast, Evict, Move, Link, TakeStamp,
     StoreStamp, ResetCount, CountDown, CountUp, CountRoute, Return, migrateFrame, scannerFrame
<1>5. SeenInv'
  BY DEF Migrate, Unlink, CheckCapacity, SweepPast, Evict, Move, Link, TakeStamp,
     StoreStamp, ResetCount, CountDown, CountUp, CountRoute, Return
<1>6. UNCHANGED layer => FillInv'
  BY <1>1, <1>4
<1>7. CASE Unlink
  BY <1>1, <1>2, <1>5, <1>6, <1>7 DEF FlowInv, Unlink
<1>8. ASSUME Return, scPc \in {"capacity", "countRoute"}, UNCHANGED layer PROVE FlowInv'
  <2>1. CASE pending = NoFrame
    BY <1>5, <1>6, <1>8, <2>1 DEF FlowInv, Return
  <2>2. CASE pending # NoFrame
    <3>1. scPc' = "move" /\ frame' = pending /\ pending' = NoFrame
      BY <1>8, <2>2 DEF Return
    <3>2. /\ pending \in Frames /\ pending.from # pending.target
          /\ layer[pending.page] = pending.from
          /\ UseRing /\ pending.target = Local
      BY <1>1, <1>3, <2>2
    <3> QED BY <1>5, <1>6, <1>8, <3>1, <3>2 DEF FlowInv
  <2> QED BY <2>1, <2>2
<1>9. CASE CheckCapacity
  <2>1. UNCHANGED <<layer, count>> /\ scPc = "capacity"
    BY <1>9 DEF CheckCapacity, metaVars
  <2>2. CASE Full(frame.target) /\ ~(UseRing /\ frame.target = Local)
    BY <1>8, <1>9, <2>1, <2>2 DEF CheckCapacity
  <2>3. CASE Full(frame.target) /\ UseRing /\ frame.target = Local
    BY <1>1, <1>2, <1>5, <1>6, <1>9, <2>1, <2>3 DEF FlowInv, CheckCapacity
  <2>4. CASE ~Full(frame.target)
    <3>1. count[frame.target] < Capacity[frame.target]
      <4>1. count[frame.target] \in Nat
        BY <1>3 DEF TypeOK
      <4>2. Capacity[frame.target] \in Nat
        BY <1>3, ConstantFacts
      <4> QED BY <2>4, <4>1, <4>2 DEF Full
    <3>2. scPc' = "move" /\ UNCHANGED <<frame, pending>>
      BY <1>9, <2>4 DEF CheckCapacity
    <3> QED BY <1>1, <1>2, <1>5, <1>6, <2>1, <3>1, <3>2 DEF FlowInv
  <2> QED BY <2>2, <2>3, <2>4
<1>10. CASE SweepPast
  BY <1>1, <1>2, <1>5, <1>6, <1>10 DEF FlowInv, SweepPast, metaVars
<1>11. CASE Evict
  <2> DEFINE v == page_id[hand]
  <2>1. v \in Pages /\ layer[v] = Local
    BY <1>11, VictimIsLocal DEF Evict, TakeVictim
  <2>2. /\ scPc = "evict" /\ scPc' = "enter" /\ pending' = frame /\ UNCHANGED layer
        /\ frame' = [page |-> v, target |-> IF Full(Remote) THEN Pmem ELSE Remote,
                     from |-> layer[v]]
    BY <1>11 DEF Evict, metaVars
  <2> HIDE DEF v
  <2>3. /\ frame' \in Frames /\ frame'.from = Local /\ frame'.target # Local
        /\ frame'.page = v
    BY <2>1, <2>2, LayerFacts DEF Frames
  <2>4. /\ UseRing /\ frame.target = Local /\ frame.from # Local
        /\ layer[frame.page] = frame.from
    BY <1>1, <1>2, <2>2
  <2>5. v # frame.page
    BY <2>1, <2>4
  <2> QED BY <1>3, <1>5, <1>6, <2>1, <2>2, <2>3, <2>4, <2>5 DEF FlowInv
<1>12. CASE Move
  <2>1. /\ scPc = "move" /\ UNCHANGED <<frame, pending, count>>
        /\ scPc' = IF UseRing /\ frame.target = Local THEN "link" ELSE "clock"
        /\ layer' = [layer EXCEPT ![frame.page] = frame.target]
    BY <1>12 DEF Move
  <2>2. \A p \in Pages : layer'[p] = IF p = frame.page THEN frame.target ELSE layer[p]
    BY <1>3, <2>1 DEF TypeOK
  <2>3. layer[frame.page] # Null /\ frame.target # Null
    BY <1>1, <1>3, <2>1, LayerFacts
  <2>4. FillInv'
    BY <1>1, <1>3, <1>4, <2>2, <2>3
  <2>5. Nested => pending.page \in Pages
    BY <1>3 DEF Frames
  <2> QED BY <1>1, <1>2, <1>3, <1>5, <2>1, <2>2, <2>4, <2>5 DEF FlowInv
<1>13. CASE Link
  BY <1>1, <1>2, <1>5, <1>6, <1>13 DEF FlowInv, Link
<1>14. CASE TakeStamp
  BY <1>1, <1>2, <1>5, <1>6, <1>14 DEF FlowInv, TakeStamp, metaVars
<1>15. CASE StoreStamp
  BY <1>1, <1>2, <1>5, <1>6, <1>15 DEF FlowInv, StoreStamp
<1>16. CASE ResetCount
  BY <1>1, <1>2, <1>5, <1>6, <1>16 DEF FlowInv, ResetCount
<1>17. CASE CountDown
  <2>1. count'[frame.target] = count[frame.target]
    BY <1>2, <1>3, <1>17 DEF CountDown, TypeOK
  <2> QED BY <1>1, <1>2, <1>5, <1>6, <1>17, <2>1 DEF FlowInv, CountDown, metaVars
<1>18. CASE CountUp
  BY <1>1, <1>2, <1>5, <1>6, <1>18 DEF FlowInv, CountUp, metaVars
<1>19. CASE CountRoute
  BY <1>8, <1>19 DEF CountRoute, metaVars
<1> QED
  BY <1>7, <1>9, <1>10, <1>11, <1>12, <1>13, <1>14, <1>15, <1>16, <1>17, <1>18, <1>19
  DEF Migrate

-----------------------------------------------------------------------------
(* The ring *)

listVars == <<hand, page_id, prev, next>>

LEMMA SameList ==
  RingLinked /\ RingConnected /\ UNCHANGED listVars =>
    RingLinked' /\ RingConnected' /\ LiveBlocks' = LiveBlocks
BY DEF RingLinked, RingConnected, LiveBlocks, Live, listVars

\* No page has two nodes, and no node without a page that points to it.
LEMMA NodeOfPage ==
  ASSUME TypeOK, RingInv, NEW b \in LiveBlocks
  PROVE  /\ b \in Blocks /\ b # Null /\ page_id[b] \in Pages
         /\ nodePtr[page_id[b]] = b /\ layer[page_id[b]] = Local
BY LayerFacts DEF RingInv, NodesInv, LiveBlocks, Live, TypeOK, RingTypeOK

\* A step that leaves the list, the pages' layers and pointers and the
\* scanner's migration as they are.
LEMMA SameRing ==
  RingInv /\ UNCHANGED <<listVars, layer, nodePtr, scPc, frame, pending>> => RingInv'
BY DEF RingInv, RingLinked, RingConnected, NodesInv, PointersInv, EvictedAgain, Nested,
       ClosedOver, LiveBlocks, Live, listVars

\* A step that leaves the list, the layers and the pointers as they are, and
\* takes the scanner to a position with no claim on the list.
LEMMA RingElsewhere ==
  ASSUME RingInv, UNCHANGED <<listVars, layer, nodePtr>>, ~EvictedAgain, ~EvictedAgain',
         (scPc' \in {"capacity", "move"} /\ frame'.from = Local) \/ scPc' = "link" =>
           \A b \in LiveBlocks : page_id[b] # frame'.page
  PROVE  RingInv'
<1>1. RingLinked' /\ RingConnected' /\ LiveBlocks' = LiveBlocks
  BY SameList DEF RingInv
<1>2. NodesInv'
  BY <1>1 DEF RingInv, NodesInv, listVars
<1>3. PointersInv'
  BY <1>1 DEF RingInv, PointersInv, Live, listVars
<1> QED BY <1>1, <1>2, <1>3 DEF RingInv

LEMMA ClassifyRing == TypeOK /\ FlowInv /\ RingInv /\ Classify => RingInv'
<1> SUFFICES ASSUME TypeOK, FlowInv, RingInv, Classify PROVE RingInv'
  OBVIOUS
<1>1. UNCHANGED <<listVars, layer, nodePtr, pending>>
  BY DEF Classify, ScanNext, LoadCount, ClassifyHot, ClassifyCold, Recheck, classifyFrame,
         ringVars, metaVars, listVars
<1>2. Scanning
  BY DEF Classify, ScanNext, LoadCount, ClassifyHot, ClassifyCold, Recheck, ScannerAt,
         Scanning
<1>3. pending = NoFrame
  BY <1>2 DEF FlowInv, FrameInv
<1>4. ~EvictedAgain /\ ~EvictedAgain'
  BY <1>1, <1>3 DEF EvictedAgain, Nested
<1>5. scPc' \notin {"capacity", "move", "link"}
  BY DEF Classify, ScanNext, LoadCount, ClassifyHot, ClassifyCold, Recheck, Dispatch
<1> QED BY <1>1, <1>4, <1>5, RingElsewhere

\* A page without a node, local by then, gets one.
LEMMA InsertRing ==
  ASSUME TypeOK, RingInv, ~EvictedAgain, ~EvictedAgain', UseRing,
         NEW p \in Pages, NEW b \in Blocks, Insert(p, b),
         nodePtr' = [nodePtr EXCEPT ![p] = b],
         layer'[p] = Local, \A q \in Pages : q # p => layer'[q] = layer[q],
         \A x \in LiveBlocks : page_id[x] # p,
         scPc' \notin {"capacity", "move", "link"}
  PROVE  RingInv'
<1>1. RingLinked' /\ RingConnected'
  BY InsertLinked, InsertConnected DEF RingInv, TypeOK
<1>2. /\ LiveBlocks' = LiveBlocks \cup {b} /\ page_id'[b] = p
      /\ \A x \in Blocks : x # b => page_id'[x] = page_id[x]
  BY InsertLive DEF TypeOK
<1>3. b \notin LiveBlocks
  BY DEF Insert, LiveBlocks
<1>4. nodePtr'[p] = b /\ \A q \in Pages : q # p => nodePtr'[q] = nodePtr[q]
  BY DEF TypeOK
<1>5. NodesInv'
  <2>1. ASSUME NEW x \in LiveBlocks
        PROVE  layer'[page_id'[x]] = Local /\ nodePtr'[page_id'[x]] = x
    BY <1>2, <1>3, <1>4, NodeOfPage
  <2> QED BY <1>2, <1>4, <2>1 DEF NodesInv
<1>6. PointersInv'
  <2>1. ASSUME NEW q \in Pages, nodePtr'[q] # Null
        PROVE  page_id'[nodePtr'[q]] = q
    <3>1. CASE q = p
      BY <1>2, <1>4, <3>1
    <3>2. CASE q # p
      <4>1. nodePtr'[q] = nodePtr[q] /\ nodePtr[q] \in Blocks
        BY <1>4, <2>1, <3>2 DEF TypeOK
      <4>2. Live(nodePtr[q]) /\ page_id[nodePtr[q]] = q
        BY <2>1, <4>1 DEF RingInv, PointersInv
      <4>3. nodePtr[q] # b
        BY <1>3, <4>1, <4>2 DEF LiveBlocks
      <4> QED BY <1>2, <4>1, <4>2, <4>3
    <3> QED BY <3>1, <3>2
  <2> QED BY <2>1, LayerFacts DEF PointersInv, Live
<1> QED BY <1>1, <1>5, <1>6 DEF RingInv

LEMMA FillRing == TypeOK /\ FlowInv /\ RingInv /\ FillPage => RingInv'
<1> SUFFICES ASSUME TypeOK, FlowInv, RingInv, FillPage PROVE RingInv'
  OBVIOUS
<1>1. /\ scPc = "fill" /\ filled \in Pages /\ layer[filled] = Null
      /\ layer' = [layer EXCEPT ![filled] = InitLayer[filled]]
      /\ scPc' \in {"scan", "fill"} /\ UNCHANGED pending
  <2>1. scPc = "fill" /\ filled \in Nat /\ filled < NumPages
    BY DEF FillPage, ScannerAt, TypeOK
  <2>2. filled \in Pages
    BY <2>1, ConstantFacts
  <2> QED BY <2>1, <2>2 DEF FillPage, FlowInv, FillInv
<1>2. ~EvictedAgain /\ ~EvictedAgain'
  BY <1>1 DEF EvictedAgain
<1>3. \A p \in Pages : p # filled => layer'[p] = layer[p]
  BY <1>1 DEF TypeOK
<1>4. \A x \in LiveBlocks : page_id[x] # filled
  BY <1>1, NodeOfPage, LayerFacts
<1>5. CASE UseRing /\ InitLayer[filled] = Local
  <2>1. PICK b \in Blocks : /\ Insert(filled, b)
                            /\ nodePtr' = [nodePtr EXCEPT ![filled] = b]
    BY <1>5 DEF FillPage
  <2>2. layer'[filled] = Local
    BY <1>1, <1>5 DEF TypeOK
  <2> QED BY <1>1, <1>2, <1>3, <1>4, <1>5, <2>1, <2>2, InsertRing
<1>6. CASE ~(UseRing /\ InitLayer[filled] = Local)
  <2>1. UNCHANGED <<listVars, nodePtr>>
    BY <1>6 DEF FillPage, ringVars, listVars
  <2>2. RingLinked' /\ RingConnected' /\ LiveBlocks' = LiveBlocks
    BY <2>1, SameList DEF RingInv
  <2>3. NodesInv'
    BY <1>1, <1>3, <1>4, <2>1, <2>2, NodeOfPage DEF RingInv, NodesInv, listVars
  <2>4. PointersInv'
    BY <1>2, <2>1 DEF RingInv, PointersInv, Live, listVars
  <2> QED BY <2>2, <2>3, <2>4 DEF RingInv
<1> QED BY <1>5, <1>6

LEMMA MigrateRing == TypeOK /\ FlowInv /\ RingInv /\ Migrate => RingInv'
<1> SUFFICES ASSUME TypeOK, FlowInv, RingInv, Migrate PROVE RingInv'
  OBVIOUS
<1> USE DEF ScannerAt
<1>1. FrameInv
  BY DEF FlowInv
<1>2. /\ frame.page \in Pages /\ frame.from \in Layers /\ frame.target \in Layers
      /\ frame.from # frame.target
  BY <1>1 DEF FrameInv, Scanning, Frames, Migrate, Unlink, CheckCapacity, SweepPast, Evict,
     Move, Link, TakeStamp, StoreStamp, ResetCount, CountDown, CountUp, CountRoute
<1>3. scPc # "enter" => ~EvictedAgain
  BY DEF EvictedAgain
<1>4. scPc' # "enter" => ~EvictedAgain'
  BY DEF EvictedAgain
<1>5. CASE Unlink
  <2>1. /\ scPc = "enter" /\ scPc' = "capacity" /\ UNCHANGED <<layer, frame, pending>>
        /\ ~EvictedAgain'
    BY <1>4, <1>5 DEF Unlink
  <2>2. CASE ~LeavesRing
    <3>1. UNCHANGED <<listVars, nodePtr>>
      BY <1>5, <2>2 DEF Unlink, ringVars, listVars
    <3>2. ~EvictedAgain
      BY <1>1, <2>2 DEF EvictedAgain, FrameInv, LeavesRing
    <3>3. frame.from = Local => LiveBlocks = {}
      BY <2>2 DEF LeavesRing, RingInv, NodesInv
    <3> QED BY <2>1, <3>1, <3>2, <3>3, RingElsewhere
  <2>3. CASE LeavesRing
    <3> DEFINE b == nodePtr[frame.page]
    <3>1. /\ b # Null /\ b \in Blocks /\ Remove(b)
          /\ nodePtr' = [nodePtr EXCEPT ![frame.page] = Null]
      BY <1>2, <1>5, <2>3 DEF Unlink, TypeOK
    <3>2. /\ nodePtr'[frame.page] = Null
          /\ \A p \in Pages : p # frame.page => nodePtr'[p] = nodePtr[p]
      BY <1>2, <3>1 DEF TypeOK
    <3> HIDE DEF b
    <3>3. CASE ~EvictedAgain
      <4>1. Live(b) /\ page_id[b] = frame.page /\ b \in LiveBlocks
        BY <1>2, <3>1, <3>3 DEF RingInv, PointersInv, LiveBlocks, b
      <4>2. RingLinked' /\ RingConnected'
        BY <3>1, <4>1, RemoveLinked, RemoveConnected DEF RingInv, TypeOK
      <4>3. /\ LiveBlocks' = LiveBlocks \ {b}
            /\ \A x \in Blocks : x # b => page_id'[x] = page_id[x]
        BY <3>1, RemoveLive DEF TypeOK
      <4>4. \A x \in LiveBlocks' : x \in LiveBlocks /\ page_id'[x] = page_id[x]
                                   /\ page_id[x] # frame.page
        BY <4>3, NodeOfPage DEF b
      <4>5. NodesInv'
        BY <2>1, <3>2, <4>3, <4>4, NodeOfPage, <2>3 DEF NodesInv, LeavesRing
      <4>6. ASSUME NEW p \in Pages, nodePtr'[p] # Null
            PROVE  page_id'[nodePtr'[p]] # Null /\ page_id'[nodePtr'[p]] = p
        <5>1. p # frame.page /\ nodePtr'[p] = nodePtr[p]
          BY <3>2, <4>6
        <5>2. Live(nodePtr[p]) /\ page_id[nodePtr[p]] = p /\ nodePtr[p] \in Blocks
          BY <3>3, <4>6, <5>1 DEF RingInv, PointersInv, TypeOK
        <5>3. nodePtr[p] # b
          BY <4>1, <5>1, <5>2
        <5>4. page_id'[nodePtr[p]] = p
          BY <4>3, <5>2, <5>3
        <5> QED BY <5>1, <5>4, LayerFacts
      <4>7. PointersInv'
        BY <2>1, <4>6 DEF PointersInv, Live
      <4> QED BY <4>2, <4>5, <4>7 DEF RingInv
    <3>4. CASE EvictedAgain
      <4>1. ~Live(b) /\ ClosedOver(b)
        BY <3>4 DEF RingInv, PointersInv, b
      <4>2. UNCHANGED listVars
        BY <3>1, <4>1, RemoveAgain DEF TypeOK, listVars
      <4>3. RingLinked' /\ RingConnected' /\ LiveBlocks' = LiveBlocks
        BY <4>2, SameList DEF RingInv
      <4>4. \A x \in LiveBlocks : page_id[x] # frame.page
        BY <4>1, NodeOfPage DEF b, LiveBlocks
      <4>5. NodesInv'
        BY <2>1, <3>2, <4>2, <4>3, <4>4, NodeOfPage, <2>3 DEF NodesInv, LeavesRing, listVars
      <4>6. PointersInv'
        BY <2>1, <3>2, <4>2 DEF RingInv, PointersInv, Live, listVars
      <4> QED BY <4>3, <4>5, <4>6 DEF RingInv
    <3> QED BY <3>3, <3>4
  <2> QED BY <2>2, <2>3
<1>6. ASSUME Return, scPc \in {"capacity", "countRoute"},
             UNCHANGED <<listVars, layer, nodePtr>>
      PROVE  RingInv'
  <2>1. \/ scPc' = "scan"
        \/ scPc' = "move" /\ frame' = pending /\ Nested
    BY <1>6 DEF Return, Nested
  <2>2. Nested => pending.from # Local
    BY <1>1 DEF FrameInv
  <2> QED BY <1>3, <1>4, <1>6, <2>1, <2>2, RingElsewhere
<1>7. CASE CheckCapacity
  <2>1. UNCHANGED <<listVars, layer, nodePtr>> /\ scPc = "capacity"
    BY <1>7 DEF CheckCapacity, ringVars, metaVars, listVars
  <2>2. \/ Return
        \/ scPc' \in {"move", "evict"} /\ UNCHANGED frame
    BY <1>7 DEF CheckCapacity
  <2>3. frame.from = Local => \A b \in LiveBlocks : page_id[b] # frame.page
    BY <2>1 DEF RingInv, NodesInv
  <2> QED BY <1>3, <1>4, <1>6, <2>1, <2>2, <2>3, RingElsewhere
<1>8. CASE SweepPast
  <2>1. /\ scPc = "evict" /\ UNCHANGED <<page_id, prev, next, layer, nodePtr, scPc>>
        /\ hand # Null /\ hand' = next[hand]
    BY <1>8 DEF SweepPast, PassReferenced, metaVars
  <2>2. LiveBlocks' = LiveBlocks
    BY <2>1 DEF LiveBlocks, Live
  <2>3. hand' \in LiveBlocks /\ hand' # Null
    BY <2>1, LayerFacts DEF RingInv, RingLinked, LiveBlocks
  <2>4. RingLinked' /\ RingConnected'
    BY <2>1, <2>2, <2>3 DEF RingInv, RingLinked, RingConnected
  <2>5. NodesInv' /\ PointersInv'
    BY <1>3, <1>4, <2>1, <2>2 DEF RingInv, NodesInv, PointersInv, Live
  <2> QED BY <2>4, <2>5 DEF RingInv
<1>9. CASE Evict
  <2>1. PICK h \in LiveBlocks : /\ h = hand /\ Remove(h)
                                /\ h \in Blocks /\ page_id[h] \in Pages
                                /\ nodePtr[page_id[h]] = h
    BY <1>9, VictimIsLocal DEF Evict, TakeVictim, RingInv
  <2>2. PICK v \in Pages : v = page_id[h]
    BY <2>1
  <2>3. /\ scPc = "evict" /\ scPc' = "enter" /\ frame'.page = v /\ nodePtr[v] = h
        /\ UNCHANGED <<layer, nodePtr>> /\ pending' = frame
    BY <1>9, <2>1, <2>2 DEF Evict, metaVars
  <2>4. RingLinked' /\ RingConnected' /\ ClosedOver(h)'
    BY <2>1, RemoveLinked, RemoveConnected, RemoveCloses DEF RingInv, TypeOK
  <2>5. /\ LiveBlocks' = LiveBlocks \ {h} /\ page_id'[h] = Null
        /\ \A x \in Blocks : x # h => page_id'[x] = page_id[x]
    BY <2>1, RemoveLive DEF TypeOK
  <2>6. NodesInv'
    <3>1. \A x \in LiveBlocks' : x \in LiveBlocks /\ page_id'[x] = page_id[x]
      BY <2>5, NodeOfPage
    <3>2. ~UseRing => LiveBlocks' = {}
      BY <2>5 DEF RingInv, NodesInv
    <3> QED BY <2>3, <3>1, <3>2, NodeOfPage DEF NodesInv
  <2>7. ASSUME NEW p \in Pages, nodePtr[p] # Null, p # v
        PROVE  page_id'[nodePtr[p]] = p
    <3>1. page_id[nodePtr[p]] = p /\ nodePtr[p] \in Blocks
      BY <1>3, <2>3, <2>7 DEF RingInv, PointersInv, TypeOK
    <3>2. nodePtr[p] # h
      BY <2>2, <2>7, <3>1
    <3> QED BY <2>5, <3>1, <3>2
  <2>8. PointersInv'
    <3>1. frame # NoFrame
      BY <1>2, LayerFacts DEF NoFrame
    <3>2. EvictedAgain'
      BY <2>3, <3>1 DEF EvictedAgain, Nested
    <3>3. h # Null /\ nodePtr'[frame'.page] = h
      BY <2>1, <2>3, LayerFacts
    <3>4. ~Live(h)'
      BY <2>5 DEF Live
    <3>5. \A p \in Pages : nodePtr'[p] # Null /\ p # frame'.page =>
            page_id'[nodePtr'[p]] # Null /\ page_id'[nodePtr'[p]] = p
      BY <2>3, <2>7, LayerFacts
    <3>6. ClosedOver(nodePtr[frame.page])'
      BY <2>4, <3>3 DEF ClosedOver
    <3> QED BY <3>2, <3>3, <3>4, <3>5, <3>6 DEF PointersInv, Live
  <2> QED BY <2>4, <2>6, <2>8 DEF RingInv
<1>10. CASE Move
  <2>1. /\ scPc = "move" /\ scPc' \in {"link", "clock"}
        /\ UNCHANGED <<listVars, nodePtr, frame>>
        /\ layer' = [layer EXCEPT ![frame.page] = frame.target]
        /\ layer[frame.page] = frame.from
    BY <1>1, <1>10 DEF Move, ringVars, listVars, FrameInv, BeforeMove
  <2>2. \A p \in Pages : p # frame.page => layer'[p] = layer[p]
    BY <2>1 DEF TypeOK
  <2>3. \A x \in LiveBlocks : page_id[x] # frame.page
    BY <2>1, NodeOfPage DEF RingInv, NodesInv
  <2>4. RingLinked' /\ RingConnected' /\ LiveBlocks' = LiveBlocks
    BY <2>1, SameList DEF RingInv
  <2>5. NodesInv'
    BY <2>1, <2>2, <2>3, <2>4, NodeOfPage DEF RingInv, NodesInv, listVars
  <2>6. PointersInv'
    BY <1>3, <1>4, <2>1 DEF RingInv, PointersInv, Live, listVars
  <2> QED BY <2>4, <2>5, <2>6 DEF RingInv
<1>11. CASE Link
  <2>1. PICK b \in Blocks : /\ Insert(frame.page, b)
                            /\ nodePtr' = [nodePtr EXCEPT ![frame.page] = b]
    BY <1>11 DEF Link
  <2>2. /\ scPc = "link" /\ scPc' = "clock" /\ UNCHANGED layer
        /\ layer[frame.page] = Local /\ UseRing
    BY <1>1, <1>11 DEF Link, FrameInv, BeforeCountUp, BeforeCountDown
  <2>3. \A x \in LiveBlocks : page_id[x] # frame.page
    BY <2>2 DEF RingInv, NodesInv
  <2> QED BY <1>2, <1>3, <1>4, <2>1, <2>2, <2>3, InsertRing
<1>12. ASSUME UNCHANGED <<listVars, layer, nodePtr>>, scPc # "enter",
              scPc' \in {"stamp", "reset", "countDown", "countUp", "countRoute"}
       PROVE  RingInv'
  BY <1>3, <1>4, <1>12, RingElsewhere
<1>13. CASE TakeStamp
  BY <1>12, <1>13 DEF TakeStamp, ringVars, metaVars, listVars
<1>14. CASE StoreStamp
  BY <1>12, <1>14 DEF StoreStamp, ringVars, listVars
<1>15. CASE ResetCount
  BY <1>12, <1>15 DEF ResetCount, ringVars, listVars
<1>16. CASE CountDown
  BY <1>12, <1>16 DEF CountDown, ringVars, metaVars, listVars
<1>17. CASE CountUp
  BY <1>12, <1>17 DEF CountUp, ringVars, metaVars, listVars
<1>18. CASE CountRoute
  BY <1>6, <1>18 DEF CountRoute, ringVars, metaVars, listVars
<1> QED
  BY <1>5, <1>7, <1>8, <1>9, <1>10, <1>11, <1>13, <1>14, <1>15, <1>16, <1>17, <1>18
  DEF Migrate

-----------------------------------------------------------------------------
(* The layer counts *)

\* What it does to the populations of the layers that a page comes to a layer.
LEMMA PageMoves ==
  ASSUME TypeOK, NEW p \in Pages, NEW to \in Layers, layer[p] # to,
         layer' = [layer EXCEPT ![p] = to], NEW l \in Layers
  PROVE  Cardinality(Resident(l))' =
           IF l = to THEN Cardinality(Resident(l)) + 1
           ELSE IF l = layer[p] THEN Cardinality(Resident(l)) - 1
           ELSE Cardinality(Resident(l))
<1>1. layer'[p] = to /\ \A q \in Pages : q # p => layer'[q] = layer[q]
  BY DEF TypeOK
<1>2. CASE l = to
  <2>1. Resident(l)' = Resident(l) \cup {p} /\ p \notin Resident(l)
    BY <1>1, <1>2 DEF Resident
  <2> QED BY <1>2, <2>1, Finite, FS_AddElement
<1>3. CASE l # to /\ l = layer[p]
  <2>1. Resident(l)' = Resident(l) \ {p} /\ p \in Resident(l)
    BY <1>1, <1>3 DEF Resident
  <2> QED BY <1>3, <2>1, Finite, FS_RemoveElement
<1>4. CASE l # to /\ l # layer[p]
  <2>1. Resident(l)' = Resident(l)
    BY <1>1, <1>4 DEF Resident
  <2> QED BY <1>4, <2>1
<1> QED BY <1>2, <1>3, <1>4

\* A step that leaves layers and counts, and how much of the migration is
\* counted, as they are.
LEMMA SameCounts ==
  ASSUME CountsMatchLayers, UNCHANGED <<layer, count>>,
         BeforeCountDown' <=> BeforeCountDown, BeforeCountUp' <=> BeforeCountUp,
         BeforeCountUp => UNCHANGED frame
  PROVE  CountsMatchLayers'
<1>1. \A l \in Layers : Cardinality(Resident(l))' = Cardinality(Resident(l))
  BY DEF Resident
<1>2. BeforeCountDown => BeforeCountUp
  BY DEF BeforeCountUp
<1> QED BY <1>1, <1>2 DEF CountsMatchLayers

LEMMA FillCounts == TypeOK /\ FlowInv /\ CountsMatchLayers /\ FillPage => CountsMatchLayers'
<1> SUFFICES ASSUME TypeOK, FlowInv, CountsMatchLayers, FillPage PROVE CountsMatchLayers'
  OBVIOUS
<1>1. /\ scPc = "fill" /\ scPc' \in {"fill", "scan"}
      /\ filled \in Pages /\ layer[filled] = Null
      /\ layer' = [layer EXCEPT ![filled] = InitLayer[filled]]
      /\ count' = [count EXCEPT ![InitLayer[filled]] = @ + 1]
  <2>1. scPc = "fill" /\ filled \in Nat /\ filled < NumPages
    BY DEF FillPage, ScannerAt, TypeOK
  <2>2. filled \in Pages
    BY <2>1, ConstantFacts
  <2> QED BY <2>1, <2>2 DEF FillPage, FlowInv, FillInv
<1>2. InitLayer[filled] \in Layers /\ InitLayer[filled] # Null
  BY <1>1, ConstantFacts, LayerFacts
<1>3. ~BeforeCountUp /\ ~BeforeCountDown /\ ~BeforeCountUp' /\ ~BeforeCountDown'
  BY <1>1 DEF BeforeCountUp, BeforeCountDown
<1>4. ASSUME NEW l \in Layers PROVE count'[l] = Cardinality(Resident(l))'
  <2>1. count[l] = Cardinality(Resident(l))
    <3>1. count[l] + 0 = Cardinality(Resident(l)) + 0
      BY <1>3 DEF CountsMatchLayers
    <3> QED BY <3>1, Finite DEF TypeOK
  <2>2. count'[l] = IF l = InitLayer[filled] THEN count[l] + 1 ELSE count[l]
    BY <1>1 DEF TypeOK
  <2>3. l # layer[filled]
    BY <1>1, LayerFacts
  <2>4. Cardinality(Resident(l))' = IF l = InitLayer[filled]
                                    THEN Cardinality(Resident(l)) + 1
                                    ELSE Cardinality(Resident(l))
    BY <1>1, <1>2, <2>3, PageMoves
  <2> QED BY <2>1, <2>2, <2>4
<1>5. \A l \in Layers : count'[l] \in Nat /\ Cardinality(Resident(l))' \in Nat
  BY <1>4, FillType, Finite DEF TypeOK
<1> QED BY <1>3, <1>4, <1>5 DEF CountsMatchLayers

LEMMA MigrateCounts ==
  TypeOK /\ FlowInv /\ CountsMatchLayers /\ Migrate => CountsMatchLayers'
<1> SUFFICES ASSUME TypeOK, FlowInv, CountsMatchLayers, Migrate PROVE CountsMatchLayers'
  OBVIOUS
<1> USE DEF ScannerAt
<1>1. FrameInv
  BY DEF FlowInv
<1>2. /\ frame.page \in Pages /\ frame.from \in Layers /\ frame.target \in Layers
      /\ frame.from # frame.target
  BY <1>1 DEF FrameInv, Scanning, Frames, Migrate, Unlink, CheckCapacity, SweepPast, Evict,
     Move, Link, TakeStamp, StoreStamp, ResetCount, CountDown, CountUp, CountRoute
<1>3. \A l \in Layers : count[l] \in Nat /\ Cardinality(Resident(l)) \in Nat
  BY Finite DEF TypeOK
<1>4. CASE Unlink \/ CheckCapacity \/ SweepPast \/ Evict
  <2>1. ~BeforeCountUp /\ ~BeforeCountDown /\ ~BeforeCountUp' /\ ~BeforeCountDown'
    BY <1>4 DEF Unlink, CheckCapacity, SweepPast, Evict, Return, BeforeCountUp, BeforeCountDown
  <2>2. UNCHANGED <<layer, count>>
    BY <1>4 DEF Unlink, CheckCapacity, SweepPast, Evict, metaVars
  <2> QED BY <2>1, <2>2, SameCounts
<1>5. CASE Link \/ TakeStamp \/ StoreStamp \/ ResetCount
  <2>1. BeforeCountUp /\ BeforeCountDown /\ BeforeCountUp' /\ BeforeCountDown'
    BY <1>5 DEF Link, TakeStamp, StoreStamp, ResetCount, BeforeCountUp, BeforeCountDown
  <2>2. UNCHANGED <<layer, count, frame>>
    BY <1>5 DEF Link, TakeStamp, StoreStamp, ResetCount, metaVars
  <2> QED BY <2>1, <2>2, SameCounts
<1>6. CASE Move
  <2>1. /\ scPc = "move" /\ scPc' \in {"link", "clock"} /\ UNCHANGED <<frame, count>>
        /\ layer' = [layer EXCEPT ![frame.page] = frame.target]
        /\ layer[frame.page] = frame.from
    BY <1>1, <1>6 DEF Move, FrameInv, BeforeMove
  <2>2. ~BeforeCountUp /\ ~BeforeCountDown /\ BeforeCountUp' /\ BeforeCountDown'
    BY <2>1 DEF BeforeCountUp, BeforeCountDown
  <2>3. ASSUME NEW l \in Layers
        PROVE  count[l] + (IF l = frame.target THEN 1 ELSE 0)
                 = Cardinality(Resident(l))' + (IF l = frame.from THEN 1 ELSE 0)
    <3>1. count[l] + 0 = Cardinality(Resident(l)) + 0
      BY <2>2 DEF CountsMatchLayers
    <3>2. Cardinality(Resident(l))' =
            IF l = frame.target THEN Cardinality(Resident(l)) + 1
            ELSE IF l = frame.from THEN Cardinality(Resident(l)) - 1
            ELSE Cardinality(Resident(l))
      <4>1. layer[frame.page] # frame.target
        BY <1>2, <2>1
      <4>2. Cardinality(Resident(l))' =
              IF l = frame.target THEN Cardinality(Resident(l)) + 1
              ELSE IF l = layer[frame.page] THEN Cardinality(Resident(l)) - 1
              ELSE Cardinality(Resident(l))
        BY <1>2, <2>1, <4>1, PageMoves
      <4> QED BY <2>1, <4>2
    <3> QED BY <1>2, <1>3, <3>1, <3>2
  <2> QED BY <2>1, <2>2, <2>3 DEF CountsMatchLayers
<1>7. CASE CountDown
  <2>1. /\ scPc = "countDown" /\ scPc' = "countUp" /\ UNCHANGED <<frame, layer>>
        /\ count' = [count EXCEPT ![frame.from] = @ - 1]
    BY <1>7 DEF CountDown, metaVars
  <2>2. BeforeCountUp /\ BeforeCountDown /\ BeforeCountUp' /\ ~BeforeCountDown'
    BY <2>1 DEF BeforeCountUp, BeforeCountDown
  <2>3. ASSUME NEW l \in Layers
        PROVE  count'[l] + (IF l = frame.target THEN 1 ELSE 0)
                 = Cardinality(Resident(l))' + 0
    <3>1. count[l] + (IF l = frame.target THEN 1 ELSE 0)
            = Cardinality(Resident(l)) + (IF l = frame.from THEN 1 ELSE 0)
      BY <2>2 DEF CountsMatchLayers
    <3>2. count'[l] = IF l = frame.from THEN count[l] - 1 ELSE count[l]
      BY <1>2, <2>1 DEF TypeOK
    <3>3. Cardinality(Resident(l))' = Cardinality(Resident(l))
      BY <2>1 DEF Resident
    <3> QED BY <1>2, <1>3, <3>1, <3>2, <3>3
  <2> QED BY <2>1, <2>2, <2>3 DEF CountsMatchLayers
<1>8. CASE CountUp
  <2>1. /\ scPc = "countUp" /\ scPc' = "countRoute" /\ UNCHANGED layer
        /\ count' = [count EXCEPT ![frame.target] = @ + 1]
    BY <1>8 DEF CountUp, metaVars
  <2>2. BeforeCountUp /\ ~BeforeCountDown /\ ~BeforeCountUp' /\ ~BeforeCountDown'
    BY <2>1 DEF BeforeCountUp, BeforeCountDown
  <2>3. ASSUME NEW l \in Layers PROVE count'[l] + 0 = Cardinality(Resident(l))' + 0
    <3>1. count[l] + (IF l = frame.target THEN 1 ELSE 0) = Cardinality(Resident(l)) + 0
      BY <2>2 DEF CountsMatchLayers
    <3>2. count'[l] = count[l] + (IF l = frame.target THEN 1 ELSE 0)
      BY <1>2, <1>3, <2>1 DEF TypeOK
    <3>3. Cardinality(Resident(l))' = Cardinality(Resident(l))
      BY <2>1 DEF Resident
    <3> QED BY <1>3, <3>1, <3>2, <3>3
  <2> QED BY <2>2, <2>3 DEF CountsMatchLayers
<1>9. CASE CountRoute
  <2>1. ~BeforeCountUp /\ ~BeforeCountDown /\ ~BeforeCountUp' /\ ~BeforeCountDown'
    BY <1>9 DEF CountRoute, Return, BeforeCountUp, BeforeCountDown
  <2>2. UNCHANGED <<layer, count>>
    BY <1>9 DEF CountRoute, metaVars
  <2> QED BY <2>1, <2>2, SameCounts
<1> QED BY <1>4, <1>5, <1>6, <1>7, <1>8, <1>9 DEF Migrate

-----------------------------------------------------------------------------
(* The invariant *)

\* What the manager and the clock do concerns nothing but the stamps, the
\* counts of accesses and the reference bits.
LEMMA ManagerInv == IInv /\ (Manager \/ Tick) => IInv'
<1> SUFFICES ASSUME IInv, Manager \/ Tick PROVE IInv'
  OBVIOUS
<1>1. UNCHANGED <<flowVars, listVars, nodePtr>>
  BY DEF Manager, Tick, BeginAccess, Mark, MarkAccessed, ReadClock, StoreAccessTime,
     CountAccess, RecordAccess, accessFrame, scanVars, ringVars, metaVars, listVars, flowVars
<1>2. TypeOK'
  BY ManagerType DEF IInv, FlowInv
<1>3. FlowInv'
  BY <1>1, SameFlow DEF IInv
<1>4. RingInv'
  BY <1>1, SameRing DEF IInv, flowVars
<1>5. CountsMatchLayers'
  <2>1. UNCHANGED <<layer, count, scPc, frame>>
    BY <1>1 DEF flowVars
  <2>2. (BeforeCountDown' <=> BeforeCountDown) /\ (BeforeCountUp' <=> BeforeCountUp)
    BY <2>1 DEF BeforeCountDown, BeforeCountUp
  <2> QED BY <2>1, <2>2, SameCounts DEF IInv
<1> QED BY <1>2, <1>3, <1>4, <1>5 DEF IInv

\* The same for a step that changes nothing but status, and for none at all.
LEMMA HaltInv == IInv /\ (Halt \/ UNCHANGED vars) => IInv'
<1> SUFFICES ASSUME IInv, Halt \/ UNCHANGED vars PROVE IInv'
  OBVIOUS
<1>1. /\ UNCHANGED <<ringVars, metaVars, count, filled, clock, scanVars, managerVars, moved>>
      /\ status' \in Statuses
  BY DEF Halt, AssertRemove, DoubleFree, AssertEmpty, AssertInsert, AliasNode, Stop, vars,
     IInv, TypeOK, Statuses
<1>2. UNCHANGED <<flowVars, listVars, nodePtr>>
  BY <1>1 DEF flowVars, listVars, ringVars, metaVars, scanVars
<1>3. TypeOK'
  BY <1>1 DEF IInv, TypeOK, RingTypeOK, ringVars, metaVars, scanVars, managerVars
<1>4. FlowInv'
  BY <1>2, SameFlow DEF IInv
<1>5. RingInv'
  BY <1>2, SameRing DEF IInv, flowVars
<1>6. CountsMatchLayers'
  <2>1. UNCHANGED <<layer, count, scPc, frame>>
    BY <1>2 DEF flowVars
  <2>2. (BeforeCountDown' <=> BeforeCountDown) /\ (BeforeCountUp' <=> BeforeCountUp)
    BY <2>1 DEF BeforeCountDown, BeforeCountUp
  <2> QED BY <2>1, <2>2, SameCounts DEF IInv
<1> QED BY <1>3, <1>4, <1>5, <1>6 DEF IInv

LEMMA ClassifyCounts == FlowInv /\ CountsMatchLayers /\ Classify => CountsMatchLayers'
<1> SUFFICES ASSUME FlowInv, CountsMatchLayers, Classify PROVE CountsMatchLayers'
  OBVIOUS
<1>1. UNCHANGED <<layer, count>>
  BY DEF Classify, ScanNext, LoadCount, ClassifyHot, ClassifyCold, Recheck, classifyFrame,
         metaVars
<1>2. ~BeforeCountUp /\ ~BeforeCountDown /\ ~BeforeCountUp' /\ ~BeforeCountDown'
  BY DEF Classify, ScanNext, LoadCount, ClassifyHot, ClassifyCold, Recheck, Dispatch,
     ScannerAt, BeforeCountUp, BeforeCountDown
<1> QED BY <1>1, <1>2, SameCounts

LEMMA StepInv == IInv /\ [Next]_vars => IInv'
<1> SUFFICES ASSUME IInv, [Next]_vars PROVE IInv'
  OBVIOUS
<1>1. /\ TypeOK /\ FlowInv /\ RingInv /\ CountsMatchLayers
      /\ FillInv /\ SeenInv /\ FrameInv /\ RingLinked /\ NodesInv
  BY DEF IInv, FlowInv, RingInv
<1>2. CASE FillPage
  BY <1>1, <1>2, FillType, FillFlow, FillRing, FillCounts DEF IInv
<1>3. CASE Classify
  BY <1>1, <1>3, ClassifyType, ClassifyFlow, ClassifyRing, ClassifyCounts DEF IInv
<1>4. CASE Migrate
  BY <1>1, <1>4, MigrateType, MigrateFlow, MigrateRing, MigrateCounts DEF IInv
<1>5. CASE Manager \/ Tick
  BY <1>5, ManagerInv
<1>6. CASE Halt \/ UNCHANGED vars
  BY <1>6, HaltInv
<1> QED BY <1>2, <1>3, <1>4, <1>5, <1>6 DEF Next, Scanner

\* The inductive invariant holds in every behaviour of the page table.
THEOREM Invariance == Spec => []IInv
BY InitInv, StepInv, PTL DEF Spec

\* The state of the page table has its type (PageTable.hpp:19-89); among other
\* things no layer count ever goes below zero (PageTable.cpp:270-273).
THEOREM TypeCorrect == Spec => []TypeOK
<1>1. IInv => TypeOK
  BY DEF IInv
<1> QED BY <1>1, Invariance, PTL

\* The layer counts are the numbers of pages in the layers, up to the migration
\* under way (PageTable.cpp:270-273).
THEOREM CountsCorrect == Spec => []CountsMatchLayers
<1>1. IInv => CountsMatchLayers
  BY DEF IInv
<1> QED BY <1>1, Invariance, PTL

\* The links of the ring agree whatever the threads interleave, also when a node
\* has been deleted twice: the successor's predecessor is the node itself, and
\* no link leads to freed memory (ClockRing.cpp:15-53, PageTable.cpp:210-260).
THEOREM RingCorrect == Spec => []RingLinked
<1>1. IInv => RingLinked
  BY DEF IInv, RingInv
<1> QED BY <1>1, Invariance, PTL

\* The nodes form one cycle: the hand that looks for a victim comes to each of
\* them, also after evictions have deleted nodes twice (ClockRing.cpp:15-53).
THEOREM RingIsOneCycle == Spec => []RingConnected
<1>1. IInv => RingConnected
  BY DEF IInv, RingInv
<1> QED BY <1>1, Invariance, PTL

=============================================================================
