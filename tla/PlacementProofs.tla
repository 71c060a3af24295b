-------------------------- MODULE PlacementProofs --------------------------
(***************************************************************************)
(* Where the page table puts the pages: no tier takes more than it can     *)
(* hold, and every step is one of the abstract placement, TieredMemory.    *)
(* And why it promotes them: a promotion is still justified when it is     *)
(* carried out, although the scanner decides on a count it read earlier.   *)
(***************************************************************************)
EXTENDS PageTableProofs

LEMMA InitPlacement == Init => FirstLayer /\ RouteInv /\ WithinCapacity
<1> SUFFICES ASSUME Init PROVE FirstLayer /\ RouteInv /\ WithinCapacity
  OBVIOUS
<1>1. FirstLayer /\ RouteInv
  BY DEF Init, FirstLayer, RouteInv, BeforeMove
<1>2. \A l \in Layers : Resident(l) = {}
  BY LayerFacts DEF Init, Resident
<1>3. \A l \in Layers : Cardinality(Resident(l)) = 0 /\ Capacity[l] \in Nat
  BY <1>2, FS_EmptySet, ConstantFacts
<1> QED BY <1>1, <1>3 DEF WithinCapacity

\* The only steps that change a layer.
LEMMA LayerChanges ==
  ASSUME [Next]_vars, layer' # layer
  PROVE  FillPage \/ Move
BY DEF Next, Scanner, Classify, Migrate, Halt, Manager, Tick, ScanNext, LoadCount,
   ClassifyHot, ClassifyCold, Recheck, classifyFrame, Unlink, CheckCapacity, SweepPast,
   Evict, Link, TakeStamp, StoreStamp, ResetCount, CountDown, CountUp, CountRoute, AssertRemove,
   DoubleFree, AssertEmpty, AssertInsert, AliasNode, Stop, BeginAccess, Mark, ReadClock,
   StoreAccessTime, CountAccess, RecordAccess, metaVars, vars

LEMMA StepFirstLayer == IInv /\ FirstLayer /\ [Next]_vars => FirstLayer'
<1> SUFFICES ASSUME IInv, FirstLayer, [Next]_vars, scPc' = "fill"
             PROVE  \A p \in Pages : layer'[p] \in {Null, InitLayer[p]}
  BY DEF FirstLayer
<1>1. CASE FillPage
  <2>1. scPc = "fill" /\ layer' = [layer EXCEPT ![filled] = InitLayer[filled]]
    BY <1>1 DEF FillPage, ScannerAt
  <2> QED BY <2>1 DEF FirstLayer, IInv, TypeOK
<1>2. CASE Move
  BY <1>2 DEF Move
<1>3. CASE ~FillPage /\ ~Move
  <2>1. UNCHANGED layer
    BY <1>3, LayerChanges
  <2>2. scPc = "fill"
    BY <1>3 DEF Next, Scanner, Classify, Migrate, Halt, Manager, Tick, ScanNext, LoadCount,
       ClassifyHot, ClassifyCold, Recheck, Dispatch, Unlink, CheckCapacity, SweepPast, Return,
       Evict, Link, TakeStamp, StoreStamp, ResetCount, CountDown, CountUp, CountRoute, AssertRemove,
       DoubleFree, AssertEmpty, AssertInsert, AliasNode, Stop, BeginAccess, Mark, ReadClock,
       StoreAccessTime, CountAccess, RecordAccess, accessFrame, scanVars, vars, ScannerAt
  <2> QED BY <2>1, <2>2 DEF FirstLayer
<1> QED BY <1>1, <1>2, <1>3

\* The route a page is sent on by the scanner.
LEMMA TargetRoute ==
  ASSUME NEW l \in Layers, NEW s, TargetLayer(l, s) # l
  PROVE  LET t == TargetLayer(l, s)
         IN  \/ t = Local
             \/ l = Remote /\ t = Pmem
             \/ NumTiers = 3 /\ l \in {Local, Pmem} /\ t = Remote
             \/ NumTiers = 2 /\ l = Local /\ t = Pmem
BY TierPolicyAssumption DEF TargetLayer, Layers, Local, Remote, Pmem

LEMMA StepRoute == IInv /\ RouteInv /\ [Next]_vars => RouteInv'
<1> SUFFICES ASSUME IInv, RouteInv, [Next]_vars PROVE RouteInv'
  OBVIOUS
<1> USE DEF ScannerAt
<1>1. TypeOK /\ FrameInv /\ SeenInv
  BY DEF IInv, FlowInv
<1>2. ASSUME UNCHANGED <<frame, count>>, BeforeMove' => BeforeMove PROVE RouteInv'
  BY <1>2 DEF RouteInv, Full
<1>3. ASSUME ~BeforeMove' PROVE RouteInv'
  BY <1>3 DEF RouteInv
<1>4. ASSUME NEW s, Dispatch(s), scPc \in {"hot", "cold", "recheck"} PROVE RouteInv'
  <2>1. seen.layer = layer[seen.page] /\ seen.layer \in Layers
    BY <1>1, <1>4 DEF SeenInv, TypeOK
  <2>2. CASE TargetLayer(seen.layer, s) = seen.layer
    BY <1>3, <1>4, <2>2 DEF Dispatch, BeforeMove
  <2>3. CASE TargetLayer(seen.layer, s) # seen.layer
    <3>1. frame'.from = seen.layer /\ frame'.target = TargetLayer(seen.layer, s)
      BY <1>4, <2>1, <2>3 DEF Dispatch
    <3> QED BY <2>1, <2>3, <3>1, TargetRoute DEF RouteInv
  <2> QED BY <2>2, <2>3
<1>5. CASE Classify
  <2>1. CASE ScanNext \/ LoadCount
    BY <1>3, <2>1 DEF ScanNext, LoadCount, BeforeMove
  <2>2. CASE ClassifyHot
    BY <1>3, <1>4, <2>2 DEF ClassifyHot, BeforeMove
  <2>3. CASE ClassifyCold
    BY <1>3, <1>4, <2>3 DEF ClassifyCold, BeforeMove
  <2>4. CASE Recheck
    BY <1>4, <2>4 DEF Recheck
  <2> QED BY <1>5, <2>1, <2>2, <2>3, <2>4 DEF Classify
<1>6. ASSUME Return PROVE RouteInv'
  <2>1. CASE pending = NoFrame
    BY <1>3, <1>6, <2>1 DEF Return, BeforeMove
  <2>2. CASE pending # NoFrame
    BY <1>1, <1>6, <2>2 DEF Return, FrameInv, Nested, RouteInv
  <2> QED BY <2>1, <2>2
<1>7. CASE Unlink \/ SweepPast
  BY <1>2, <1>7 DEF Unlink, SweepPast, BeforeMove
<1>8. CASE CheckCapacity
  BY <1>2, <1>6, <1>8 DEF CheckCapacity, BeforeMove
<1>9. CASE Evict
  <2>1. /\ UNCHANGED count /\ frame'.from = layer[page_id[hand]]
        /\ frame'.target = IF Full(Remote) THEN Pmem ELSE Remote
        /\ scPc = "evict" /\ hand # Null
    BY <1>9 DEF Evict, TakeVictim
  <2>2. frame'.from = Local
    BY <1>1, <2>1, VictimIsLocal DEF IInv, RingInv
  <2>3. UseRing
    BY <1>1, <2>1 DEF FrameInv
  <2>4. NumTiers = 2 => Full(Remote)
    <3>1. NumTiers = 2 => Capacity[Remote] = 0
      BY PageTableAssumption
    <3>2. count[Remote] \in Nat
      BY <1>1, LayerFacts DEF TypeOK
    <3> QED BY <3>1, <3>2 DEF Full
  <2>5. NumTiers \in {2, 3} /\ (Full(Remote)' <=> Full(Remote))
    BY <2>1, TierPolicyAssumption DEF Full
  <2> QED BY <2>1, <2>2, <2>3, <2>4, <2>5 DEF RouteInv
<1>10. CASE Move \/ Link \/ TakeStamp \/ StoreStamp \/ ResetCount \/ CountDown \/ CountUp
  BY <1>3, <1>10 DEF Move, Link, TakeStamp, StoreStamp, ResetCount, CountDown, CountUp, BeforeMove
<1>11. CASE CountRoute
  BY <1>6, <1>11 DEF CountRoute
<1>12. CASE FillPage
  BY <1>3, <1>12 DEF FillPage, BeforeMove
<1>13. CASE Tick \/ Manager \/ Halt \/ UNCHANGED vars
  <2>1. UNCHANGED <<frame, count, scPc>>
    BY <1>13 DEF Tick, Halt, Manager, AssertRemove, DoubleFree, AssertEmpty, AssertInsert,
       AliasNode, Stop, BeginAccess, Mark, ReadClock, StoreAccessTime, CountAccess,
       RecordAccess, accessFrame, scanVars, vars
  <2> QED BY <1>2, <2>1 DEF BeforeMove
<1> QED
  BY <1>5, <1>7, <1>8, <1>9, <1>10, <1>11, <1>12, <1>13 DEF Next, Scanner, Migrate

\* When a page is about to be moved the counts are exact: the room the count
\* promised is there.
LEMMA RoomAtMove ==
  ASSUME IInv, Move, NEW l \in Layers
  PROVE  count[l] = Cardinality(Resident(l))
<1>1. scPc = "move"
  BY DEF Move, ScannerAt
<1>2. count[l] + 0 = Cardinality(Resident(l)) + 0
  BY <1>1 DEF IInv, CountsMatchLayers, BeforeCountUp, BeforeCountDown
<1> QED BY <1>2, Finite DEF IInv, TypeOK

\* What Move does, for a frame of which everything is known.
LEMMA MoveFacts ==
  ASSUME IInv, Move
  PROVE  /\ frame.page \in Pages /\ frame.from \in Layers /\ frame.target \in Layers
         /\ layer[frame.page] = frame.from /\ frame.from # frame.target
         /\ layer' = [layer EXCEPT ![frame.page] = frame.target]
         /\ \/ UseRing /\ frame.target = Local
            \/ Cardinality(Resident(frame.target)) < Capacity[frame.target]
<1>1. FrameInv /\ RoomInv /\ scPc = "move"
  BY DEF IInv, FlowInv, Move, ScannerAt
<1>2. /\ frame \in Frames /\ frame.from # frame.target
      /\ layer[frame.page] = frame.from
  BY <1>1 DEF FrameInv, Scanning, BeforeMove
<1>3. frame.page \in Pages /\ frame.from \in Layers /\ frame.target \in Layers
  BY <1>2 DEF Frames
<1>4. (UseRing /\ frame.target = Local) \/ count[frame.target] < Capacity[frame.target]
  BY <1>1 DEF RoomInv
<1> QED BY <1>2, <1>3, <1>4, RoomAtMove DEF Move

LEMMA StepCapacity ==
  IInv /\ FirstLayer /\ WithinCapacity /\ [Next]_vars => WithinCapacity'
<1> SUFFICES ASSUME IInv, FirstLayer, WithinCapacity, [Next]_vars,
                    NEW l \in Layers, ~(l = Local /\ UseRing)
             PROVE  Cardinality(Resident(l))' <= Capacity[l]
  BY DEF WithinCapacity
<1>1. Cardinality(Resident(l)) <= Capacity[l]
  BY DEF WithinCapacity
<1>2. TypeOK /\ Cardinality(Resident(l)) \in Nat /\ Capacity[l] \in Nat
  BY Finite, ConstantFacts DEF IInv
<1>3. CASE FillPage
  <2> DEFINE Placed == {p \in Pages : InitLayer[p] = l}
  <2>1. scPc = "fill" /\ layer' = [layer EXCEPT ![filled] = InitLayer[filled]]
    BY <1>3 DEF FillPage, ScannerAt
  <2>2. \A p \in Pages : layer'[p] \in {Null, InitLayer[p]}
    BY <1>2, <2>1 DEF FirstLayer, TypeOK
  <2>3. Resident(l)' \subseteq Placed
    BY <2>2, LayerFacts DEF Resident
  <2>4. IsFiniteSet(Placed)
    BY Finite, FS_Subset
  <2>5. Cardinality(Resident(l))' <= Cardinality(Placed) /\ Cardinality(Placed) \in Nat
    BY <2>3, <2>4, FS_Subset, FS_CardinalityType
  <2>6. Cardinality(Placed) <= Capacity[l]
    BY PageTableAssumption DEF Load
  <2>7. Cardinality(Resident(l))' \in Nat
    BY <2>3, <2>4, FS_Subset, FS_CardinalityType
  <2> QED BY <1>2, <2>5, <2>6, <2>7
<1>4. CASE Move
  <2>1. Cardinality(Resident(l))' =
          IF l = frame.target THEN Cardinality(Resident(l)) + 1
          ELSE IF l = layer[frame.page] THEN Cardinality(Resident(l)) - 1
          ELSE Cardinality(Resident(l))
    BY <1>2, <1>4, MoveFacts, PageMoves
  <2>2. l = frame.target => Cardinality(Resident(l)) < Capacity[l]
    BY <1>4, MoveFacts
  <2> QED BY <1>1, <1>2, <2>1, <2>2
<1>5. CASE ~FillPage /\ ~Move
  <2>1. UNCHANGED layer
    BY <1>5, LayerChanges
  <2> QED BY <1>1, <2>1 DEF Resident
<1> QED BY <1>3, <1>4, <1>5

\* The abstract placement has the room that the page table counts.
LEMMA SameRoom ==
  ASSUME NEW l
  PROVE  Tiers!Room(l) <=> Cardinality(Resident(l)) < Capacity[l]
<1>1. \A S : Tiers!Cardinality(S) = Cardinality(S)
  BY DEF Tiers!Cardinality, Cardinality
<1> QED BY <1>1 DEF Tiers!Room, Tiers!At, Resident

LEMMA InitTier == Init => Tiers!TierInit
BY DEF Init, Tiers!TierInit

\* Every step of the page table is a step of the abstract placement or none.
LEMMA StepTier == IInv /\ FirstLayer /\ RouteInv /\ [Next]_vars => [Tiers!TierNext]_layer
<1> SUFFICES ASSUME IInv, FirstLayer, RouteInv, [Next]_vars, layer' # layer
             PROVE  Tiers!TierNext
  OBVIOUS
<1>1. FillPage \/ Move
  BY LayerChanges
<1>2. CASE FillPage
  <2>1. filled \in Nat /\ filled < NumPages
    BY <1>2 DEF FillPage, IInv, TypeOK
  <2>2. filled \in Pages
    BY <2>1, ConstantFacts
  <2>3. layer[filled] = Null
    BY <2>1, <2>2 DEF IInv, FlowInv, FillInv
  <2>4. Tiers!Fill(filled)
    BY <1>2, <2>3 DEF FillPage, Tiers!Fill
  <2> QED BY <2>2, <2>4 DEF Tiers!TierNext
<1>3. CASE Move
  <2> USE DEF Tiers!Local, Tiers!Remote, Tiers!Pmem, Local, Remote, Pmem
  <2>1. Tiers!Relocate(frame.page, frame.from, frame.target) /\ frame.page \in Pages
    BY <1>3, MoveFacts DEF Tiers!Relocate
  <2>2. (UseRing /\ frame.target = Local) \/ Tiers!Room(frame.target)
    BY <1>3, MoveFacts, SameRoom
  <2>3. UseRing /\ Full(Remote) => UseRing /\ ~Tiers!Room(Remote)
    <3>1. count[Remote] = Cardinality(Resident(Remote)) /\ count[Remote] \in Nat
          /\ Capacity[Remote] \in Nat
      BY <1>3, RoomAtMove, LayerFacts, ConstantFacts DEF IInv, TypeOK
    <3> QED BY <3>1, SameRoom DEF Full
  <2>4. scPc = "move"
    BY <1>3 DEF Move, ScannerAt
  <2>5. \/ frame.from # Local /\ frame.target = Local
        \/ frame.from = Remote /\ frame.target = Pmem
        \/ NumTiers = 3 /\ frame.from \in {Local, Pmem} /\ frame.target = Remote
        \/ NumTiers = 2 /\ frame.from = Local /\ frame.target = Pmem
        \/ UseRing /\ Full(Remote) /\ frame.from = Local /\ frame.target = Pmem
    BY <1>3, <2>4, MoveFacts DEF RouteInv, BeforeMove
  <2>6. frame.from \in {Local, Remote, Pmem}
    BY <1>3, MoveFacts DEF Layers
  <2>7. \/ Tiers!Demote(frame.page) \/ Tiers!Overflow(frame.page)
        \/ Tiers!Promote(frame.page)
    BY <2>1, <2>2, <2>3, <2>5, <2>6 DEF Tiers!Demote, Tiers!Overflow, Tiers!Promote
  <2> QED BY <2>1, <2>7 DEF Tiers!TierNext
<1> QED BY <1>1, <1>2, <1>3

THEOREM PlacementInvariance == Spec => []PlacementInv
<1>1. Init => PlacementInv
  BY InitInv, InitPlacement DEF PlacementInv
<1>2. PlacementInv /\ [Next]_vars => PlacementInv'
  BY StepInv, StepFirstLayer, StepRoute, StepCapacity DEF PlacementInv
<1> QED BY <1>1, <1>2, PTL DEF Spec

\* The test of the capacity, made well before the page is moved and counted,
\* keeps every tier but the local tier with a ring within its capacity
\* (PageTable.cpp:228-247).
THEOREM CapacityKept == Spec => []WithinCapacity
<1>1. PlacementInv => WithinCapacity
  BY DEF PlacementInv
<1> QED BY <1>1, PlacementInvariance, PTL

\* The page table implements the abstract placement: pages move one at a time,
\* along the scanner's routes, into tiers that have room or make it
\* (Scanner.cpp:75-95, PageTable.cpp:227-254).
THEOREM Refinement == Spec => ImplementsTiers
<1>1. PlacementInv /\ [Next]_vars => [Tiers!TierNext]_layer
  BY StepTier DEF PlacementInv
<1> QED BY InitTier, <1>1, PlacementInvariance, PTL DEF Spec, ImplementsTiers, Tiers!TierSpec

-----------------------------------------------------------------------------
(* The manager only counts up, the scanner alone resets the count of a     *)
(* page: a promotion stays justified.                                      *)

\* access_cnt is far from its width: the next access does not make it wrap
\* (PageTable.cpp:163).
NoCountWraps == \A p \in Pages : cnt[p] + 1 < CountMod

\* What the scanner has read is no more than what is there.
SeenIsBehind ==
  scPc \in {"hot", "cold", "recheck"} => seen.cnt <= cnt[seen.page]

\* The call that the scan loop made, also while an eviction runs inside it.
Call == IF Nested THEN pending ELSE frame
CallJustified ==
  BeforeMove \/ Nested =>
    (Call.target = Local => cnt[Call.page] >= Policy.hot_access_count)

PromotionInv ==
  Policy.type = "frequency" /\ NumTiers = 3 => SeenIsBehind /\ CallJustified

\* Only a hot page is sent to the local tier of three.
LEMMA OnlyHotToLocal ==
  ASSUME NEW l \in Layers, NEW s \in {"COLD", "WARM"}, NumTiers = 3,
         TargetLayer(l, s) = Local
  PROVE  l = Local
BY DEF TargetLayer, Layers, Local, Remote, Pmem

\* The steps that change access_cnt.
LEMMA CountChanges ==
  ASSUME [Next]_vars, cnt' # cnt
  PROVE  FillPage \/ ResetCount \/ CountAccess
BY DEF Next, Scanner, Classify, Migrate, Halt, Manager, Tick, ScanNext, LoadCount,
   ClassifyHot, ClassifyCold, Recheck, classifyFrame, Unlink, CheckCapacity, SweepPast,
   Evict, Move, Link, TakeStamp, StoreStamp, CountDown, CountUp, CountRoute, AssertRemove,
   DoubleFree, AssertEmpty, AssertInsert, AliasNode, Stop, BeginAccess, Mark, ReadClock,
   StoreAccessTime, RecordAccess, metaVars, vars

\* The manager only counts up.
LEMMA AccessCounts ==
  ASSUME IInv, NoCountWraps, CountAccess
  PROVE  \A p \in Pages : cnt'[p] >= cnt[p]
<1>1. cnt \in [Pages -> 0 .. CountMod - 1] /\ CountMod \in Nat
  BY ConstantFacts DEF IInv, TypeOK
<1>2. cnt' = [cnt EXCEPT ![mgPage] = (@ + 1) % CountMod]
  BY DEF CountAccess
<1>3. ASSUME NEW p \in Pages PROVE cnt'[p] >= cnt[p]
  <2>1. CASE p # mgPage
    BY <1>1, <1>2, <2>1
  <2>2. CASE p = mgPage
    <3>1. cnt'[p] = (cnt[p] + 1) % CountMod
      BY <1>1, <1>2, <2>2
    <3>2. cnt[p] + 1 \in 0 .. CountMod - 1
      BY <1>1 DEF NoCountWraps
    <3>3. (cnt[p] + 1) % CountMod = cnt[p] + 1
      BY <1>1, <3>2
    <3> QED BY <1>1, <3>1, <3>3
  <2> QED BY <2>1, <2>2
<1> QED BY <1>3

LEMMA CallIsFrame ==
  ASSUME IInv, BeforeMove \/ Nested
  PROVE  Call.page \in Pages
<1>1. FrameInv /\ TypeOK
  BY DEF IInv, FlowInv
<1>2. frame \in Frames
  BY <1>1 DEF FrameInv, Scanning, BeforeMove, Nested
<1>3. Nested => pending \in Frames
  BY <1>1 DEF TypeOK, Nested
<1> QED BY <1>2, <1>3 DEF Call, Frames

LEMMA SeenIsPage ==
  ASSUME IInv, scPc \in {"count", "hot", "cold", "recheck"}
  PROVE  seen.page \in Pages /\ seen.cnt \in Nat
<1>1. SeenInv /\ TypeOK
  BY DEF IInv, FlowInv
<1>2. seen \in [page : Pages, layer : Layers, last : Nat, cnt : 0 .. CountMod - 1]
  BY <1>1 DEF SeenInv, TypeOK
<1> QED BY <1>2, ConstantFacts

\* What the other thread does, or a step that leaves the calls alone.
LEMMA CountNotBelow ==
  ASSUME IInv, IInv', SeenIsBehind, CallJustified, UNCHANGED <<scPc, seen, frame, pending>>,
         \A p \in Pages : cnt'[p] >= cnt[p]
  PROVE  SeenIsBehind' /\ CallJustified'
<1>1. \A p \in Pages : cnt[p] \in Nat /\ cnt'[p] \in Nat /\ cnt'[p] >= cnt[p]
  <2>1. cnt \in [Pages -> 0 .. CountMod - 1] /\ cnt' \in [Pages -> 0 .. CountMod - 1]
    BY DEF IInv, TypeOK
  <2> QED BY <2>1, ConstantFacts
<1>2. SeenIsBehind'
  <2> SUFFICES ASSUME scPc \in {"hot", "cold", "recheck"} PROVE seen.cnt <= cnt'[seen.page]
    BY DEF SeenIsBehind
  <2> QED BY <1>1, SeenIsPage DEF SeenIsBehind
<1>3. CallJustified'
  <2> SUFFICES ASSUME BeforeMove \/ Nested, Call.target = Local
               PROVE  cnt'[Call.page] >= Policy.hot_access_count
    BY DEF CallJustified, BeforeMove, Nested, Call
  <2>1. cnt[Call.page] >= Policy.hot_access_count
    BY DEF CallJustified
  <2>2. Policy.hot_access_count \in Nat
    BY TierPolicyAssumption
  <2> QED BY <1>1, <2>1, <2>2, CallIsFrame
<1> QED BY <1>2, <1>3

LEMMA DispatchJustified ==
  ASSUME NEW s \in {"HOT", "WARM", "COLD"}, IInv, Policy.type = "frequency", NumTiers = 3,
         SeenIsBehind, Dispatch(s), s = "HOT" => IsHot, UNCHANGED <<cnt, pending>>,
         scPc \in {"hot", "cold", "recheck"}
  PROVE  SeenIsBehind' /\ CallJustified'
<1>1. scPc' \in {"scan", "enter"} /\ ~Nested /\ ~Nested'
  BY DEF IInv, FlowInv, FrameInv, Scanning, Nested, Dispatch
<1>2. SeenIsBehind'
  BY <1>1 DEF SeenIsBehind
<1>3. CASE TargetLayer(seen.layer, s) = seen.layer
  BY <1>1, <1>2, <1>3 DEF Dispatch, CallJustified, BeforeMove
<1>4. CASE TargetLayer(seen.layer, s) # seen.layer
  <2> SUFFICES ASSUME TargetLayer(seen.layer, s) = Local
               PROVE  cnt[seen.page] >= Policy.hot_access_count
    BY <1>1, <1>2, <1>4 DEF Dispatch, CallJustified, Call
  <2>1. seen.layer \in Layers
    BY LayerFacts DEF IInv, FlowInv, SeenInv, TypeOK
  <2>2. s = "HOT"
    BY <1>4, <2>1, OnlyHotToLocal
  <2>3. seen.cnt >= Policy.hot_access_count
    BY <2>2 DEF IsHot, ClassifyHotPage
  <2>4. seen.cnt <= cnt[seen.page]
    BY DEF SeenIsBehind
  <2>5. seen.cnt \in Nat /\ cnt[seen.page] \in Nat /\ Policy.hot_access_count \in Nat
    <3>1. cnt \in [Pages -> 0 .. CountMod - 1]
      BY DEF IInv, TypeOK
    <3> QED BY <3>1, SeenIsPage, ConstantFacts, TierPolicyAssumption
  <2> QED BY <2>3, <2>4, <2>5
<1> QED BY <1>2, <1>3, <1>4

LEMMA ClassifyJustified ==
  ASSUME IInv, Policy.type = "frequency", NumTiers = 3, SeenIsBehind, Classify
  PROVE  SeenIsBehind' /\ CallJustified'
<1> USE DEF ScannerAt
<1>1. UNCHANGED <<cnt, pending>>
  BY DEF Classify, ScanNext, LoadCount, ClassifyHot, ClassifyCold, Recheck, classifyFrame, metaVars
<1>2. scPc \in {"scan", "count", "hot", "cold", "recheck"} /\ ~Nested /\ ~Nested'
  BY <1>1 DEF Classify, ScanNext, LoadCount, ClassifyHot, ClassifyCold, Recheck,
     IInv, FlowInv, FrameInv, Scanning, Nested
<1>3. ASSUME scPc' \in {"scan", "count", "hot", "cold", "recheck"} PROVE CallJustified'
  BY <1>2, <1>3 DEF CallJustified, BeforeMove
<1>4. CASE ScanNext
  BY <1>3, <1>4 DEF ScanNext, SeenIsBehind
<1>5. CASE LoadCount
  <2>1. seen.page \in Pages /\ seen # NothingSeen
    BY <1>5, SeenIsPage DEF LoadCount, IInv, FlowInv, SeenInv
  <2>2. seen'.page = seen.page /\ seen'.cnt = cnt[seen.page]
    BY <1>5, <2>1 DEF LoadCount, IInv, TypeOK
  <2>3. cnt[seen.page] \in Nat
    BY <2>1, ConstantFacts DEF IInv, TypeOK
  <2>4. SeenIsBehind'
    BY <1>1, <2>2, <2>3 DEF SeenIsBehind
  <2> QED BY <1>3, <1>5, <2>4 DEF LoadCount
<1>6. CASE ClassifyHot
  <2>1. CASE IsHot /\ seen.layer # Remote
    BY <1>1, <1>6, <2>1, DispatchJustified DEF ClassifyHot
  <2>2. CASE ~IsHot \/ seen.layer = Remote
    BY <1>1, <1>3, <1>6, <2>2 DEF ClassifyHot, SeenIsBehind
  <2> QED BY <2>1, <2>2
<1>7. CASE ClassifyCold
  <2>1. CASE IsCold
    BY <1>1, <1>7, <2>1, DispatchJustified DEF ClassifyCold
  <2>2. CASE ~IsCold /\ seen.layer # Remote
    BY <1>1, <1>7, <2>2, DispatchJustified DEF ClassifyCold
  <2>3. CASE ~IsCold /\ seen.layer = Remote
    BY <1>1, <1>3, <1>7, <2>3 DEF ClassifyCold, SeenIsBehind
  <2> QED BY <2>1, <2>2, <2>3
<1>8. CASE Recheck
  <2>1. CASE IsHot
    BY <1>1, <1>8, <2>1, DispatchJustified DEF Recheck
  <2>2. CASE ~IsHot
    BY <1>1, <1>8, <2>2, DispatchJustified DEF Recheck
  <2> QED BY <2>1, <2>2
<1> QED BY <1>4, <1>5, <1>6, <1>7, <1>8 DEF Classify

LEMMA MigrateJustified ==
  ASSUME IInv, CallJustified, Migrate
  PROVE  SeenIsBehind' /\ CallJustified'
<1> USE DEF ScannerAt
<1>1. FrameInv /\ TypeOK
  BY DEF IInv, FlowInv
<1>2. ~Scanning /\ frame # NoFrame
  BY <1>1, NoFrameIsNone DEF Migrate, Unlink, CheckCapacity, SweepPast, Evict, Move, Link,
     TakeStamp, StoreStamp, ResetCount, CountDown, CountUp, CountRoute, FrameInv, Scanning
<1>3. scPc' \notin {"hot", "cold", "recheck"}
  BY DEF Migrate, Unlink, CheckCapacity, SweepPast, Evict, Move, Link, TakeStamp, StoreStamp,
     ResetCount, CountDown, CountUp, CountRoute, Return
<1>4. SeenIsBehind'
  BY <1>3 DEF SeenIsBehind
<1>5. ASSUME UNCHANGED cnt, Return PROVE CallJustified'
  <2>1. CASE pending = NoFrame
    BY <1>5, <2>1 DEF Return, CallJustified, BeforeMove, Nested
  <2>2. CASE pending # NoFrame
    BY <1>5, <2>2 DEF Return, CallJustified, Call, Nested
  <2> QED BY <2>1, <2>2
<1>6. ASSUME UNCHANGED <<cnt, frame, pending>>, BeforeMove' => BeforeMove PROVE CallJustified'
  BY <1>6 DEF CallJustified, Call, Nested
<1>7. CASE CheckCapacity
  BY <1>4, <1>5, <1>6, <1>7 DEF CheckCapacity, metaVars, BeforeMove
<1>8. CASE Evict
  <2>1. ~Nested /\ Nested' /\ pending' = frame /\ UNCHANGED cnt /\ BeforeMove
    BY <1>1, <1>2, <1>8 DEF Evict, FrameInv, Nested, metaVars, BeforeMove
  <2> QED BY <1>4, <2>1 DEF CallJustified, Call
<1>9. CASE ResetCount
  <2>1. ~BeforeMove' /\ UNCHANGED <<frame, pending>> /\ cnt' = [cnt EXCEPT ![frame.page] = 0]
    BY <1>9 DEF ResetCount, BeforeMove
  <2>2. CASE ~Nested
    BY <1>4, <2>1, <2>2 DEF CallJustified, Nested
  <2>3. CASE Nested
    <3>1. pending.page # frame.page
      BY <1>1, <2>3 DEF FrameInv
    <3>2. cnt'[pending.page] = cnt[pending.page]
      BY <1>1, <2>1, <2>3, <3>1, CallIsFrame DEF TypeOK, Call
    <3> QED BY <1>4, <2>1, <2>3, <3>2 DEF CallJustified, Call, Nested
  <2> QED BY <2>2, <2>3
<1>10. CASE CountRoute
  BY <1>4, <1>5, <1>10 DEF CountRoute, metaVars
<1>11. CASE Unlink \/ SweepPast \/ Move \/ Link \/ TakeStamp \/ StoreStamp \/ CountDown \/ CountUp
  BY <1>4, <1>6, <1>11 DEF Unlink, SweepPast, Move, Link, TakeStamp, StoreStamp, CountDown, CountUp,
     metaVars, BeforeMove
<1> QED BY <1>4, <1>7, <1>8, <1>9, <1>10, <1>11 DEF Migrate

LEMMA StepPromotion ==
  IInv /\ IInv' /\ NoCountWraps /\ PromotionInv /\ [Next]_vars => PromotionInv'
<1> SUFFICES ASSUME IInv, IInv', NoCountWraps, SeenIsBehind, CallJustified, [Next]_vars,
                    Policy.type = "frequency", NumTiers = 3
             PROVE  SeenIsBehind' /\ CallJustified'
  BY DEF PromotionInv
<1>1. \A p \in Pages : cnt[p] \in Nat /\ cnt[p] >= cnt[p]
  BY ConstantFacts DEF IInv, TypeOK
<1>2. CASE FillPage
  <2>1. scPc = "fill" /\ scPc' \in {"scan", "fill"} /\ UNCHANGED <<frame, pending>>
    BY <1>2 DEF FillPage, ScannerAt
  <2>2. ~Nested' /\ ~BeforeMove'
    BY <2>1 DEF IInv, FlowInv, FrameInv, Scanning, Nested, BeforeMove
  <2> QED BY <2>1, <2>2 DEF SeenIsBehind, CallJustified
<1>3. CASE Classify
  BY <1>3, ClassifyJustified
<1>4. CASE Migrate
  BY <1>4, MigrateJustified
<1>5. CASE CountAccess
  BY <1>5, AccessCounts, CountNotBelow DEF CountAccess, accessFrame, scanVars
<1>6. CASE Halt \/ Tick \/ (Manager /\ ~CountAccess) \/ UNCHANGED vars
  <2>1. UNCHANGED <<scPc, seen, frame, pending, cnt>>
    BY <1>6 DEF Halt, AssertRemove, DoubleFree, AssertEmpty, AssertInsert, AliasNode, Stop,
       Tick, Manager, BeginAccess, Mark, ReadClock, StoreAccessTime, RecordAccess, accessFrame,
       scanVars, metaVars, vars
  <2> QED BY <1>1, <2>1, CountNotBelow
<1> QED BY <1>2, <1>3, <1>4, <1>5, <1>6 DEF Next, Scanner

\* As long as no count comes near its width, a page is still as hot when it is
\* promoted as it was when the scanner read its metadata: the decision is never
\* stale, for any number of pages and also when an eviction makes room in between
\* (PageTable.cpp:114-129, Scanner.cpp:62-95).
THEOREM PromotionsJustified == Spec /\ []NoCountWraps => []PromotionStillJustified
<1>1. Init => PromotionInv
  BY DEF Init, PromotionInv, SeenIsBehind, CallJustified, BeforeMove, Nested
<1>2. PromotionInv => PromotionStillJustified
  BY DEF PromotionInv, CallJustified, BeforeMove, Call, Nested, PromotionStillJustified
<1>3. IInv /\ IInv' /\ NoCountWraps /\ PromotionInv /\ [Next]_vars => PromotionInv'
  BY StepPromotion
<1> QED BY <1>1, <1>2, <1>3, Invariance, PTL DEF Spec

-----------------------------------------------------------------------------
(* Before any access there is no hot page to promote.                      *)

\* Three tiers under a frequency policy, and pages that begin with no accesses.
CountsDecide ==
  /\ Policy.type = "frequency" /\ Policy.hot_access_count > 0 /\ NumTiers = 3
  /\ UninitCounts = {0}

Untouched == mgPc # "record" /\ \A l \in Layers : accessed[l] = 0

UntouchedInv ==
  /\ mgPc # "idle" => mgPage \in Pages /\ scPc # "fill"
  /\ CountsDecide /\ Untouched =>
       /\ \A p \in Pages : cnt[p] = 0
       /\ seen.cnt = 0 /\ frame.target # Local /\ pending = NoFrame
       /\ moved[<<Remote, Local>>] = 0 /\ moved[<<Pmem, Local>>] = 0

\* A page without accesses is not hot, so it is not sent to the local tier.
LEMMA ColdStays ==
  ASSUME IInv, UntouchedInv, CountsDecide, Untouched, Classify
  PROVE  frame'.target # Local /\ seen'.cnt = 0 /\ UNCHANGED <<cnt, pending, moved>>
<1> USE DEF ScannerAt
<1>1. seen.cnt = 0 /\ frame.target # Local /\ \A p \in Pages : cnt[p] = 0
  BY DEF UntouchedInv
<1>2. UNCHANGED <<cnt, pending, moved>>
  BY DEF Classify, ScanNext, LoadCount, ClassifyHot, ClassifyCold, Recheck, classifyFrame, metaVars
<1>3. NoFrame.target # Local /\ NothingSeen.cnt = 0
  BY LayerFacts DEF NoFrame, NothingSeen
<1>4. ~IsHot
  <2>1. ~(seen.cnt >= Policy.hot_access_count)
    BY <1>1, TierPolicyAssumption DEF CountsDecide
  <2> QED BY <2>1 DEF IsHot, ClassifyHotPage, CountsDecide
<1>5. ASSUME NEW s \in {"COLD", "WARM"}, Dispatch(s), scPc \in {"hot", "cold", "recheck"}
      PROVE  frame'.target # Local /\ seen'.cnt = 0
  <2>1. seen.layer \in Layers
    BY <1>5, LayerFacts DEF IInv, FlowInv, SeenInv, TypeOK
  <2>2. CASE TargetLayer(seen.layer, s) = seen.layer
    BY <1>3, <1>5, <2>2 DEF Dispatch
  <2>3. CASE TargetLayer(seen.layer, s) # seen.layer
    <3>1. TargetLayer(seen.layer, s) # Local
      BY <2>1, <2>3, OnlyHotToLocal DEF CountsDecide
    <3>2. frame'.target = TargetLayer(seen.layer, s) /\ seen' = seen
      BY <1>5, <2>3 DEF Dispatch
    <3> QED BY <1>1, <3>1, <3>2
  <2> QED BY <2>2, <2>3
<1>6. CASE ScanNext
  BY <1>1, <1>2, <1>6 DEF ScanNext
<1>7. CASE LoadCount
  <2>1. seen.page \in Pages /\ seen # NothingSeen
    BY <1>7, SeenIsPage DEF LoadCount, IInv, FlowInv, SeenInv
  <2>2. seen'.cnt = cnt[seen.page] /\ frame' = frame
    BY <1>7, <2>1 DEF LoadCount, IInv, TypeOK
  <2> QED BY <1>1, <1>2, <2>1, <2>2
<1>8. CASE ClassifyHot
  BY <1>1, <1>2, <1>4, <1>8 DEF ClassifyHot
<1>9. CASE ClassifyCold
  BY <1>1, <1>2, <1>4, <1>5, <1>9 DEF ClassifyCold
<1>10. CASE Recheck
  BY <1>1, <1>2, <1>4, <1>5, <1>10 DEF Recheck
<1> QED BY <1>6, <1>7, <1>8, <1>9, <1>10 DEF Classify

\* A migration under way leads away from the local tier, and is not counted
\* among the promotions.
LEMMA NoneArrives ==
  ASSUME IInv, UntouchedInv, CountsDecide, Untouched, Migrate
  PROVE  /\ \A p \in Pages : cnt'[p] = 0
         /\ seen'.cnt = 0 /\ frame'.target # Local /\ pending' = NoFrame
         /\ moved'[<<Remote, Local>>] = 0 /\ moved'[<<Pmem, Local>>] = 0
<1> USE DEF ScannerAt
<1>1. /\ \A p \in Pages : cnt[p] = 0
      /\ seen.cnt = 0 /\ frame.target # Local /\ pending = NoFrame
      /\ moved[<<Remote, Local>>] = 0 /\ moved[<<Pmem, Local>>] = 0
  BY DEF UntouchedInv
<1>2. NoFrame.target # Local /\ NothingSeen.cnt = 0
  BY LayerFacts DEF NoFrame, NothingSeen
<1>3. TypeOK /\ FrameInv
  BY DEF IInv, FlowInv
<1>4. ASSUME Return PROVE seen'.cnt = 0 /\ frame'.target # Local /\ pending' = NoFrame
  BY <1>1, <1>2, <1>4 DEF Return
<1>5. CASE CheckCapacity
  BY <1>1, <1>4, <1>5 DEF CheckCapacity, metaVars
<1>6. CASE Evict
  BY <1>1, <1>3, <1>6 DEF Evict, FrameInv
<1>7. CASE ResetCount
  <2>1. cnt' = [cnt EXCEPT ![frame.page] = 0] /\ cnt \in [Pages -> 0 .. CountMod - 1]
    BY <1>3, <1>7 DEF ResetCount, TypeOK
  <2> QED BY <1>1, <1>7, <2>1 DEF ResetCount
<1>8. CASE CountRoute
  <2>1. moved' = [moved EXCEPT ![<<frame.from, frame.target>>] = @ + 1] /\ moved \in [Routes -> Nat]
    BY <1>3, <1>8 DEF CountRoute, TypeOK
  <2>2. <<Remote, Local>> \in Routes /\ <<Pmem, Local>> \in Routes
    BY LayerFacts DEF Routes
  <2>3. <<frame.from, frame.target>> # <<Remote, Local>> /\ <<frame.from, frame.target>> # <<Pmem, Local>>
    BY <1>1
  <2>4. moved'[<<Remote, Local>>] = 0 /\ moved'[<<Pmem, Local>>] = 0
    BY <1>1, <2>1, <2>2, <2>3
  <2> QED BY <1>1, <1>4, <1>8, <2>4 DEF CountRoute, metaVars
<1>9. CASE Unlink \/ SweepPast \/ Move \/ Link \/ TakeStamp \/ StoreStamp \/ CountDown \/ CountUp
  BY <1>1, <1>9 DEF Unlink, SweepPast, Move, Link, TakeStamp, StoreStamp, CountDown, CountUp, metaVars
<1> QED BY <1>5, <1>6, <1>7, <1>8, <1>9 DEF Migrate

\* An access that is being recorded is one of a page that has a layer.
LEMMA AccessTouches ==
  ASSUME IInv, UntouchedInv, RecordAccess
  PROVE  ~Untouched'
<1>1. mgPage \in Pages /\ scPc # "fill"
  BY DEF RecordAccess, ManagerAt, UntouchedInv
<1>2. layer[mgPage] \in Layers
  BY <1>1, PageTableAssumption DEF IInv, FlowInv, FillInv, TypeOK
<1>3. accessed'[layer[mgPage]] = accessed[layer[mgPage]] + 1 /\ accessed[layer[mgPage]] \in Nat
  BY <1>2 DEF RecordAccess, IInv, TypeOK
<1> QED BY <1>2, <1>3 DEF Untouched

LEMMA StepUntouched == IInv /\ UntouchedInv /\ [Next]_vars => UntouchedInv'
<1> SUFFICES ASSUME IInv, UntouchedInv, [Next]_vars PROVE UntouchedInv'
  OBVIOUS
<1>1. mgPc' # "idle" => mgPage' \in Pages /\ scPc' # "fill"
  <2>1. CASE BeginAccess
    BY <2>1 DEF BeginAccess, accessFrame, scanVars
  <2>2. CASE UNCHANGED <<mgPc, mgPage>>
    <3>1. scPc # "fill" => scPc' # "fill"
      BY DEF Next, Scanner, Classify, Migrate, Halt, Manager, Tick, ScanNext, LoadCount,
         ClassifyHot, ClassifyCold, Recheck, Dispatch, Unlink, CheckCapacity, SweepPast, Return,
         Evict, Move, Link, TakeStamp, StoreStamp, ResetCount, CountDown, CountUp, CountRoute, AssertRemove,
         DoubleFree, AssertEmpty, AssertInsert, AliasNode, Stop, BeginAccess, Mark, ReadClock,
         StoreAccessTime, CountAccess, RecordAccess, FillPage, ScannerAt, accessFrame, scanVars, vars
    <3> QED BY <2>2, <3>1 DEF UntouchedInv
  <2>3. CASE Mark \/ ReadClock \/ StoreAccessTime \/ CountAccess
    BY <2>3 DEF Mark, ReadClock, StoreAccessTime, CountAccess, ManagerAt, UntouchedInv, accessFrame,
       scanVars
  <2>4. CASE RecordAccess
    BY <2>4 DEF RecordAccess
  <2>5. CASE FillPage \/ Tick \/ Scanner \/ UNCHANGED vars
    <3>1. UNCHANGED <<mgPc, mgPage>>
      BY <2>5 DEF Scanner, Classify, Migrate, Halt, Tick, ScanNext, LoadCount,
         ClassifyHot, ClassifyCold, Recheck, classifyFrame, Unlink, CheckCapacity, SweepPast,
         Evict, Move, Link, TakeStamp, StoreStamp, ResetCount, CountDown, CountUp, CountRoute, AssertRemove,
         DoubleFree, AssertEmpty, AssertInsert, AliasNode, Stop, FillPage, migrateFrame,
         scannerFrame, managerVars, vars
    <3> QED BY <2>2, <3>1
  <2> QED BY <2>1, <2>3, <2>4, <2>5 DEF Next, Manager
<1> SUFFICES ASSUME CountsDecide, Untouched'
             PROVE  /\ \A p \in Pages : cnt'[p] = 0
                    /\ seen'.cnt = 0 /\ frame'.target # Local /\ pending' = NoFrame
                    /\ moved'[<<Remote, Local>>] = 0 /\ moved'[<<Pmem, Local>>] = 0
  BY <1>1 DEF UntouchedInv
<1>2. ASSUME UNCHANGED <<mgPc, accessed>>
      PROVE  /\ Untouched
             /\ \A p \in Pages : cnt[p] = 0
             /\ seen.cnt = 0 /\ frame.target # Local /\ pending = NoFrame
             /\ moved[<<Remote, Local>>] = 0 /\ moved[<<Pmem, Local>>] = 0
  BY <1>2 DEF Untouched, UntouchedInv
<1>3. CASE FillPage
  <2>1. /\ UNCHANGED <<mgPc, accessed, seen, frame, pending, moved>>
        /\ \E c \in UninitCounts : cnt' = [cnt EXCEPT ![filled] = c]
    BY <1>3 DEF FillPage, managerVars
  <2>2. cnt' = [cnt EXCEPT ![filled] = 0] /\ cnt \in [Pages -> 0 .. CountMod - 1]
    BY <2>1 DEF CountsDecide, IInv, TypeOK
  <2> QED BY <1>2, <2>1, <2>2
<1>4. CASE Classify
  <2>1. UNCHANGED <<mgPc, accessed>>
    BY <1>4 DEF Classify, ScanNext, LoadCount, ClassifyHot, ClassifyCold, Recheck, classifyFrame,
       scannerFrame, managerVars
  <2> QED BY <1>2, <1>4, <2>1, ColdStays
<1>5. CASE Migrate
  <2>1. UNCHANGED <<mgPc, accessed>>
    BY <1>5 DEF Migrate, Unlink, CheckCapacity, SweepPast, Evict, Move, Link, TakeStamp,
       StoreStamp, ResetCount, CountDown, CountUp, CountRoute, migrateFrame, scannerFrame, managerVars
  <2> QED BY <1>2, <1>5, <2>1, NoneArrives
<1>6. CASE RecordAccess
  BY <1>6, AccessTouches
<1>7. CASE CountAccess
  BY <1>7 DEF CountAccess, Untouched
<1>8. CASE Halt \/ Tick \/ BeginAccess \/ Mark \/ ReadClock \/ StoreAccessTime \/ UNCHANGED vars
  <2>1. UNCHANGED <<accessed, cnt, seen, frame, pending, moved>>
    BY <1>8 DEF Halt, Tick, AssertRemove, DoubleFree, AssertEmpty, AssertInsert, AliasNode, Stop,
       BeginAccess, Mark, ReadClock, StoreAccessTime, accessFrame, scanVars, managerVars, metaVars,
       vars
  <2>2. mgPc # "record"
    BY <1>8 DEF Halt, Tick, AssertRemove, DoubleFree, AssertEmpty, AssertInsert, AliasNode, Stop,
       BeginAccess, Mark, ReadClock, StoreAccessTime, ManagerAt, managerVars, vars, Untouched
  <2> QED BY <2>1, <2>2 DEF Untouched, UntouchedInv
<1> QED BY <1>3, <1>4, <1>5, <1>6, <1>7, <1>8 DEF Next, Scanner, Manager

\* Before some access has been counted nothing is promoted to the local tier of
\* three, whatever migrations the scanner makes below it, for any number of
\* pages, any capacities and with or without the ring (PageTable.cpp:114-163,
\* 227-297, Scanner.cpp:7-95).
THEOREM PromotionsNeedAccess == Spec => []NoPromotionWithoutAccess
<1>1. Init => UntouchedInv
  <2>1. <<Remote, Local>> \in Routes /\ <<Pmem, Local>> \in Routes
    BY LayerFacts DEF Routes
  <2> QED BY <2>1, LayerFacts DEF Init, UntouchedInv, NothingSeen, NoFrame
<1>2. UntouchedInv => NoPromotionWithoutAccess
  BY DEF UntouchedInv, NoPromotionWithoutAccess, CountsDecide, Untouched
<1>3. IInv /\ UntouchedInv /\ [Next]_vars => UntouchedInv'
  BY StepUntouched
<1> QED BY <1>1, <1>2, <1>3, Invariance, PTL DEF Spec

=============================================================================
