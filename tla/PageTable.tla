----------------------------- MODULE PageTable -----------------------------
(***************************************************************************)
(* The page table (PageTable.cpp) under its two concurrent callers: the    *)
(* manager thread, which calls accessPage() for one client request at a    *)
(* time, and the scanner thread, which reads the metadata of one page      *)
(* after another, classifies it and calls migratePage() (Scanner.cpp).     *)
(* No lock protects the metadata: an action is at most one access to a     *)
(* variable the other thread writes, so that every interleaving of the two *)
(* is a behaviour.                                                         *)
(*                                                                         *)
(* scPc is the scanner's position.  migratePage() calls itself once, to    *)
(* make room in a full local tier: frame holds the arguments and locals of *)
(* the call that runs, pending those of the call that waits for it.        *)
(*                                                                         *)
(* status is "running" until an assertion fails (the build keeps asserts)  *)
(* or the behaviour becomes undefined; from there nothing is modelled.     *)
(***************************************************************************)
EXTENDS ClockRing, TierPolicy, Functions

CONSTANTS
  NumPages,     \* pages of all clients
  Capacity,     \* LayerInfo.capacity of each layer
  InitLayer,    \* the layer initPageTable() places each page in
  UseRing,      \* enable_cache_ring_
  UninitCounts, \* values access_cnt can have before anyone stores to it
  CountMod,     \* 2^32: access_cnt is a uint32_t
  UsPerMs,      \* the unit of the initial stamp is the microsecond
  StartClock,   \* steady_clock in milliseconds at start
  MaxClock, MaxAccesses, MaxMoves  \* bounds for model checking

Load(l) == Cardinality({p \in Pages : InitLayer[p] = l})

\* What ConfigParser admits: every client's pages fit into their tiers, and
\* with two tiers no page starts outside the local one, because the parser
\* compares the size of PMEM with the absent remote tier (ConfigParser.cpp:
\* 186-208).  The ring holds the pages that start in the local tier
\* (PageTable.cpp:27).
ASSUME PageTableAssumption ==
  /\ Null \notin Layers
  /\ NumPages \in Nat \ {0}
  /\ Pages = 0 .. NumPages - 1
  /\ Capacity \in [Layers -> Nat]
  /\ InitLayer \in [Pages -> Layers]
  /\ \A l \in Layers : Load(l) <= Capacity[l]
  /\ NumTiers = 2 => Capacity[Remote] = 0 /\ Load(Pmem) = 0
  /\ UseRing \in BOOLEAN
  /\ RingCapacity = Load(Local)
  /\ UninitCounts \subseteq Nat /\ UninitCounts # {}
  /\ CountMod \in Nat \ {0}
  /\ \A c \in UninitCounts : c < CountMod
  /\ UsPerMs \in Nat \ {0}
  /\ StartClock \in Nat
  /\ MaxClock \in Nat /\ MaxAccesses \in Nat /\ MaxMoves \in Nat

VARIABLES
  layer, stamp, cnt, nodePtr,  \* PageMetadata of each page
  count,      \* LayerInfo.count of each layer
  filled,     \* table_.size()
  scanIndex,  \* scan_index_
  clock,      \* steady_clock, in milliseconds
  scPc, seen, frame, pending, scMs,  \* the scanner thread
  mgPc, mgPage, mgPtr, mgMs,         \* the manager thread
  accessed,   \* the access counters of Metrics, per layer
  moved,      \* the migration counters of Metrics, per route
  status

metaVars == <<layer, stamp, cnt, nodePtr>>
scanVars == <<scanIndex, scPc, seen, frame, pending, scMs>>
managerVars == <<mgPc, mgPage, mgPtr, mgMs, accessed>>
vars == <<ringVars, metaVars, count, filled, clock, scanVars, managerVars,
          moved, status>>

Routes == {r \in Layers \X Layers : r[1] # r[2]}
NoFrame == [page |-> Null, target |-> Null, from |-> Null]
NothingSeen == [page |-> Null, layer |-> Null, last |-> 0, cnt |-> 0]

\* Mutant: a layer is full only when it holds more than its capacity.
FullAbove(l) == count[l] > Capacity[l]

\* isFull(), which the scanner reads from its own counter.
Full(l) == count[l] >= Capacity[l]

\* What the counters of Metrics add up to.
TotalMoves == SumFunction(moved)
TotalAccesses == SumFunction(accessed)

ScannerAt(pc) == status = "running" /\ scPc = pc
ManagerAt(pc) == status = "running" /\ mgPc = pc

Init ==
  /\ RingInit
  /\ layer = [p \in Pages |-> Null]
  /\ stamp = [p \in Pages |-> 0]
  /\ cnt = [p \in Pages |-> 0]
  /\ nodePtr = [p \in Pages |-> Null]
  /\ count = [l \in Layers |-> 0]
  /\ filled = 0
  /\ scanIndex = 0
  /\ clock = StartClock
  /\ scPc = "fill"
  /\ seen = NothingSeen /\ frame = NoFrame /\ pending = NoFrame /\ scMs = 0
  /\ mgPc = "idle" /\ mgPage = Null /\ mgPtr = Null /\ mgMs = 0
  /\ accessed = [l \in Layers |-> 0]
  /\ moved = [r \in Routes |-> 0]
  /\ status = "running"

-----------------------------------------------------------------------------
\* initPageTable(), one page per step, before either thread is started.  The
\* entry's constructor stamps the page in microseconds and leaves access_cnt
\* as it finds it.  The page counts of a client's tier are added after the
\* tier is filled in the code, here with each page: nobody can see between.
FillPage ==
  /\ ScannerAt("fill")
  /\ filled < NumPages
  /\ layer' = [layer EXCEPT ![filled] = InitLayer[filled]]
  /\ stamp' = [stamp EXCEPT ![filled] = clock * UsPerMs]
  /\ \E c \in UninitCounts : cnt' = [cnt EXCEPT ![filled] = c]
  /\ IF UseRing /\ InitLayer[filled] = Local
     THEN \E b \in Blocks :
            /\ Insert(filled, b)
            /\ nodePtr' = [nodePtr EXCEPT ![filled] = b]
     ELSE UNCHANGED <<ringVars, nodePtr>>
  /\ count' = [count EXCEPT ![InitLayer[filled]] = @ + 1]
  /\ filled' = filled + 1
  /\ scPc' = IF filled + 1 = NumPages THEN "scan" ELSE "fill"
  /\ UNCHANGED <<scanIndex, clock, seen, frame, pending, scMs, managerVars,
                 moved, status>>

\* The clock the two threads read; nothing says how fast they are.
Tick ==
  /\ status = "running"
  /\ clock < MaxClock
  /\ clock' = clock + 1
  /\ UNCHANGED <<ringVars, metaVars, count, filled, scanVars, managerVars,
                 moved, status>>

-----------------------------------------------------------------------------
(* The scanner: runScanner().                                              *)

scannerFrame == <<filled, clock, managerVars, status>>

\* Mutant: the index wraps one page too early.
ScanAllButLast ==
  /\ ScannerAt("scan")
  /\ TotalMoves < MaxMoves
  /\ scanIndex' = IF scanIndex + 1 >= filled - 1 THEN 0 ELSE scanIndex + 1
  /\ seen' = [page |-> scanIndex, layer |-> layer[scanIndex],
              last |-> stamp[scanIndex], cnt |-> 0]
  /\ scPc' = "count"
  /\ UNCHANGED <<ringVars, metaVars, count, frame, pending, scMs, moved,
                 scannerFrame>>

\* Mutant: the index wraps one page too late.
ScanPastLast ==
  /\ ScannerAt("scan")
  /\ TotalMoves < MaxMoves
  /\ scanIndex' = IF scanIndex + 1 > filled THEN 0 ELSE scanIndex + 1
  /\ seen' = [page |-> scanIndex, layer |-> layer[scanIndex],
              last |-> stamp[scanIndex], cnt |-> 0]
  /\ scPc' = "count"
  /\ UNCHANGED <<ringVars, metaVars, count, frame, pending, scMs, moved,
                 scannerFrame>>

\* scanNext() and the first loads of getPageMetaData().  page_layer is written
\* by this thread alone, so its load needs no step of its own.
ScanNext ==
  /\ ScannerAt("scan")
  /\ TotalMoves < MaxMoves
  /\ scanIndex' = IF scanIndex + 1 >= filled THEN 0 ELSE scanIndex + 1
  /\ seen' = [page |-> scanIndex, layer |-> layer[scanIndex],
              last |-> stamp[scanIndex], cnt |-> 0]
  /\ scPc' = "count"
  /\ UNCHANGED <<ringVars, metaVars, count, frame, pending, scMs, moved,
                 scannerFrame>>

\* Mutant: the count is that of scan_index_, which has moved on by then.
LoadNextCount ==
  /\ ScannerAt("count")
  /\ seen' = [seen EXCEPT !.cnt = cnt[scanIndex]]
  /\ scPc' = "hot"
  /\ UNCHANGED <<ringVars, metaVars, count, scanIndex, frame, pending, scMs,
                 moved, scannerFrame>>

\* The load of access_cnt, the last of getPageMetaData().
LoadCount ==
  /\ ScannerAt("count")
  /\ seen' = [seen EXCEPT !.cnt = cnt[seen.page]]
  /\ scPc' = "hot"
  /\ UNCHANGED <<ringVars, metaVars, count, scanIndex, frame, pending, scMs,
                 moved, scannerFrame>>

\* The dispatch on layer and status: migratePage() is called, or the loop goes
\* on to the next page.
Dispatch(pageStatus) ==
  LET target == TargetLayer(seen.layer, pageStatus)
  IN  IF target = seen.layer
      THEN /\ scPc' = "scan"
           /\ frame' = NoFrame
           /\ seen' = NothingSeen
      ELSE /\ scPc' = "enter"
           /\ frame' = [page |-> seen.page, target |-> target,
                        from |-> layer[seen.page]]
           /\ UNCHANGED seen

IsHot  == ClassifyHotPage(clock, seen.last, seen.cnt)
IsCold == ClassifyColdPage(clock, seen.last, seen.cnt)

classifyFrame == <<ringVars, metaVars, count, scanIndex, pending, scMs, moved,
                   scannerFrame>>

\* classifyPage(): classifyHotPage() reads the clock, and if that finds the
\* page not hot classifyColdPage() reads it again.  A remote page that is not
\* cold gets to Recheck.
ClassifyHot ==
  /\ ScannerAt("hot")
  /\ IF ~IsHot THEN scPc' = "cold" /\ UNCHANGED <<seen, frame>>
     ELSE IF seen.layer = Remote THEN scPc' = "recheck" /\ UNCHANGED <<seen, frame>>
     ELSE Dispatch("HOT")
  /\ UNCHANGED classifyFrame

ClassifyCold ==
  /\ ScannerAt("cold")
  /\ IF IsCold THEN Dispatch("COLD")
     ELSE IF seen.layer = Remote THEN scPc' = "recheck" /\ UNCHANGED <<seen, frame>>
     ELSE Dispatch("WARM")
  /\ UNCHANGED classifyFrame

\* A third reading of the clock decides on the promotion of a remote page.
Recheck ==
  /\ ScannerAt("recheck")
  /\ Dispatch(IF IsHot THEN "HOT" ELSE "WARM")
  /\ UNCHANGED classifyFrame

-----------------------------------------------------------------------------
(* The scanner: migratePage().                                             *)

migrateFrame == <<scanIndex, scannerFrame>>

\* migratePage() returns: to the call that evicted this page, which goes on
\* with its own move whatever became of the eviction, or to the scan loop.
Return ==
  IF pending = NoFrame
  THEN /\ scPc' = "scan"
       /\ frame' = NoFrame /\ seen' = NothingSeen
       /\ UNCHANGED pending
  ELSE /\ scPc' = "move"
       /\ frame' = pending /\ pending' = NoFrame
       /\ UNCHANGED seen

\* A page that leaves the local tier gives up its ring node, before it is known
\* whether the target has room.
LeavesRing == UseRing /\ frame.from = Local

\* Mutant: the pointer is loaded, not exchanged for nullptr.
UnlinkKeepingPointer ==
  /\ ScannerAt("enter")
  /\ IF LeavesRing
     THEN /\ nodePtr[frame.page] # Null
          /\ Remove(nodePtr[frame.page])
     ELSE UNCHANGED ringVars
  /\ scPc' = "capacity"
  /\ UNCHANGED <<nodePtr, layer, stamp, cnt, count, seen, frame, pending, scMs,
                 moved, migrateFrame>>

Unlink ==
  /\ ScannerAt("enter")
  /\ IF LeavesRing
     THEN /\ nodePtr[frame.page] # Null
          /\ nodePtr' = [nodePtr EXCEPT ![frame.page] = Null]
          /\ Remove(nodePtr[frame.page])
     ELSE UNCHANGED <<nodePtr, ringVars>>
  /\ scPc' = "capacity"
  /\ UNCHANGED <<layer, stamp, cnt, count, seen, frame, pending, scMs, moved,
                 migrateFrame>>

\* Mutant: only a full local tier is looked after.
CheckLocalOnly ==
  /\ ScannerAt("capacity")
  /\ scPc' = IF UseRing /\ frame.target = Local /\ Full(Local) THEN "evict" ELSE "move"
  /\ UNCHANGED <<ringVars, metaVars, count, seen, frame, pending, scMs, moved,
                 migrateFrame>>

\* "Check capacity": room is made in a full local tier if there is a ring; any
\* other full target ends the migration.
CheckCapacity ==
  /\ ScannerAt("capacity")
  /\ IF ~Full(frame.target)
     THEN scPc' = "move" /\ UNCHANGED <<seen, frame, pending>>
     ELSE IF UseRing /\ frame.target = Local
     THEN scPc' = "evict" /\ UNCHANGED <<seen, frame, pending>>
     ELSE Return
  /\ UNCHANGED <<ringVars, metaVars, count, scMs, moved, migrateFrame>>

\* findEvictionCandidate(): the hand passes over a referenced node ...
SweepPast ==
  /\ ScannerAt("evict")
  /\ PassReferenced
  /\ UNCHANGED <<metaVars, count, scPc, seen, frame, pending, scMs, moved,
                 migrateFrame>>

\* ... and stops at one that is not.  The victim is sent to the remote tier, or
\* to PMEM if that is full, by a nested call of migratePage().
Evict ==
  /\ ScannerAt("evict")
  /\ TakeVictim
  /\ LET victim == page_id[hand]
     IN  frame' = [page |-> victim, target |-> IF Full(Remote) THEN Pmem ELSE Remote,
                   from |-> layer[victim]]
  /\ pending' = frame
  /\ scPc' = "enter"
  /\ UNCHANGED <<metaVars, count, seen, scMs, moved, migrateFrame>>

\* migrate_page() and the store of page_layer.
Move ==
  /\ ScannerAt("move")
  /\ layer' = [layer EXCEPT ![frame.page] = frame.target]
  /\ scPc' = IF UseRing /\ frame.target = Local THEN "link" ELSE "clock"
  /\ UNCHANGED <<ringVars, stamp, cnt, nodePtr, count, seen, frame, pending,
                 scMs, moved, migrateFrame>>

\* Mutant: the pointer to the new node is not stored.
LinkUnnoted ==
  /\ ScannerAt("link")
  /\ \E b \in Blocks : Insert(frame.page, b)
  /\ scPc' = "clock"
  /\ UNCHANGED <<metaVars, count, seen, frame, pending, scMs, moved, migrateFrame>>

\* A page that has come to the local tier gets a node.  The block comes from the
\* free list; a block that is there although it holds a node is AliasNode's case.
Link ==
  /\ ScannerAt("link")
  /\ \E b \in Blocks :
       /\ Insert(frame.page, b)
       /\ nodePtr' = [nodePtr EXCEPT ![frame.page] = b]
  /\ scPc' = "clock"
  /\ UNCHANGED <<layer, stamp, cnt, count, seen, frame, pending, scMs, moved,
                 migrateFrame>>

\* The stamp of the migration is taken and stored, access_cnt starts again.
TakeStamp ==
  /\ ScannerAt("clock")
  /\ scMs' = clock
  /\ scPc' = "stamp"
  /\ UNCHANGED <<ringVars, metaVars, count, seen, frame, pending, moved,
                 migrateFrame>>

StoreStamp ==
  /\ ScannerAt("stamp")
  /\ stamp' = [stamp EXCEPT ![frame.page] = scMs]
  /\ scMs' = 0
  /\ scPc' = "reset"
  /\ UNCHANGED <<ringVars, layer, cnt, nodePtr, count, seen, frame, pending,
                 moved, migrateFrame>>

ResetCount ==
  /\ ScannerAt("reset")
  /\ cnt' = [cnt EXCEPT ![frame.page] = 0]
  /\ scPc' = "countDown"
  /\ UNCHANGED <<ringVars, layer, stamp, nodePtr, count, seen, frame, pending,
                 scMs, moved, migrateFrame>>

\* Mutant: the wrong layer is counted down.
CountDownTarget ==
  /\ ScannerAt("countDown")
  /\ count' = [count EXCEPT ![frame.target] = @ - 1]
  /\ scPc' = "countUp"
  /\ UNCHANGED <<ringVars, metaVars, seen, frame, pending, scMs, moved,
                 migrateFrame>>

\* The layer counts and the counter of the route, one after the other: the
\* metrics thread reads them in between.
CountDown ==
  /\ ScannerAt("countDown")
  /\ count' = [count EXCEPT ![frame.from] = @ - 1]
  /\ scPc' = "countUp"
  /\ UNCHANGED <<ringVars, metaVars, seen, frame, pending, scMs, moved,
                 migrateFrame>>

CountUp ==
  /\ ScannerAt("countUp")
  /\ count' = [count EXCEPT ![frame.target] = @ + 1]
  /\ scPc' = "countRoute"
  /\ UNCHANGED <<ringVars, metaVars, seen, frame, pending, scMs, moved,
                 migrateFrame>>

\* Mutant: the migration is booked on the opposite route.
CountRouteReversed ==
  /\ ScannerAt("countRoute")
  /\ moved' = [moved EXCEPT ![<<frame.target, frame.from>>] = @ + 1]
  /\ Return
  /\ UNCHANGED <<ringVars, metaVars, count, scMs, migrateFrame>>

CountRoute ==
  /\ ScannerAt("countRoute")
  /\ moved' = [moved EXCEPT ![<<frame.from, frame.target>>] = @ + 1]
  /\ Return
  /\ UNCHANGED <<ringVars, metaVars, count, scMs, migrateFrame>>

-----------------------------------------------------------------------------
(* Where the program stops, or is no longer defined.                       *)

Stop(reason) ==
  /\ status' = reason
  /\ UNCHANGED <<ringVars, metaVars, count, filled, clock, scanVars,
                 managerVars, moved>>

\* assert(node_ptr && "Cannot remove nullptr")
AssertRemove ==
  /\ ScannerAt("enter") /\ LeavesRing /\ nodePtr[frame.page] = Null
  /\ Stop("assert_remove")

\* The node was deleted already: Unlink is what happens if the allocator does
\* not notice, and this if it does (glibc prints "double free" and aborts).
DoubleFree ==
  /\ ScannerAt("enter") /\ LeavesRing
  /\ nodePtr[frame.page] # Null /\ ~Live(nodePtr[frame.page])
  /\ Stop("double_free")

\* assert(hand_ && "Clock ring is empty")
AssertEmpty ==
  /\ ScannerAt("evict") /\ hand = Null
  /\ Stop("assert_empty")

\* assert(local_cache_ring_->insert(page_index, node))
AssertInsert ==
  /\ ScannerAt("link") /\ RingFull
  /\ Stop("assert_insert")

\* After an unnoticed double free the allocator can hand out a block in use.
AliasNode ==
  /\ ScannerAt("link") /\ ~RingFull
  /\ \E b \in LiveBlocks : CanAllocate(b)
  /\ Stop("aliased")

-----------------------------------------------------------------------------
(* The manager: accessPage().                                              *)

accessFrame == <<count, filled, clock, scanVars, moved, status>>

\* A client asks for a page.  The load of page_layer and that of ring_node_ptr
\* are one step: a pointer that is not null is only ever there while the page
\* is local, so nothing can come between them that the second does not show.
BeginAccess ==
  /\ ManagerAt("idle") /\ scPc # "fill"
  /\ TotalAccesses < MaxAccesses
  /\ \E p \in Pages :
       /\ mgPage' = p
       /\ mgPtr' = IF UseRing /\ layer[p] = Local THEN nodePtr[p] ELSE Null
  /\ mgPc' = IF UseRing THEN "mark" ELSE "now"
  /\ UNCHANGED <<ringVars, metaVars, mgMs, accessed, accessFrame>>

\* markAccessed(): the node may have been deleted, and its block used again,
\* since the pointer was loaded.
Mark ==
  /\ ManagerAt("mark")
  /\ MarkAccessed(mgPtr)
  /\ mgPtr' = Null
  /\ mgPc' = "now"
  /\ UNCHANGED <<metaVars, mgPage, mgMs, accessed, accessFrame>>

ReadClock ==
  /\ ManagerAt("now")
  /\ mgMs' = clock
  /\ mgPc' = "store"
  /\ UNCHANGED <<ringVars, metaVars, mgPage, mgPtr, accessed, accessFrame>>

StoreAccessTime ==
  /\ ManagerAt("store")
  /\ stamp' = [stamp EXCEPT ![mgPage] = mgMs]
  /\ mgMs' = 0
  /\ mgPc' = "count"
  /\ UNCHANGED <<ringVars, layer, cnt, nodePtr, mgPage, mgPtr, accessed, accessFrame>>

CountAccess ==
  /\ ManagerAt("count")
  /\ cnt' = [cnt EXCEPT ![mgPage] = (@ + 1) % CountMod]
  /\ mgPc' = "record"
  /\ UNCHANGED <<ringVars, layer, stamp, nodePtr, mgPage, mgPtr, mgMs, accessed, accessFrame>>

\* The access is booked on the layer the page is in by now.
RecordAccess ==
  /\ ManagerAt("record")
  /\ accessed' = [accessed EXCEPT ![layer[mgPage]] = @ + 1]
  /\ mgPage' = Null
  /\ mgPc' = "idle"
  /\ UNCHANGED <<ringVars, metaVars, mgPtr, mgMs, accessFrame>>

-----------------------------------------------------------------------------
Migrate ==
  \/ Unlink \/ CheckCapacity \/ SweepPast \/ Evict \/ Move \/ Link
  \/ TakeStamp \/ StoreStamp \/ ResetCount \/ CountDown \/ CountUp
  \/ CountRoute
Classify == ScanNext \/ LoadCount \/ ClassifyHot \/ ClassifyCold \/ Recheck
Halt == AssertRemove \/ DoubleFree \/ AssertEmpty \/ AssertInsert \/ AliasNode
Scanner == Classify \/ Migrate \/ Halt
Manager ==
  \/ BeginAccess \/ Mark \/ ReadClock \/ StoreAccessTime \/ CountAccess
  \/ RecordAccess
Next == FillPage \/ Tick \/ Scanner \/ Manager

Spec == Init /\ [][Next]_vars

\* Each thread is scheduled by the operating system for as long as it can run.
FairSpec == Spec /\ WF_vars(Scanner) /\ WF_vars(Manager)
                 /\ WF_vars(FillPage)

-----------------------------------------------------------------------------
(* Properties                                                              *)

ScannerPcs == {"fill", "scan", "count", "hot", "cold", "recheck", "enter",
               "capacity", "evict", "move", "link", "clock", "stamp", "reset",
               "countDown", "countUp", "countRoute"}
Statuses == {"running", "assert_remove", "double_free", "assert_empty",
             "assert_insert", "aliased"}
Frames == [page : Pages, target : Layers, from : Layers]

\* The type of the page table's state (PageTable.hpp:19-89).
TypeOK ==
  /\ RingTypeOK
  /\ layer \in [Pages -> Layers \cup {Null}]
  /\ stamp \in [Pages -> Nat]
  /\ cnt \in [Pages -> 0 .. CountMod - 1]
  /\ nodePtr \in [Pages -> Blocks \cup {Null}]
  /\ count \in [Layers -> Nat]
  /\ filled \in 0 .. NumPages
  /\ scanIndex \in Pages
  /\ clock \in Nat
  /\ scPc \in ScannerPcs
  /\ seen \in [page : Pages, layer : Layers, last : Nat, cnt : 0 .. CountMod - 1]
              \cup {NothingSeen}
  /\ frame \in Frames \cup {NoFrame}
  /\ pending \in Frames \cup {NoFrame}
  /\ scMs \in Nat
  /\ mgPc \in {"idle", "mark", "now", "store", "count", "record"}
  /\ mgPage \in Pages \cup {Null}
  /\ mgPtr \in Blocks \cup {Null}
  /\ mgMs \in Nat
  /\ accessed \in [Layers -> Nat]
  /\ moved \in [Routes -> Nat]
  /\ status \in Statuses

Resident(l) == {p \in Pages : layer[p] = l}

\* A migration has moved its page but has not counted it yet.
BeforeCountDown == scPc \in {"link", "clock", "stamp", "reset", "countDown"}
BeforeCountUp == BeforeCountDown \/ scPc = "countUp"

\* The counting of a migration has begun and is not finished.
Counting == scPc \in {"countUp", "countRoute"}

\* The layer counts, which isFull() trusts and the metrics report, are the
\* numbers of pages in the layers, off by the one page whose migration is not
\* finished: also when a migration runs inside another one or is given up
\* (PageTable.cpp:227-273).
CountsMatchLayers ==
  \A l \in Layers :
    count[l] + (IF BeforeCountUp /\ l = frame.target THEN 1 ELSE 0)
      = Cardinality(Resident(l))
          + (IF BeforeCountDown /\ l = frame.from THEN 1 ELSE 0)

\* No tier holds more pages than its capacity, although the capacity is tested
\* well before the page is moved and counted (PageTable.cpp:228-247).  The
\* local tier with a ring is excepted: a promotion goes on when the eviction that
\* was to make room found its own target full.
WithinCapacity ==
  \A l \in Layers :
    (l = Local /\ UseRing) \/ Cardinality(Resident(l)) <= Capacity[l]

\* The migration counters balance: what the metrics say went into and out of a
\* layer explains its present count, up to what is left to count of the present
\* migration (PageTable.cpp:270-297).
FlowBalance ==
  scPc # "fill" =>
    \A l, m, n \in Layers :
      l # m /\ m # n /\ n # l =>
        count[l] + moved[<<l, m>>] + moved[<<l, n>>]
          + (IF Counting /\ l = frame.from THEN 1 ELSE 0)
        = Load(l) + moved[<<m, l>>] + moved[<<n, l>>]
            + (IF scPc = "countRoute" /\ l = frame.target THEN 1 ELSE 0)

\* The scanner decides on metadata it read earlier, and the manager goes on
\* counting: under the frequency policy a page is still as hot as it was taken
\* to be when it is promoted (PageTable.cpp:114-129, Scanner.cpp:62-95).
PromotionStillJustified ==
  Policy.type = "frequency" /\ NumTiers = 3
      /\ scPc \in {"enter", "capacity", "evict", "move"} =>
    LET call == IF pending = NoFrame THEN frame ELSE pending
    IN  call.target = Local => cnt[call.page] >= Policy.hot_access_count

\* The local tier is for "Hot data, frequently accessed" (README.md:49): under
\* the frequency policy nothing is promoted to it before some access has been
\* counted, if the counts of new pages happen to be zero (PageTable.hpp:26).
NoPromotionWithoutAccess ==
  Policy.type = "frequency" /\ Policy.hot_access_count > 0 /\ NumTiers = 3
      /\ UninitCounts = {0} /\ mgPc # "record" /\ (\A l \in Layers : accessed[l] = 0) =>
    moved[<<Remote, Local>>] = 0 /\ moved[<<Pmem, Local>>] = 0

\* No node has been deleted twice.
HeapIntact == \A b \in Blocks : avail[b] <= IF Live(b) THEN 0 ELSE 1

\* The configurations in which a page that leaves the local tier always finds
\* room, and the ring is as large as the tier: outside of them lie remove_null
\* and insert_full.
RoomBelow ==
  /\ UseRing /\ RingCapacity = Capacity[Local] /\ RingCapacity > 0
  /\ Capacity[Pmem] >= NumPages
  /\ NumTiers = 3 => Capacity[Remote] >= NumPages

\* Between two migrations the ring is a picture of the local tier: one node for
\* each of its pages, found through ring_node_ptr, and none else.  An eviction,
\* which deletes the node twice, leaves size_ too small but the picture intact
\* (PageTable.cpp:210-260, ClockRing.cpp:52).
RingMirrorsLocal ==
  RoomBelow /\ scPc \in {"scan", "count", "hot", "cold", "recheck"} =>
    /\ \A p \in Resident(Local) :
         nodePtr[p] # Null /\ Live(nodePtr[p]) /\ page_id[nodePtr[p]] = p
    /\ Cardinality(LiveBlocks) = Cardinality(Resident(Local))
    /\ HeapIntact => RingSizeExact

\* A page that leaves the local tier has a node, a full tier has a victim, and a
\* page that comes finds room in the ring: unless a node has been deleted twice,
\* which makes size_ too small and in the end wrap (PageTable.cpp:210-260,
\* ClockRing.cpp:16, 38, 52, 60).
NoAssertFails ==
  RoomBelow =>
    /\ status \notin {"assert_remove", "assert_empty"}
    /\ HeapIntact => status # "assert_insert"

\* assert(node_ptr && "Cannot remove nullptr") (ClockRing.cpp:38): a page of
\* the local tier has a node to give up when it leaves.
RemoveGetsNode == status # "assert_remove"

\* assert(local_cache_ring_->insert(page_index, node)) (PageTable.cpp:258): the
\* ring has room for a page that has come to the local tier.
InsertSucceeds == status # "assert_insert"

\* "Evict a page from NUMA_LOCAL to NUMA_REMOTE" (PageTable.cpp:231): the page
\* to be evicted has a node when migratePage() comes to remove it.
NodeDeletedOnce ==
  scPc = "enter" /\ LeavesRing /\ nodePtr[frame.page] # Null =>
    Live(nodePtr[frame.page])

\* last_access_time_ms (PageTable.hpp:22): the time since the last access, as
\* the scanner computes it, is no longer than the program has been running.
AgeIsReal ==
  scPc \in {"hot", "cold", "recheck"} =>
    TimeSince(clock, seen.last) <= clock - StartClock

\* The placement of the pages is that of the abstract system.
Tiers == INSTANCE TieredMemory WITH place <- layer, Evicts <- UseRing
ImplementsTiers == Tiers!TierSpec

\* Every call of migratePage() comes to its end, the eviction inside it
\* included, while the manager goes on accessing pages.
MigrationCompletes ==
  scPc \in {"enter", "capacity", "evict", "move"} /\ status = "running"
    ~> scPc = "scan" \/ status # "running"

\* Every page gets its turn: a page that has become hot in PMEM does not stay
\* there unless the local tier is full (Scanner.cpp:62-95, PageTable.cpp:
\* 131-140).  Not so a page on its way into PMEM: the accesses counted before
\* its migration resets access_cnt are lost.  MaxMoves ends the model's scan.
HotPageLeavesPmem ==
  \A p \in Pages :
    layer[p] = Pmem /\ cnt[p] >= Policy.hot_access_count /\ frame.page # p
      ~> layer[p] # Pmem \/ Full(Local) \/ TotalMoves >= MaxMoves

=============================================================================
