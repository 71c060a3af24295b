# Memory-Tiering in TLA+

This directory specifies the memory tiering system in TLA+: the modules follow
the C++ source statement by statement where two threads share state, TLC checks
them on small instances, and TLAPS proves the central properties for every
value of the constants. File and line references are to the repository's
sources. Each definition that models code is listed in `PROJECT.json` with the
lines it stands for.

## 1. The system

Clients (threads) send page accesses through a bounded buffer to a server. The
server's manager thread performs them on a page table; a scanner thread goes
round the same table, classifies each page as hot, warm or cold and migrates
pages between three tiers (local NUMA, remote NUMA, PMEM) or two (local, PMEM).
Optionally a second-chance ring ("cache ring") over the pages of the local tier
lets a full local tier evict a page to make room for a promotion. A metrics
thread reports at intervals; the last END message shuts everything down.

| Component | State | Operations | Talks to |
|---|---|---|---|
| `Client` (client/Client.cpp) | end time, op counter | `run`: push requests until the time is up, retry a failed push, then push END | pushes to `RingBuffer` |
| `RingBuffer` (RingBuffer.hpp) | circular buffer, mutex | `push`, `pop`; neither waits | clients / manager |
| `Server` manager (Server.cpp) | done flags, shutdown flag | `handleClientMessage`, `signalShutdown`, loop | calls `accessPage` |
| `PageTable` (PageTable.cpp) | metadata of each page, `scan_index_`, ring | `initPageTable`, `accessPage` (manager), `scanNext`, `getPageMetaData`, `migratePage` (scanner) | no lock; atomics only |
| `ClockRing` (ClockRing.cpp) | nodes, `hand_`, `size_` | `insert`, `remove`, `markAccessed`, `findEvictionCandidate` | called by `PageTable` from both threads |
| `Scanner` (Scanner.cpp) | shutdown flag | `classifyPage`, `runScanner` | reads metadata, calls `migratePage` |
| `Metrics` (Metrics.cpp) | counters | record calls, `periodicalMetrics` | incremented by manager and scanner, read by the metrics thread and `main` |
| cxxopts (libs/cxxopts) | parsed options, how often each was given | `parse`, the readers of each type | called by `ConfigParser` |
| `ConfigParser` | configuration | parse, validate | once, before all threads |
| memory of the tiers (PageTable.cpp:300-416, Utils.hpp) | three regions, the entries of the table | allocate, bind, fill, advise, unmap; move_pages, timed accesses | the kernel |
| `Generator` | random distributions | next page | called by `Client` |
| `main` | threads, configuration | start, wait, join, print | all |

What is hard about it, and what makes each part correct:

- **Page table.** Two threads share the metadata with no lock. `migratePage`
  reads the layer counts, moves the page, and updates the counts ten statements
  later; it calls itself to evict a page in the middle. Correct: a page is in
  one tier, the counts are the populations, no tier takes more than its
  capacity, a page moves only along a route of the policy, the migration
  counters explain the counts, every migration ends, and the scanner's decision
  is still true when it is carried out.
- **Ring.** Nodes are allocated and deleted by the scanner while the manager
  sets bits through a pointer it loaded before. Correct: the list stays one
  cycle, the victim is the one second chance prescribes, the nodes are those of
  the local pages, and no assertion fails.
- **Metrics.** One thread copies thirteen variables one after the other while
  two others change them; four are no atomics. Correct: nothing is reported twice
  or lost, no unsigned difference wraps, and what a row says of latency and
  accesses, of migrations and pages, belongs together up to what went on
  meanwhile.
- **Start and end.** Values that look like options, options that take no value,
  numbers that wrap, three components that add up the same sizes, allocations
  that fail. Correct: a setting means the same however it is spelled, and a
  program that comes to serve has a table that fits the tiers, the memory and
  the clients, and gives the memory back.
- **Policy.** Unsigned time differences, stamps in two units, an uninitialised
  counter.
- **Server.** Non-blocking pushes with retries, a shutdown triggered by a
  message, two shutdown flags, two levels of joins. Correct: requests are
  served in order and none is lost, the shutdown finds nothing left to do, the
  program ends.

The hazards are listed line by line in `PROJECT.json`, each with the properties
that would catch it, or the reason why none does.

## 2. The modules

| Module | What it is |
|---|---|
| `TierPolicy` | `classifyHotPage`, `classifyColdPage` for the three policies, and the tier the scanner asks for. |
| `ClockRing` | The ring on a small heap: one function per field of a node, indexed by memory block. |
| `PageTable` | The page table with the scanner and the manager thread. EXTENDS the two above. |
| `TieredMemory` | Abstract: the placement of the pages and the moves the policy and the capacities allow. |
| `SecondChance` | Abstract: a queue of pages, a set of referenced pages, and the page that is on its way out of the tier. |
| `RingQueue` | The mapping of the ring to `SecondChance`. |
| `PageTableInvariant` | The inductive invariant of `PageTable`, part by part. |
| `ClockRingProofs`, `PageTableProofs` | The proofs about the ring's operations and of the invariant. |
| `PlacementProofs` | The proofs of the refinement to `TieredMemory`, of the capacities, and of what justifies a promotion. |
| `RingProofs` | The proofs that the ring evicts in second-chance order, and, where the tiers below have room, mirrors the local tier and fails no assertion. |
| `Server` | Clients, buffer, manager loop, shutdown and joins. |
| `RequestService` | Abstract: requests accepted, served and the end, without a buffer or threads. |
| `ServerProofs` | The proofs about `Server`, its refinement included. |
| `MetricsReport` | `PageTable` with the metrics thread beside the other two. |
| `MetricsProofs` | The proofs about the reports, and that the metrics thread disturbs nobody. |
| `OptionValues` | The options the program declares, and what cxxopts reads from a text. |
| `CommandLine` | The parser of cxxopts, one step for an element of argv. |
| `Configuration` | `ConfigParser`: what is taken from the options, and every way to refuse them. |
| `Startup` | `main` before and after the threads: memory, table, generators, huge pages, the end. |
| `Recursion` | Lemmas: induction over the natural numbers, where a recursion leads, and a walk round a cycle. |
| `StartupProofs` | The proofs about the start, from the command line to the end of `main`. |
| `MCPageTable`, `MCServer`, `MCMetrics`, `MCStartup` | Constants for TLC. |

`ClockRing` is composed into `PageTable` (its actions are conjuncts of the
migration's), `TierPolicy` decides the dispatch of `PageTable`, and the two
abstract modules are instantiated over `PageTable`. `Server` abstracts what one
request does (`ServeRequest`), which is `PageTable`'s manager. `MetricsReport`
EXTENDS `PageTable`; its steps are those of `PageTable`, some with a latency
beside them, and those of the metrics thread. `OptionValues`, `CommandLine`,
`Configuration` and `Startup` each EXTENDS the one before: together they are one
run of the program, with the threads' work left out. What `Startup` ends with
(`ServedFits`) is what `PageTable` assumes.

### PageTable against the code

- `layer`, `stamp`, `cnt`, `nodePtr` are `page_layer`, `last_access_time_ms`,
  `access_cnt` and `ring_node_ptr` of each `PageMetadata`; `count` is
  `LayerInfo.count`; `scanIndex` is `scan_index_`; `moved` and `accessed` are
  the counters of `Metrics`. Latencies, page addresses and contents are left out.
- The position of the scanner is `scPc`. `frame` is the activation of
  `migratePage` that runs, `pending` the one that waits for a nested eviction.
  Nesting deeper than one does not occur: the nested call never has the local
  tier as its target. That this is so is part of the invariant (`FrameInv`).
- One action performs at most one access to a variable the other thread writes:
  `stamp`, `cnt`, `nodePtr`, the reference bits and the clock. Accesses to state
  of a single thread are merged with a neighbour. `scanNext` + loads of layer
  and time are `ScanNext`; the load of the count is `LoadCount`; the three
  readings of the clock in the classification are `ClassifyHot`, `ClassifyCold`
  and `Recheck`; `migratePage` is `Unlink` .. `CountRoute`; `accessPage` is
  `BeginAccess` .. `RecordAccess`. The metrics thread reads the layer counts and
  the counters of the routes, so the three increments at the end of a migration
  are three actions (`CountDown`, `CountUp`, `CountRoute`).
- `status` leaves `"running"` where an assertion of the source fails (the build
  keeps assertions) or the heap is corrupted. A node deleted twice is a
  nondeterministic choice: the allocator notices and aborts (`DoubleFree`), or
  does not, and then the block is twice on the free list (`Unlink`, `avail`);
  when it is handed out while it holds a node nothing more is modelled
  (`AliasNode`).
- `access_cnt` starts at any member of `UninitCounts`, because the constructor
  leaves it uninitialised. Stamps start in microseconds, as the constructor has
  it.
- Clients may access any page at any time once the table is filled; that is what
  the random generators can produce.

### Server against the code

`clientPc`, `managerPc`, `scannerPc`, `reporterPc`, `startPc`, `mainPc` are the
positions of the threads; `buffer`, `doneFlag`, `scannerFlag`, `managerFlag` the
shared state. `push` and `pop` are one critical section each. A failed push
changes nothing and is therefore the absence of a `PushRequest` step. A request
is its client and its number, number 0 is END. Sleeps have no length. `sent` and
`served` are the history that `RequestService` talks about.

### MetricsReport against the code

The manager adds the latency of an access (`RecordLatency`) before it counts
the access (`RecordBooked`, PageTable.cpp:165-179). The metrics thread loads
ten counters (`LoadCounter`), computes the differences, stores the new
`last_period_...` values and opens the file (`OpenFile`, which may fail), reads
the three layer counts while it writes the row (`LoadPages`) and is done
(`WriteRow`). The latency of an access is any amount of time; it is counted in
accesses, which is all that the properties tell apart. `written` is the sum of
the rows of the file, and `complete` remembers that it could be opened every
time.

### CommandLine, Configuration and Startup against the code

An element of argv is what `ParseArgument()` makes of it: a long option, a group
of letters, a plain argument, `--`, or malformed. A text is a sequence of pieces
between commas, each a sequence of words; how a word reads as a number is given
by three functions, because the program has three readers that disagree
(`integer_parser`, `std::stoul`, `operator>>`). `parse()` goes through argv one
element, or one letter of a group, a step; then come the defaults, then
`ConfigParser` in the order of the code. An exception nobody catches is
`stage = "threw"`, a refusal `"exit"` with code 1, a failed assertion
`"asserted"`, the use of a null region `"crashed"`.

Memory is a set of page addresses; `mmap` returns one of `Bases` or fails.
`region`, `load`, `placed`, `table` and `basePageId` are the fields of
`PageTable` and `Server` with those meanings. `reach` is what a generator can
draw, without probabilities. `Promote` is `promoteToHugePage`; `advised` are the
addresses it calls `madvise` for, whose result it does not use.

## 3. The runs

| Run | Question | Properties | Instance |
|---|---|---|---|
| `frequency` | Is a promotion earned, still justified when made, and does a hot page get it? Do the tiers hold? | `TypeOK`, `WithinCapacity`, `FlowBalance`, `PromotionStillJustified`, `NoPromotionWithoutAccess`, `ImplementsTiers`, `HotPageLeavesPmem` | 3 pages, one in each of 3 tiers, capacities 2/1/2, frequency policy, fairness |
| `ring_evict` | Evictions inside promotions, and demotions without room | `PlacementInv`, `PromotionStillJustified`, `ImplementsTiers`, `MigrationCompletes` | capacities 1/1/2, ring of 1, frequency policy, fairness |
| `ring_reuse` | Blocks deleted, reused and marked late, promotions counted after the eviction inside them | `CountsMatchLayers`, `FlowBalance`, `RingLinked`, `RingConnected`, `RingMirrorsLocal`, `NoAssertFails`, `ImplementsSecondChance` | 4 pages, 3 of them local, ring of 3, capacities 3/4/4, 4 blocks, hybrid policy, six moves, the clock running |
| `server` | Order, loss, shutdown, the end | `TypeOK`, `ServesInOrder`, `ShutdownIsDrained`, `PrintsFinalMetrics`, `ImplementsService`, `Terminates`, `RequestIsServed` | 2 clients, buffer of 2, 3 requests each, fairness |
| `metrics` | What can a report be wrong by? | `MTypeOK`, `RowsAddUp`, `DeltasCount`, `LatencyAheadByOne`, `PagesInRow`, `ImplementsTiers` | 2 tiers, 2 pages, capacities 2 and 1, LRU, 2 accesses, 2 moves, 2 reports |
| `startup` | From the command line to the end of `main` | `StartupTypeOK`, `SpellingIrrelevant`, `ServedFits`, `RangesMatchTable`, `OwnPagesOnly`, `TableCoversMemory`, `AdviceCoversTiers`, `NothingLeftMapped` | some fifty command lines |
| `remove_null`, `double_free`, `insert_full`, `initial_age`, `two_tier`, `bind_first_page` | The findings of section 5; TLC finds each violated | one each | the first two as `ring_evict`; `insert_full` with local capacity 2; `initial_age` as `frequency`, with LRU and the clock running; the last two with one command line |

**Bounds of the page table.** `MaxAccesses`, `MaxMoves`, `MaxReports` and
`MaxClock` end the model after that many accesses, migrations, reports and clock
ticks; they are in the guards of `BeginAccess`, `ScanNext`, `LoadCounter` and
`Tick`. Two to four moves let a page go down and up again, let an eviction
happen inside a promotion, and let a block be freed, reused and freed again; six,
in `ring_reuse`, are three evictions, after which `size_` has wrapped. The
accesses suffice to heat one page twice over or two pages at once (the hot
threshold is 2). Three pages are the fewest that fill two tiers and leave one to
come; `ring_reuse` has a fourth so that the ring has three nodes, the fewest
where `prev` and `next` differ. The thresholds are 1 and 2 ms, the clock of
`initial_age` runs from 1 to 4, that of `ring_reuse` from 1 to 2, the unsigned
arithmetic is modulo 16: the difference of the first stamp (6 units per
millisecond) and the clock wraps, as it does in the code. In the other runs the
clock stands. In `ring_reuse` the count of each page starts at 0 or at 2, as an
uninitialised counter can, so that one access is enough for every mixture of hot
and cold pages; its tiers satisfy `RoomBelow`. There the blocks are
interchangeable and symmetry is used; the liveness runs use none.
`metrics` takes two reports, the fewest with a period between them, and two
migrations and accesses, so that both threads can act between any two copies.

**Bounds of the server.** A buffer of two messages is full with two clients at
work and lets messages of one client wait behind one another; three requests
make a client fill it alone.

**Bounds of the start.** A `size_t` goes to `SizeMax` = 1023: 1000 is a count
that is read, 2000 one that is out of range, and -2000 and -1 wrap in
`std::stoul`, the latter to a sum that can be made to fit again. The heap has
room for `TableLimit` = 8 entries, a huge page is 4 pages, and `mmap` may return
addresses 4, 7, 10 or 12: aligned and not, apart and adjacent. The command lines
give the same settings in each of the ways to spell an option, in other orders,
repeated, with parts missing, with empty texts, with signs, prefixes and letters
in numbers, with two and three tiers, clients without pages, the ring, and texts
that the parser rejects. The manager looks up one page: a lookup has no memory.
One run of the program follows from each.

**Deadlock** is not checked: the program ends, halts at an assertion, or comes
to a bound. `Terminates` and `MigrationCompletes` say what deadlock freedom
would.

**Fairness.** Weak fairness for each thread, which is what a preemptive
scheduler gives and nothing more. In `PageTable` each thread as a whole is fair,
not its single actions: the sweep ends because the manager can set only finitely
many bits within `MaxAccesses`; without a bound a manager that sets every bit
before the hand returns could keep it going, which section 4 repeats among the
limits. In `Server` a client's time runs out (`Expire`), and a client whose push
fails is not promised to be the next to find room: `RequestIsServed` holds all
the same, because the other clients run out of time and the manager keeps
popping.

**What the passing runs show.** The counts, the placement and the list structure
hold in every interleaving, also behind the defects of section 5. The ring
mirrors the local tier where every migration out of the tier finds room
(`ring_reuse`); `ring_evict` shows what remains true otherwise. In its
ring of one page, an eviction that the allocator does not notice wraps `size_`,
so that the promotion it was made for ends at the assertion of the insert;
promotions that come to be counted after an eviction are in `ring_reuse`. There
an eviction, which deletes the node twice, makes `size_` too small and leaves
the picture intact. No assertion fails, but for that of the insert once `size_`
has wrapped. The late mark, set through a pointer to a node that has been deleted in
between, can reference another page, and never breaks the list or the
second-chance order.

Every property has a mutant in `PROJECT.json`: an operator, commented "Mutant"
in the module, that alters one definition the way a slip in the code would, and
under which the run finds the property violated.

A report is never wrong by more than what happened while it was made, and loses
nothing unless its file cannot be opened, in which case its period is in no row.
A program that comes to serve fits, whatever has wrapped on the way: sums that
wrap either fail to be allocated or filled, or add up to a configuration that
does fit. A client that has no pages draws pages of others (Generator.cpp:12),
which `OwnPagesOnly` excepts.

## 4. What is proved

For every number of pages, every placement, capacity and policy, with and
without the ring, for every number of clients, size of the buffer and number of
requests, for every command line, every width of a `size_t` and all that `mmap`
may return, and without the bounds of the runs mattering (the
proofs nowhere use a limit on moves, accesses or time):

| Theorem | Statement |
|---|---|
| `PageTableProofs!Invariance` | `Spec => []IInv` |
| `PageTableProofs!TypeCorrect` | `Spec => []TypeOK`; in particular no layer count is decremented below zero |
| `PageTableProofs!CountsCorrect` | `Spec => []CountsMatchLayers` |
| `PageTableProofs!RingCorrect` | `Spec => []RingLinked` |
| `PageTableProofs!RingIsOneCycle` | `Spec => []RingConnected` |
| `PlacementProofs!PlacementInvariance` | `Spec => []PlacementInv` |
| `PlacementProofs!CapacityKept` | `Spec => []WithinCapacity` |
| `PlacementProofs!Refinement` | `Spec => ImplementsTiers`: the page table implements `TieredMemory` |
| `RingProofs!AssertionsHold` | `Spec => []NoAssertFails` |
| `RingProofs!RingIsPicture` | `Spec => []RingMirrorsLocal` |
| `RingProofs!SecondChanceOrder` | `Spec => ImplementsSecondChance`: the ring implements `SecondChance` |
| `PlacementProofs!PromotionsJustified` | `Spec /\ []NoCountWraps => []PromotionStillJustified` |
| `PlacementProofs!PromotionsNeedAccess` | `Spec => []NoPromotionWithoutAccess` |
| `MetricsProofs!FlowBalanced` | `Spec => []FlowBalance` |
| `MetricsProofs!ReporterOnlyReads` | `MSpec => Spec`: with the metrics thread the page table behaves as without, so that all the above holds beside it |
| `MetricsProofs!MetricsTypeCorrect` | `MSpec => []MTypeOK` |
| `MetricsProofs!ReportsAddUp` | `MSpec => []RowsAddUp` |
| `MetricsProofs!DifferencesCount` | `MSpec => []DeltasCount` |
| `MetricsProofs!LatencyBound` | `MSpec => []LatencyAheadByOne` |
| `MetricsProofs!PagesBounded` | `MSpec => []PagesInRow` |
| `ServerProofs!TypeCorrect` | `Spec => []TypeOK` |
| `ServerProofs!OrderKept` | `Spec => []ServesInOrder` |
| `ServerProofs!ShutdownCorrect` | `Spec => []ShutdownIsDrained` |
| `ServerProofs!PrintCorrect` | `Spec => []PrintsFinalMetrics` |
| `ServerProofs!Refinement` | `Spec => Service!Spec`: the server implements `RequestService`, without its fairness |
| `StartupProofs!StartupTyping` | `StartupSpec => []StartupTypeOK` |
| `StartupProofs!ServedTiersFit` | `StartupSpec => []ServedFits` |
| `StartupProofs!RangesFit` | `StartupSpec => []RangesMatchTable` |
| `StartupProofs!TableIsMemory` | `StartupSpec => []TableCoversMemory` |
| `StartupProofs!ClientsKeepApart` | `StartupSpec => []OwnPagesOnly` |
| `StartupProofs!AdviceFits` | `StartupSpec => []AdviceCoversTiers` |
| `StartupProofs!NothingStaysMapped` | `StartupSpec => []NothingLeftMapped` |
| `StartupProofs!SpellingsMeanTheSame` | `StartupSpec => []SpellingIrrelevant` |

**Assumptions.** `TierPolicyAssumption`, `ClockRingAssumption`,
`PageTableAssumption`, `MetricsAssumption`, `ServerAssumption` (a finite set of
clients, a buffer that holds a message), `OptionValuesAssumption`,
`CommandLineAssumption` and `StartupAssumption`: the domains of the constants, and
what `ConfigParser` admits (initial pages fit their tiers; with two tiers none
starts in PMEM, because the parser compares them with the limit of the remote
tier, which is 0; the ring's capacity is the initial load of the local tier).
`DefaultsAssumption` says that the program can read the defaults it declares.
`StartupAssumption` says that the heap holds fewer entries than a `size_t` counts
(a `std::vector` throws `length_error` before that) and that address 0 is never
mapped. TLC evaluates them all on every run. The set `Blocks` may be infinite.

**The argument.** None of the properties is inductive by itself.
`CountsMatchLayers` is kept by `CountDown` only if the frame tells the truth
about where its page came from, which needs `FrameInv`: a nested migration
concerns another page than the waiting one, so it cannot make the waiting
frame's `from` stale. The frame is right because what the scanner has read is
the page's present layer (`SeenInv`; only the scanner writes it). That the
victim of an eviction is a local page, and not the page waiting to be promoted,
comes from the ring: `NodesInv` says that every node is that of a local page
whose pointer leads to it. `NodesInv` is kept although every eviction deletes
its victim's node twice, by `PointersInv`: at the second deletion the list is
closed over the deleted node (`ClosedOver`), so that deleting it again writes to
the list what is there already (`ClockRingProofs!RemoveAgain`). `RingConnected`
is stated over sets of nodes closed under `next`, not over paths, so that it
needs no induction. `RoomInv` carries the outcome of the capacity test to the
statement that moves the page, which gives `WithinCapacity`; `RouteInv` carries
the route, which gives the refinement: `FillPage` and `Move` are the steps of
the abstract specification, all others stutter.

The lemmas are per component of the invariant (type, flow, ring, counts) and
per group of actions (fill, classify, migrate, manager, halt), and `StepInv`
joins them. The operations of the ring have lemmas of their own in
`ClockRingProofs` (`InsertLinked`, `InsertConnected`, `RemoveLinked`,
`RemoveConnected`, `RemoveCloses`, `RemoveAgain`).

`NoAssertFails` and `RingMirrorsLocal` have a condition, `RoomBelow`: the tiers
below can take every page, and the ring is as large as the local tier. Their
invariant (`MirrorInv`) has three parts. `NodesKept`: every local page but the
one that migrates has a node; a migration out of the tier is never given up,
because the page itself is not in its target, which therefore is not full
(`NeverFull`). `HeapInv`: as a block without a node is on the free list, to
delete it again puts it there twice for good, and before that `size_` is right.
`LocalRoomInv`: an eviction that has been counted leaves room for the page that
waits. A full tier then has a page and the page a node, which is what the hand
needs; and the nodes map one to one into the local pages, which bounds their
number (`NodesInto`).

`ImplementsSecondChance` reads a queue off a linked list: `Walk` follows `next`
from the hand, once for every node. That this meets every node and none twice is
not said by any invariant about single links; it follows from `RingConnected`
and `prev` being the inverse of `next` (`Recursion!Lap`: a walk that can be
traced back returns first to where it began, and what it has met by then is
closed under `next`, which makes it everything). After a step the new list is
given explicitly, and is the new walk because it starts at the new hand and goes
along the new links (`SameWalk`, `QueueNext`). So `Insert` is an `Enqueue`
(`InsertQueues`: the node before the hand is the last of the walk), the second
deletion of a node does nothing (`SameQueue`), a pass of the hand turns the
queue by one (`PassTurns`), and the victim is its head (`TakeTakesHead`). A late
mark references the page whose node is in the block by then, or none
(`MarkReferences`). A page leaves the abstract queue in two ways only: as the
head, unreferenced, of a sweep for room (`EvictHead`), or because the policy has
named it (`Name`, `Withdraw`). What keeps the two apart is the page on its way
out (`Going`) and what it is on its way for (`Task`), both read off the scanner's
position and the frames of `migratePage`: the page a sweep takes must be the one
that the nested call then moves, until that call returns (`Gone`), and a page
that is removed from another place must be the one that migrates. Nothing is assumed about room: the
order holds also where assertions fail later.

`PromotionStillJustified` rests on the fact that the count the scanner has read
is never ahead of the page's own (`SeenIsBehind`): the manager only counts up
and the scanner alone resets, at the end of a migration. A nested eviction
resets the count of another page than the one that waits (`FrameInv`).
`NoCountWraps` excludes the state in which an access takes a 32-bit count back
to zero; the run keeps within it.

`FlowBalance` is stated tier by tier, as an equation between a count, the number
of pages that started there and the six counters. It needs that `CountDown`,
`CountUp` and `CountRoute` count the same frame, with a tier it came from and another it goes to
along a route of the policy, which `PlacementInv` says. `MSpec => Spec` holds
because every step of `MetricsReport` is one of `PageTable` or changes none of
its variables; the other theorems about reports then rest on `IInv`. Their own
invariant (`MInv`) says how far the copy is behind: a column that is loaded lies
between the value of the last report and its counter (`CopiedInv`); the latency
is ahead of the accesses by one exactly while an access is booked and not
counted (`LatencyInv`); the layer counts add up to the number of pages but for
the one that is counted down and not yet up (`SumInv`). `LatencyCopied` and
`PagesCopied` state the two properties of a row at every point of the copy,
taking for a column not yet loaded its counter (`Part`): they are kept because
the latency is copied first and a migration shifts the sum by one at most: down
until the counter of its route is incremented, or up, and then already between
the count of its target and that counter.

`NoPromotionWithoutAccess` is kept because a count of zero is not hot, and only
the promotion of a hot page leads to the local tier: as long as no access is
recorded or about to be, every count is zero, what the scanner has read is zero,
and no migration under way has the local tier as its target (`UntouchedInv`). An
access that has been counted in `access_cnt` and not yet in the metrics is what
`mgPc # "record"` excludes.

The proofs about the start rest on an invariant of ten parts (`StartupInv`), each
of which says what one component has established when its stage is over. The
options that are stored have the types of their options, and after the parser all
defaults are there (`ArgsInv`): no `as<T>()` of the code can meet another type.
`ConfigInv` keeps what the validation has tested, with its wrapped sums; `LoadInv`
says that the server's bases and the page table's loads are the same sums again.
`MemoryInv` and `ContentInv` follow the three allocations and say that the regions
are disjoint and all there is, whether or not one of them failed; a tier that
holds pages and has no region does not get past `ContentInv`. `TableInv` is about
the table while it is filled, client by client: its length is the wrapped sum of
the clients so far, a client's pages are a run of local, remote and PMEM entries
from its base on (`RangesInv`), and the entries of a tier use its addresses in
order, each once (`AddressInv`). A sum that wraps is no exception here but a
smaller number like any other; what makes the table right all the same is that
`FillClient` cannot append more entries than the heap holds (`TableLimit`, which is
at most `SizeMax`): the sum of a table that was filled has not wrapped, and then
neither have its parts. `AdviceCoversTiers` needs arithmetic on multiples of
`HugePage` (`RoundFacts`, `Multiples`, `AdviceOfTier`) and is an invariant by
itself.

Sums and tables are recursive functions. tlapm has no induction theorem that its
provers can use, because those of the library take an operator as a parameter;
`Recursion` proves induction for a set of numbers instead (`Induction`: if a
number were missing, adding one would map the numbers up to it one to one into
fewer), and from it that a recursion has exactly one solution (`OneWay`,
`SomeWay`, `EndlessWay`). `SumSteps`, the one lemma about `WrappedSum` the rest
uses, follows from these, and so do `WalkGoes` for the walk round the ring and
`FlattenStep` for a sequence of sequences.

`SpellingIrrelevant` is about the end of the parser, and its invariant
(`SpellingInv`) about every element before: the parser stands where the spelling
of the first so many settings ends, inside no group of letters, has stored what
those settings mean (`Taken`) and has left nothing unmatched (`ReadSoFar`). One
step reads one setting, in whichever of the five ways it is spelled
(`SettingRead`), and what it stores is the meaning of one setting more
(`TakenStep`): a list grows by the elements of the text, any other value is
replaced. The settings of the theorem are those of `Settings`: a letter is given
only to an option that has one, and a flag takes no text but behind an equals
sign, which is how the parser tells them apart.

The server's properties speak of what has happened and say nothing of what is on
its way; the invariant does (`QueueInv`): the messages in the buffer and in the
manager's hand, read in order, are for each client exactly those sent and not
yet served, in their order, and nothing stands behind an END. `Drained` follows:
when the last client is done there is nothing on its way. `PhaseInv` is the order
of the shutdown, from the flags through the exits of the threads to the joins.

**Only model-checked.** The liveness properties (`HotPageLeavesPmem`,
`MigrationCompletes`, `Terminates`, `RequestIsServed`, and the fairness in
`ImplementsService`), which are out of the prover's reach.
`MigrationCompletes` is checked with finitely many accesses: the code itself
gives no bound on how long the manager can keep the hand sweeping. Every safety
property of a passing run, and the safety part of every refinement, is proved.

## 5. Findings

1. **A failed demotion leaves a local page without a node** (`remove_null`).
   `migratePage` removes the page's ring node before it tests the capacity of
   the target (PageTable.cpp:214-217) and returns early if that is full. The
   next migration of the page fails `assert(node_ptr && ...)` (ClockRing.cpp:38).
2. **Every eviction deletes its victim's node twice** (`double_free`).
   `findEvictionCandidate` removes and deletes it through a local pointer, and
   the nested `migratePage` removes it again through `ring_node_ptr`
   (PageTable.cpp:215, ClockRing.cpp:65-68). `size_` goes down by two for one
   node each time; where the allocator does not notice, it wraps in the end
   (ClockRing.cpp:52), and the next insert fails its assertion although the tier
   has room.
3. **The ring is as large as the initial load of the local tier, not as its
   capacity** (`insert_full`). A promotion into the room that the configuration
   left free fails `assert(local_cache_ring_->insert(...))` (PageTable.cpp:258).
4. **The first stamp of a page is in microseconds** (`initial_age`), all others
   are in milliseconds; the unsigned age wraps and the page is cold from the
   start (PageTable.hpp:32, Scanner.cpp:17-19).
5. **Two tiers are refused if a client has pages in PMEM** (`two_tier`). The
   validation compares the second tier of the clients with the limit of the
   remote tier, which is 0 (ConfigParser.cpp:195-208).
6. **Only the first page of a tier is bound to its node** (`bind_first_page`).
   The region is mapped for `size * number` bytes and bound for `size`
   (Utils.hpp:86).

Behind the second, a promotion goes on when the nested eviction found its own
target full, and the local tier then takes a page more than its capacity;
`WithinCapacity` excepts the local tier with a ring for this reason, and
`TieredMemory` says so in `Promote`.

Met on the way, without a run: the examples of the repository's README use the
options `-m` and `--hot-access-cnt` and the pattern `skewed`, which the parser
does not have (ConfigParser.cpp:17-44; the runs contain such command lines,
which end in an exception or a refusal); `--cache-ring false` turns the ring
on, because a flag does not take the next element of argv as its value.

## 6. Not modelled

- What the kernel does with a page after the start: `move_pages` and the node a
  page is on. `move_page_to_node` does not read the status of the page, and
  `page_layer` is the only placement the program knows.
- How often a generator draws a page: the distributions are real-valued. Which
  pages it can draw is modelled.
- Latencies and bandwidths as numbers, the percentiles, the formats of the final
  print and of the configuration's print, `Metrics::reset()`, which nothing
  calls; the log; the scripts; the NUMA benchmark, a program of its own.
- Of cxxopts: the help text, positional and unrecognised options, optional and
  character values, and the records of the order in which options were given
  (`m_sequential`, `m_defaults`), none of which the program uses.
- A page count whose bytes exceed a `size_t`: it is beyond `TableLimit`.
- A buffer of capacity 0, which the parser admits and with which no push ever
  succeeds, and a table without pages, over which the scanner spins.
- Reordering by the memory model: most stores to the metadata are relaxed
  (PageTable.cpp:162, 259, 266-267; ClockRing.cpp:56, 71); the model takes the
  accesses of a thread in program order.

## 7. Plan

Written in this order: `TierPolicy`, `ClockRing`, `PageTable` with its
abstractions, the invariant and its proofs, `Server`, `MetricsReport`, the four
modules of the start, `RequestService`, and the proofs about server, reports
and start. Left:

`System`: `Server` with `PageTable`'s manager in place of `ServeRequest` and
`MetricsReport`'s thread in place of its loop, so that the shutdown meets a
migration and a report under way.
