----------------------------- MODULE ClockRing -----------------------------
(***************************************************************************)
(* ClockRing (ClockRing.hpp, ClockRing.cpp): the circular doubly linked    *)
(* list of ClockRingNode that approximates LRU over the pages of the local *)
(* tier, together with the part of the heap its nodes live in.             *)
(*                                                                         *)
(* The heap is one function per field of ClockRingNode, indexed by the     *)
(* block that holds the node.  avail[b] counts how often block b is on the *)
(* allocator's free list: 1 for a free block, 0 for an allocated one, and  *)
(* more after a block has been freed twice.  free() overwrites the first   *)
(* word of a block, which is page_id; prev and next are left as they were, *)
(* so a second remove() of the same node still reads its old neighbours.   *)
(*                                                                         *)
(* The module is a library of actions on the ring; the threads that call   *)
(* them are in PageTable.  Only the scanner thread changes the list, the   *)
(* manager thread only sets ref_bit.                                       *)
(***************************************************************************)
EXTENDS Integers, FiniteSets

CONSTANTS
  Pages,         \* page ids
  Blocks,        \* heap blocks a node can be placed in
  Null,          \* nullptr, and the page_id of a block that holds no node
  RingCapacity,  \* capacity_: the constructor's argument
  SizeMax        \* the largest size_t

ASSUME ClockRingAssumption ==
  /\ Null \notin Blocks
  /\ Null \notin Pages
  /\ RingCapacity \in Nat
  /\ SizeMax \in Nat
  /\ RingCapacity <= SizeMax

VARIABLES
  hand,      \* hand_
  ringSize,  \* size_
  page_id, ref_bit, prev, next,  \* the fields of the node in each block
  avail      \* copies of each block on the allocator's free list

ringVars == <<hand, ringSize, page_id, ref_bit, prev, next, avail>>

RingTypeOK ==
  /\ hand \in Blocks \cup {Null}
  /\ ringSize \in 0 .. SizeMax
  /\ page_id \in [Blocks -> Pages \cup {Null}]
  /\ ref_bit \in [Blocks -> BOOLEAN]
  /\ prev \in [Blocks -> Blocks \cup {Null}]
  /\ next \in [Blocks -> Blocks \cup {Null}]
  /\ avail \in [Blocks -> Nat]

RingInit ==
  /\ hand = Null
  /\ ringSize = 0
  /\ page_id = [b \in Blocks |-> Null]
  /\ ref_bit = [b \in Blocks |-> FALSE]
  /\ prev = [b \in Blocks |-> Null]
  /\ next = [b \in Blocks |-> Null]
  /\ avail = [b \in Blocks |-> 1]

\* A block holds a node between `new` and `delete`.
Live(b) == page_id[b] # Null
LiveBlocks == {b \in Blocks : Live(b)}

-----------------------------------------------------------------------------
\* insert() returns false when the ring is at capacity, and changes nothing.
RingFull == ringSize >= RingCapacity

\* The heap can hand out any block of its free list.
CanAllocate(b) == avail[b] > 0

\* Mutant: the new node becomes the one under the hand.
InsertAtHand(p, b) ==
  /\ ~RingFull
  /\ CanAllocate(b) /\ ~Live(b)
  /\ avail' = [avail EXCEPT ![b] = @ - 1]
  /\ page_id' = [page_id EXCEPT ![b] = p]
  /\ ref_bit' = [ref_bit EXCEPT ![b] = FALSE]
  /\ \/ /\ hand = Null
        /\ next' = [next EXCEPT ![b] = b]
        /\ prev' = [prev EXCEPT ![b] = b]
     \/ /\ hand # Null
        /\ next' = [next EXCEPT ![b] = hand, ![prev[hand]] = b]
        /\ prev' = [prev EXCEPT ![b] = prev[hand], ![hand] = b]
  /\ hand' = b
  /\ ringSize' = ringSize + 1

\* Mutant: every node is linked the way the first one is.
InsertAsFirst(p, b) ==
  /\ ~RingFull
  /\ CanAllocate(b) /\ ~Live(b)
  /\ avail' = [avail EXCEPT ![b] = @ - 1]
  /\ page_id' = [page_id EXCEPT ![b] = p]
  /\ ref_bit' = [ref_bit EXCEPT ![b] = FALSE]
  /\ hand' = b
  /\ next' = [next EXCEPT ![b] = b]
  /\ prev' = [prev EXCEPT ![b] = b]
  /\ ringSize' = ringSize + 1

\* insert() below capacity: a new node in block b for page p, as the tail of
\* the ring, which is the node before the hand.  The block holds no node: what
\* the heap does with a block that was freed twice is AliasNode in PageTable.
Insert(p, b) ==
  /\ ~RingFull
  /\ CanAllocate(b) /\ ~Live(b)
  /\ avail' = [avail EXCEPT ![b] = @ - 1]
  /\ page_id' = [page_id EXCEPT ![b] = p]
  /\ ref_bit' = [ref_bit EXCEPT ![b] = FALSE]
  /\ \/ /\ hand = Null
        /\ hand' = b
        /\ next' = [next EXCEPT ![b] = b]
        /\ prev' = [prev EXCEPT ![b] = b]
     \/ /\ hand # Null
        /\ next' = [next EXCEPT ![b] = hand, ![prev[hand]] = b]
        /\ prev' = [prev EXCEPT ![b] = prev[hand], ![hand] = b]
        /\ UNCHANGED hand
  /\ ringSize' = ringSize + 1

\* Mutant: the successor keeps pointing back to the node that is deleted.
RemoveOneWay(b) ==
  /\ \/ /\ next[b] = b
        /\ hand' = Null
        /\ UNCHANGED next
     \/ /\ next[b] # b
        /\ next' = [next EXCEPT ![prev[b]] = next[b]]
        /\ hand' = IF hand = b THEN next[b] ELSE hand
  /\ page_id' = [page_id EXCEPT ![b] = Null]
  /\ avail' = [avail EXCEPT ![b] = @ + 1]
  /\ ringSize' = IF ringSize = 0 THEN SizeMax ELSE ringSize - 1
  /\ UNCHANGED <<ref_bit, prev>>

\* Mutant: size_ is not counted down.
RemoveUncounted(b) ==
  /\ \/ /\ next[b] = b
        /\ hand' = Null
        /\ UNCHANGED <<prev, next>>
     \/ /\ next[b] # b
        /\ next' = [next EXCEPT ![prev[b]] = next[b]]
        /\ prev' = [prev EXCEPT ![next[b]] = prev[b]]
        /\ hand' = IF hand = b THEN next[b] ELSE hand
  /\ page_id' = [page_id EXCEPT ![b] = Null]
  /\ avail' = [avail EXCEPT ![b] = @ + 1]
  /\ UNCHANGED <<ref_bit, ringSize>>

\* remove() of a non-null node.  The block goes back to the allocator whether
\* or not it still held a node; size_ is unsigned and wraps below zero.
Remove(b) ==
  /\ \/ /\ next[b] = b
        /\ hand' = Null
        /\ UNCHANGED <<prev, next>>
     \/ /\ next[b] # b
        /\ next' = [next EXCEPT ![prev[b]] = next[b]]
        /\ prev' = [prev EXCEPT ![next[b]] = prev[b]]
        /\ hand' = IF hand = b THEN next[b] ELSE hand
  /\ page_id' = [page_id EXCEPT ![b] = Null]
  /\ avail' = [avail EXCEPT ![b] = @ + 1]
  /\ ringSize' = IF ringSize = 0 THEN SizeMax ELSE ringSize - 1
  /\ UNCHANGED ref_bit

\* markAccessed(): one relaxed store, through a pointer loaded earlier.
MarkAccessed(b) ==
  /\ ref_bit' = IF b = Null THEN ref_bit ELSE [ref_bit EXCEPT ![b] = TRUE]
  /\ UNCHANGED <<hand, ringSize, page_id, prev, next, avail>>

\* Mutant: the reference bit is not cleared when the hand passes.
PassUncleared ==
  /\ hand # Null
  /\ ref_bit[hand]
  /\ hand' = next[hand]
  /\ UNCHANGED <<ref_bit, ringSize, page_id, prev, next, avail>>

\* One turn of the loop of findEvictionCandidate() on a referenced node: the
\* node gets its second chance and the hand moves on.
PassReferenced ==
  /\ hand # Null
  /\ ref_bit[hand]
  /\ ref_bit' = [ref_bit EXCEPT ![hand] = FALSE]
  /\ hand' = next[hand]
  /\ UNCHANGED <<ringSize, page_id, prev, next, avail>>

\* Mutant: the reference bit is not looked at.
TakeUnderHand ==
  /\ hand # Null
  /\ Remove(hand)

\* Mutant: the node is removed after the hand has moved on.
TakeNext ==
  /\ hand # Null
  /\ ~ref_bit[hand]
  /\ Remove(next[hand])

\* The turn that ends the loop: the node under the hand is removed.  The hand
\* is moved to its successor first, which is what Remove does as well.
TakeVictim ==
  /\ hand # Null
  /\ ~ref_bit[hand]
  /\ Remove(hand)

-----------------------------------------------------------------------------
\* next and prev are inverse to one another on the nodes of the ring, and the
\* hand is one of them: whatever the callers interleave, no live node points
\* into a freed block (ClockRing.cpp:15-53).
RingLinked ==
  /\ \A b \in LiveBlocks :
       /\ next[b] \in LiveBlocks /\ prev[next[b]] = b
       /\ prev[b] \in LiveBlocks /\ next[prev[b]] = b
  /\ hand \in LiveBlocks \cup {Null}
  /\ hand = Null => LiveBlocks = {}

\* The ring is one cycle: a non-empty set of nodes that next does not leave is
\* all of it, so the sweep of the hand overlooks no page (ClockRing.cpp:15-75).
RingConnected ==
  \A S \in SUBSET LiveBlocks :
    S # {} /\ (\A b \in S : next[b] \in S) => S = LiveBlocks

\* The list is closed over a block: no link of the ring leads to it, and its
\* own links are those of the gap it left.
ClosedOver(b) ==
  \/ next[b] = b /\ hand = Null
  \/ /\ next[b] # b /\ hand # b
     /\ next[prev[b]] = next[b] /\ prev[next[b]] = prev[b]

\* size_ is the number of nodes, the number the capacity test relies on
\* (ClockRing.cpp:16, 33, 52).
RingSizeExact == ringSize = Cardinality(LiveBlocks)

=============================================================================
