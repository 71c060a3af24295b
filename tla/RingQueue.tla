----------------------------- MODULE RingQueue -----------------------------
(***************************************************************************)
(* The cache ring, as the page table uses it, implements SecondChance: the *)
(* queue is read off the list from the hand on, the task off the position  *)
(* of migratePage().                                                       *)
(***************************************************************************)
EXTENDS PageTable

\* The nodes from the hand on, in list order.
Walk[k \in Nat] == IF k = 0 THEN hand ELSE next[Walk[k - 1]]

Queue == [k \in 1 .. Cardinality(LiveBlocks) |-> page_id[Walk[k - 1]]]
Referenced == {page_id[b] : b \in {c \in LiveBlocks : ref_bit[c]}}

\* findEvictionCandidate() sweeps, and the nested migratePage() is called with
\* the page it returned; a call that is not nested removes the node itself.
Task ==
  CASE scPc = "evict" -> "sweep"
    [] pending # NoFrame -> "evicted"
    [] pending = NoFrame /\ scPc = "enter" /\ LeavesRing -> "leave"
    [] OTHER -> "rest"
Going == IF Task \in {"leave", "evicted"} THEN frame.page ELSE Null

\* Whatever the two threads interleave, and even when a node is deleted twice
\* or marked after it was deleted, new pages are queued last, and when room is
\* made the page moved out is the first of the queue that has not been
\* referenced; any other page leaves the queue only when it is itself the one
\* that is migrated (ClockRing.cpp:15-75, PageTable.cpp:214-217, 229-240).
Chance == INSTANCE SecondChance
            WITH queue <- Queue, referenced <- Referenced, task <- Task, going <- Going,
                 None <- Null
ImplementsSecondChance == Chance!QueueSpec

=============================================================================
