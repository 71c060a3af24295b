------------------------- MODULE PageTableInvariant -------------------------
(***************************************************************************)
(* The inductive invariant of PageTable: what holds at each position of    *)
(* the scanner, from which PageTableProofs and PlacementProofs derive the  *)
(* properties.                                                             *)
(***************************************************************************)
EXTENDS PageTable

\* The table is filled in page order, the scanner starts when it is full.
FillInv ==
  /\ \A p \in Pages : layer[p] = Null <=> p >= filled
  /\ scPc = "fill" <=> filled < NumPages

Scanning == scPc \in {"fill", "scan", "count", "hot", "cold", "recheck"}
BeforeMove == scPc \in {"enter", "capacity", "evict", "move"}
Nested == pending # NoFrame

\* What the scanner has read is a page of the table and its present layer.
SeenInv ==
  scPc \in {"count", "hot", "cold", "recheck"} =>
    seen # NothingSeen /\ seen.layer = layer[seen.page]

\* A migration knows where its page is, the waiting one and the nested one
\* concern different pages, and only a promotion waits.
FrameInv ==
  /\ Scanning => frame = NoFrame /\ pending = NoFrame
  /\ ~Scanning => frame \in Frames /\ frame.from # frame.target
  /\ BeforeMove => layer[frame.page] = frame.from
  /\ BeforeCountUp => layer[frame.page] = frame.target
  /\ scPc \in {"evict", "link"} => UseRing /\ frame.target = Local
  /\ scPc = "evict" => ~Nested
  /\ Nested => /\ UseRing
               /\ frame.target # Local
               /\ frame.from = Local
               /\ pending.target = Local /\ pending.from # Local
               /\ pending.page # frame.page
               /\ layer[pending.page] = pending.from

\* Room found by the capacity test is still there when the page is counted.
RoomInv ==
  scPc = "move" \/ BeforeCountUp =>
    (UseRing /\ frame.target = Local) \/ count[frame.target] < Capacity[frame.target]

\* The nodes belong to local pages that point to them.
NodesInv ==
  /\ \A b \in LiveBlocks : layer[page_id[b]] = Local /\ nodePtr[page_id[b]] = b
  /\ ~UseRing => LiveBlocks = {}
  /\ (scPc \in {"capacity", "move"} /\ frame.from = Local) \/ scPc = "link" =>
       \A b \in LiveBlocks : page_id[b] # frame.page

\* A pointer that is not null leads to its page's node, but for the page being
\* evicted: its node was deleted when it was chosen, with the list closed over
\* it, and deleting it again leaves the list as it is.
EvictedAgain == scPc = "enter" /\ Nested
PointersInv ==
  /\ \A p \in Pages :
       nodePtr[p] # Null /\ ~(EvictedAgain /\ p = frame.page) =>
         Live(nodePtr[p]) /\ page_id[nodePtr[p]] = p
  /\ EvictedAgain =>
       LET b == nodePtr[frame.page]
       IN  b # Null /\ ~Live(b) /\ ClosedOver(b)

RingInv == RingLinked /\ RingConnected /\ NodesInv /\ PointersInv
FlowInv == FillInv /\ SeenInv /\ FrameInv /\ RoomInv

IInv == TypeOK /\ FlowInv /\ RingInv /\ CountsMatchLayers

-----------------------------------------------------------------------------
(* What the placement of the pages needs beyond that.                      *)

\* While the table is being filled every page is where it was placed.
FirstLayer == scPc = "fill" => \A p \in Pages : layer[p] \in {Null, InitLayer[p]}

\* A migration goes along a route of the policy; only an eviction, with the
\* remote tier full, takes a page from the local tier of three to PMEM.
RouteInv ==
  BeforeMove =>
    \/ frame.target = Local
    \/ frame.from = Remote /\ frame.target = Pmem
    \/ NumTiers = 3 /\ frame.from \in {Local, Pmem} /\ frame.target = Remote
    \/ NumTiers = 2 /\ frame.from = Local /\ frame.target = Pmem
    \/ UseRing /\ Full(Remote) /\ frame.from = Local /\ frame.target = Pmem

PlacementInv == IInv /\ FirstLayer /\ RouteInv /\ WithinCapacity

=============================================================================
