-------------------------- MODULE ClockRingProofs --------------------------
(***************************************************************************)
(* The actions of ClockRing keep the ring one doubly linked cycle.         *)
(***************************************************************************)
EXTENDS ClockRing, TLAPS

\* insert() adds one node (ClockRing.cpp:15-35).
LEMMA InsertLive ==
  ASSUME RingTypeOK, NEW p \in Pages, NEW b \in Blocks, Insert(p, b)
  PROVE  /\ LiveBlocks' = LiveBlocks \cup {b}
         /\ \A x \in Blocks : x # b => page_id'[x] = page_id[x]
         /\ page_id'[b] = p
BY ClockRingAssumption DEF RingTypeOK, Insert, LiveBlocks, Live

LEMMA InsertType ==
  ASSUME RingTypeOK, NEW p \in Pages, NEW b \in Blocks, Insert(p, b)
  PROVE  RingTypeOK'
<1>1. ringSize' \in 0 .. SizeMax
  BY ClockRingAssumption DEF RingTypeOK, Insert, RingFull
<1>2. avail' \in [Blocks -> Nat]
  BY DEF RingTypeOK, Insert, CanAllocate
<1>3. /\ page_id' \in [Blocks -> Pages \cup {Null}]
      /\ ref_bit' \in [Blocks -> BOOLEAN]
      /\ hand' \in Blocks \cup {Null}
  BY DEF RingTypeOK, Insert
<1>4. /\ prev' \in [Blocks -> Blocks \cup {Null}]
      /\ next' \in [Blocks -> Blocks \cup {Null}]
  BY DEF RingTypeOK, Insert
<1> QED BY <1>1, <1>2, <1>3, <1>4 DEF RingTypeOK

\* insert() keeps the neighbours of every node inverse to one another.
LEMMA InsertLinked ==
  ASSUME RingTypeOK, RingLinked,
         NEW p \in Pages, NEW b \in Blocks, Insert(p, b)
  PROVE  RingLinked'
<1> DEFINE L == LiveBlocks \cup {b}
<1>1. LiveBlocks' = L
  BY InsertLive
<1>3. b \notin LiveBlocks /\ LiveBlocks \subseteq Blocks
  BY DEF LiveBlocks, Insert
<1>4. \A x \in LiveBlocks : /\ next[x] \in LiveBlocks /\ prev[next[x]] = x
                            /\ prev[x] \in LiveBlocks /\ next[prev[x]] = x
  BY DEF RingLinked
<1>5. hand' \in L
  BY <1>1 DEF Insert, RingLinked
<1>6. \A x \in L : /\ next'[x] \in L /\ prev'[next'[x]] = x
                   /\ prev'[x] \in L /\ next'[prev'[x]] = x
  <2>1. CASE hand = Null
    <3>1. L = {b}
      BY <2>1 DEF RingLinked
    <3>2. next'[b] = b /\ prev'[b] = b
      BY <2>1 DEF Insert, RingTypeOK
    <3> QED BY <3>1, <3>2
  <2>2. CASE hand # Null
    <3>1. hand \in LiveBlocks
      BY <2>2 DEF RingLinked
    <3> DEFINE t == prev[hand]
    <3>2. t \in LiveBlocks /\ next[t] = hand
      BY <3>1, <1>4
    <3>3. /\ next' = [next EXCEPT ![b] = hand, ![t] = b]
          /\ prev' = [prev EXCEPT ![b] = t, ![hand] = b]
      BY <2>2 DEF Insert
    <3>4. /\ next'[b] = hand /\ next'[t] = b
          /\ prev'[b] = t /\ prev'[hand] = b
          /\ \A x \in Blocks : x # b /\ x # t => next'[x] = next[x]
          /\ \A x \in Blocks : x # b /\ x # hand => prev'[x] = prev[x]
      BY <3>1, <3>2, <3>3, <1>3 DEF RingTypeOK
    <3> HIDE DEF t
    <3> QED BY <3>1, <3>2, <3>4, <1>3, <1>4
  <2> QED BY <2>1, <2>2
<1>7. hand' # Null
  BY <1>5, <1>3, ClockRingAssumption
<1> QED BY <1>1, <1>5, <1>6, <1>7 DEF RingLinked

\* A node's neighbours are nodes of the ring.
LEMMA Neighbours ==
  ASSUME RingLinked
  PROVE  /\ LiveBlocks \subseteq Blocks
         /\ \A x \in LiveBlocks : /\ next[x] \in LiveBlocks /\ prev[next[x]] = x
                                  /\ prev[x] \in LiveBlocks /\ next[prev[x]] = x
BY DEF RingLinked, LiveBlocks

\* insert() leaves the ring one cycle: a set that next does not leave has the
\* new node and the hand together, and without the new node it was closed
\* before.
LEMMA InsertConnected ==
  ASSUME RingTypeOK, RingLinked, RingConnected,
         NEW p \in Pages, NEW b \in Blocks, Insert(p, b)
  PROVE  RingConnected'
<1>1. LiveBlocks' = LiveBlocks \cup {b}
  BY InsertLive
<1>2. b \notin LiveBlocks
  BY DEF LiveBlocks, Insert
<1> SUFFICES ASSUME NEW S \in SUBSET (LiveBlocks \cup {b}), S # {},
                    \A x \in S : next'[x] \in S
             PROVE  S = LiveBlocks \cup {b}
  BY <1>1 DEF RingConnected
<1>3. CASE hand = Null
  BY <1>3 DEF RingLinked
<1>4. CASE hand # Null
  <2>1. hand \in LiveBlocks
    BY <1>4 DEF RingLinked
  <2> DEFINE t == prev[hand]
  <2>2. t \in LiveBlocks /\ next[t] = hand
    BY <2>1, Neighbours
  <2>3. next' = [next EXCEPT ![b] = hand, ![t] = b]
    BY <1>4 DEF Insert
  <2>4. /\ next'[b] = hand /\ next'[t] = b
        /\ \A x \in LiveBlocks : x # t => next'[x] = next[x]
    BY <2>2, <2>3, <1>2, Neighbours DEF RingTypeOK
  <2> HIDE DEF t
  <2>5. CASE b \in S
    <3> DEFINE R == S \ {b}
    <3>1. R \subseteq LiveBlocks
      OBVIOUS
    <3>2. hand \in R
      BY <2>1, <2>4, <2>5, <1>2
    <3>3. \A x \in R : next[x] \in R
      BY <3>1, <3>2, <2>2, <2>4, <1>2, Neighbours
    <3>4. R = LiveBlocks
      BY <3>1, <3>2, <3>3 DEF RingConnected
    <3> QED BY <3>4, <2>5
  <2>6. CASE b \notin S
    <3>1. S \subseteq LiveBlocks /\ t \notin S
      BY <2>4, <2>6
    <3>2. \A x \in S : next[x] \in S
      BY <3>1, <2>4
    <3>3. S = LiveBlocks
      BY <3>1, <3>2 DEF RingConnected
    <3> QED BY <3>1, <3>3, <2>2
  <2> QED BY <2>5, <2>6
<1> QED BY <1>3, <1>4

-----------------------------------------------------------------------------
\* remove() takes one node away (ClockRing.cpp:37-53).
LEMMA RemoveLive ==
  ASSUME RingTypeOK, NEW b \in Blocks, Remove(b)
  PROVE  /\ LiveBlocks' = LiveBlocks \ {b}
         /\ \A x \in Blocks : x # b => page_id'[x] = page_id[x]
         /\ page_id'[b] = Null
BY DEF RingTypeOK, Remove, LiveBlocks, Live

LEMMA RemoveType ==
  ASSUME RingTypeOK, NEW b \in Blocks, Remove(b)
  PROVE  RingTypeOK'
<1>1. ringSize' \in 0 .. SizeMax
  BY ClockRingAssumption DEF RingTypeOK, Remove
<1>2. avail' \in [Blocks -> Nat]
  BY DEF RingTypeOK, Remove
<1>3. /\ page_id' \in [Blocks -> Pages \cup {Null}]
      /\ ref_bit' \in [Blocks -> BOOLEAN]
      /\ hand' \in Blocks \cup {Null}
  BY DEF RingTypeOK, Remove
<1>4. /\ prev' \in [Blocks -> Blocks \cup {Null}]
      /\ next' \in [Blocks -> Blocks \cup {Null}]
  BY DEF RingTypeOK, Remove
<1> QED BY <1>1, <1>2, <1>3, <1>4 DEF RingTypeOK

\* What remove() does to a node that has a neighbour.
LEMMA RemoveSplices ==
  ASSUME RingTypeOK, RingLinked, NEW b \in LiveBlocks, next[b] # b, Remove(b)
  PROVE  /\ next[b] \in LiveBlocks \ {b} /\ prev[b] \in LiveBlocks \ {b}
         /\ next'[prev[b]] = next[b] /\ prev'[next[b]] = prev[b]
         /\ \A x \in LiveBlocks : x # prev[b] => next'[x] = next[x]
         /\ \A x \in LiveBlocks : x # next[b] => prev'[x] = prev[x]
         /\ hand' = IF hand = b THEN next[b] ELSE hand
<1>1. next[b] \in LiveBlocks \ {b} /\ prev[b] \in LiveBlocks \ {b}
  BY Neighbours
<1>2. /\ next' = [next EXCEPT ![prev[b]] = next[b]]
      /\ prev' = [prev EXCEPT ![next[b]] = prev[b]]
      /\ hand' = IF hand = b THEN next[b] ELSE hand
  BY DEF Remove
<1> QED BY <1>1, <1>2, Neighbours DEF RingTypeOK

\* A node that is its own neighbour is the only one.
LEMMA LastNode ==
  ASSUME RingConnected, NEW b \in LiveBlocks, next[b] = b
  PROVE  LiveBlocks = {b}
BY {b} \in SUBSET LiveBlocks, {b} # {} DEF RingConnected

LEMMA RemoveLinked ==
  ASSUME RingTypeOK, RingLinked, RingConnected, NEW b \in LiveBlocks, Remove(b)
  PROVE  RingLinked'
<1>1. b \in Blocks /\ LiveBlocks' = LiveBlocks \ {b}
  BY RemoveLive DEF LiveBlocks
<1>2. CASE next[b] = b
  <2>1. LiveBlocks' = {} /\ hand' = Null
    BY <1>1, <1>2, LastNode DEF Remove
  <2> QED BY <2>1 DEF RingLinked
<1>3. CASE next[b] # b
  <2> DEFINE L == LiveBlocks \ {b}
  <2>1. \A x \in L : /\ next'[x] \in L /\ prev'[next'[x]] = x
                     /\ prev'[x] \in L /\ next'[prev'[x]] = x
    BY <1>3, RemoveSplices, Neighbours
  <2>2. hand \in LiveBlocks
    BY DEF RingLinked
  <2>3. hand' \in L /\ hand' # Null
    BY <1>3, <2>2, RemoveSplices, ClockRingAssumption DEF LiveBlocks
  <2> QED BY <1>1, <2>1, <2>3 DEF RingLinked
<1> QED BY <1>2, <1>3

LEMMA RemoveConnected ==
  ASSUME RingTypeOK, RingLinked, RingConnected, NEW b \in LiveBlocks, Remove(b)
  PROVE  RingConnected'
<1>1. b \in Blocks /\ LiveBlocks' = LiveBlocks \ {b}
  BY RemoveLive DEF LiveBlocks
<1> SUFFICES ASSUME NEW S \in SUBSET (LiveBlocks \ {b}), S # {},
                    \A x \in S : next'[x] \in S
             PROVE  S = LiveBlocks \ {b}
  BY <1>1 DEF RingConnected
<1>2. next[b] # b
  BY LastNode
<1>3. CASE prev[b] \in S
  <2> DEFINE R == S \cup {b}
  <2>1. R \subseteq LiveBlocks /\ R # {}
    OBVIOUS
  <2>2. \A x \in R : next[x] \in R
    BY <1>2, <1>3, RemoveSplices, Neighbours
  <2>3. R = LiveBlocks
    BY <2>1, <2>2 DEF RingConnected
  <2> QED BY <2>3
<1>4. CASE prev[b] \notin S
  <2>1. \A x \in S : next[x] \in S
    BY <1>2, <1>4, RemoveSplices
  <2>2. S = LiveBlocks
    BY <2>1 DEF RingConnected
  <2> QED BY <2>2
<1> QED BY <1>3, <1>4

\* remove() leaves the list closed over the node it deletes, ...
LEMMA RemoveCloses ==
  ASSUME RingTypeOK, RingLinked, NEW b \in LiveBlocks, Remove(b)
  PROVE  ClosedOver(b)'
<1>1. CASE next[b] = b
  BY <1>1 DEF Remove, ClosedOver
<1>2. CASE next[b] # b
  <2>1. next'[b] = next[b] /\ prev'[b] = prev[b]
    BY <1>2, RemoveSplices
  <2> QED BY <1>2, <2>1, RemoveSplices DEF ClosedOver
<1> QED BY <1>1, <1>2

\* ... and a second remove() of that node changes nothing in the list.
LEMMA RemoveAgain ==
  ASSUME RingTypeOK, NEW b \in Blocks, ~Live(b), ClosedOver(b), Remove(b)
  PROVE  UNCHANGED <<hand, page_id, prev, next>>
<1>1. page_id' = page_id
  BY DEF RingTypeOK, Remove, Live
<1>2. CASE next[b] = b
  BY <1>1, <1>2 DEF ClosedOver, Remove
<1>3. CASE next[b] # b
  <2>1. next' = next /\ prev' = prev
    BY <1>3 DEF ClosedOver, Remove, RingTypeOK
  <2> QED BY <1>1, <1>3, <2>1 DEF ClosedOver, Remove
<1> QED BY <1>2, <1>3

=============================================================================
