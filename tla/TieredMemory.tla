---------------------------- MODULE TieredMemory ----------------------------
(***************************************************************************)
(* What the tiering system promises about the placement of the pages, with *)
(* the threads, the metadata and the counters left out: a page is in one   *)
(* tier at a time, it moves between tiers one page at a time and along the *)
(* routes of the scanner's policy (Scanner.cpp:75-95, PageTable.cpp:227-   *)
(* 254), and no tier takes a page it has no room for.  PageTable is shown  *)
(* to implement this specification.                                        *)
(*                                                                         *)
(* With Evicts (the cache ring) the local tier takes a page although it is *)
(* full, the room being made by moving another page out.                   *)
(***************************************************************************)
EXTENDS TierPolicy, FiniteSets

CONSTANTS Pages, Null, Capacity, InitLayer, Evicts

VARIABLE place

At(l) == {p \in Pages : place[p] = l}
Room(l) == Cardinality(At(l)) < Capacity[l]

TierInit == place = [p \in Pages |-> Null]

\* The page's first tier.
Fill(p) ==
  /\ place[p] = Null
  /\ place' = [place EXCEPT ![p] = InitLayer[p]]

Relocate(p, from, to) ==
  /\ place[p] = from
  /\ place' = [place EXCEPT ![p] = to]

\* One tier down; with two tiers PMEM is below the local tier.
Demote(p) ==
  \/ NumTiers = 3 /\ Room(Remote) /\ Relocate(p, Local, Remote)
  \/ NumTiers = 2 /\ Room(Pmem) /\ Relocate(p, Local, Pmem)
  \/ Room(Pmem) /\ Relocate(p, Remote, Pmem)

\* A page evicted from the local tier skips the remote tier only if that has
\* no room.
Overflow(p) == Evicts /\ ~Room(Remote) /\ Room(Pmem) /\ Relocate(p, Local, Pmem)

Promote(p) ==
  \/ (Room(Local) \/ Evicts) /\ Relocate(p, Remote, Local)
  \/ (Room(Local) \/ Evicts) /\ Relocate(p, Pmem, Local)
  \/ NumTiers = 3 /\ Room(Remote) /\ Relocate(p, Pmem, Remote)

TierNext == \E p \in Pages : Fill(p) \/ Demote(p) \/ Overflow(p) \/ Promote(p)

TierSpec == TierInit /\ [][TierNext]_place

=============================================================================
