---------------------------- MODULE MCPageTable ----------------------------
(***************************************************************************)
(* Values for the constants of PageTable that a configuration file cannot  *)
(* write down.                                                             *)
(***************************************************************************)
EXTENDS RingQueue, PageTableInvariant, TLC

\* The first local pages start in the local tier, the next remote ones in the
\* remote tier and the others in PMEM.
MCInitLayer(local, remote) ==
  [p \in Pages |-> IF p < local THEN Local
                   ELSE IF p < local + remote THEN Remote ELSE Pmem]

MCCapacity(local, remote, pmem) ==
  [l \in Layers |-> CASE l = Local -> local [] l = Remote -> remote [] OTHER -> pmem]

MCPolicy(type) ==
  [type |-> type, hot_threshold_ms |-> 1, cold_threshold_ms |-> 2,
   hot_access_count |-> 2, cold_access_count |-> 0,
   weight_recency |-> 1, weight_frequency |-> 1]

LruPolicy == MCPolicy("lru")
FrequencyPolicy == MCPolicy("frequency")
HybridPolicy == MCPolicy("hybrid")

Pages3 == 0 .. 2
Pages4 == 0 .. 3

Init111 == MCInitLayer(1, 1)
Init300 == MCInitLayer(3, 0)

Capacity112 == MCCapacity(1, 1, 2)
Capacity212 == MCCapacity(2, 1, 2)
Capacity344 == MCCapacity(3, 4, 4)

BlockSymmetry == Permutations(Blocks)

=============================================================================
