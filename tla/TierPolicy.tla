----------------------------- MODULE TierPolicy -----------------------------
(***************************************************************************)
(* The page classification of the scanner (Scanner.cpp:7-60): when a page  *)
(* is hot, when it is cold, and which migration the scanner asks for       *)
(* (Scanner.cpp:75-95).                                                    *)
(*                                                                         *)
(* Policy is PolicyConfig with the fields of its three variants merged; a  *)
(* policy reads only the fields of its own type.                           *)
(***************************************************************************)
EXTENDS Integers

CONSTANTS
  Policy,    \* [type, hot_threshold_ms, cold_threshold_ms, hot_access_count,
             \*  cold_access_count, weight_recency, weight_frequency]
  TimeMod,   \* 2^64: the times are unsigned
  NumTiers   \* 2 (DRAM and PMEM) or 3

Local  == "NUMA_LOCAL"
Remote == "NUMA_REMOTE"
Pmem   == "PMEM"
Layers == {Local, Remote, Pmem}

ASSUME TierPolicyAssumption ==
  /\ Policy.type \in {"lru", "frequency", "hybrid"}
  /\ Policy.hot_access_count \in Nat
  /\ TimeMod \in Nat \ {0}
  /\ NumTiers \in {2, 3}

\* time_since_last_access: an unsigned subtraction, which wraps when the stamp
\* is ahead of the clock.
TimeSince(now, last) == (now - last) % TimeMod

\* hybrid: the scores of the two criteria against half of the total weight.
HybridScore(recency, frequency) ==
  2 * ((IF recency THEN Policy.weight_recency ELSE 0)
       + (IF frequency THEN Policy.weight_frequency ELSE 0))
    >= Policy.weight_recency + Policy.weight_frequency

\* Mutant: the thresholds of the two classifications are confused.
HotAtColdCount(now, last, cnt) ==
  LET recent   == TimeSince(now, last) <= Policy.hot_threshold_ms
      frequent == cnt >= Policy.cold_access_count
  IN  \/ Policy.type = "lru" /\ recent
      \/ Policy.type = "frequency" /\ frequent
      \/ Policy.type = "hybrid" /\ HybridScore(recent, frequent)

ClassifyHotPage(now, last, cnt) ==
  LET recent   == TimeSince(now, last) <= Policy.hot_threshold_ms
      frequent == cnt >= Policy.hot_access_count
  IN  \/ Policy.type = "lru" /\ recent
      \/ Policy.type = "frequency" /\ frequent
      \/ Policy.type = "hybrid" /\ HybridScore(recent, frequent)

ClassifyColdPage(now, last, cnt) ==
  LET stale == TimeSince(now, last) >= Policy.cold_threshold_ms
      rare  == cnt <= Policy.cold_access_count
  IN  \/ Policy.type = "lru" /\ stale
      \/ Policy.type = "frequency" /\ rare
      \/ Policy.type = "hybrid" /\ HybridScore(stale, rare)

\* Mutant: a cold local page goes to PMEM also when there are three tiers.
ColdToPmem(l, status) ==
  CASE l \in {Local, Remote} /\ status = "COLD" -> Pmem
    [] l \in {Remote, Pmem} /\ status = "HOT"   -> Local
    [] l = Pmem /\ status = "WARM" -> IF NumTiers = 2 THEN Local ELSE Remote
    [] OTHER -> l

\* The tier the scanner asks migratePage() for when a page of tier l is found
\* to be of the given status; a page that is to stay where it is maps to its
\* own tier.  A remote page that is not cold is classified a second time before
\* it is promoted, see Recheck in PageTable.
TargetLayer(l, status) ==
  CASE l = Local  /\ status = "COLD" -> IF NumTiers = 2 THEN Pmem ELSE Remote
    [] l = Remote /\ status = "COLD" -> Pmem
    [] l = Remote /\ status = "HOT"  -> Local
    [] l = Pmem   /\ status = "HOT"  -> Local
    [] l = Pmem   /\ status = "WARM" -> IF NumTiers = 2 THEN Local ELSE Remote
    [] OTHER -> l

=============================================================================
