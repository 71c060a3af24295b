----------------------------- MODULE MCMetrics -----------------------------
(* Values for the constants of MetricsReport: two tiers, few pages. *)
EXTENDS MetricsReport

TwoPages == {0, 1}
AllLocal == [p \in Pages |-> Local]
TwoTierCapacity == [l \in Layers |-> CASE l = Local -> 2 [] l = Remote -> 0 [] OTHER -> 1]

LruPolicy ==
  [type |-> "lru", hot_threshold_ms |-> 1, cold_threshold_ms |-> 2,
   hot_access_count |-> 2, cold_access_count |-> 0,
   weight_recency |-> 1, weight_frequency |-> 1]

=============================================================================
