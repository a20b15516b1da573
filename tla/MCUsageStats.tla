---- MODULE MCUsageStats ----
(***************************************************************************)
(* UsageStats for TLC: hours of two ticks, days of two hours.              *)
(***************************************************************************)
EXTENDS UsageStats, TLC

MCPeriod == [w \in Windows |-> IF w = "hour" THEN 2 ELSE 4]
MCLife   == [w \in Windows |-> IF w = "hour" THEN 3 ELSE 6]

Symmetry == Permutations(Handlers) \cup Permutations(Chains)
====
