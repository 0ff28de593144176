-------------------------- MODULE MCPairCollector --------------------------
(* One job, its signals and crashes, and what the collector makes of it. *)
EXTENDS PairCollector
=============================================================================
