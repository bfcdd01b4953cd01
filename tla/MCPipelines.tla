---------------------------- MODULE MCPipelines ----------------------------
(* Instances of Pipelines: two runs of one project on one server, and one  *)
(* run between two servers.                                                *)
EXTENDS Pipelines, TLC

Attempts   == [k \in Kinds |-> IF k = "test" THEN 1 ELSE 2]
BuildTwice == [k \in Kinds |-> IF k = "build" THEN 2 ELSE 1]

Symmetry == Permutations(Servers) \cup Permutations(Runs)
=============================================================================
