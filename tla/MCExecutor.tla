------------------------------ MODULE MCExecutor ------------------------------
(***************************************************************************)
(* Executor for TLC: two supervisors and two steps of one agent, either of *)
(* which may be exchanged.                                                 *)
(***************************************************************************)
EXTENDS Executor, TLC

OneAgent == [s \in Steps |-> "agent"]

Symmetry == Permutations(Supervisors) \cup Permutations(Steps)

=============================================================================
