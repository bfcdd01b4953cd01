---------------------------- MODULE MCStepLease ----------------------------
(***************************************************************************)
(* StepLease for TLC: two agents that are interchangeable, and enough      *)
(* leases, checkpoints and commits for a handoff or an unfreeze to be      *)
(* followed by a second one.                                               *)
(***************************************************************************)
EXTENDS StepLease, TLC

AgentSymmetry == Permutations(Agents)

=============================================================================
