---------------------------- MODULE StepLeaseLive ----------------------------
(***************************************************************************)
(* What the server's own scheduling brings about: interrupted work is      *)
(* noticed and the project lock comes back.                                *)
(*                                                                         *)
(* Fairness: leases.Worker scans on a ticker for as long as the server     *)
(* runs, the clock goes on, and a handler that holds the project lock      *)
(* either reaches its next step or dies, which releases the lock as well.  *)
(* Nothing is assumed of agents, administrators and reviewers.             *)
(***************************************************************************)
EXTENDS StepLease

FairSpec ==
  /\ Spec
  /\ WF_vars(Tick) /\ WF_vars(LockStep)
  /\ \A v \in Versions : WF_vars(InterruptExpired(v))

Expired(v) == leases[v].status = "active" /\ leases[v].ttl = 0

\* The scan ends the lease of an agent that fell silent while the step was in
\* progress: the lease does not stay active and expired beside that step,
\* unless a refused handoff blocks the step meanwhile (markRecoveryBlocked), whose
\* lease the scan no longer looks at.
SilentWorkIsInterrupted ==
  \A v \in Versions :
    (Expired(v) /\ step.status \in {"in_progress", "checkpointed"})
      ~> (~Expired(v) \/ step.status = "blocked")

\* Every handler gives the project lock back: whatever was revoked, rewritten
\* or rejected under it, some exit stays open.
ProjectLockIsReleased == lock.op # "free" ~> lock.op = "free"

=============================================================================
