---------------------------- MODULE StepOwnership ----------------------------
(***************************************************************************)
(* What the lease tables promise about one task step: ownership is granted *)
(* in numbered epochs, one writer to an epoch.  An epoch may pause and go  *)
(* on, but once it was frozen, returned by the reviewer or taken over, the *)
(* work continues only in the next epoch; accepted work is final.  The     *)
(* owner changes only when a paused epoch is taken over.  StepLease        *)
(* implements this module.                                                 *)
(***************************************************************************)
EXTENDS Naturals

CONSTANT Owners

VARIABLES
  epoch,   \* number of the last grant
  phase,   \* what the last grant came to
  owner    \* the agent the step is registered for

vars == <<epoch, phase, owner>>

Phases == {"idle", "writing", "paused", "frozen", "reviewing", "done"}

Init == epoch = 0 /\ phase = "idle" /\ owner \in Owners

Move(from, to) == phase \in from /\ phase' = to /\ UNCHANGED <<epoch, owner>>

Grant ==
  /\ phase \in {"idle", "frozen"}
  /\ phase' = "writing" /\ epoch' = epoch + 1 /\ UNCHANGED owner

TakeOver ==
  /\ phase = "paused"
  /\ phase' = "writing" /\ epoch' = epoch + 1 /\ owner' \in Owners

Pause  == Move({"writing"}, "paused")
Resume == Move({"paused"}, "writing")
Freeze == Move({"writing", "paused"}, "frozen")
Submit == Move({"writing"}, "reviewing")
Return == Move({"reviewing"}, "idle")
Accept == Move({"reviewing"}, "done")

Next == Grant \/ TakeOver \/ Pause \/ Resume \/ Freeze \/ Submit \/ Return \/ Accept

Spec == Init /\ [][Next]_vars

=============================================================================
