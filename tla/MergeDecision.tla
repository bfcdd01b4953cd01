---------------------------- MODULE MergeDecision ----------------------------
(***************************************************************************)
(* What the author of one merge request is promised.  It is decided once,  *)
(* and a decision is final: it is merged, or its changes are requested.    *)
(* It is merged only after somebody approved it and its work is on main.   *)
(* An approval may still be withdrawn, even after git merge, which is why  *)
(* work may land that is returned: nobody promises more.  ReviewJobs       *)
(* implements this module for every merge request, and StepLease for the   *)
(* newest request of its step.                                             *)
(***************************************************************************)
VARIABLES
  status,  \* "none", "pending_review", "approved", "merged", "changes_requested"
  landed   \* its work is on main

vars == <<status, landed>>

Init == status = "none" /\ landed = FALSE

Become(s) == status' = s /\ UNCHANGED landed

Submit  == status = "none" /\ Become("pending_review")
Approve == status = "pending_review" /\ Become("approved")
Return  == status \in {"pending_review", "approved"} /\ Become("changes_requested")
Record  == status = "approved" /\ landed /\ Become("merged")

\* git merge, of what has been approved.
Land ==
  /\ status \in {"approved", "changes_requested"}
  /\ landed' = TRUE
  /\ UNCHANGED status

Next == Submit \/ Approve \/ Return \/ Land \/ Record

Spec == Init /\ [][Next]_vars

=============================================================================
