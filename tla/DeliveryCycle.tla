---------------------------- MODULE DeliveryCycle ----------------------------
(***************************************************************************)
(* What the user of a task is promised.  Work goes in rounds.  Only what   *)
(* was planned is delivered, and while a delivery is offered nothing is    *)
(* planned or delivered.  A verdict is given while the task is offered and *)
(* stands.  A rejection ends the round and asks for the next one; an       *)
(* acceptance closes the task.  An administrator may close a task without  *)
(* one, and may reopen a task that is offered or closed: what was offered  *)
(* before can then still be decided the next time.  TaskLife implements    *)
(* this module.                                                            *)
(***************************************************************************)
EXTENDS Naturals, Sequences

VARIABLES
  stage,      \* of the task: "underway", "offered", "closed"
  round,      \* the round it is in
  planned,    \* the rounds that have a plan
  deliveries  \* every delivery that was ever offered, and what became of it

vars == <<stage, round, planned, deliveries>>

Init == stage = "underway" /\ round = 1 /\ planned = {} /\ deliveries = <<>>

Plan ==
  /\ stage = "underway"
  /\ \E r \in 1 .. round : planned' = planned \cup {r}
  /\ UNCHANGED <<stage, round, deliveries>>

Offer ==
  /\ stage = "underway" /\ stage' = "offered"
  /\ round \in planned
  /\ deliveries' = Append(deliveries, [round |-> round, verdict |-> "awaiting_acceptance"])
  /\ UNCHANGED <<round, planned>>

Decide(verdict) ==
  /\ stage = "offered"
  /\ \E k \in DOMAIN deliveries :
        /\ deliveries[k].verdict = "awaiting_acceptance"
        /\ deliveries' = [deliveries EXCEPT ![k].verdict = verdict]
  /\ UNCHANGED planned

Accept == Decide("accepted") /\ stage' = "closed" /\ UNCHANGED round
Reject == Decide("rejected") /\ stage' = "underway" /\ round' = round + 1

Close  == stage = "underway" /\ stage' = "closed" /\ UNCHANGED <<round, planned, deliveries>>
Reopen == stage # "underway" /\ stage' = "underway" /\ UNCHANGED <<round, planned, deliveries>>

Next == Plan \/ Offer \/ Accept \/ Reject \/ Close \/ Reopen

Spec == Init /\ [][Next]_vars

=============================================================================
