------------------------------ MODULE TaskLife ------------------------------
(***************************************************************************)
(* The life of a task around its execution: the initial plan (Planning),   *)
(* the delivery snapshot of what was merged, the user's decision on it and *)
(* the rework it asks for (server/internal/deliveries, PlanRework).        *)
(*                                                                         *)
(* Every server process has a delivery worker that claims notifications of *)
(* merges and rework rounds by their status and holds no lock while it     *)
(* reads the tables or asks the manager; 'stale' is a claim of five        *)
(* minutes.  Assignment, provisioning and the work itself are one step     *)
(* here (BeginWork, Merge); modules Assignments, Workspaces and StepLease  *)
(* have them in full.  An administrator may write the task's status in the *)
(* midst of it: along the state machine (UpdateStatus), or from any status *)
(* by a repair of the workspaces.  'suspended' stands for the statuses     *)
(* handoff_preparing and workspace_drifted.                                *)
(*                                                                         *)
(* The k-th merge of the task makes commit k of main and notification k.   *)
(***************************************************************************)
EXTENDS Planning, Sequences, FiniteSets

CONSTANTS Deliverers,   \* one delivery worker in every server process
          Size          \* the number of work items of each plan version

ASSUME SizeAssumption == Size \in [1 .. MaxVersion -> Nat \ {0}]

VARIABLES begun,        \* the step rows that were assigned and provisioned
          merged,       \* the step rows whose merge request is merged
          notes,        \* manager_notifications, in the order of the merges
          snapshots,    \* delivery_snapshots
          rounds,       \* rework_rounds, by the version they ask for
          issue,        \* an open blocking issue
          deliverer,    \* what each delivery worker is doing
          abandoned,    \* history: the snapshots a repair took the task away from
          replanned     \* history: how often a planned task was sent to planning by hand

history      == <<abandoned, replanned>>
workVars     == <<begun, merged, history>>
deliveryVars == <<workVars, notes, snapshots, rounds, issue, deliverer>>
vars == <<planningVars, deliveryVars>>

IdleDeliverer == [pc |-> "idle", id |-> 0, commit |-> 0, version |-> 0]

Rows(v)     == {v} \X (1 .. plan[v].copies) \X (1 .. Size[v])
Active(n)   == notes[n].status # "consumed"
ActiveNotes == {n \in DOMAIN notes : Active(n)}
Last(S)     == CHOOSE n \in S : \A m \in S : m <= n

Become(d, r) == deliverer' = [deliverer EXCEPT ![d] = r]
Goto(d, pc)  == Become(d, [deliverer[d] EXCEPT !.pc = pc])
ToRounds(d)  == Become(d, [IdleDeliverer EXCEPT !.pc = "rounds"])

------------------------------------------------------------------------------
(* Worker.Scan: first notifications, then rework rounds; here at most one  *)
(* of each in a scan, and in any order.                                    *)

\* A job waits when it is pending (a retry may be due at once) or when its
\* claim is five minutes old.
Waiting(job) == job.status = "pending" \/ job.status = "stale"

WaitingNotes  == {n \in DOMAIN notes : Waiting(notes[n])}
WaitingRounds == {v \in DOMAIN rounds : Waiting(rounds[v])}

\* Scan selects what waits and claims it with the conditions of its query.
\* A scan that finds nothing at all is left out.
ClaimNotification(d) ==
    /\ deliverer[d].pc = "idle"
    /\ \/ \E n \in WaitingNotes :
             /\ notes' = [notes EXCEPT ![n].status = "processing"]
             /\ Become(d, [IdleDeliverer EXCEPT !.pc = "read", !.id = n])
       \/ /\ WaitingNotes = {} /\ WaitingRounds # {}
          /\ Goto(d, "rounds") /\ UNCHANGED notes
    /\ UNCHANGED <<planningVars, workVars, snapshots, rounds, issue>>

(* -- Service.BuildSnapshot: statements that read, then a transaction -------- *)

SnapshotOf(n) == \E k \in DOMAIN snapshots : snapshots[k].note = n

\* An existing snapshot ends the work; otherwise main's commit is that of
\* the latest notification.
ReadNotification(d) ==
    LET n == deliverer[d].id
    IN  /\ deliverer[d].pc = "read"
        /\ IF SnapshotOf(n) \/ (notes[n].status = "consumed" /\ snapshots # <<>>)
           THEN ToRounds(d)
           ELSE Become(d, [deliverer[d] EXCEPT !.pc = "check",
                              !.commit = IF ActiveNotes = {} THEN n ELSE Last(ActiveNotes)])
        /\ UNCHANGED <<planningVars, workVars, notes, snapshots, rounds, issue>>

\* The current plan is whole and nothing blocks it.
Deliverable(v) == Rows(v) \subseteq merged /\ issue # "open"

\* The version, its steps, their merge requests, the blocking issues and the
\* evidence.
CheckReady(d) ==
    /\ deliverer[d].pc = "check"
    /\ Become(d, IF Deliverable(CurrentVersion)
                 THEN [deliverer[d] EXCEPT !.pc = "build", !.version = CurrentVersion]
                 ELSE [deliverer[d] EXCEPT !.pc = "failed"])
    /\ UNCHANGED <<planningVars, workVars, notes, snapshots, rounds, issue>>

Delivered(d, risky) ==
    /\ snapshots' = Append(snapshots, [note |-> deliverer[d].id, commit |-> deliverer[d].commit,
                                       version |-> deliverer[d].version,
                                       status |-> "awaiting_acceptance"])
    /\ notes' = [n \in DOMAIN notes |->
                    IF Active(n) THEN [notes[n] EXCEPT !.status = "consumed"]
                    ELSE notes[n]]
    /\ issue' = IF risky THEN "open" ELSE issue
    /\ task' = [task EXCEPT !.status = "awaiting_acceptance"]
    /\ ToRounds(d)

\* Mutant of BuildSnapshot: what was read before is not read again.
BuildUnchecked(d) ==
    /\ deliverer[d].pc = "build"
    /\ \E risky \in BOOLEAN : Delivered(d, risky)
    /\ UNCHANGED <<plan, planner, condition, managerUp, faults, workVars, rounds>>

\* The transaction checks everything again; the row is unique by its
\* notification.  Evidence of high risk raises an issue.
BuildSnapshot(d) ==
    LET v == deliverer[d].version
        ok == /\ task.status \in {"merged", "workspace_ready"}
              /\ CurrentVersion = v /\ Rows(v) # {} /\ Deliverable(v)
              /\ ~SnapshotOf(deliverer[d].id)
    IN  /\ deliverer[d].pc = "build"
        /\ \/ ok /\ \E risky \in BOOLEAN : Delivered(d, risky)
           \/ ~ok /\ Goto(d, "failed") /\ UNCHANGED <<task, snapshots, notes, issue>>
        /\ UNCHANGED <<plan, planner, condition, managerUp, faults, workVars, rounds>>

\* Not ready, or an error: back to pending, for a later scan.
ReturnNotification(d) ==
    LET n == deliverer[d].id
    IN  /\ deliverer[d].pc = "failed"
        /\ notes' = IF notes[n].status \in {"processing", "stale"}
                    THEN [notes EXCEPT ![n].status = "pending"] ELSE notes
        /\ ToRounds(d)
        /\ UNCHANGED <<planningVars, workVars, snapshots, rounds, issue>>

------------------------------------------------------------------------------
(* Worker.Scan: the rework rounds.  'blocked: missing_config' is treated   *)
(* exactly like 'planning' and stands under it.                            *)

\* A round whose plan was stored is only marked; any other is claimed, and so
\* is one whose plan could not be read.
ClaimRound(d) ==
    /\ deliverer[d].pc = "rounds"
    /\ \/ \E v \in WaitingRounds :
             LET stored == task.status = "planned" /\ plan[v].status = "planned"
             IN  \/ /\ stored
                    /\ rounds' = [rounds EXCEPT ![v].status = "planned"]
                    /\ Become(d, IdleDeliverer) /\ UNCHANGED faults
                 \/ /\ IF stored THEN Fault ELSE UNCHANGED faults
                    /\ rounds' = [rounds EXCEPT ![v].status = "processing"]
                    /\ Become(d, [IdleDeliverer EXCEPT !.pc = "rework", !.id = v])
       \/ WaitingRounds = {} /\ Become(d, IdleDeliverer) /\ UNCHANGED <<faults, rounds>>
    /\ UNCHANGED <<task, plan, planner, condition, managerUp, workVars, notes, snapshots, issue>>

\* Service.PlanRework up to the manager's answer.
PlanRework(d) ==
    /\ deliverer[d].pc = "rework"
    /\ \/ Goto(d, IF task.status = "rework_planning" THEN "persist" ELSE "returned")
          /\ UNCHANGED faults
       \/ Goto(d, "returned") /\ Fault
    /\ UNCHANGED <<task, plan, planner, condition, managerUp, workVars, notes, snapshots, rounds, issue>>

\* ... and persist, for the version of the round.
PersistRework(d) ==
    /\ deliverer[d].pc = "persist"
    /\ IF task.status = "rework_planning"
       THEN /\ StorePlan(deliverer[d].id)
            /\ task' = [task EXCEPT !.status = "planned"]
            /\ Goto(d, "mark")
       ELSE Goto(d, "returned") /\ UNCHANGED <<task, plan>>
    /\ UNCHANGED <<planner, condition, managerUp, faults, workVars, notes, snapshots, rounds, issue>>

\* The round's outcome, by its id alone.
MarkRound(d) ==
    LET v == deliverer[d].id
    IN  /\ deliverer[d].pc \in {"mark", "returned"}
        /\ rounds' = [rounds EXCEPT ![v].status =
                         IF deliverer[d].pc = "mark" THEN "planned" ELSE "pending"]
        /\ Become(d, IdleDeliverer)
        /\ UNCHANGED <<planningVars, workVars, notes, snapshots, issue>>

------------------------------------------------------------------------------
(* What the delivery workers do not do themselves.                         *)

\* AssignTask and ProvisionTask: only a plan with steps; a task that an
\* administrator made 'assigned' is provisioned if its items have their agents.
BeginWork ==
    LET rows == Rows(CurrentVersion)
    IN  /\ rows # {}
        /\ task.status = "planned" \/ (task.status = "assigned" /\ rows \subseteq begun)
        /\ task' = [task EXCEPT !.status = "workspace_ready"]
        /\ begun' = begun \cup rows
        /\ UNCHANGED <<plan, planner, condition, managerUp, faults, history, merged, notes, snapshots,
                       rounds, issue, deliverer>>

\* A drift or a handoff holds the task's work up; the handoff lets it go on.
Suspend ==
    /\ task.status = "workspace_ready" /\ Fault
    /\ task' = [task EXCEPT !.status = "suspended"]
    /\ UNCHANGED <<plan, planner, condition, managerUp, deliveryVars>>

Resume ==
    /\ task.status = "suspended"
    /\ task' = [task EXCEPT !.status = "workspace_ready"]
    /\ UNCHANGED <<plan, planner, condition, managerUp, faults, deliveryVars>>

Open == {k \in DOMAIN snapshots : snapshots[k].status = "awaiting_acceptance"}

\* RepairTask, by an administrator: whatever the status is.
Repair ==
    /\ Fault
    /\ task' = [task EXCEPT !.status = "workspace_ready"]
    /\ abandoned' = abandoned \cup Open
    /\ UNCHANGED <<plan, planner, condition, managerUp, begun, merged, notes, snapshots, rounds, issue,
                   deliverer, replanned>>

\* UpdateStatus, by an administrator.
MoveByHand ==
    \E move \in Moves :
       /\ UpdateStatus(move)
       /\ replanned' = IF move[2] = "planning" /\ plan[1].status = "planned"
                       THEN replanned + 1 ELSE replanned
       /\ UNCHANGED <<begun, merged, notes, snapshots, rounds, issue, deliverer, abandoned>>

\* mr.Service.persistMerged: the step, the merge request, the notification;
\* the task's status is not looked at.
Merge(r) ==
    /\ r \in begun \ merged
    /\ merged' = merged \cup {r}
    /\ notes' = Append(notes, [row |-> r, status |-> "pending"])
    /\ UNCHANGED <<planningVars, begun, history, snapshots, rounds, issue, deliverer>>

RaiseIssue ==
    /\ task.status = "workspace_ready" /\ issue # "open" /\ Fault
    /\ issue' = "open"
    /\ UNCHANGED <<task, plan, planner, condition, managerUp, workVars, notes, snapshots, rounds, deliverer>>

ResolveIssue ==
    /\ issue = "open" /\ issue' = "resolved"
    /\ UNCHANGED <<planningVars, workVars, notes, snapshots, rounds, deliverer>>

\* Mutant of Decidable: the delivery may have been decided before.
DecidableAgain(k) == task.status = "awaiting_acceptance"

\* A decision is taken once, while the task awaits it.
Decidable(k) ==
    snapshots[k].status = "awaiting_acceptance" /\ task.status = "awaiting_acceptance"

\* Service.Decide, one transaction; its key finds a decision that is stored.
\* Bound: a version beyond MaxVersion is not asked for.
Decide ==
    \E k \in DOMAIN snapshots :
       LET next == CurrentVersion + 1
       IN  /\ Decidable(k)
           /\ \/ /\ snapshots' = [snapshots EXCEPT ![k].status = "accepted"]
                 /\ task' = [task EXCEPT !.status = "completed"]
                 /\ UNCHANGED <<plan, rounds>>
              \/ /\ next <= MaxVersion
                 /\ snapshots' = [snapshots EXCEPT ![k].status = "rejected"]
                 /\ task' = [task EXCEPT !.status = "rework_planning"]
                 /\ plan' = [plan EXCEPT ![next] = [status |-> "planning", copies |-> 0]]
                 /\ rounds' = [rounds EXCEPT ![next] = [status |-> "pending"]]
           /\ abandoned' = abandoned \cup (Open \ {k})
           /\ UNCHANGED <<planner, condition, managerUp, faults, begun, merged, replanned, notes, issue,
                          deliverer>>

Busy(pcs, id) == \E d \in Deliverers : deliverer[d].pc \in pcs /\ deliverer[d].id = id

\* The five minutes of a claim, most often because its worker is gone.
StaleNotification(n) ==
    /\ notes[n].status = "processing"
    /\ notes' = [notes EXCEPT ![n].status = "stale"]
    /\ IF Busy({"read", "check", "build", "failed"}, n) THEN Fault ELSE UNCHANGED faults
    /\ UNCHANGED <<task, plan, planner, condition, managerUp, workVars, snapshots, rounds, issue, deliverer>>

StaleRound(v) ==
    /\ rounds[v].status = "processing"
    /\ rounds' = [rounds EXCEPT ![v].status = "stale"]
    /\ IF Busy({"rework", "persist", "mark", "returned"}, v) THEN Fault ELSE UNCHANGED faults
    /\ UNCHANGED <<task, plan, planner, condition, managerUp, workVars, notes, snapshots, issue, deliverer>>

DelivererCrash(d) ==
    /\ deliverer[d] # IdleDeliverer /\ Fault
    /\ Become(d, IdleDeliverer)
    /\ UNCHANGED <<task, plan, planner, condition, managerUp, workVars, notes, snapshots, rounds, issue>>

------------------------------------------------------------------------------
Init ==
    /\ PlanningInit
    /\ begun = {} /\ merged = {} /\ abandoned = {} /\ replanned = 0
    /\ notes = <<>> /\ snapshots = <<>> /\ issue = "none"
    /\ rounds = [v \in 1 .. MaxVersion |-> [status |-> "none"]]
    /\ deliverer = [d \in Deliverers |-> IdleDeliverer]

DelivererStep(d) ==
    \/ ClaimNotification(d) \/ ReadNotification(d) \/ CheckReady(d)
    \/ BuildSnapshot(d) \/ ReturnNotification(d)
    \/ ClaimRound(d) \/ PlanRework(d) \/ PersistRework(d) \/ MarkRound(d)

PlanningNext ==
    /\ \/ \E p \in Planners : PlannerStep(p) \/ PlannerCrash(p)
       \/ ChangeCondition \/ ManagerStops \/ ManagerStarts \/ ElapsePlanning
    /\ UNCHANGED deliveryVars

Next ==
    \/ PlanningNext
    \/ \E d \in Deliverers : DelivererStep(d) \/ DelivererCrash(d)
    \/ BeginWork \/ Suspend \/ Resume \/ Repair \/ MoveByHand
    \/ RaiseIssue \/ ResolveIssue \/ Decide
    \/ \E r \in begun : Merge(r)
    \/ \E n \in DOMAIN notes : StaleNotification(n)
    \/ \E v \in 1 .. MaxVersion : StaleRound(v)

Spec == Init /\ [][Next]_vars

\* Every worker runs on a ticker and each of its calls ends; time passes.
\* Users, administrators and the manager owe nothing.
Fairness ==
    /\ \A p \in Planners : WF_vars(PlannerStep(p) /\ UNCHANGED deliveryVars)
    /\ \A d \in Deliverers : WF_vars(DelivererStep(d))
    /\ WF_vars(ElapsePlanning /\ UNCHANGED deliveryVars)
    /\ WF_vars(\E n \in DOMAIN notes : StaleNotification(n))
    /\ \A v \in 1 .. MaxVersion : WF_vars(StaleRound(v))

FairSpec == Spec /\ Fairness

------------------------------------------------------------------------------
(* Properties.                                                             *)

\* Every row and every worker stays in its domain; a task is never planned
\* more than MaxAttempts times without a reset.
TypeOK ==
    LET rows == UNION {Rows(v) : v \in 1 .. MaxVersion}
    IN  /\ PlanningTypeOK
        /\ begun \subseteq rows /\ merged \subseteq begun
        /\ abandoned \subseteq DOMAIN snapshots /\ replanned \in Nat
        /\ \A n \in DOMAIN notes :
              notes[n] \in [row : rows, status : {"pending", "processing", "stale", "consumed"}]
        /\ \A k \in DOMAIN snapshots :
              snapshots[k] \in [note : DOMAIN notes, commit : DOMAIN notes, version : 1 .. MaxVersion,
                                status : {"awaiting_acceptance", "accepted", "rejected"}]
        /\ rounds \in [1 .. MaxVersion -> [status : {"none", "pending", "processing", "stale",
                                                     "planned"}]]
        /\ issue \in {"none", "open", "resolved"}
        /\ \A d \in Deliverers :
              /\ deliverer[d].pc \in {"idle", "read", "check", "build", "failed", "rounds", "rework",
                                      "persist", "mark", "returned"}
              /\ deliverer[d].id \in 0 .. Len(notes) + MaxVersion

\* The work items of the first plan are inserted once, and once more at most
\* for every time an administrator sends the planned task back to planning,
\* although a stale attempt writes its plan as readily as the current one.
InitialPlanOnce == plan[1].copies <= 1 + replanned

\* While a task awaits acceptance its last snapshot is open, that snapshot is
\* of the current plan, every step of it is merged, and no notification is
\* left: neither the user nor a worker sees half of it.  And an open snapshot
\* is the one the task awaits, except where a repair took the task away.
AwaitingIsWhole ==
    LET last == Len(snapshots)
    IN  /\ task.status = "awaiting_acceptance" =>
              /\ last \in Open /\ snapshots[last].version = CurrentVersion
              /\ Rows(CurrentVersion) \subseteq merged /\ ActiveNotes = {}
        /\ Open \ abandoned # {} =>
              task.status = "awaiting_acceptance" /\ Open \ abandoned = {last}

\* What the tables show of the cycle of deliveries.
Stage == CASE task.status = "awaiting_acceptance" -> "offered"
           [] task.status = "completed"           -> "closed"
           [] OTHER                               -> "underway"

PlannedRounds == {v \in 1 .. MaxVersion : plan[v].status = "planned"}
Deliveries    == [k \in DOMAIN snapshots |->
                    [round |-> snapshots[k].version, verdict |-> snapshots[k].status]]

Cycle == INSTANCE DeliveryCycle WITH
            stage <- Stage, round <- CurrentVersion, planned <- PlannedRounds, deliveries <- Deliveries

\* Whatever workers and users do: only a round that was planned is delivered,
\* nothing is planned or delivered while a delivery is offered or the task is
\* closed, a verdict stands, and a round ends with a rejection only.  An
\* administrator may close a task by hand, and a repair may reopen one that is
\* offered or closed; no verdict is changed by it (deliveries/acceptance.go,
\* Decide; service.go, BuildSnapshot; workspaces/reconcile.go, RepairTask).
ImplementsCycle == Cycle!Spec

\* What the delivery workers owe: a finished plan that was not delivered yet
\* is, unless a blocking issue is open, and a rework that was asked for is
\* planned.
DeliveryOwed ==
    \/ /\ task.status \in {"workspace_ready", "merged"}
       /\ Rows(CurrentVersion) # {} /\ Deliverable(CurrentVersion)
       /\ ~\E k \in DOMAIN snapshots : snapshots[k].version = CurrentVersion
    \/ task.status = "rework_planning"

\* A task does not stay where its planners or its delivery workers owe it
\* something: whatever attempts crash, become stale or are overtaken, although
\* notifications and rounds are claimed by one worker at a time and a worker
\* may die with them.
TaskSettles == []<>~PlanningOwed /\ []<>~DeliveryOwed

\* The steps of a stored plan are history: a rework adds a version and
\* changes none.
ReworkKeepsHistory ==
    [][\A v \in 1 .. MaxVersion : plan[v].status = "planned" => plan'[v].copies = plan[v].copies]_plan

=============================================================================
