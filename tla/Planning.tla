------------------------------ MODULE Planning ------------------------------
(***************************************************************************)
(* The initial plan of a task (server/internal/planning): its row, its     *)
(* plan versions, and the planning workers of the server processes.        *)
(*                                                                         *)
(* A planner claims the task, asks the manager for a plan and stores it in *)
(* one transaction.  An attempt is claimed by the task's status; nothing   *)
(* names the attempt when its result is written.  A plan is reduced to its *)
(* version and the number of times its work items were inserted.           *)
(*                                                                         *)
(* Time is a choice: a retry may be due as soon as it is set, and a claim  *)
(* becomes stale when ElapsePlanning says so.  Module TaskLife adds what   *)
(* happens to a plan afterwards.                                           *)
(***************************************************************************)
EXTENDS Naturals

CONSTANTS Planners,     \* one planning worker in every server process
          MaxAttempts,  \* maxPlanningAttempts
          MaxVersion,   \* bound: the plan versions of the task
          Moves,        \* what UpdateStatus is asked for: pairs of statuses
          MaxFaults     \* bound: crashes, overtaken claims, outages, moves by hand

\* validTransition.
ValidTransition ==
    {<<"created", "planning">>, <<"created", "blocked">>,
     <<"planning", "assigned">>, <<"planning", "blocked">>,
     <<"assigned", "workspace_ready">>, <<"assigned", "in_progress">>, <<"assigned", "blocked">>,
     <<"workspace_ready", "in_progress">>, <<"workspace_ready", "blocked">>,
     <<"in_progress", "review">>, <<"in_progress", "blocked">>, <<"in_progress", "interrupted">>,
     <<"interrupted", "in_progress">>, <<"interrupted", "blocked">>,
     <<"review", "merged">>, <<"review", "changes_requested">>, <<"review", "blocked">>,
     <<"changes_requested", "in_progress">>, <<"changes_requested", "blocked">>,
     <<"merged", "completed">>,
     <<"blocked", "planning">>, <<"blocked", "assigned">>, <<"blocked", "in_progress">>,
     <<"planning_error", "created">>}

ASSUME PlanningBounds ==
    /\ MaxAttempts \in Nat \ {0} /\ MaxVersion \in Nat \ {0} /\ MaxFaults \in Nat
    /\ Moves \subseteq ValidTransition

VARIABLES task,       \* the row of tasks
          plan,       \* task_plan_versions and how often its steps were inserted
          planner,    \* what each planning worker is doing
          condition,  \* the fingerprint of the manager's prompt and configuration
          managerUp,  \* the manager is ready
          faults

planningVars == <<task, plan, planner, condition, managerUp, faults>>

NoPlan      == [status |-> "none", copies |-> 0]
IdlePlanner == [pc |-> "idle", attempt |-> 0, class |-> "none", sawDown |-> FALSE]

\* coalesce(max(version),1)
CurrentVersion ==
    LET rows == {v \in 1 .. MaxVersion : plan[v].status # "none"}
    IN  IF rows = {} THEN 1 ELSE CHOOSE v \in rows : \A u \in rows : u <= v

\* planningRetryTime
RetryAfter(attempt) == IF attempt >= MaxAttempts THEN "never" ELSE "set"

Calm == faults < MaxFaults
Fault == Calm /\ faults' = faults + 1
PlannerAt(p, pc) == planner' = [planner EXCEPT ![p].pc = pc]
Unplannable(status, class, retry) ==
    task' = [task EXCEPT !.status = status, !.class = class, !.retry = retry, !.started = "none"]

------------------------------------------------------------------------------
(* Worker.runOnce.  A scan that finds nothing to do is left out.           *)

\* recoverStalePlanning reads which attempt has been planning too long.
RunOnce(p) ==
    LET stale == task.status = "planning" /\ task.started # "fresh"
    IN  /\ planner[p].pc = "idle"
        /\ task.status \in {"created", "planning_error"} \/ stale \/ (~managerUp /\ ~planner[p].sawDown)
        /\ planner' = [planner EXCEPT ![p].pc = IF stale THEN "recover" ELSE "ready",
                                      ![p].attempt = IF stale THEN task.attempts ELSE 0]
        /\ UNCHANGED <<task, plan, condition, managerUp, faults>>

\* recoverStaleTask: only that attempt is given up.
RecoverStaleTask(p) ==
    LET stored == planner[p].attempt
        attempt == IF stored < 1 THEN 1 ELSE IF stored > MaxAttempts THEN MaxAttempts ELSE stored
    IN  /\ planner[p].pc = "recover"
        /\ task' = IF /\ task.status = "planning" /\ task.attempts = stored
                      /\ task.started # "fresh"
                   THEN [task EXCEPT !.status = "planning_error", !.attempts = attempt,
                                     !.class = "transient", !.retry = RetryAfter(attempt),
                                     !.started = "none"]
                   ELSE task
        /\ planner' = [planner EXCEPT ![p].pc = "ready", ![p].attempt = 0]
        /\ UNCHANGED <<plan, condition, managerUp, faults>>

GivenUp == /\ task.status = "planning_error"
           /\ \/ task.class = "configuration"
              \/ task.class = "transient" /\ task.attempts >= MaxAttempts /\ task.retry = "never"

Reset == task' = [task EXCEPT !.status = "created", !.attempts = 0, !.class = "none",
                              !.retry = "never", !.started = "none", !.condition = condition]

\* Mutant of ResetBlocked: only a manager that was away is a new condition.
ResetAfterOutage(p) ==
    /\ planner[p].pc = "ready"
    /\ IF managerUp /\ GivenUp /\ planner[p].sawDown THEN Reset ELSE task' = task
    /\ planner' = [planner EXCEPT ![p].pc = IF managerUp THEN "claim" ELSE "idle",
                                  ![p].sawDown = ~managerUp]
    /\ UNCHANGED <<plan, condition, managerUp, faults>>

\* A task that was given up starts anew once the manager, seen away by this
\* process, is ready again, or when its configuration has changed.
ResetBlocked(p) ==
    /\ planner[p].pc = "ready"
    /\ IF managerUp /\ GivenUp /\ (planner[p].sawDown \/ task.condition # condition)
       THEN Reset ELSE task' = task
    /\ planner' = [planner EXCEPT ![p].pc = IF managerUp THEN "claim" ELSE "idle",
                                  ![p].sawDown = ~managerUp]
    /\ UNCHANGED <<plan, condition, managerUp, faults>>

------------------------------------------------------------------------------
(* Service.PlanTask.                                                       *)

\* Mutant of Claimable: the attempts are not counted.
ClaimableAgain ==
    \/ task.status = "created"
    \/ task.status = "planning_error" /\ task.class = "transient"

Claimable ==
    \/ task.status = "created"
    \/ /\ task.status = "planning_error" /\ task.class = "transient"
       /\ task.attempts < MaxAttempts /\ task.retry = "set"

\* claimInitialPlan, after the worker has selected the task and PlanTask has
\* read it: the update repeats their conditions.
ClaimInitialPlan(p) ==
    /\ planner[p].pc = "claim"
    /\ IF Claimable
       THEN /\ task' = [task EXCEPT !.status = "planning", !.attempts = @ + 1, !.class = "none",
                                    !.retry = "never", !.started = "fresh", !.condition = condition]
            /\ planner' = [planner EXCEPT ![p].pc = "chat", ![p].attempt = task.attempts + 1]
       ELSE task' = task /\ planner' = [planner EXCEPT ![p].pc = "idle", ![p].attempt = 0]
    /\ UNCHANGED <<plan, condition, managerUp, faults>>

\* BuildMessages, ChatAgent and ParsePlan: a plan, or an error by its class.
Chat(p) ==
    /\ planner[p].pc = "chat"
    /\ \/ PlannerAt(p, "persist")
       \/ \E class \in {"transient", "configuration"} :
             planner' = [planner EXCEPT ![p].pc = "block", ![p].class = class]
    /\ UNCHANGED <<task, plan, condition, managerUp, faults>>

\* persist: the version, its steps and the task's status in one transaction.
StorePlan(v) ==
    plan' = [plan EXCEPT ![v] = [status |-> "planned", copies |-> @.copies + 1]]

\* Mutant of PersistInitialPlan: the task's status is not read again.
PersistAnyway(p) ==
    /\ planner[p].pc = "persist"
    /\ StorePlan(1) /\ Unplannable("planned", "none", "never")
    /\ PlannerAt(p, "idle")
    /\ UNCHANGED <<condition, managerUp, faults>>

\* The first version, if the task is still in planning; an error is blocked
\* like one of the provider.
PersistInitialPlan(p) ==
    /\ planner[p].pc = "persist"
    /\ IF task.status = "planning"
       THEN /\ StorePlan(1)
            /\ task' = [task EXCEPT !.status = "planned", !.class = "none", !.retry = "never",
                                    !.started = "none", !.condition = 0]
            /\ planner' = [planner EXCEPT ![p].pc = "idle", ![p].attempt = 0]
       ELSE /\ planner' = [planner EXCEPT ![p].pc = "block", ![p].class = "transient"]
            /\ UNCHANGED <<task, plan>>
    /\ UNCHANGED <<condition, managerUp, faults>>

\* block: whichever attempt the task is in by now.
Block(p) ==
    LET class == planner[p].class
    IN  /\ planner[p].pc = "block"
        /\ IF task.status = "planning"
           THEN Unplannable("planning_error", class,
                            IF class = "transient" THEN RetryAfter(planner[p].attempt) ELSE "never")
           ELSE task' = task
        /\ planner' = [planner EXCEPT ![p].pc = "idle", ![p].class = "none",
                                      ![p].attempt = 0]
        /\ UNCHANGED <<plan, condition, managerUp, faults>>

------------------------------------------------------------------------------
(* What the planners do not do themselves.                                 *)

\* tasks.Service.UpdateStatus, by an administrator.
UpdateStatus(move) ==
    /\ Fault
    /\ task.status = move[1]
    /\ task' = IF move = <<"planning_error", "created">>
               THEN [task EXCEPT !.status = "created", !.attempts = 0, !.class = "none",
                                 !.retry = "never", !.started = "none", !.condition = 0]
               ELSE [task EXCEPT !.status = move[2]]
    /\ UNCHANGED <<plan, planner, condition, managerUp>>

ChangeCondition ==
    /\ Fault
    /\ condition' = condition + 1
    /\ UNCHANGED <<task, plan, planner, managerUp>>

ManagerStops  == managerUp /\ managerUp' = FALSE /\ Fault /\ UNCHANGED <<task, plan, planner, condition>>
ManagerStarts == ~managerUp /\ managerUp' = TRUE /\ UNCHANGED <<task, plan, planner, condition, faults>>

\* Five minutes of planning pass, most often because the planner is gone.
ElapsePlanning ==
    /\ task.status = "planning" /\ task.started = "fresh"
    /\ task' = [task EXCEPT !.started = "stale"]
    /\ IF \E p \in Planners : planner[p].pc \in {"chat", "persist", "block"}
       THEN Fault ELSE UNCHANGED faults
    /\ UNCHANGED <<plan, planner, condition, managerUp>>

PlannerCrash(p) ==
    /\ planner[p] # IdlePlanner /\ Fault
    /\ planner' = [planner EXCEPT ![p] = IdlePlanner]
    /\ UNCHANGED <<task, plan, condition, managerUp>>

PlanningInit ==
    /\ task = [status |-> "created", attempts |-> 0, class |-> "none", retry |-> "never",
               started |-> "none", condition |-> 0]
    /\ plan = [v \in 1 .. MaxVersion |-> NoPlan]
    /\ planner = [p \in Planners |-> IdlePlanner]
    /\ condition = 1 /\ managerUp = TRUE /\ faults = 0

PlannerStep(p) ==
    \/ RunOnce(p) \/ RecoverStaleTask(p) \/ ResetBlocked(p)
    \/ ClaimInitialPlan(p) \/ Chat(p) \/ PersistInitialPlan(p) \/ Block(p)

\* What the planners owe: an attempt under way is ended by its planner or by
\* the recovery, a retry that is allowed is made, and a task given up is
\* tried again when the manager's configuration has changed since its claim.
\* (A late attempt that blocks a later one may leave a retry time and a count
\* that fit neither: such a task waits for an administrator.)
PlanningOwed ==
    /\ managerUp
    /\ \/ task.status = "planning" \/ Claimable
       \/ GivenUp /\ task.condition # condition

PlanningTypeOK ==
    /\ task \in [status : {"created", "planning", "planning_error", "blocked", "planned", "assigned",
                           "workspace_ready", "suspended", "in_progress", "interrupted", "review",
                           "changes_requested", "merged", "awaiting_acceptance", "rework_planning",
                           "completed"},
                 attempts : 0 .. MaxAttempts, class : {"none", "transient", "configuration"},
                 retry : {"never", "set"}, started : {"none", "fresh", "stale"},
                 condition : 0 .. MaxFaults + 1]
    /\ plan \in [1 .. MaxVersion -> [status : {"none", "planning", "planned"}, copies : Nat]]
    /\ planner \in [Planners -> [pc : {"idle", "recover", "ready", "claim", "chat",
                                       "persist", "block"},
                                 attempt : 0 .. MaxAttempts, sawDown : BOOLEAN,
                                 class : {"none", "transient", "configuration"}]]
    /\ condition \in 1 .. MaxFaults + 1 /\ managerUp \in BOOLEAN /\ faults \in 0 .. MaxFaults

=============================================================================
