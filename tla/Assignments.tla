---------------------------- MODULE Assignments ----------------------------
(***************************************************************************)
(* The assignment of agents to the steps of one task (server/internal/     *)
(* assignments, matching).                                                 *)
(*                                                                         *)
(* Every server process has a worker that selects the task and runs        *)
(* AssignTask on it; an administrator overrides single steps meanwhile.    *)
(* An assignment lives in two places that no transaction joins: the tables *)
(* and the agents' definition files, whose project_access AssignTask may   *)
(* extend before it commits.  A step no agent fits gets an agent generated *)
(* for it, which waits to be configured.                                   *)
(*                                                                         *)
(* Scores are not modelled: any agent that matches may win.  The plan      *)
(* version does not change in the statuses of this module (Planning).      *)
(***************************************************************************)
EXTENDS Integers, FiniteSets

CONSTANTS Servers,
          Agents,
          N,            \* the steps of the plan, 1 to N, in the order of their ids
          Generated,    \* the agent prepareMappedAgent makes for a step
          Fits,         \* the agents with the capabilities a step requires
          Capacity,     \* max_concurrency of every agent
          NoAgent,
          MaxFaults,    \* bound on failing commits and on crashes
          MaxOverrides, \* bound on the administrator's overrides
          MaxMoves      \* bound on the times an agent becomes unusable

Steps == 1 .. N

ASSUME NAssumption == N \in Nat \ {0}
ASSUME GeneratedAssumption ==
    /\ Generated \in [Steps -> Agents]
    /\ \A s, r \in Steps : Generated[s] = Generated[r] => s = r
ASSUME FitsAssumption ==
    /\ Fits \in [Steps -> SUBSET Agents]
    /\ \A s \in Steps : Generated[s] \in Fits[s]
ASSUME CapacityAssumption ==
    /\ Capacity \in [Agents -> Nat \ {0}]
    /\ \A s \in Steps : Capacity[Generated[s]] = 1
ASSUME NoAgentAssumption == NoAgent \notin Agents
ASSUME ServersAssumption == {"admin", "nobody"} \cap Servers = {}
ASSUME AssignmentBounds == {MaxFaults, MaxOverrides, MaxMoves} \subseteq Nat

VARIABLES task,       \* tasks.status
          assigned,   \* task_assignments and task_steps: the agent, and who chose it
          decision,   \* agent_match_decisions: the latest of 'system', by step
          status,     \* agent_registry.status
          busy,       \* the agents whose concurrency other tasks use up
          access,     \* the agents whose agent.yaml names the project
          assigner,   \* what the worker of each server is doing
          faults, overrides, moves

envVars == <<status, busy, moves>>
vars == <<task, assigned, decision, envVars, access, assigner, faults, overrides>>

Unassigned == [agent |-> NoAgent, by |-> "nobody"]
Idle == [pc |-> "idle", expected |-> "planned", step |-> 1, usable |-> {},
         open |-> {}, choice |-> [s \in Steps |-> [agent |-> NoAgent, as |-> "open"]],
         changes |-> {}]

Waiting          == {"planned", "missing_config", "missing_resources"}
BlockedDecisions == {"missing_config", "probe", "missing_resources"}

Become(w, r) == assigner' = [assigner EXCEPT ![w] = r]
Goto(w, pc)  == Become(w, [assigner[w] EXCEPT !.pc = pc])
Stop(w)      == Become(w, Idle)

------------------------------------------------------------------------------
(* Worker.runOnce and the start of AssignTask.                             *)

\* Mutant of Selected: an agent that was configured already is not waited for.
SelectedOnProbe ==
    \/ task = "planned"
    \/ /\ task = "missing_config"
       /\ \/ \A s \in Steps : decision[s] \notin BlockedDecisions
          \/ \E s \in Steps : decision[s] = "probe" /\ status[Generated[s]] = "online"
    \/ /\ task = "missing_resources"
       /\ \E s \in Steps : decision[s] = "missing_resources" /\ status[Generated[s]] = "online"

\* The worker's query: a new task, or a blocked one whose generated agent has
\* moved on.  The thirty seconds between two tries are left to the scheduler.
Selected ==
    \/ task = "planned"
    \/ /\ task = "missing_config"
       /\ \/ \A s \in Steps : decision[s] \notin BlockedDecisions
          \/ \E s \in Steps :
                \/ /\ decision[s] = "missing_config"
                   /\ status[Generated[s]] \in {"configured", "online"}
                \/ decision[s] = "probe" /\ status[Generated[s]] = "online"
    \/ /\ task = "missing_resources"
       /\ \E s \in Steps : decision[s] = "missing_resources" /\ status[Generated[s]] = "online"

RunOnce(w) ==
    /\ assigner[w].pc = "idle" /\ Selected
    /\ Become(w, [Idle EXCEPT !.pc = "existing", !.expected = task])
    /\ UNCHANGED <<task, assigned, decision, envVars, access, faults, overrides>>

Usable == {a \in Agents : status[a] = "online" /\ a \notin busy}

\* Mutant of Complete: one step with an agent is enough.
PartlyComplete == \E s \in Steps : assigned[s] # Unassigned

Complete == \A s \in Steps : assigned[s] # Unassigned

\* Everything assigned already: the status alone is missing.  Otherwise the
\* candidates are read, with their definitions.
Existing(w) ==
    /\ assigner[w].pc = "existing"
    /\ Become(w, IF Complete THEN [assigner[w] EXCEPT !.pc = "promote"]
                 ELSE [assigner[w] EXCEPT !.pc = "match", !.usable = Usable, !.open = access])
    /\ UNCHANGED <<task, assigned, decision, envVars, access, faults, overrides>>

Promote(w) ==
    /\ assigner[w].pc = "promote"
    /\ task' = IF task = assigner[w].expected THEN "assigned" ELSE task
    /\ Stop(w)
    /\ UNCHANGED <<assigned, decision, envVars, access, faults, overrides>>

------------------------------------------------------------------------------
(* AssignTask's loop over the steps.                                       *)

Reserved(w, a) == Cardinality({s \in Steps : /\ assigner[w].choice[s].agent = a
                                             /\ assigner[w].choice[s].as \in {"match", "grant"}})

\* matching.Match among the candidates that were read.
Candidates(w, s) == {a \in assigner[w].usable \cap Fits[s] : Reserved(w, a) < Capacity[a]}
Matching(w, s)   == Candidates(w, s) \cap assigner[w].open

\* selectBestProjectAccessGrant: only the project is missing, and still is
\* when registry and file are read again.
Grantable(w, s) == {a \in Candidates(w, s) \ assigner[w].open : a \in Usable /\ a \notin access}

\* Mutant of Choose: the loop runs once too often.
ChooseOneMore(w, s, a, as) ==
    Become(w, [assigner[w] EXCEPT !.choice[s] = [agent |-> a, as |-> as], !.step = s + 1,
                                  !.pc = IF s <= N THEN "match" ELSE "grant"])

Choose(w, s, a, as) ==
    Become(w, [assigner[w] EXCEPT
                  !.choice[s] = [agent |-> a, as |-> as],
                  !.open = IF as = "grant" THEN @ \cup {a} ELSE @,
                  !.step = s + 1,
                  !.pc = IF s < N THEN "match"
                         ELSE IF as \in BlockedDecisions
                                 \/ \E r \in 1 .. s - 1 : assigner[w].choice[r].as \in BlockedDecisions
                         THEN "block" ELSE "grant"])

\* The agent generated for a step matches, or tells what it is waiting for.
GeneratedState(w, s) ==
    LET g == Generated[s]
    IN  IF g \in Usable /\ Reserved(w, g) < Capacity[g] THEN "match"
        ELSE IF status[g] = "configured" THEN "probe"
        ELSE IF status[g] = "online" THEN "missing_resources"
        ELSE "missing_config"

\* One step of the plan: an agent that matches; else one that lacks only the
\* project; else the generated one, whose definition is written with the
\* project or repaired.
MatchStep(w) ==
    LET s == assigner[w].step
    IN  /\ assigner[w].pc = "match"
        /\ IF Matching(w, s) # {}
           THEN (\E a \in Matching(w, s) : Choose(w, s, a, "match")) /\ UNCHANGED access
           ELSE IF Grantable(w, s) # {}
           THEN (\E a \in Grantable(w, s) : Choose(w, s, a, "grant")) /\ UNCHANGED access
           ELSE /\ Choose(w, s, Generated[s], GeneratedState(w, s))
                /\ access' = access \cup {Generated[s]}
        /\ UNCHANGED <<task, assigned, decision, envVars, faults, overrides>>

------------------------------------------------------------------------------
(* persistBlocked.                                                         *)

\* verifyTaskState, and the updates that name the status expected.
Verified(w) == task = assigner[w].expected

ChosenAs(w, s) == assigner[w].choice[s].as
Granted(w)     == {assigner[w].choice[s].agent : s \in {r \in Steps : ChosenAs(w, r) = "grant"}}

\* Steps assigned before, by hand or not, are opened again; the generated
\* agents that are blocked are registered.
Block(w) ==
    LET blocked == {s \in Steps : ChosenAs(w, s) \in BlockedDecisions}
    IN  /\ assigner[w].pc = "block"
        /\ \/ /\ Verified(w)
              /\ assigned' = [s \in Steps |-> Unassigned]
              /\ decision' = [s \in Steps |->
                    IF s \in blocked THEN ChosenAs(w, s)
                    ELSE IF /\ assigner[w].choice[s].agent \notin Granted(w)
                            /\ decision[s] \in BlockedDecisions
                         THEN "ready" ELSE decision[s]]
              /\ status' = [a \in Agents |->
                    IF status[a] = "absent" /\ \E s \in blocked : Generated[s] = a
                    THEN "missing_config" ELSE status[a]]
              /\ task' = IF \A s \in blocked : ChosenAs(w, s) = "missing_resources"
                         THEN "missing_resources" ELSE "missing_config"
              /\ UNCHANGED faults
           \/ /\ \/ ~Verified(w) /\ UNCHANGED faults
                 \/ faults < MaxFaults /\ faults' = faults + 1
              /\ UNCHANGED <<task, assigned, decision, status>>
        /\ Stop(w)
        /\ UNCHANGED <<busy, moves, access, overrides>>

------------------------------------------------------------------------------
(* prepareProjectAccessChanges, applyProjectAccessChanges and              *)
(* persistAssignments.                                                     *)

PrepareGrants(w) ==
    /\ assigner[w].pc = "grant"
    /\ Become(w, [assigner[w] EXCEPT !.pc = "apply", !.changes = Granted(w) \ access])
    /\ UNCHANGED <<task, assigned, decision, envVars, access, faults, overrides>>

\* A file that is no longer what it was ends the work, and what was applied
\* is taken back.
ApplyGrants(w) ==
    /\ assigner[w].pc = "apply"
    /\ IF assigner[w].changes \cap access = {}
       THEN access' = access \cup assigner[w].changes /\ Goto(w, "persist")
       ELSE Stop(w) /\ UNCHANGED access
    /\ UNCHANGED <<task, assigned, decision, envVars, faults, overrides>>

\* The transaction: old rows out, new rows in, one decision for every step.
Committed(w) ==
    /\ task' = "assigned"
    /\ assigned' = [s \in Steps |-> [agent |-> assigner[w].choice[s].agent, by |-> w]]
    /\ decision' = [s \in Steps |-> "selected"]

\* Failing definitely undoes the grants; a commit that reports an error may
\* have happened or not.
Persist(w) ==
    /\ assigner[w].pc = "persist"
    /\ \/ Verified(w) /\ Committed(w) /\ Stop(w) /\ UNCHANGED faults
       \/ /\ Verified(w) /\ faults < MaxFaults /\ faults' = faults + 1
          /\ Goto(w, "resolve")
          /\ Committed(w) \/ UNCHANGED <<task, assigned, decision>>
       \/ /\ \/ ~Verified(w) /\ UNCHANGED faults
             \/ faults < MaxFaults /\ faults' = faults + 1
          /\ Goto(w, "rollback")
          /\ UNCHANGED <<task, assigned, decision>>
    /\ UNCHANGED <<envVars, access, overrides>>

\* assignmentResultMatchesPrepared
MatchesPrepared(w) ==
    /\ Complete
    /\ \A s \in Steps : assigned[s].agent = assigner[w].choice[s].agent

\* Mutant of Resolve: a commit that reports an error is taken for a failure.
RollbackUnresolved(w) ==
    /\ assigner[w].pc = "resolve"
    /\ Goto(w, "rollback")
    /\ UNCHANGED <<task, assigned, decision, envVars, access, faults, overrides>>

\* What the tables say decides; while they cannot be read the grants stay.
Resolve(w) ==
    /\ assigner[w].pc = "resolve"
    /\ \/ MatchesPrepared(w) /\ Stop(w) /\ UNCHANGED faults
       \/ ~MatchesPrepared(w) /\ Goto(w, "rollback") /\ UNCHANGED faults
       \/ faults < MaxFaults /\ faults' = faults + 1 /\ Stop(w)
    /\ UNCHANGED <<task, assigned, decision, envVars, access, overrides>>

\* rollbackProjectAccessChanges: a file that changed again is left alone.
Rollback(w) ==
    /\ assigner[w].pc = "rollback"
    /\ access' = access \ assigner[w].changes
    /\ Stop(w)
    /\ UNCHANGED <<task, assigned, decision, envVars, faults, overrides>>

Crash(w) ==
    /\ assigner[w].pc # "idle"
    /\ faults < MaxFaults /\ faults' = faults + 1
    /\ Stop(w)
    /\ UNCHANGED <<task, assigned, decision, envVars, access, overrides>>

------------------------------------------------------------------------------
(* The administrator and the agents.                                       *)

\* Any online agent, on any step, whatever the task's status; the latest
\* decision of 'system' stays what it is.
Override(s, a) ==
    /\ overrides < MaxOverrides /\ overrides' = overrides + 1
    /\ status[a] = "online"
    /\ assigned' = [assigned EXCEPT ![s] = [agent |-> a, by |-> "admin"]]
    /\ UNCHANGED <<task, decision, envVars, access, assigner, faults>>

\* SaveAgentConfig, ProbeAgent, and an agent that fails or is taken by
\* another task.
AgentMoves(a) ==
    /\ \/ /\ status[a] \in {"missing_config", "configured"}
          /\ status' = [status EXCEPT ![a] = IF @ = "configured" THEN "online" ELSE "configured"]
          /\ UNCHANGED <<busy, moves>>
       \/ /\ status[a] = "online" /\ moves < MaxMoves /\ moves' = moves + 1
          /\ \/ status' = [status EXCEPT ![a] = "missing_config"] /\ UNCHANGED busy
             \/ a \notin busy /\ busy' = busy \cup {a} /\ UNCHANGED status
       \/ a \in busy /\ busy' = busy \ {a} /\ UNCHANGED <<status, moves>>
    /\ UNCHANGED <<task, assigned, decision, access, assigner, faults, overrides>>

------------------------------------------------------------------------------

Init ==
    /\ task = "planned"
    /\ assigned = [s \in Steps |-> Unassigned]
    /\ decision = [s \in Steps |-> "none"]
    /\ status = [a \in Agents |-> IF \E s \in Steps : Generated[s] = a THEN "absent" ELSE "online"]
    /\ busy = {}
    /\ access \in SUBSET {a \in Agents : \A s \in Steps : Generated[s] # a}
    /\ assigner = [w \in Servers |-> Idle]
    /\ faults = 0 /\ overrides = 0 /\ moves = 0

Work(w) ==
    \/ RunOnce(w) \/ Existing(w) \/ Promote(w) \/ MatchStep(w) \/ Block(w)
    \/ PrepareGrants(w) \/ ApplyGrants(w) \/ Persist(w) \/ Resolve(w) \/ Rollback(w)

Next ==
    \/ \E w \in Servers : Work(w) \/ Crash(w)
    \/ \E s \in Steps, a \in Agents : Override(s, a)
    \/ \E a \in Agents : AgentMoves(a)

Spec == Init /\ [][Next]_vars

\* Every server's worker runs; administrators and agents need not.
FairSpec == Spec /\ \A w \in Servers : WF_vars(Work(w))

------------------------------------------------------------------------------

\* Every variable holds what its table or file may hold.
TypeOK ==
    /\ task \in Waiting \cup {"assigned"}
    /\ assigned \in [Steps -> {Unassigned} \cup [agent : Agents, by : Servers \cup {"admin"}]]
    /\ decision \in [Steps -> BlockedDecisions \cup {"none", "ready", "selected"}]
    /\ status \in [Agents -> {"absent", "missing_config", "configured", "online"}]
    /\ busy \subseteq Agents /\ access \subseteq Agents
    /\ assigner \in [Servers ->
          [pc : {"idle", "existing", "promote", "match", "block", "grant", "apply",
                 "persist", "resolve", "rollback"},
           expected : Waiting, step : 1 .. N + 1,
           usable : SUBSET Agents, open : SUBSET Agents,
           choice : [Steps -> [agent : Agents \cup {NoAgent},
                               as : BlockedDecisions \cup {"open", "match", "grant"}]],
           changes : SUBSET Agents]]
    /\ \A w \in Servers : assigner[w].pc = "match" => assigner[w].step \in Steps
    /\ faults \in 0 .. MaxFaults /\ overrides \in 0 .. MaxOverrides /\ moves \in 0 .. MaxMoves

\* A task is 'assigned' only when each of its steps has an agent, although
\* overrides assign steps one by one and every try of the worker clears the
\* table first (existing, clearPartialAssignments).
AssignedIsComplete == task = "assigned" => \A s \in Steps : assigned[s].agent \in Agents

\* A worker takes back the project access it granted only when its assignment
\* is not in the tables (service.go, at the call of resolveAssignmentCommitOutcome:
\* while the outcome is uncertain the access is kept, lest a committed
\* assignment lose its files).  An override that changed a step before the
\* outcome was looked up is excepted: the assignment then no longer matches.
GrantsOutliveCommit ==
    [][\A w \in Servers :
          assigner[w].pc = "rollback" /\ assigner'[w].pc = "idle" /\ access' # access
          => \/ \A s \in Steps : assigned[s].by # w
             \/ \E s \in Steps : assigned[s].by = "admin"]_vars

\* Two steps compete for an agent that was generated for one of them.
Contended(w) ==
    \E s, r \in Steps : s # r /\ assigner[w].choice[s].agent = Generated[r]

\* Once every agent that is registered stays online and free the task is
\* assigned; only the greedy choice of another step, which takes the agent
\* generated for this one on every try, can keep it waiting.
AssignmentContinues ==
    <>[](busy = {} /\ \A a \in Agents : status[a] \in {"absent", "online"})
    => \/ <>(task = "assigned")
       \/ []<>(\E w \in Servers : Contended(w))

=============================================================================
