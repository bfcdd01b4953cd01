----------------------------- MODULE Workspaces -----------------------------
(***************************************************************************)
(* The worktrees of one task (server/internal/workspaces): provisioned     *)
(* once the task is assigned, reconciled on every tick of the worker,      *)
(* brought up to date with their merged dependencies before their first    *)
(* lease, repaired and cleaned up by an administrator.                     *)
(*                                                                         *)
(* A workspace is four things that no transaction joins: its row, its      *)
(* snapshot file on main, the commit that registered it and its worktree.  *)
(* Main is the number of its commits.  The handlers hold the project's     *)
(* lock from their first step to their last; leases are granted and moved, *)
(* and a cleanup is requested, without it.  Branch names, the hash and the *)
(* write scope of a snapshot stand and fall with its base commit here, and *)
(* handoffs, which rewrite snapshots, are in StepLease.                    *)
(***************************************************************************)
EXTENDS Integers

CONSTANTS Runners,   \* goroutines: the worker of a server, an HTTP handler
          NoRunner,
          N,         \* the steps, 1 to N, in the order of their ids
          Needs,     \* the steps a step depends on (workflow_edges)
          MaxFaults, \* bound on failing commands and crashes
          MaxOrders, \* bound on the administrator's orders and other tasks' commits
          MaxLate,   \* bound on the provisionings that get the lock too late
          MaxLeases  \* bound on the leases of a step

Steps == 1 .. N

ASSUME NAssumption == N \in Nat \ {0}
ASSUME NeedsAssumption == Needs \in [Steps -> SUBSET Steps]
ASSUME RunnerAssumption == NoRunner \notin Runners
ASSUME BoundsAssumption == {MaxFaults, MaxOrders, MaxLate, MaxLeases} \subseteq Nat

VARIABLES task,     \* tasks.status
          main,     \* HEAD of the project's main worktree
          dirty,    \* it has changes that are not committed
          snapshot, \* the base commit in a step's snapshot file, NoCommit without a file
          row,      \* project_workspaces
          tree,     \* a step's branch and whether a worktree has it checked out
          step,     \* task_steps with its lease: what a workspace depends on
          merged,   \* the merge commit of a step's merge request
          lock,     \* the project's lock
          runner,   \* what every goroutine is doing
          unsynced, \* history: the steps whose row became 'ready' outside the gate
          faults, orders, others, late

steps    == <<step, merged, others>>
history  == <<unsynced, orders, late>>
project  == <<main, dirty, snapshot>>
vars == <<task, project, row, tree, steps, lock, runner, history, faults>>

NoCommit  == -1
NoRow     == [status |-> "none", base |-> NoCommit, provision |-> NoCommit]
NoBranch  == [main |-> NoCommit, work |-> "none", present |-> FALSE]
NewStep   == [phase |-> "assigned", leases |-> 0, since |-> 0]
Provisioned == {"ready", "waiting_dependencies", "dependency_syncing"}

Idle == [pc |-> "idle", item |-> 1, provision |-> NoCommit, drifted |-> FALSE,
         seen |-> [s \in Steps |-> "none"], state |-> NewStep, verdict |-> "none"]

Become(w, r) == runner' = [runner EXCEPT ![w] = r]
Goto(w, pc)  == Become(w, [runner[w] EXCEPT !.pc = pc])
Take(w, r)   == lock = NoRunner /\ runner[w].pc = "idle" /\ lock' = w /\ Become(w, r)

\* Mutant of Return: the lock is kept.
ReturnHolding(w) == UNCHANGED lock /\ Become(w, Idle)

Return(w)    == lock' = NoRunner /\ Become(w, Idle)
Fault        == faults < MaxFaults /\ faults' = faults + 1

\* The items a handler walks over one after the other.
NextItem(w, done) ==
    [runner[w] EXCEPT !.item = IF @ < N THEN @ + 1 ELSE 1,
                      !.pc = IF runner[w].item < N THEN @ ELSE done]

Rows           == {s \in Steps : row[s].status # "none"}
SetRows(S, st) == row' = [s \in Steps |-> IF s \in S THEN [row[s] EXCEPT !.status = st] ELSE row[s]]

\* exactWorktree: on its branch, at the commit, clean.
Exact(s, commit) == tree[s] = [main |-> commit, work |-> "none", present |-> TRUE]

\* A step nobody has worked on.
Untouched(s) == step[s].phase = "assigned" /\ step[s].leases = 0

------------------------------------------------------------------------------
(* ProvisionTask.                                                          *)

\* An earlier attempt committed the registration and recorded it.
Recoverable ==
    /\ Rows = Steps /\ row[1].provision = main
    /\ \A s \in Steps : row[s].provision = main /\ row[s].base = row[1].base

\* Everything is there but the task's status (verifyProvisionedRecovery).
Verified ==
    /\ ~dirty
    /\ \A s \in Steps : /\ row[s].provision = main
                        /\ snapshot[s] = row[s].base
                        /\ Exact(s, main)

\* The worker found the task assigned.  It waited for the lock since, and the
\* task may have its workspaces by then, from another worker or a repair.
Late == task = "workspace_ready" /\ late < MaxLate /\ late' = late + 1

\* existingReady: every row there is has its workspace.
Existing == Rows # {} /\ \A s \in Rows : row[s].status \in Provisioned

\* Rows that are complete are only verified, and left alone in a task that has
\* its workspaces; others are taken up where they were registered, or written
\* anew.  New rows keep a registration that main has left behind, with a base
\* that is not the one it registered.  A failed read of the rows passes for
\* rows that were never registered.
BeginProvision(w) ==
    LET begun(pc, commit) == [Idle EXCEPT !.pc = pc, !.provision = commit]
        recorded == IF Rows = Steps THEN row[1].provision ELSE NoCommit
    IN  /\ (task = "assigned" /\ UNCHANGED late) \/ Late
        /\ \/ /\ task = "assigned" /\ Existing /\ Rows = Steps /\ Verified
              /\ Take(w, begun("refinalize", main))
              /\ UNCHANGED <<row, faults>>
           \/ /\ ~Existing /\ ~dirty /\ ~Recoverable
              /\ Take(w, begun("insert", recorded))
              /\ UNCHANGED <<row, faults>>
           \/ /\ ~Existing /\ ~dirty /\ Recoverable
              /\ Take(w, begun("trees", main)) /\ SetRows(Steps, "provisioning")
              /\ UNCHANGED faults
           \/ /\ ~Existing /\ ~dirty /\ Fault
              /\ Take(w, begun("insert", NoCommit)) /\ UNCHANGED row
        /\ UNCHANGED <<task, project, tree, steps, unsynced, orders>>

InsertRow(w) ==
    /\ runner[w].pc = "insert"
    /\ row' = [row EXCEPT ![runner[w].item] = [@ EXCEPT !.status = "provisioning", !.base = main]]
    /\ Become(w, NextItem(w, IF runner[w].provision = NoCommit THEN "write" ELSE "trees"))
    /\ UNCHANGED <<task, project, tree, steps, lock, history, faults>>

\* writeMetadata: the files change before the commit.
WriteMetadata(w) ==
    /\ runner[w].pc = "write"
    /\ snapshot' = [s \in Steps |-> row[s].base] /\ dirty' = TRUE
    /\ Goto(w, "commit")
    /\ UNCHANGED <<task, main, row, tree, steps, lock, history, faults>>

CommitMetadata(w) ==
    /\ runner[w].pc = "commit"
    /\ main' = main + 1 /\ dirty' = FALSE
    /\ Become(w, [runner[w] EXCEPT !.pc = "record", !.provision = main + 1])
    /\ UNCHANGED <<task, snapshot, row, tree, steps, lock, history, faults>>

RecordProvision(w) ==
    /\ runner[w].pc = "record"
    /\ row' = [s \in Steps |-> IF s \in Rows THEN [row[s] EXCEPT !.provision = runner[w].provision]
                               ELSE row[s]]
    /\ Goto(w, "trees")
    /\ UNCHANGED <<task, project, tree, steps, lock, history, faults>>

\* Mutant of Creatable: a branch from an earlier attempt is refused.
CreatableOnce(s, commit) == tree[s] = NoBranch

\* createWorktree: there already, on a branch that is where it should be, or new.
Creatable(s, commit) ==
    \/ Exact(s, commit)
    \/ ~tree[s].present /\ tree[s].main \in {NoCommit, commit} /\ tree[s].work = "none"

CreateTree(w) ==
    LET s == runner[w].item
    IN  /\ runner[w].pc = "trees" /\ Creatable(s, runner[w].provision)
        /\ tree' = [tree EXCEPT ![s] = [main |-> runner[w].provision, work |-> "none",
                                        present |-> TRUE]]
        /\ Become(w, NextItem(w, "ready"))
        /\ UNCHANGED <<task, project, row, steps, lock, history, faults>>

\* markDependentWorkspacesWaiting: whoever depends on others and has not begun.
Gated(s)   == Needs[s] # {} /\ Untouched(s)
Dependents == {s \in Steps : row[s].status = "ready" /\ Gated(s)}

\* In a task that has its workspaces leases are granted between this and the
\* next statement.
MarkReady(w) ==
    /\ runner[w].pc = "ready"
    /\ SetRows(Rows, "ready")
    /\ unsynced' = IF task = "workspace_ready" THEN unsynced \cup {s \in Rows : Gated(s)} ELSE unsynced
    /\ Goto(w, "waiting")
    /\ UNCHANGED <<task, project, tree, steps, lock, orders, late, faults>>

MarkWaiting(w) ==
    /\ runner[w].pc = "waiting"
    /\ SetRows(Dependents, "waiting_dependencies")
    /\ unsynced' = unsynced \ Dependents
    /\ Goto(w, "finalize")
    /\ UNCHANGED <<task, project, tree, steps, lock, orders, late, faults>>

\* The status is still the one this began with: only a delivery, of a task that
\* had its workspaces, comes in between.  A task whose rows were complete
\* already is finalised without another look at its dependents.
Finalize(w) ==
    /\ runner[w].pc \in {"finalize", "refinalize"} /\ task \in {"assigned", "workspace_ready"}
    /\ task' = "workspace_ready"
    /\ unsynced' = IF runner[w].pc = "refinalize" THEN unsynced \cup Dependents ELSE unsynced
    /\ Return(w)
    /\ UNCHANGED <<project, row, tree, steps, orders, late, faults>>

Failed(w) ==
    IF task \in {"assigned", "workspace_ready"}
    THEN SetRows({s \in Steps : row[s].status \in Provisioned \cup {"provisioning"}}, "failed")
    ELSE UNCHANGED row

\* A worktree that cannot be created, a task that changed, or any command or
\* statement that fails.
FailTask(w) ==
    /\ \/ runner[w].pc = "trees" /\ ~Creatable(runner[w].item, runner[w].provision)
          /\ UNCHANGED faults
       \/ runner[w].pc = "finalize" /\ task = "delivered" /\ UNCHANGED faults
       \/ runner[w].pc \in {"write", "commit", "record", "trees", "ready", "waiting", "finalize"} /\ Fault
    /\ Failed(w)
    /\ Return(w)
    /\ UNCHANGED <<task, project, tree, steps, history>>

ProvisionStep(w) ==
    \/ BeginProvision(w) \/ InsertRow(w) \/ WriteMetadata(w) \/ CommitMetadata(w)
    \/ RecordProvision(w) \/ CreateTree(w) \/ MarkReady(w) \/ MarkWaiting(w) \/ Finalize(w)

------------------------------------------------------------------------------
(* ReconcileTask.                                                          *)

\* The lock, the dependents that must wait, and the rows as they are then.
BeginReconcile(w) ==
    LET seen == [s \in Steps |-> IF s \in Dependents THEN "waiting_dependencies" ELSE row[s].status]
    IN  /\ task = "workspace_ready"
        /\ Take(w, [Idle EXCEPT !.pc = IF Rows = {} THEN "closing" ELSE "read", !.seen = seen])
        /\ SetRows(Dependents, "waiting_dependencies")
        /\ unsynced' = unsynced \ Dependents
        /\ UNCHANGED <<task, project, tree, steps, orders, late, faults>>

Found(w, verdict) ==
    [runner[w] EXCEPT !.pc = "update", !.verdict = verdict,
                      !.drifted = runner[w].drifted \/ verdict = "drifted"]

Registered(s) == snapshot[s] = row[s].base /\ tree[s].present

\* A row that waits for its dependencies as the reconciliation began.
Awaits(w, s) == runner[w].seen[s] \in {"waiting_dependencies", "dependency_syncing"}

\* The snapshot, the branch and the state of the step (loadStepControl).  A
\* step that began before its dependencies were merged into it has drifted; so
\* has one whose files or branch cannot be read.
ReadItem(w) ==
    LET s == runner[w].item
    IN  /\ runner[w].pc = "read"
        /\ \/ /\ Become(w, IF s \notin Rows THEN Found(w, "waiting")
                           ELSE IF ~Registered(s) \/ (Awaits(w, s) /\ ~Untouched(s))
                           THEN Found(w, "drifted")
                           ELSE [runner[w] EXCEPT !.state = step[s],
                                                  !.pc = IF Awaits(w, s) THEN "sync" ELSE "head"])
              /\ UNCHANGED faults
           \/ s \in Rows /\ Fault /\ Become(w, Found(w, "drifted"))
        /\ UNCHANGED <<task, project, row, tree, steps, lock, history>>

\* Mutant of DependenciesMerged: a report is enough.
DependenciesReported(s) == \A d \in Needs[s] : step[d].phase \in {"review", "completed"}

\* mergedDependencyCommits
DependenciesMerged(s) ==
    Needs[s] # {} /\ \A d \in Needs[s] : step[d].phase = "completed" /\ merged[d] # NoCommit

\* Where the worktree of a step nobody has worked on may stand.
Controlled(s, seen) ==
    /\ tree[s].work = "none"
    /\ IF seen = "dependency_syncing" THEN tree[s].main >= row[s].provision
                                      ELSE tree[s].main = row[s].provision

\* The update names the status expected; a sync that was interrupted goes on.
Claims(s, seen) == seen = "dependency_syncing" \/ row[s].status = "waiting_dependencies"

\* syncDependenciesBeforeFirstLease up to its first write.
SyncBegins(w, s) ==
    LET seen == runner[w].seen[s]
    IN  IF ~Controlled(s, seen)
        THEN Become(w, Found(w, "drifted")) /\ UNCHANGED row
        ELSE IF ~DependenciesMerged(s) \/ dirty
        THEN Become(w, Found(w, "waiting")) /\ UNCHANGED row
        ELSE IF Claims(s, seen)
        THEN /\ row' = [row EXCEPT ![s].status =
                           IF @ = "waiting_dependencies" THEN "dependency_syncing" ELSE @]
             /\ Goto(w, "merge")
        ELSE Goto(w, "conflict") /\ UNCHANGED row

\* A command that fails in the worktree means drift, one on main that the step
\* waits on; the head of a step that waits is judged, too.
CheckDependencies(w) ==
    LET s == runner[w].item
    IN  /\ runner[w].pc = "sync"
        /\ \/ SyncBegins(w, s) /\ UNCHANGED faults
           \/ /\ Fault /\ UNCHANGED row
              /\ \/ Become(w, Found(w, "drifted"))
                 \/ Controlled(s, runner[w].seen[s]) /\ Become(w, Found(w, "waiting"))
        /\ UNCHANGED <<task, project, tree, steps, lock, history>>

\* git merge --ff-only
FastForward(w) ==
    /\ runner[w].pc = "merge"
    /\ tree' = [tree EXCEPT ![runner[w].item].main = main]
    /\ Goto(w, "record_sync")
    /\ UNCHANGED <<task, project, row, steps, lock, history, faults>>

RecordSync(w) ==
    LET s == runner[w].item
    IN  /\ runner[w].pc = "record_sync"
        /\ IF row[s].status = "dependency_syncing"
           THEN /\ row' = [row EXCEPT ![s] = [@ EXCEPT !.status = "ready", !.provision = main]]
                /\ Become(w, [runner[w] EXCEPT !.pc = "head", !.seen[s] = "ready"])
           ELSE Goto(w, "conflict") /\ UNCHANGED row
        /\ UNCHANGED <<task, project, tree, steps, lock, history, faults>>

\* Mutant of HeadFits: a frozen lease is not thought of.
HeadFitsThawed(s, seen) ==
    LET held == step[s].phase = seen.phase /\ step[s].leases = seen.leases
    IN  \/ /\ tree[s].work = "none" /\ tree[s].main = row[s].provision
           /\ seen.phase = "assigned" \/ (seen.phase # "frozen" /\ held)
        \/ /\ tree[s].work = "recorded" /\ tree[s].main >= row[s].provision
           /\ seen.phase = "returned" \/ (seen.phase # "frozen" /\ held)

\* controlledHeadReason: the commit a step's worktree shows descends from the
\* registered one and is one the step's status and its lease account for.  The
\* step was read before, its lease is read now.  A checkpoint counts under its
\* own lease, and under the next one while that one is active.
HeadFits(s, seen) ==
    LET held == /\ step[s].phase = seen.phase /\ step[s].leases = seen.leases
                /\ seen.phase \in {"active", "interrupted", "review", "completed"}
    IN  \/ /\ tree[s].work = "none" /\ tree[s].main = row[s].provision
           /\ seen.phase \in {"assigned", "frozen"} \/ held
        \/ /\ tree[s].work = "recorded" /\ tree[s].main >= row[s].provision
           /\ \/ seen.since = 0 /\ (held \/ seen.phase = "frozen")
              \/ seen.since = 1 /\ held /\ seen.phase = "active"
              \/ seen.phase = "returned"

\* Under an active lease any commit of the last two minutes does, whatever
\* checkpoint there is: its own may be on its way.
MayFit(s, seen) ==
    /\ tree[s].main >= row[s].provision /\ seen.phase = "active"
    /\ step[s].phase = "active" /\ step[s].leases = seen.leases

\* A query or a command that fails accounts for nothing.
JudgeHead(w) ==
    LET s == runner[w].item
        seen == runner[w].state
    IN  /\ runner[w].pc = "head"
        /\ \/ (HeadFits(s, seen) \/ MayFit(s, seen)) /\ Become(w, Found(w, "ready"))
              /\ UNCHANGED faults
           \/ ~HeadFits(s, seen) /\ Become(w, Found(w, "drifted")) /\ UNCHANGED faults
           \/ Fault /\ Become(w, Found(w, "drifted"))
        /\ UNCHANGED <<task, project, row, tree, steps, lock, history>>

\* updateWorkspaceStateCAS.  A row that was to be cleaned up becomes ready, too.
WriteItem(w) ==
    LET s == runner[w].item
        seen == runner[w].seen[s]
        verdict == runner[w].verdict
        next == [NextItem(w, "closing") EXCEPT !.pc = IF @ = "update" THEN "read" ELSE @]
    IN  /\ runner[w].pc = "update"
        /\ IF verdict = "waiting"
           THEN Become(w, next) /\ UNCHANGED row
           ELSE IF row[s].status = seen
           THEN SetRows({s}, verdict) /\ Become(w, next)
           ELSE Goto(w, "conflict") /\ UNCHANGED row
        /\ unsynced' = IF verdict = "ready" /\ row[s].status = seen /\ seen # "ready" /\ Gated(s)
                       THEN unsynced \cup {s} ELSE unsynced
        /\ UNCHANGED <<task, project, tree, steps, lock, orders, late, faults>>

FinishReconcile(w) ==
    /\ runner[w].pc = "closing"
    /\ task' = IF task = "workspace_ready" /\ runner[w].drifted THEN "workspace_drifted" ELSE task
    /\ Return(w)
    /\ UNCHANGED <<project, row, tree, steps, history, faults>>

\* Something changed under the handler, or git refused: the next tick repeats it.
AbandonReconcile(w) ==
    /\ \/ runner[w].pc = "conflict" /\ UNCHANGED faults
       \/ runner[w].pc \in {"read", "sync", "merge", "record_sync", "update", "closing"} /\ Fault
    /\ Return(w)
    /\ UNCHANGED <<task, project, row, tree, steps, history>>

ReconcileStep(w) ==
    \/ BeginReconcile(w) \/ ReadItem(w) \/ CheckDependencies(w)
    \/ FastForward(w) \/ RecordSync(w) \/ JudgeHead(w) \/ WriteItem(w) \/ FinishReconcile(w)

------------------------------------------------------------------------------
(* The administrator: RepairTask, RequestCleanup, ConfirmCleanup.          *)

Order == orders + others < MaxOrders /\ orders' = orders + 1

BeginRepair(w, direction) ==
    /\ Order
    /\ Take(w, [Idle EXCEPT !.pc = IF direction = "database" THEN "from_database" ELSE "from_snapshot"])
    /\ UNCHANGED <<task, project, row, tree, steps, unsynced, late, faults>>

\* A row becomes ready whatever it was waiting for, and leases are granted
\* before the reconciliation that follows makes it wait again.
Reopened(s) == unsynced' = unsynced \cup {u \in {s} : Gated(u)}

\* The snapshot is written anew; a failed update of its row is ignored.
RepairFromDatabase(w) ==
    LET s == runner[w].item
    IN  /\ runner[w].pc = "from_database" /\ s \in Rows
        /\ snapshot' = [snapshot EXCEPT ![s] = row[s].base]
        /\ dirty' = (dirty \/ snapshot' # snapshot)
        /\ \/ SetRows({s}, "ready") /\ UNCHANGED faults
           \/ Fault /\ UNCHANGED row
        /\ Reopened(s) /\ Become(w, NextItem(w, "stage"))
        /\ UNCHANGED <<task, main, tree, steps, lock, orders, late>>

\* The row takes what the snapshot says; a missing one ends the repair.
RepairFromSnapshot(w) ==
    LET s == runner[w].item
    IN  /\ runner[w].pc = "from_snapshot" /\ s \in Rows
        /\ IF snapshot[s] = NoCommit
           THEN Return(w) /\ UNCHANGED <<row, unsynced>>
           ELSE /\ row' = [row EXCEPT ![s] = [@ EXCEPT !.status = "ready", !.base = snapshot[s]]]
                /\ Reopened(s) /\ Become(w, NextItem(w, "reopen")) /\ UNCHANGED lock
        /\ UNCHANGED <<task, project, tree, steps, orders, late, faults>>

\* A step without a row.
PassOver(w) ==
    /\ runner[w].pc \in {"from_database", "from_snapshot"} /\ runner[w].item \notin Rows
    /\ Become(w, NextItem(w, IF runner[w].pc = "from_database" THEN "stage" ELSE "reopen"))
    /\ UNCHANGED <<task, project, row, tree, steps, lock, history, faults>>

CommitRepair(w) ==
    /\ runner[w].pc = "stage"
    /\ main' = IF dirty THEN main + 1 ELSE main
    /\ dirty' = FALSE
    /\ Goto(w, "reopen")
    /\ UNCHANGED <<task, snapshot, row, tree, steps, lock, history, faults>>

\* By the task's id alone.
ReopenTask(w) ==
    /\ runner[w].pc = "reopen"
    /\ task' = "workspace_ready"
    /\ Return(w)
    /\ UNCHANGED <<project, row, tree, steps, history, faults>>

RequestCleanup ==
    /\ Rows # {} /\ Order
    /\ SetRows(Rows, "cleanup_pending")
    /\ UNCHANGED <<task, project, tree, steps, lock, runner, unsynced, late, faults>>

BeginCleanup(w) ==
    /\ row[1].status = "cleanup_pending" /\ Take(w, [Idle EXCEPT !.pc = "clean"])
    /\ UNCHANGED <<task, project, row, tree, steps, history, faults>>

\* git worktree remove leaves the branch.  The rows were read at the start.
CleanItem(w) ==
    LET s == runner[w].item
        next == NextItem(w, "cleaned")
    IN  /\ runner[w].pc = "clean" /\ tree[s].present
        /\ tree' = [tree EXCEPT ![s].present = FALSE]
        /\ SetRows({s}, "cleaned")
        /\ IF next.pc = "cleaned" THEN Return(w) ELSE Become(w, next) /\ UNCHANGED lock
        /\ UNCHANGED <<task, project, steps, history, faults>>

RefuseCleanup(w) ==
    /\ runner[w].pc = "clean" /\ ~tree[runner[w].item].present
    /\ Return(w)
    /\ UNCHANGED <<task, project, row, tree, steps, history, faults>>

AdminStep(w) ==
    \/ \E direction \in {"database", "git_snapshot"} : BeginRepair(w, direction)
    \/ RepairFromDatabase(w) \/ RepairFromSnapshot(w) \/ PassOver(w)
    \/ CommitRepair(w) \/ ReopenTask(w) \/ BeginCleanup(w) \/ CleanItem(w) \/ RefuseCleanup(w)

------------------------------------------------------------------------------
(* Leases, reviews and merges (StepLease), as far as a workspace sees them. *)

Moves(s, phase) == step' = [step EXCEPT ![s].phase = phase]
StepOnly == UNCHANGED <<task, project, row, lock, runner, history, faults, merged, others>>

\* leases.Service.Acquire takes no lock.
Acquire(s) ==
    /\ task = "workspace_ready" /\ row[s].status = "ready"
    /\ step[s].phase \in {"assigned", "returned"} /\ step[s].leases < MaxLeases
    /\ step' = [step EXCEPT ![s] = [phase |-> "active", leases |-> @.leases + 1,
                                    since |-> IF @.phase = "returned" THEN 1 ELSE 0]]
    /\ StepOnly /\ UNCHANGED tree

MoveLease(s) ==
    /\ \/ step[s].phase = "active" /\ \E p \in {"interrupted", "frozen"} : Moves(s, p)
       \/ step[s].phase = "interrupted" /\ \E p \in {"active", "frozen"} : Moves(s, p)
       \/ step[s].phase = "review" /\ Moves(s, "returned")
       \/ /\ step[s].phase = "frozen" /\ step[s].leases < MaxLeases
          /\ step' = [step EXCEPT ![s] = [phase |-> "active", leases |-> @.leases + 1,
                                          since |-> IF tree[s].work = "recorded" /\ @.since < 2
                                                    THEN @.since + 1 ELSE @.since]]
    /\ StepOnly /\ UNCHANGED tree

\* The executor commits and then records the checkpoint, both under the lock;
\* it may die in between.
Commit(s) ==
    /\ step[s].phase = "active" /\ lock = NoRunner /\ tree[s].present
    /\ \E work \in {"recorded", "unrecorded"} :
          /\ work = "unrecorded" => faults < MaxFaults
          /\ faults' = IF work = "unrecorded" THEN faults + 1 ELSE faults
          /\ tree' = [tree EXCEPT ![s].work = work]
          /\ step' = [step EXCEPT ![s].since = IF work = "recorded" THEN 0 ELSE @]
    /\ UNCHANGED <<task, project, row, lock, runner, history, merged, others>>

Submit(s) ==
    /\ step[s].phase = "active" /\ tree[s].work = "recorded" /\ step[s].since = 0
    /\ Moves(s, "review")
    /\ StepOnly /\ UNCHANGED tree

\* Merge needs a clean main and the lock.
MergeStep(s) ==
    /\ step[s].phase = "review" /\ lock = NoRunner /\ ~dirty
    /\ Moves(s, "completed")
    /\ main' = main + 1 /\ merged' = [merged EXCEPT ![s] = main + 1]
    /\ UNCHANGED <<task, dirty, snapshot, row, tree, lock, runner, history, faults, others>>

\* Another task of the project registers or merges something.
OthersCommit ==
    /\ lock = NoRunner /\ ~dirty /\ orders + others < MaxOrders
    /\ main' = main + 1 /\ others' = others + 1
    /\ UNCHANGED <<task, dirty, snapshot, row, tree, step, merged, lock, runner, history, faults>>

\* deliveries: every step is merged.
Deliver ==
    /\ task = "workspace_ready" /\ \A s \in Steps : step[s].phase = "completed"
    /\ task' = "delivered"
    /\ UNCHANGED <<project, row, tree, steps, lock, runner, history, faults>>

\* The process of a runner dies, or a statement before the first write fails.
Crash(w) ==
    /\ runner[w] # Idle /\ Fault
    /\ Return(w)
    /\ UNCHANGED <<task, project, row, tree, steps, history>>

------------------------------------------------------------------------------
Init ==
    /\ task = "assigned" /\ main = 0 /\ dirty = FALSE
    /\ snapshot = [s \in Steps |-> NoCommit]
    /\ row = [s \in Steps |-> NoRow] /\ tree = [s \in Steps |-> NoBranch]
    /\ step = [s \in Steps |-> NewStep] /\ merged = [s \in Steps |-> NoCommit]
    /\ lock = NoRunner /\ runner = [w \in Runners |-> Idle]
    /\ unsynced = {} /\ faults = 0 /\ orders = 0 /\ others = 0 /\ late = 0

RunnerStep(w) ==
    ProvisionStep(w) \/ FailTask(w) \/ ReconcileStep(w) \/ AbandonReconcile(w) \/ AdminStep(w)

StepMove(s) == Acquire(s) \/ MoveLease(s) \/ Commit(s) \/ Submit(s) \/ MergeStep(s)

Next ==
    \/ \E w \in Runners : RunnerStep(w) \/ Crash(w)
    \/ RequestCleanup \/ OthersCommit \/ Deliver
    \/ \E s \in Steps : StepMove(s)

Spec == Init /\ [][Next]_vars

\* The worker comes back on its ticker and a handler that began goes on; the
\* lock is given to every handler that waits for it in the end.
Busy(w) == runner[w] # Idle
Fairness ==
    /\ \A w \in Runners : WF_vars(Busy(w) /\ RunnerStep(w))
    /\ SF_vars(\E w \in Runners : task = "assigned" /\ BeginProvision(w))
    /\ SF_vars(\E w \in Runners : BeginReconcile(w))

FairSpec == Spec /\ Fairness

------------------------------------------------------------------------------
(* Properties.                                                             *)

\* Every row, file and worktree stays in its domain; a handler under way is
\* the one that holds the lock.
TypeOK ==
    /\ task \in {"assigned", "workspace_ready", "workspace_drifted", "delivered"}
    /\ main \in Nat /\ dirty \in BOOLEAN
    /\ snapshot \in [Steps -> NoCommit .. main]
    /\ \A s \in Steps :
          /\ row[s].status \in Provisioned \cup {"none", "provisioning", "failed", "drifted",
                                                 "cleanup_pending", "cleaned"}
          /\ {row[s].base, row[s].provision, tree[s].main, merged[s]} \subseteq NoCommit .. main
          /\ tree[s].work \in {"none", "recorded", "unrecorded"} /\ tree[s].present \in BOOLEAN
          /\ step[s].phase \in {"assigned", "active", "interrupted", "frozen", "review",
                                "returned", "completed"}
          /\ step[s].leases \in 0 .. MaxLeases /\ step[s].since \in 0 .. 2
    /\ lock \in Runners \cup {NoRunner}
    /\ \A w \in Runners : runner[w].pc # "idle" <=> lock = w
    /\ unsynced \subseteq Steps

\* A step begins on a main that has the work of every step it depends on,
\* although the row that says so, the worktree and the merge requests are
\* read and written one after the other and Acquire takes no lock.  The
\* exception are rows that became 'ready' outside the gate: by a repair, by a
\* reconciliation after a request to clean up, by a crash between the two
\* statements that end the provisioning, or between these two in a task that
\* has its workspaces, when a late provisioning writes its rows again.
LeasedIsSynced ==
    \A s \in Steps \ unsynced :
        step[s].leases > 0 =>
            \A d \in Needs[s] : merged[d] # NoCommit /\ tree[s].main >= merged[d]

\* What keeps an assigned task from its workspaces for good: a registration
\* that was written and never committed; rows that are complete, or that a
\* repair made ready, where main, the files or the worktrees are not as the
\* registration has them; a branch at another commit than the one registered.
Stranded ==
    \/ dirty
    \/ Existing /\ ~(Rows = Steps /\ Verified)
    \/ \E s \in Rows : tree[s].main \notin {NoCommit, row[s].provision}

\* What keeps a step behind the gate although its dependencies are merged.
SyncOwed(s) ==
    /\ task = "workspace_ready" /\ ~dirty /\ DependenciesMerged(s)
    /\ row[s].status \in {"waiting_dependencies", "dependency_syncing"}

\* An assigned task gets its workspaces, and a step whose dependencies are
\* merged passes the gate, whatever fails and crashes between the files, the
\* commits, the rows and the worktrees.
WorkspacesSettle ==
    /\ []<>(task = "assigned" => Stranded)
    /\ \A s \in Steps : []<>~SyncOwed(s)

\* A drifted task stands still until an administrator repairs it.  A workspace
\* is called drifted only if its files or its worktree are not what the rows
\* say, if its step began outside the gate, if its commit has no checkpoint or
\* one of an earlier lease, if the step moves while it is looked at, or if one
\* of the reads of that look failed.
Misplaced(s) ==
    \/ ~Registered(s)
    \/ tree[s].work = "unrecorded"
    \/ tree[s].work = "none" /\ tree[s].main # row[s].provision
    \/ tree[s].main < row[s].provision
    \/ s \in unsynced
    \/ step[s].since > 0
DriftHasCause ==
    [][\A w \in Runners :
          LET s == runner[w].item
          IN  ~runner[w].drifted /\ runner'[w].drifted =>
                  Misplaced(s) \/ runner[w].state # step[s] \/ faults' > faults]_vars

=============================================================================
