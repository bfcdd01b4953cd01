------------------------------ MODULE StepLease ------------------------------
(***************************************************************************)
(* The life of one task step: the lease table that says which agent may    *)
(* write, the Git checkpoints that make the work recoverable, the worktree *)
(* registered for the step, and the review and merge that end it           *)
(* (src/server/internal/leases and src/server/internal/mr).                *)
(*                                                                         *)
(* Every database transaction is one atomic step: SQLite orders those of   *)
(* the server, which has a single connection, and of the agents' worker    *)
(* processes, which open the file themselves.  What a handler reads BEFORE *)
(* its transaction, and every Git command, is a step of its own, so that   *)
(* another handler may run in between; `lock', `resuming', `submitting'    *)
(* and `writing' are the handlers in flight.  lock.op is the handler that  *)
(* holds the per-project file lock (gitx.AcquireProjectLock).              *)
(*                                                                         *)
(* A lease id is random and belongs to one (step, version), so the version *)
(* stands for the id; `attempt' grows with every new lease exactly as      *)
(* lease_version does and is left out.  step.agent stands for the          *)
(* agent_name of task_steps, task_assignments and project_workspaces,      *)
(* which the same transaction always updates together.  Deadlines are      *)
(* counted down: ttl and wait are what is left of expires_at and           *)
(* resume_deadline, 0 meaning that the instant has passed.                 *)
(*                                                                         *)
(* A definition marked "Mutant" is the one after it with a plausible bug;  *)
(* the specification does not use it.                                      *)
(***************************************************************************)
EXTENDS Integers, Sequences

CONSTANTS
  Agents,         \* agents of the registry that are online with project access
  NoAgent,        \* "no handoff prepared"
  TTL,            \* LeaseTTL, in ticks
  Window,         \* ResumeWindow, in ticks
  MaxVersion,     \* bound on the leases issued for the step
  MaxCheckpoint,  \* bound on the rows of task_checkpoints
  MaxCommit       \* bound on the commits made in the step's worktrees

ASSUME StepLeaseAssumption ==
  /\ Agents # {} /\ NoAgent \notin Agents
  /\ TTL \in Nat \ {0} /\ Window \in Nat \ {0}
  /\ MaxVersion \in Nat \ {0} /\ MaxCheckpoint \in Nat /\ MaxCommit \in Nat

VARIABLES
  task,         \* tasks.status, as far as a handoff changes it
  step,         \* the task_steps row
  leases,       \* task_step_leases, by lease version
  checkpoints,  \* task_checkpoints, in id order
  workspace,    \* the project_workspaces row and its worktree
  commits,      \* number of the newest commit
  assignment,   \* task_assignments.status
  mr,           \* the newest merge request of the step
  main,         \* source commits merged into main
  prepared,     \* by old lease: its step_reassignments row in 'preparing'
  lock,         \* the handler holding the project lock
  resuming,     \* a Resume between its validation and its transaction
  submitting,   \* a SubmitReport between authorizeSubmission and its transaction
  writing       \* a WriteFile between Authorize and the rename

vars == <<task, step, leases, checkpoints, workspace, commits, assignment, mr,
          main, prepared, lock, resuming, submitting, writing>>

Versions == 1..MaxVersion
LeaseStatus == {"none", "active", "review", "interrupted", "frozen",
                "revoked", "completed"}
StepStatus == {"assigned", "in_progress", "checkpointed", "interrupted",
               "blocked", "review", "completed"}
CheckpointOps == {"commit", "record", "context"}
HandoffOps == {"handoff", "handoff_marked"}
MergeOps == {"merge_checked", "merge_done"}
LockOps == {"free", "block"} \cup CheckpointOps \cup HandoffOps \cup MergeOps

StepRow == [status : StepStatus, lease : 0..MaxVersion, version : 0..MaxVersion,
            agent : Agents, checkpoint : 0..MaxCheckpoint]
LeaseRow == [status : LeaseStatus, agent : Agents \cup {NoAgent},
             ttl : 0..TTL, wait : 0..Window]
Checkpoint == [lease : Versions, commit : 0..MaxCommit, clean : BOOLEAN]
WorkspaceRow == [tree : 0..MaxVersion, base : 0..MaxCommit,
                 head : 0..MaxCommit, dirty : BOOLEAN]
MRRow == [status : {"none", "pending_review", "approved", "changes_requested",
                    "merged"},
          lease : 0..MaxVersion, commit : 0..MaxCommit]
Preparation == [agent : Agents \cup {NoAgent}, checkpoint : 0..MaxCheckpoint]
Holder == [op : LockOps, lease : 0..MaxVersion, agent : Agents \cup {NoAgent},
           arg : Nat, age : 0..TTL]

Lease(status, agent, ttl, wait) ==
  [status |-> status, agent |-> agent, ttl |-> ttl, wait |-> wait]

\* The handler `op' takes the project lock for a lease.
Hold(op, lease, agent, arg) ==
  [op |-> op, lease |-> lease, agent |-> agent, arg |-> arg, age |-> 0]

Free == Hold("free", 0, NoAgent, 0)
NoResume == [lease |-> 0, age |-> 0]
NoSubmit == [lease |-> 0, commit |-> 0]
NoWrite == [lease |-> 0, tree |-> 0]
NotPrepared == [agent |-> NoAgent, checkpoint |-> 0]

Init ==
  /\ task = "workspace_ready"
  /\ \E a \in Agents :
       step = [status |-> "assigned", lease |-> 0, version |-> 0, agent |-> a,
               checkpoint |-> 0]
  /\ leases = [v \in Versions |-> Lease("none", NoAgent, 0, 0)]
  /\ checkpoints = << >>
  /\ workspace = [tree |-> 0, base |-> 0, head |-> 0, dirty |-> FALSE]
  /\ commits = 0
  /\ assignment = "assigned"
  /\ mr = [status |-> "none", lease |-> 0, commit |-> 0]
  /\ main = {}
  /\ prepared = [v \in Versions |-> NotPrepared]
  /\ lock = Free
  /\ resuming = NoResume
  /\ submitting = NoSubmit
  /\ writing = NoWrite

-----------------------------------------------------------------------------
(* Leases *)

\* A new row for version v.
Issued(v, a) == [leases EXCEPT ![v] = Lease("active", a, TTL, 0)]

\* The row of version v gets another status and other deadlines.
Moved(v, status, ttl, wait) ==
  [leases EXCEPT ![v] = Lease(status, @.agent, ttl, wait)]

\* The row leaves the statuses whose deadlines are read.
Ended(v, status) == Moved(v, status, 0, 0)

\* The check every write makes: the lease is active and has not expired.
Authorized(v) == leases[v].status = "active" /\ leases[v].ttl > 0

\* Mutant: a deadline in the past.
LeftOver(d, age) == d - age

\* What is left of a deadline d counted from an instant `age' ticks ago.
Left(d, age) == IF age < d THEN d - age ELSE 0

Acquire ==
  /\ task = "workspace_ready"
  /\ step.lease = 0 /\ step.status = "assigned"
  /\ step.version < MaxVersion
  /\ LET v == step.version + 1 IN
     /\ step' = [step EXCEPT !.status = "in_progress", !.lease = v, !.version = v]
     /\ leases' = Issued(v, step.agent)
  /\ UNCHANGED <<task, checkpoints, workspace, commits, assignment, mr, main,
                 prepared, lock, resuming, submitting, writing>>

\* A lease in review keeps being answered without being renewed.
Heartbeat(v) ==
  /\ Authorized(v)
  /\ step.lease = v /\ step.version = v
  /\ leases' = Moved(v, "active", TTL, 0)
  /\ UNCHANGED <<task, step, checkpoints, workspace, commits, assignment, mr,
                 main, prepared, lock, resuming, submitting, writing>>

\* Mutant: the scan does not know that a checkpointed step is in progress.
InterruptUncheckpointed(v) ==
  /\ leases[v].status = "active" /\ leases[v].ttl = 0
  /\ step.lease = v /\ step.version = v
  /\ step.status = "in_progress"
  /\ leases' = Moved(v, "interrupted", 0, Window)
  /\ step' = [step EXCEPT !.status = "interrupted"]
  /\ UNCHANGED <<task, checkpoints, workspace, commits, assignment, mr, main,
                 prepared, lock, resuming, submitting, writing>>

\* The transaction re-reads both rows, so the list of candidates that the
\* scan read before adds no condition of its own.
InterruptExpired(v) ==
  /\ leases[v].status = "active" /\ leases[v].ttl = 0
  /\ step.lease = v /\ step.version = v
  /\ step.status \in {"in_progress", "checkpointed"}
  /\ leases' = Moved(v, "interrupted", 0, Window)
  /\ step' = [step EXCEPT !.status = "interrupted"]
  /\ UNCHANGED <<task, checkpoints, workspace, commits, assignment, mr, main,
                 prepared, lock, resuming, submitting, writing>>

ExtendResumeDeadline(v, w) ==
  /\ leases[v].status = "interrupted"
  /\ step.lease = v /\ step.version = v /\ step.status = "interrupted"
  /\ leases' = Moved(v, "interrupted", 0, w)
  /\ UNCHANGED <<task, step, checkpoints, workspace, commits, assignment, mr,
                 main, prepared, lock, resuming, submitting, writing>>

\* For every caller of the freeze: an administrator, the executor's supervisor
\* when it cannot run the step, and a worker that fails.  The step's status is
\* not read, nor which lease the caller knew.
FreezeStep ==
  /\ step.lease # 0
  /\ leases[step.lease].status \in {"active", "interrupted"}
  /\ leases' = Ended(step.lease, "frozen")
  /\ step' = [step EXCEPT !.status = "blocked"]
  /\ UNCHANGED <<task, checkpoints, workspace, commits, assignment, mr, main,
                 prepared, lock, resuming, submitting, writing>>

\* The inherited checkpoint must be the frozen lease's own, and the worktree
\* must still show it; without a checkpoint the worktree is not looked at.
UnfreezeAccepts(c) ==
  c # 0 => /\ checkpoints[c].lease = step.lease /\ checkpoints[c].clean
           /\ workspace.head = checkpoints[c].commit /\ ~workspace.dirty

UnfreezeStep ==
  /\ step.status = "blocked" /\ step.lease # 0
  /\ leases[step.lease].status = "frozen"
  /\ UnfreezeAccepts(step.checkpoint)
  /\ step.version < MaxVersion
  /\ LET v == step.version + 1 IN
     /\ step' = [step EXCEPT !.status = "in_progress", !.lease = v, !.version = v]
     /\ leases' = Issued(v, step.agent)
  /\ UNCHANGED <<task, checkpoints, workspace, commits, assignment, mr, main,
                 prepared, lock, resuming, submitting, writing>>

-----------------------------------------------------------------------------
(* Resuming an interrupted lease *)

\* Checkpoint c is the newest one written under lease v.
NewestOf(c, v) ==
  /\ checkpoints[c].lease = v
  /\ \A d \in DOMAIN checkpoints : checkpoints[d].lease = v => d <= c

\* The worktree shows what the lease's newest checkpoint recorded; a lease
\* without a checkpoint of its own must show the provisioned baseline.
RecoveryMatches(v) ==
  \/ /\ \A c \in DOMAIN checkpoints : checkpoints[c].lease # v
     /\ workspace.head = workspace.base /\ ~workspace.dirty
  \/ \E c \in DOMAIN checkpoints :
       /\ NewestOf(c, v)
       /\ checkpoints[c].clean => workspace.head = checkpoints[c].commit
       /\ workspace.dirty = ~checkpoints[c].clean

BeginResume(v) ==
  /\ resuming = NoResume
  /\ leases[v].status = "interrupted" /\ leases[v].wait > 0
  /\ leases[v].agent = step.agent
  /\ RecoveryMatches(v)
  /\ resuming' = [lease |-> v, age |-> 0]
  /\ UNCHANGED <<task, step, leases, checkpoints, workspace, commits,
                 assignment, mr, main, prepared, lock, submitting, writing>>

\* Mutant: what the validation read is not read again.
CommitStaleResume ==
  LET v == resuming.lease IN
  /\ v # 0
  /\ leases' = Moved(v, "active", Left(TTL, resuming.age), 0)
  /\ step' = IF step.lease = v THEN [step EXCEPT !.status = "in_progress"] ELSE step
  /\ resuming' = NoResume
  /\ UNCHANGED <<task, checkpoints, workspace, commits, assignment, mr, main,
                 prepared, lock, submitting, writing>>

\* The new expiry is counted from the instant read before the validation, and
\* the deadline is compared with that instant too, so it always still holds.
CommitResume ==
  LET v == resuming.lease IN
  /\ v # 0
  /\ leases[v].status = "interrupted"
  /\ step.lease = v /\ step.version = v /\ step.status = "interrupted"
  /\ leases' = Moved(v, "active", Left(TTL, resuming.age), 0)
  /\ step' = [step EXCEPT !.status = "in_progress"]
  /\ resuming' = NoResume
  /\ UNCHANGED <<task, checkpoints, workspace, commits, assignment, mr, main,
                 prepared, lock, submitting, writing>>

\* The request ends without effect: conflict, cancellation or a crash.
AbandonResume ==
  /\ resuming # NoResume
  /\ resuming' = NoResume
  /\ UNCHANGED <<task, step, leases, checkpoints, workspace, commits,
                 assignment, mr, main, prepared, lock, submitting, writing>>

-----------------------------------------------------------------------------
(* The agent's files and checkpoints *)

\* WriteFile checks the lease, resolves the worktree, and renames the new
\* file into place later.
AuthorizeWrite(v) ==
  /\ writing = NoWrite
  /\ Authorized(v) /\ leases[v].agent = step.agent
  /\ writing' = [lease |-> v, tree |-> workspace.tree]
  /\ UNCHANGED <<task, step, leases, checkpoints, workspace, commits,
                 assignment, mr, main, prepared, lock, resuming, submitting>>

\* A handoff since then leaves the rename in a worktree that is no longer the
\* step's.
FinishWrite ==
  /\ writing # NoWrite
  /\ workspace' = [workspace EXCEPT !.dirty = @ \/ writing.tree = workspace.tree]
  /\ writing' = NoWrite
  /\ UNCHANGED <<task, step, leases, checkpoints, commits, assignment, mr, main,
                 prepared, lock, resuming, submitting>>

\* CreateGitCheckpoint commits the changed files before it asks for the row.
StageCommit(v) ==
  /\ lock = Free
  /\ Authorized(v) /\ leases[v].agent = step.agent
  /\ workspace.dirty
  /\ commits < MaxCommit /\ Len(checkpoints) < MaxCheckpoint
  /\ commits' = commits + 1
  /\ workspace' = [workspace EXCEPT !.head = commits + 1, !.dirty = FALSE]
  /\ lock' = Hold("commit", v, NoAgent, workspace.head)
  /\ UNCHANGED <<task, step, leases, checkpoints, assignment, mr, main,
                 prepared, resuming, submitting, writing>>

\* A checkpoint posted by the agent: of HEAD in a clean worktree ("record"),
\* or of uncommitted work with a summary only ("context").
BeginCheckpoint(v, op) ==
  /\ lock = Free
  /\ Authorized(v) /\ leases[v].agent = step.agent
  /\ workspace.dirty = (op = "context")
  /\ Len(checkpoints) < MaxCheckpoint
  /\ lock' = Hold(op, v, NoAgent, 0)
  /\ UNCHANGED <<task, step, leases, checkpoints, workspace, commits,
                 assignment, mr, main, prepared, resuming, submitting, writing>>

\* The transaction re-checks that the lease is active, not that it is unexpired.
PersistCheckpoint ==
  LET v == lock.lease
      clean == lock.op # "context"
      row == [lease |-> v, clean |-> clean,
              commit |-> IF clean THEN workspace.head ELSE 0] IN
  /\ lock.op \in CheckpointOps
  /\ leases[v].status = "active"
  /\ checkpoints' = Append(checkpoints, row)
  /\ step' = IF step.lease = v /\ step.version = v
             THEN [step EXCEPT !.status = "checkpointed",
                               !.checkpoint = Len(checkpoints) + 1]
             ELSE step
  /\ lock' = Free
  /\ UNCHANGED <<task, leases, workspace, commits, assignment, mr, main,
                 prepared, resuming, submitting, writing>>

\* The lease was lost or a write changed the worktree: the checkpoint is
\* refused, and the executor moves its commit back into the worktree.
RefuseCheckpoint ==
  /\ lock.op \in CheckpointOps
  /\ \/ ~Authorized(lock.lease)
     \/ workspace.dirty /\ lock.op # "context"
  /\ workspace' = IF lock.op = "commit"
                  THEN [workspace EXCEPT !.head = lock.arg, !.dirty = TRUE]
                  ELSE workspace
  /\ lock' = Free
  /\ UNCHANGED <<task, step, leases, checkpoints, commits, assignment, mr, main,
                 prepared, resuming, submitting, writing>>

-----------------------------------------------------------------------------
(* Handing the step to another agent *)

\* The checkpoint a handoff starts from: the interrupted lease's own, clean.
HandoffCheckpoint(c, v) ==
  c \in DOMAIN checkpoints /\ checkpoints[c].lease = v /\ checkpoints[c].clean

\* Reassign reads the rows, records its preparation and adds the new worktree.
\* An earlier preparation that never finished must agree in every field.
BeginReassign(a, c, immediate) ==
  LET v == step.lease IN
  /\ lock = Free
  /\ v # 0 /\ leases[v].status = "interrupted"
  /\ immediate \/ leases[v].wait = 0
  /\ HandoffCheckpoint(c, v)
  /\ prepared[v] \in {NotPrepared, [agent |-> a, checkpoint |-> c]}
  /\ step.version < MaxVersion
  /\ prepared' = [prepared EXCEPT ![v] = [agent |-> a, checkpoint |-> c]]
  /\ lock' = Hold("handoff", v, a, c)
  /\ UNCHANGED <<task, step, leases, checkpoints, workspace, commits,
                 assignment, mr, main, resuming, submitting, writing>>

\* Without such a checkpoint Reassign goes on to block the step.
RefuseReassign(c, immediate) ==
  LET v == step.lease IN
  /\ lock = Free
  /\ v # 0 /\ leases[v].status = "interrupted"
  /\ immediate \/ leases[v].wait = 0
  /\ ~HandoffCheckpoint(c, v)
  /\ lock' = Hold("block", v, NoAgent, 0)
  /\ UNCHANGED <<task, step, leases, checkpoints, workspace, commits,
                 assignment, mr, main, prepared, resuming, submitting, writing>>

\* Mutant: the step is matched by its own id.
MarkStepBlocked ==
  /\ lock.op = "block"
  /\ step' = [step EXCEPT !.status = "blocked"]
  /\ lock' = Free
  /\ UNCHANGED <<task, leases, checkpoints, workspace, commits, assignment, mr,
                 main, prepared, resuming, submitting, writing>>

\* markRecoveryBlocked: matches the step by its lease id and nothing else.
MarkRecoveryBlocked ==
  /\ lock.op = "block"
  /\ step' = IF step.lease = lock.lease THEN [step EXCEPT !.status = "blocked"]
                                        ELSE step
  /\ lock' = Free
  /\ UNCHANGED <<task, leases, checkpoints, workspace, commits, assignment, mr,
                 main, prepared, resuming, submitting, writing>>

MarkTaskHandoffPreparing ==
  /\ lock.op = "handoff"
  /\ task \in {"workspace_ready", "handoff_preparing"}
  /\ task' = "handoff_preparing"
  /\ lock' = [lock EXCEPT !.op = "handoff_marked"]
  /\ UNCHANGED <<step, leases, checkpoints, workspace, commits, assignment, mr,
                 main, prepared, resuming, submitting, writing>>

\* Mutant: the new agent gets the old agent's worktree.
SameWorktree(c, v) ==
  [tree |-> workspace.tree, base |-> checkpoints[c].commit,
   head |-> checkpoints[c].commit, dirty |-> FALSE]

\* The worktree of the new agent's branch, created at checkpoint c.
HandoffWorktree(c, v) ==
  [tree |-> v, base |-> checkpoints[c].commit, head |-> checkpoints[c].commit,
   dirty |-> FALSE]

\* One transaction: revoke the old lease, issue the next one to the new agent,
\* and move assignment, workspace and step to it.
CommitReassign ==
  LET v == lock.lease
      new == step.version + 1
      c == lock.arg IN
  /\ lock.op = "handoff_marked"
  /\ leases[v].status = "interrupted"
  /\ step.lease = v /\ step.version = v
  /\ prepared[v] = [agent |-> lock.agent, checkpoint |-> c]
  /\ task = "handoff_preparing"
  /\ leases' = [Ended(v, "revoked") EXCEPT ![new] =
                  Lease("active", lock.agent, Left(TTL, lock.age), 0)]
  /\ step' = [status |-> "in_progress", lease |-> new, version |-> new,
              agent |-> lock.agent, checkpoint |-> c]
  /\ workspace' = HandoffWorktree(c, new)
  /\ assignment' = "assigned"
  /\ prepared' = [prepared EXCEPT ![v] = NotPrepared]
  /\ task' = "workspace_ready"
  /\ lock' = Free
  /\ UNCHANGED <<checkpoints, commits, mr, main, resuming, submitting, writing>>

\* Any error after the preparation: the deferred rollback resets the metadata
\* commit and the task's status; the preparation row stays.
AbortReassign ==
  /\ lock.op \in HandoffOps
  /\ task' = IF lock.op = "handoff_marked" THEN "workspace_ready" ELSE task
  /\ lock' = Free
  /\ UNCHANGED <<step, leases, checkpoints, workspace, commits, assignment, mr,
                 main, prepared, resuming, submitting, writing>>

-----------------------------------------------------------------------------
(* Report, review and merge *)

\* authorizeSubmission: the lease's newest checkpoint is the worktree's HEAD.
BeginSubmit(v, c) ==
  /\ submitting = NoSubmit
  /\ step.lease = v /\ step.version = v /\ leases[v].agent = step.agent
  /\ Authorized(v)
  /\ NewestOf(c, v) /\ checkpoints[c].clean
  /\ checkpoints[c].commit = workspace.head
  /\ submitting' = [lease |-> v, commit |-> checkpoints[c].commit]
  /\ UNCHANGED <<task, step, leases, checkpoints, workspace, commits,
                 assignment, mr, main, prepared, lock, resuming, writing>>

\* Mutant: any clean checkpoint of lease v at this commit will do.
SubmittedAnyCheckpoint(v, commit) ==
  \E c \in DOMAIN checkpoints :
    checkpoints[c] = [lease |-> v, commit |-> commit, clean |-> TRUE]

\* The step's checkpoint is the newest clean one of lease v at this commit.
SubmittedCheckpoint(v, commit) ==
  LET Of(c) == /\ checkpoints[c].lease = v /\ checkpoints[c].clean
               /\ checkpoints[c].commit = commit IN
  /\ step.checkpoint # 0 /\ Of(step.checkpoint)
  /\ \A d \in DOMAIN checkpoints : Of(d) => d <= step.checkpoint

SubmitReport ==
  LET v == submitting.lease IN
  /\ v # 0
  /\ mr.status \in {"none", "changes_requested"}
  /\ step.agent = leases[v].agent
  /\ SubmittedCheckpoint(v, submitting.commit)
  /\ step.status \in {"in_progress", "checkpointed", "review"}
  /\ assignment \in {"assigned", "review"}
  /\ leases[v].status = "active"
  /\ mr' = [status |-> "pending_review", lease |-> v, commit |-> submitting.commit]
  /\ step' = [step EXCEPT !.status = "review"]
  /\ assignment' = "review"
  /\ leases' = Ended(v, "review")
  /\ submitting' = NoSubmit
  /\ UNCHANGED <<task, checkpoints, workspace, commits, main, prepared, lock,
                 resuming, writing>>

AbandonSubmit ==
  /\ submitting # NoSubmit
  /\ submitting' = NoSubmit
  /\ UNCHANGED <<task, step, leases, checkpoints, workspace, commits,
                 assignment, mr, main, prepared, lock, resuming, writing>>

\* takeover: the manager decides in the project lead's place, which the code
\* allows only when the merge request's lease is no longer in review.
Reviewable(takeover) ==
  /\ mr.lease # 0
  /\ takeover => leases[mr.lease].status \in {"frozen", "revoked", "interrupted"}
  /\ step.lease = mr.lease /\ step.version = mr.lease

Approve(takeover) ==
  /\ mr.status = "pending_review"
  /\ Reviewable(takeover)
  /\ leases[mr.lease].status \in {"active", "review", "interrupted"}
       \cup IF takeover THEN {"frozen", "revoked"} ELSE {}
  /\ step.status \in {"review", "interrupted"}
       \cup IF takeover THEN {"blocked"} ELSE {}
  /\ mr' = [mr EXCEPT !.status = "approved"]
  /\ leases' = Ended(mr.lease, "review")
  /\ step' = [step EXCEPT !.status = "review"]
  /\ UNCHANGED <<task, checkpoints, workspace, commits, assignment, main,
                 prepared, lock, resuming, submitting, writing>>

RequestChanges(takeover) ==
  /\ mr.status \in {"pending_review", "approved"}
  /\ Reviewable(takeover)
  /\ leases[mr.lease].status \in {"active", "review", "interrupted"}
  /\ step.status \in {"review", "interrupted"}
  /\ assignment = "review"
  /\ mr' = [mr EXCEPT !.status = "changes_requested"]
  /\ leases' = Ended(mr.lease, "revoked")
  /\ step' = [step EXCEPT !.status = "assigned", !.lease = 0, !.checkpoint = 0]
  /\ assignment' = "assigned"
  /\ UNCHANGED <<task, checkpoints, workspace, commits, main, prepared, lock,
                 resuming, submitting, writing>>

\* Merge's checks under the project lock.  When main already has the merge
\* commit only the rows are left to write.
CheckMerge ==
  /\ lock = Free
  /\ mr.status = "approved"
  /\ leases[mr.lease].status = "review" /\ step.status = "review"
  /\ workspace.head = mr.commit
  /\ lock' = Hold(IF mr.commit \in main THEN "merge_done" ELSE "merge_checked",
                  mr.lease, NoAgent, mr.commit)
  /\ UNCHANGED <<task, step, leases, checkpoints, workspace, commits,
                 assignment, mr, main, prepared, resuming, submitting, writing>>

\* The baseline is on main already: Git then makes no merge commit.
GitMerge ==
  /\ lock.op = "merge_checked" /\ lock.arg # 0
  /\ main' = main \cup {lock.arg}
  /\ lock' = [lock EXCEPT !.op = "merge_done"]
  /\ UNCHANGED <<task, step, leases, checkpoints, workspace, commits,
                 assignment, mr, prepared, resuming, submitting, writing>>

\* ReconcileMerge asks only that main has the merge commit.
ReconcileMerge ==
  /\ lock = Free
  /\ mr.status = "approved" /\ mr.commit \in main
  /\ lock' = Hold("merge_done", mr.lease, NoAgent, mr.commit)
  /\ UNCHANGED <<task, step, leases, checkpoints, workspace, commits,
                 assignment, mr, main, prepared, resuming, submitting, writing>>

\* The merge request is found by its id: the one that lease submitted.
PersistMerged ==
  /\ lock.op = "merge_done"
  /\ mr.lease = lock.lease /\ mr.status = "approved"
  /\ assignment \in {"assigned", "review"}
  /\ mr' = [mr EXCEPT !.status = "merged"]
  /\ step' = [step EXCEPT !.status = "completed"]
  /\ assignment' = "completed"
  /\ leases' = Ended(mr.lease, "completed")
  /\ lock' = Free
  /\ UNCHANGED <<task, checkpoints, workspace, commits, main, prepared,
                 resuming, submitting, writing>>

\* Mutant: nothing is given up after Git has merged.
AbortUnmerged ==
  /\ lock.op = "merge_checked"
  /\ lock' = Free
  /\ UNCHANGED <<task, step, leases, checkpoints, workspace, commits,
                 assignment, mr, main, prepared, resuming, submitting, writing>>

\* A merge that conflicts or merges nothing is given up; a request that is no
\* longer approved keeps its row, whatever Git already did.
AbortMerge ==
  /\ \/ lock.op = "merge_checked"
     \/ lock.op = "merge_done" /\ mr.status # "approved"
  /\ lock' = Free
  /\ UNCHANGED <<task, step, leases, checkpoints, workspace, commits,
                 assignment, mr, main, prepared, resuming, submitting, writing>>

-----------------------------------------------------------------------------
(* Time and crashes *)

\* The process holding the project lock dies: the kernel drops the flock, no
\* deferred rollback runs.
CrashLockHolder ==
  /\ lock # Free
  /\ lock' = Free
  /\ UNCHANGED <<task, step, leases, checkpoints, workspace, commits,
                 assignment, mr, main, prepared, resuming, submitting, writing>>

Tick ==
  /\ leases' = [v \in Versions |->
                  Lease(leases[v].status, leases[v].agent,
                        Left(leases[v].ttl, 1), Left(leases[v].wait, 1))]
  /\ resuming' = IF resuming.lease # 0 /\ resuming.age < TTL
                 THEN [resuming EXCEPT !.age = @ + 1] ELSE resuming
  /\ lock' = IF lock.op \in HandoffOps /\ lock.age < TTL
             THEN [lock EXCEPT !.age = @ + 1] ELSE lock
  /\ UNCHANGED <<task, step, checkpoints, workspace, commits, assignment, mr,
                 main, prepared, submitting, writing>>

LeaseStep(v) ==
  \/ Heartbeat(v) \/ InterruptExpired(v)
  \/ \E w \in 1..Window : ExtendResumeDeadline(v, w)
  \/ BeginResume(v) \/ AuthorizeWrite(v) \/ StageCommit(v)
  \/ \E op \in {"record", "context"} : BeginCheckpoint(v, op)
  \/ \E c \in DOMAIN checkpoints : BeginSubmit(v, c)

LockStep ==
  \/ PersistCheckpoint \/ RefuseCheckpoint
  \/ MarkRecoveryBlocked \/ MarkTaskHandoffPreparing \/ CommitReassign
  \/ AbortReassign \/ GitMerge \/ PersistMerged \/ AbortMerge

\* The request names a checkpoint or leaves the step's own; 0 is an id that does
\* not exist, or the step that has none.
Handoff ==
  \E c \in 0..MaxCheckpoint, immediate \in BOOLEAN :
    \/ \E a \in Agents : BeginReassign(a, c, immediate)
    \/ RefuseReassign(c, immediate)

Next ==
  \/ Acquire \/ FreezeStep \/ UnfreezeStep \/ Handoff
  \/ \E v \in Versions : LeaseStep(v)
  \/ CommitResume \/ AbandonResume \/ FinishWrite
  \/ SubmitReport \/ AbandonSubmit
  \/ \E takeover \in BOOLEAN : Approve(takeover) \/ RequestChanges(takeover)
  \/ CheckMerge \/ ReconcileMerge
  \/ LockStep \/ CrashLockHolder \/ Tick

Spec == Init /\ [][Next]_vars

-----------------------------------------------------------------------------
(* What the step and its lease promise each other *)

TypeOK ==
  /\ task \in {"workspace_ready", "handoff_preparing"}
  /\ step \in StepRow
  /\ leases \in [Versions -> LeaseRow]
  /\ checkpoints \in Seq(Checkpoint) /\ Len(checkpoints) <= MaxCheckpoint
  /\ workspace \in WorkspaceRow
  /\ commits \in 0..MaxCommit
  /\ assignment \in {"assigned", "review", "completed"}
  /\ mr \in MRRow
  /\ main \subseteq 0..MaxCommit
  /\ prepared \in [Versions -> Preparation]
  /\ lock \in Holder
  /\ resuming \in [lease : 0..MaxVersion, age : 0..TTL]
  /\ submitting \in [lease : 0..MaxVersion, commit : 0..MaxCommit]
  /\ writing \in [lease : 0..MaxVersion, tree : 0..MaxVersion]

\* Leases are issued in order, and the step points at none or at the last one.
VersionFrontier ==
  /\ step.lease \in {0, step.version}
  /\ \A v \in Versions : leases[v].status = "none" <=> v > step.version

\* A lease the step no longer points at was given up for good.
SupersededLeasesAreOver ==
  \A v \in 1..step.version : v # step.lease =>
    leases[v].status \in {"frozen", "revoked"}

\* At most one lease can write, it is the newest, and the agent holding it is
\* the one the step, its assignment and its worktree are registered for:
\* whatever order heartbeats, expiry, resume, freeze, handoff, report, review
\* and merge commit in.
SingleWriter ==
  \A v \in Versions : leases[v].status = "active" =>
    /\ v = step.lease /\ v = step.version
    /\ leases[v].agent = step.agent

\* The statuses a step may have under its current lease.
Beside(leaseStatus) ==
  CASE leaseStatus = "active"      -> {"in_progress", "checkpointed", "blocked"}
    [] leaseStatus = "interrupted" -> {"interrupted", "blocked"}
    [] leaseStatus = "review"      -> {"review", "blocked"}
    [] leaseStatus = "frozen"      -> {"blocked"}
    [] leaseStatus = "completed"   -> {"completed"}
    [] OTHER                       -> {}

\* The two tables never disagree about where the step is, although some of
\* the updates name no expected status.
StepFollowsLease ==
  IF step.lease = 0 THEN step.status = "assigned"
                    ELSE step.status \in Beside(leases[step.lease].status)

MROpen == mr.status \in {"pending_review", "approved"}

\* While a merge request is open its lease stays in review and stays the
\* step's: nobody can take the step over, resume it or write to its branch
\* under the reviewer.
OpenReviewPinsLease ==
  /\ MROpen => /\ mr.lease # 0 /\ step.lease = mr.lease
               /\ leases[mr.lease].status = "review"
               /\ assignment = "review"
  /\ \A v \in Versions : leases[v].status = "review" => MROpen /\ mr.lease = v

\* What is reviewed is the commit of the step's own clean checkpoint, written
\* under the lease that submitted it.
ReviewedWorkIsCheckpointed ==
  MROpen => /\ step.checkpoint \in DOMAIN checkpoints
            /\ checkpoints[step.checkpoint] =
                 [lease |-> mr.lease, commit |-> mr.commit, clean |-> TRUE]

\* A merge request is merged only with its commit on main, and the step, its
\* lease and its assignment are closed with it.
MergedWorkIsOnMain ==
  mr.status = "merged" =>
    /\ mr.commit \in main
    /\ mr.lease # 0 /\ step.lease = mr.lease
    /\ leases[mr.lease].status = "completed"
    /\ step.status = "completed" /\ assignment = "completed"

\* The tables agree about the step: leases are numbered without a gap, what was
\* followed is over, and the step's status is one its current lease allows.
LeaseTablesAgree ==
  VersionFrontier /\ SupersededLeasesAreOver /\ StepFollowsLease

\* From its report to its merge a merge request, its lease, its checkpoint, its
\* assignment and main tell the same story, whoever reviews or merges meanwhile.
MergeRequestsAgree ==
  OpenReviewPinsLease /\ ReviewedWorkIsCheckpointed /\ MergedWorkIsOnMain

\* Every lease since the worktree was created belongs to the step's agent, so
\* a write that was authorised before a handoff never reaches the worktree of
\* the agent that took over.
WritesStayWithOwner ==
  /\ workspace.tree <= step.version
  /\ \A v \in 1..step.version :
       v >= workspace.tree => leases[v].agent = step.agent
  /\ (writing # NoWrite /\ writing.tree = workspace.tree) =>
       leases[writing.lease].agent = step.agent

\* A lease that was followed by another one never changes its status again: no
\* late resume, freeze, report or review brings it back.
SupersededLeasesStayOver ==
  [][\A v \in Versions : v < step.version =>
       leases'[v].status = leases[v].status]_vars

\* A completed step is final, also for the handlers that were under way.
CompletedIsFinal ==
  [][step.status = "completed" => step' = step /\ mr' = mr /\ UNCHANGED assignment]_vars

\* A merge request is decided once, and merged only with its commit on main,
\* although a review does not wait for the merge under way; only a returned
\* one is followed by another report.
Decision == INSTANCE MergeDecision WITH
              status <- mr.status, landed <- mr.commit \in main

DecisionsAreFinal ==
  [][IF mr'.lease = mr.lease
     THEN [Decision!Next]_(Decision!vars)
     ELSE mr.status \in {"none", "changes_requested"} /\ mr'.status = "pending_review"]_vars

\* What is over stays over: superseded leases, completed steps and decided
\* merge requests.
EndedStaysEnded == SupersededLeasesStayOver /\ CompletedIsFinal /\ DecisionsAreFinal

-----------------------------------------------------------------------------
(* The step as its owner sees it *)

Phase ==
  IF step.lease = 0 THEN "idle"
  ELSE CASE leases[step.lease].status = "active"      -> "writing"
         [] leases[step.lease].status = "interrupted" -> "paused"
         [] leases[step.lease].status = "frozen"      -> "frozen"
         [] leases[step.lease].status = "review"      -> "reviewing"
         [] leases[step.lease].status = "completed"   -> "done"
         [] OTHER                                     -> "lost"

Ownership == INSTANCE StepOwnership WITH
               Owners <- Agents, epoch <- step.version, phase <- Phase,
               owner <- step.agent

\* The tables implement exclusive, numbered ownership of the step.
ImplementsOwnership == Ownership!Spec

=============================================================================
