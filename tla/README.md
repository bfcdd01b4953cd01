# Verification of the wanxiang server

The server in `src/server` runs a team of coding agents. A task is planned into
steps, every step is assigned to an agent and gets a Git worktree, a worker
process edits that worktree under a lease, the result is reviewed and merged
into the project's `main`, and the merged task is offered to the user, who
accepts it or sends it back. All state is in one SQLite database and in the Git
repositories of the projects. Handlers of the HTTP API, eight polling workers of
the server and the agents' worker processes change both at the same time, and
the processes may stop between any two of their steps. That is where this
program can go wrong, and what the modules below are about.

This directory holds TLA+ models of that program, the TLC runs that check them
and the proofs that TLAPS checks. `PROJECT.json` maps every definition to the
lines it models and lists the runs, the theorems, the hazards and the places
where code and documents disagree.

## The parts of the system

Paths are relative to `src/server/internal`.

| Part | State it keeps | Operations | What is hard about it | What makes it correct |
|---|---|---|---|---|
| Step leases (`leases`) | `task_step_leases`, lease columns of `task_steps` | Acquire, Heartbeat, InterruptExpired, Resume, Extend, Freeze, Unfreeze, Authorize | handlers read, look at the worktree, then write; deadlines | one writer per step; a lease that was followed by another never returns |
| Checkpoints (`leases/checkpoint.go`, `executor/checkpoint.go`) | `task_checkpoints`, HEAD of the worktree | create, confirm an uncertain commit, roll Git back | Git first, row later; the lease may go in between | what is reviewed or handed over is a recorded commit |
| Handoffs (`leases/handoff.go`) | `step_reassignments`, worktree, access documents on `main`, `tasks.status` | Reassign, block | preparation, Git, transaction and deferred rollback; crashes | ownership moves at once or not at all |
| Reports, reviews, merges (`mr`) | `merge_requests`, `completion_reports`, `main` | submit, review, merge, reconcile | Git and rows again; two reviewers; manager takeover | only approved work is merged; review pins the lease |
| Executor (`executor`) | `executor_runs`, a map of active workers, processes | scan, claim, prepare, launch, confirm, wait, run, finish | several servers on one database, claims that expire, crashes | a lease is run by one process; limits hold |
| Review jobs (`mr/review_worker.go`) | `mr_review_jobs` | reconcile, claim, review, merge, retry, block, complete | five-minute reclaim without a token | a job ends with a decision, none is forgotten |
| Pipelines (`pipelines`) | `pipeline_runs`, `_steps`, `_rollbacks`, `main` | start, confirm, step, release, recover, roll back | non-reversible steps, restarts, lost claims | a release is never repeated unconfirmed; a rollback ends |
| Planning (`planning`) | `tasks.planning_*`, `task_plan_versions`, steps | claim, persist, block, recover, reset | an attempt that is overtaken | one initial plan |
| Deliveries (`deliveries`) | `delivery_snapshots`, `manager_notifications`, `acceptance_decisions`, `rework_rounds` | snapshot, decide, plan the rework | the round and its plan in two transactions; claims by status | what is offered is whole; a round ends |
| Assignments (`assignments`, `matching`) | `task_assignments`, decisions, agent files | assign, override | grants in files, rows in the database, commits of unknown outcome | an assigned task has an agent with access for every step |
| Workspaces (`workspaces`) | `project_workspaces`, worktrees, metadata commits | provision, sync dependencies, reconcile, repair, clean up | four places that no transaction joins; restart in the middle | a step starts on what it depends on; only damaged worktrees drift |
| Tasks, issues (`tasks`, `issues`) | `tasks.status`, `issues` | create, update status | compare-and-set beside the workers' updates | legal transitions |
| Project lock (`gitx`) | one lock file per project | acquire, release | held across transactions, lost with the process | mutual exclusion, always released |
| Event bus (`events`) | `runtime_events`, subscribers | publish, subscribe | notification after commit may be dropped | nothing depends on delivery |
| Agents (`agents`) | `agent_registry`, env files, the launcher's heartbeat set | save, probe, heartbeat, supervise, restore, close | one status column written by everybody, after calls to the provider | the status follows the provider; a closed launcher is quiet |
| Server (`app`, `db`, `httpapi`, `auth`, `config`, `files`) | schema, wiring, sessions | start and stop the workers in order | | |

How they meet: the supervisor acquires and resumes leases and starts workers;
a worker heartbeats, writes files, takes checkpoints and submits the report that
puts its lease in review; the review worker and the leads decide and merge; a
merge that completes the last step of a task raises the notification from which
a delivery snapshot is built; a rejected snapshot starts the planning of the
next round. Everything that runs Git in a project's repository takes the project
lock, and nothing else does.

## Plan

In this order, the most important behaviour first:

1. `StepLease`: leases, checkpoints, handoffs, reports, reviews and merges of one
   step, with `StepOwnership` as the abstract specification. Done, with proofs.
2. `Executor`: claims, launches and worker processes, over `StepOwnership`. Done,
   with proofs.
3. `Pipelines`: steps, releases, recovery after a restart, rollbacks. Done, with
   proofs.
4. `ReviewJobs`: the review worker's jobs beside the reviews of `StepLease`, with
   `MergeDecision` as the abstract specification of a merge request. Done, with
   proofs.
5. `Planning` and `TaskLife`: planning attempts, snapshots, decisions and rounds,
   with `DeliveryCycle` as the abstract specification. Done, with proofs.
6. `Assignments` and `Workspaces`. Done, with proofs.
7. `AgentRuntime`: the status of an agent. Done, with proofs.
8. Open: a composition of `Executor`, `Workspaces` and `StepLease` that carries the
   worktree from provisioning through a reworked step: the recovery check of a
   step returned with changes expects the provision commit although HEAD is the
   reviewed one.

## The modules

| Module | Contents |
|---|---|
| `StepLease` | the detailed model of one step, its invariants and action properties |
| `StepOwnership` | abstract specification: numbered epochs with one writer each |
| `MCStepLease` | symmetry for TLC |
| `StepLeaseLive` | its fairness and liveness |
| `StepLeaseProofs` | the inductive invariant, the safety theorems, and that `StepLease` implements `StepOwnership` |
| `Executor`, `MCExecutor` | supervisors, claims and workers |
| `ExecutorProofs` | the executor's invariant, its safety theorems and the capacity argument |
| `Pipelines`, `MCPipelines` | the pipeline runs of a project, their workers, releases and rollbacks |
| `PipelinesProofs` | the pipelines' invariant and all their safety properties |
| `ReviewJobs`, `MCReviewJobs` | the automatic review and merge of merge requests |
| `MergeDecision` | abstract specification: one merge request is decided once and merged when its work is on `main`; implemented by `ReviewJobs` and, for the step's newest request, by `StepLease` |
| `ReviewJobsProofs` | their invariants (what a worker knows, who holds the lock); every merge request is a `MergeDecision` |
| `Planning` | the initial plan of a task and its workers |
| `TaskLife`, `MCTaskLife` | extends `Planning` with deliveries, decisions and rework |
| `DeliveryCycle` | abstract specification: rounds that are planned, delivered and decided |
| `TaskLifeProofs` | their invariant: deliveries are whole, the first plan is stored once; the task is a `DeliveryCycle` |
| `Assignments`, `MCAssignments` | agents for the steps of a task, their access and overrides |
| `AssignmentsProofs` | its invariant: an assigned task is complete, committed access is kept |
| `Workspaces`, `MCWorkspaces` | the worktrees of a task: provisioning, dependencies, reconciliation |
| `WorkspacesProofs` | its invariant: the dependency gate holds, a drift has a cause |
| `AgentRuntime`, `MCAgentRuntime` | the status of an agent, its heartbeat and its restoration |
| `AgentRuntimeProofs` | its types, and that a closed launcher is quiet |

### StepLease

One step is enough because every handler names one step, and different steps of
a project meet only in the project lock: `AbortReassign`, `AbortMerge` and
`CrashLockHolder` end any holder at any time, so other steps holding the lock in
between add no behaviour to this one.

The grain is that of the code. A database transaction is one action; what a
handler reads before its transaction, and each Git command, is an action of its
own. A `Resume` is `BeginResume` (the row, the deadline and the worktree are
looked at) and `CommitResume` (the conditional updates); a `Reassign` is
`BeginReassign`, `MarkTaskHandoffPreparing` and `CommitReassign`, each of which
may be followed by `AbortReassign` or by a crash. `lock`, `resuming`,
`submitting` and `writing` hold what the handler in flight remembers. SQLite
serialises the transactions.

What the variables stand for is said beside their declarations. Abstractions:

- a lease id belongs to one version, so the version stands for it;
- a commit is a number. Commits are made by checkpoints only; content is not
  modelled, `workspace.dirty` says whether HEAD is all there is;
- deadlines are counted down (`ttl`, `wait`), and an operation that counts from
  an instant it read earlier gets less (`Left`). The clock does not jump back;
- the agents of `Agents` are online and may work on the project; names, scopes
  and roles are checked by the code and not modelled;
- a database error has the effect of the handler ending early, which every
  handler in flight may do. An uncertain commit is resolved by reading it back
  (`confirmReassignedLease`, `confirmCheckpointCommit`), so it is a commit or not;
- `workspaces`' own handlers (repair, cleanup) and `assignments.Override` are not
  actions of `Next`: the theorems hold for histories without an override of a
  step that has been leased.

### Executor

Several steps and several supervisors. The lease of a step is reduced to its
version and status and moves as `StepOwnership` allows (`KeepsOwnership` checks
that, so the reduction is the abstract specification of `StepLease`). A claim is
an attempt with its own number, which stands for the random token, the owner and
the pid. `begun` and `late` are history variables: how often a lease was worked
on, and whether a launch was confirmed after its claim had expired. A crash of a
supervisor is followed by another scan of the same supervisor with an empty map.
A worker whose claim is lost stops at its next check; until then it may still
finish or fail, which the model allows.

### Pipelines

The runs of one project share what they can spoil for each other: `main`, the
file of the artifact, the process it is served from and the project lock. A
server has one worker, so `worker[s]` is one record: what it does (`pc`), for
which row, and what it remembers of that row. Its actions follow the code from
the claim, which comes before the lock, through the re-read behind the lock, the
preparation, the command and its result to the transaction of `finish` and the
two statements of `refreshRun`. `locked` is the lock; a worker that dies loses
it. Abstractions:

- an artifact is the run that built it, `Old`, missing, or damaged by a command
  or a copy that was cut short; hashes compare artifacts;
- a commit is its place in main's history, and a definition changes only with a
  commit. A merge is one step here; its halves are those of `StepLease`;
- the `SELECT` that finds a step pending and the conditional `UPDATE` that claims
  it follow each other at once and are one action, as are a recovery's re-read
  behind the lock and its transaction. A lock that is refused (directory or file
  unsafe) ends the attempt in one action;
- time is a choice, except for rollbacks, where `overdue` tells an old claim from
  a fresh one, as `started_at` does;
- a database error has the effect of a crash: the rows stay as they were. The
  exceptions are two reads whose error the code drops, which are modelled as they
  are: `runHasRelease` (`worker.go:862`) then reports no release and the build goes
  ahead without a backup (`RecordBackupHash`, `unsaved`); `refreshRun`
  (`worker.go:578`) then counts nothing and writes `passed` (`RefreshRead`,
  `unread`). A command that outlives a killed server is not modelled;
- the order of a scan's parts shows only in `Fairness`, since every part looks
  for work that may appear while another part runs.

`launched` is a history variable: has the release's command been started, and
did its worker die before recording the result. So are `unsaved`, the runs a build
of which skipped the backup, and `unread`, the runs whose status was last written
after a failed read. The code cannot tell these runs from others, so the properties
except them: a release of an `unsaved` run may start with nothing to go back to
(`LaunchedReleaseCanBeUndone`), the backup a later attempt takes may be the run's own
build (`RolledBackIsRestored`), and an `unread` run is `passed` until it is refreshed
again (`RunStatusHonest`).

Three things the model shows that no property states. The safe commit of a run
is main's head when it was started, and a release is refused on any other head,
so the head a rollback expects is the safe commit and the reset never moves
`main`: what a rollback changes is the artifact. A release that fails before its
rollback is armed offers a rollback without an expected head, which can never be
confirmed; its command has not run, so there is nothing to undo. And the
recovery of a release, which re-reads the row but not its attempt, may fail an
attempt newer than the one it picked.

### ReviewJobs

A row of `mr_review_jobs` for each merge request and one worker in each server. A
job is claimed by its status, so a claim that is five minutes old (`Elapse`) is
claimed again while its first worker still waits for the model; `overtaken` counts
how often. What a worker read before the call is what it acts on after it. A report
is one of four contents, sound, thin, risky and unsafe, which are what the gates
tell apart; the lead's answer is any of those the parser tells apart; the diff, the
prompt and the text of a review are left out. The lease and the step behind a merge
request are reduced to whether the branch is where the report left it (`moved`).

`Service.Merge` is two actions, its checks and `git merge`, and a review between
them waits for no lock. So an approval may be withdrawn while its work lands, and a
branch that gets a commit in between lands as it is then: `git merge` names the
branch, `main` has no merge of the reported commit, and the next attempt is blocked.
What is promised in spite of that is `MergeDecision`: `Decision(m)` maps `status`
to the row of the merge request and `landed` to whether `main` has a merge of the
reported commit. It lets work land that was returned, and no more.

The model also shows that the issue "连续返回无效评审 JSON" (`mr/review_worker.go:335`)
can be raised after failures of the provider alone, and that a person who approves
between a worker's claim and its load leaves a blocking issue behind.

### Planning and TaskLife

An attempt is claimed by the status of its task and writes its result by the status
of the task. A plan is its version and how often its steps were inserted, which is
the question (`copies`). The manager's answer is a plan or an error of a class;
`condition` is the fingerprint by which a failed planning is started again.
`TaskLife` adds merges, notifications, snapshots, decisions and rounds; assignment
and execution are one step there. The k-th merge makes commit k and notification
k.

The task's status has writers that the workers do not know of, and all are in
`Next`. `MoveByHand` is `UpdateStatus` along any pair of `ValidTransition`, `Suspend`
and `Resume` stand for a drift or a handoff that holds the work up, and `Repair` is
`RepairTask`, which writes `workspace_ready` over any status. What they spoil is
kept in two history variables. Moving a planned task to `blocked` and back to
`planning` plans the first version again (`replanned`): `InitialPlanOnce` bounds its
insertions by one more than the number of such moves. A repair takes the task away
from a snapshot that is still offered (`abandoned`): `AwaitingIsWhole` says that no
other snapshot is open without the task awaiting it, and that whatever the user is
shown while it does is whole, abandoned snapshots or not. A decision may be taken
on an abandoned one when the task awaits another. Moves, repairs and held-up work
count among `MaxFaults`.

`Cycle` maps the task to `DeliveryCycle`: its stage is `tasks.status` seen from the
user, a delivery is a row of `delivery_snapshots` with its verdict, a round is the
version of the plan, and a round is planned when its version is stored. That a
rework plan may be stored again (`ReworkHistory`) does not show there: the round is
planned all the same. Merges that come while a worker reads are no steps of the cycle.
The administrator's part in it are `Close` (a `merged` task completed by hand) and
`Reopen` (a repair).

Reads whose error the code drops: the two of `deliveries/worker.go:103-104`, after
which a round whose plan is stored is claimed once more (`ClaimRound`), and those of
`Decide` (`acceptance.go:81-82`), which belong to a transaction that already holds
the write lock and fails as a whole with them.

An attempt is overtaken only if its process stands still for longer than the
provider's timeout, or if two servers run. One that blocks the task after a later
one leaves `blocked: planning_error`, which neither the retry nor the reset
selects; `PlanningOwed` says what is owed and leaves that out. A delivery's evidence
and main's commit are read before its transaction and not again, and accepting a
delivery does not look at blocking issues.

### Assignments

`assigner[w]` is an `AssignTask` under way in server `w`: it reads candidates and
matches step by step, generates agents, grants access in their files, commits, and
resolves a commit whose outcome is unknown. Any agent that matches may win: the
scores are data. Exceptions the properties make, each a behaviour of the code: an
override between an uncertain commit and its resolution has the access of the
committed assignment taken back (`GrantsOutliveCommit`), and matching in the order
of the steps may take the only agent a later step could have (`Contended`). A task
that is blocked with every step overridden is not selected again.

The instance has one server. Between two the model has more. A step that an
administrator assigned lets one server's comparison pass, the other server's
`persistBlocked` clears the table, and the first sets a task `assigned` whose steps
have no agent: TLC finds this with one step and one override (it is not a run of
this directory). It takes an override of every step, which is what the hypothesis of
`AssignedComplete` (`FewOverrides`) excludes. And the rollback of one server takes back the access that another has
relied on in its commit, since nothing tells whose grant it was; `GrantsOutliveCommit`
speaks of a worker's own assignment.

### Workspaces

Main is the number of its commits; a worktree is how far its branch has main and
what has been committed on it. Handlers hold the project lock from end to end, so
one runner stands for all of them; leases, merges, the clean-up request and other
tasks' commits go on beside it. `unsynced` is a history variable: rows that became
`ready` without the dependency gate. The code does that in four ways, which
`LeasedIsSynced` excepts: a crash between `service.go:202` and the statement that
makes dependents wait, after which the recovery finalises without it; a repair,
which sets the rows ready and reopens the task before it reconciles; a
reconciliation that overwrites `cleanup_pending`; and a provisioning that is late.
The worker selects assigned tasks, but `ProvisionTask` waits for the lock and then
accepts `workspace_ready`, too (`service.go:95`): if a repair came first and not every
row is provisioned, it writes the rows again, and between `service.go:202` and `:205`
they are ready while leases may be granted (`Late`, `MarkReady`).

`Stranded` names the states that no worker leaves: a registration written to main's
worktree and never committed, and main moved past the provision before the task's
status was written. Rows that a repair made ready without the files or worktrees behind
them belong there, too. `DriftHasCause` names, besides damage, three causes a user
would not call damage: a lease that moves between the two reads of the
reconciliation, an interruption before the first checkpoint of a lease that followed
another (`since`), and a read that fails. The code judges every failed file, Git or
database read of that look as drift (`reconcile.go:73,91,112`, `control.go:78,156,175,
252,277`), so `ReadItem`, `CheckDependencies` and `JudgeHead` have a branch that costs
a fault and finds a drift. `HeadFits` says which recorded states the code accepts
when its reads succeed, `MayFit` which it may accept because the commit is recent.
The read of the earlier registration, whose error is dropped (`service.go:137`),
makes `BeginProvision` start over. A repair sets `workspace_ready` whatever the
task's status is.

### AgentRuntime

One agent. `status` is the column, `env` its file, `active` the launcher's heartbeat
set, `probed` and `retry` what the supervisor remembers. A thread is the
supervisor's scan, the heartbeat loop, a request, or a conversation in a worker's
process, and every statement, file access and provider call is a step of it. The
manager, whose missing secret is a status of its own, is left out, and so are
tokens, memory files and templates. A late probe writes the answer to a
configuration that has been replaced, and a heartbeat that has read `online` writes
it over a failure; `StatusFollowsProvider` says that both pass. It excepts an agent
that calls itself busy, which the launcher neither heartbeats nor restores. A failed
start of any kind is recorded as `missing_config` by `StartAll`.

## The runs

| Run | Question | Bounds |
|---|---|---|
| `StepLease` | do the safety properties hold, and does the step implement `StepOwnership` | 2 agents, 3 leases, 2 checkpoints, 2 commits, TTL 2, resume window 1 |
| `StepLeaseLive` | is silent work interrupted, does the lock come back | 2 agents, 2 leases, 1 checkpoint, 1 commit, TTL 1 |
| `Executor` | are starts and workers bounded | 2 supervisors, 2 steps, 3 claims, limits 1, 1 continuation |
| `ExecutorLeases` | does a worker own its run when its step's lease is replaced | 2 supervisors, 1 step with 2 leases, 3 claims, limits 2 |
| `Pipelines` | do runs that share a project keep each other's artifact apart | 1 server, 2 runs of build (2 attempts) and release (1), 1 merge, 1 crash, 1 build without its backup |
| `PipelineServers` | do claims, recoveries and rollbacks of two servers fit together, does running work end | 2 servers, 1 run of test, build and release, 2 attempts, 1 crash, each dropped read error once |
| `ReviewJobs` | does every job end with a decision, is none forgotten, and is every merge request a `MergeDecision` | 2 workers, 1 merge request, 2 attempts, 3 faults or acts of people |
| `TaskLife` | is the task planned once, what is offered whole, does work go on, and is the task a `DeliveryCycle` | 2 planners, 2 delivery workers, 2 plans of 1 step, 2 attempts, 2 faults, moves or repairs |
| `Assignments` | has an assigned task its agents and their access, and is it assigned | 1 server, 2 steps, 3 agents, 2 faults, 2 overrides, 1 agent lost |
| `Workspaces` | does a step start on its dependencies, does provisioning end, what drifts | 1 runner, 2 steps in a chain, 2 leases, 1 fault, 1 order or foreign commit, 1 late provisioning |
| `AgentRuntime` | does the status follow the provider, is a closed launcher quiet | 1 agent, 4 threads, 2 acts, 1 restart |
| `ReworkHistory` | is a stored plan left alone by rework (it is not, see below) | 1 planner, 1 delivery worker, plans of 1 step, 3 versions, 1 crash |

Why the bounds are enough: three leases let a takeover or an unfreeze be
followed by a second one, so a superseded lease can meet handlers of its
successor and of the one after; two checkpoints let the newest one differ from
the step's, and two commits let HEAD leave the reviewed one. TTL 2 lets a lease
be renewed before it ends and lets time pass between the two halves of a resume.
Three claims are a first worker, its continuation and a competitor. One lease for
each step suffices for the limits, which do not look at leases of the past; two
leases of one step are what the other executor run is for. `MaxVersion`,
`MaxCheckpoint`, `MaxCommit` and `MaxAttempts` appear only in guards of the
action that makes a new one. The executor's runs do not check for deadlock: when
all claims are used the system of the model rests, which the server does not.
Supervisors, steps and agents are interchangeable (symmetry) in the safety runs;
the liveness runs use none. Two pipeline runs let one build between the other's
build and its release or rollback, on one server, where the interleaving is that
of their steps; two servers on one run give every overlap of a claim with a
recovery. A crash in each place of a step and a merge between any two are covered
by one of each; merges are left to the run with two pipeline runs, failed status
reads to the one with two servers. `MaxMerges`, `MaxCrashes`, `MaxUnsaved` and
`MaxUnread` appear only in the guards of `Merge`, `Crash` and the two branches of a
dropped error. A test step cannot be reversed in these instances, so both answers
of `Retries` occur.

One merge request is enough for `ReviewJobs`, because jobs meet only in the order
of a scan; three faults let a claim become stale, its second worker fail and a
person act. Two plan versions let a delivery be rejected and its rework delivered.
Two faults are a move to `blocked` and one back, a repair and a stale claim, or a
crash and a second one; a plan that is stored again has two work items, so that a
merge may leave it half done.
Two steps and three agents let the matching of one step take the agent of another.
A chain of two steps has each place of the gate, and one crash in any place of a
handler meets every recovery; a repair and the late provisioning that follows it
are in the instance together. `MaxFaults`, `MaxOverrides`, `MaxMoves`, `MaxOrders`,
`MaxLate`, `MaxLeases`, `MaxActs` and `MaxRestarts` appear only in guards of the
actions they bound.

**Fairness** (`StepLeaseLive`). Weak fairness of `InterruptExpired` for each
lease: `leases.Worker` runs the scan on a ticker for as long as the server lives,
and the scan visits every expired lease. Weak fairness of `Tick`: time passes.
Weak fairness of `LockStep`: a handler that holds the project lock is a goroutine
with nothing to wait for but Git and the database; it goes on, fails, or dies,
and each gives the lock back. Nothing is assumed of agents, administrators and
reviewers: an interrupted step may wait for ever.

**Fairness** (`Pipelines`). Weak fairness of `Work`: a worker goes on with what it
has begun, because commands, health checks and Git end by their timeouts. Strong
fairness of `WaitForLock`: a waiting worker asks for the lock every 25 ms, while
others hold it for one item at a time; the code promises no order, so this is an
assumption on the scheduler. Strong fairness of the two selections: every scan
starts with the recoveries, so overdue work found again and again is picked.
A server that dies comes back. Requests, claims, merges and crashes need never
happen.

**Fairness** (`ReviewJobs`, `TaskLife`, `AgentRuntime`). Weak fairness of each
worker: it runs on a ticker, and its calls to the provider, Git and the database
end by their timeouts. Weak fairness of the elapse of a delay or of a claim's five
minutes. People, agents and the manager owe nothing, and nothing fails for ever,
since faults are bounded: the properties speak of what happens once failures stop.

**Fairness** (`Assignments`, `Workspaces`). Weak fairness of a handler that has
begun, as above, and of the worker's tick. The project lock is given to every
waiting handler in the end (strong fairness of `BeginProvision` and
`BeginReconcile`), an assumption on the scheduler as for `Pipelines`.

## Where code and documents disagree

`ReworkHistory` is a run that TLC ends with a counterexample; `PROJECT.json` quotes
the lines. A rework plan is stored in one transaction and its round marked planned
in a later one. If the process dies in between and the task reaches its next
rejection before the round is claimed again, the old round plans its version a
second time, and the steps of a delivered version are inserted again.

The others were met while modelling; they are read from the code, and no run of
this directory is a counterexample to a document for them.

- `leases/handoff.go:947`: `markRecoveryBlocked` blocks a step without looking at
  its status (`wanxiangAgent.md:608` asks for the expected status). If a resume
  commits first, the step is blocked with an active lease, and the interrupt scan,
  which selects by status, never ends that lease (`wanxiangAgent.md:521`).
  `SilentWorkIsInterrupted` excepts it.
- `leases/recovery.go:134`: a lease granted by `UnfreezeStep` has no checkpoint of
  its own, so the recovery check compares the worktree with the provision commit
  (`wanxiangAgent.md:629`).
- `leases/handoff.go:436`: a `step_reassignments` row left in `preparing` refuses
  every attempt that starts from another checkpoint (`wanxiangAgent.md:594`).
- `mr/merge.go:114`: an approval withdrawn after `Merge` checked it does not stop
  `git merge` (`wanxiangAgent.md:282`).
- `executor/runner.go:723`: a failing worker freezes its step whatever lease it has
  by then (`wanxiangAgent.md:604`).
- `assignments/admin.go:130`: an override assigns a step again even if it is
  completed (`server/rules.md:42`).
- `workspaces/reconcile.go:258`: a repair opens a task again from any status, one
  the user has accepted included (`server/rules.md:42`: a status is changed only
  from the one expected). `TaskLife` has it (`Repair`), `DeliveryCycle` had to be
  given `Reopen` for it, and `AwaitingIsWhole` excepts the snapshots it leaves.
- `pipelines/worker.go:578` and `:862`, `workspaces/control.go:156` and its like: a
  failed read is taken for an answer, `passed`, no release, drifted. The models have
  it and the properties name it; no document says what should happen.

## What is proved

`StepLeaseProofs`, for every set of agents, every TTL and window and all bounds, from
`StepLeaseAssumption` alone.

The properties are not inductive one by one. `SingleWriter` needs that a lease
only becomes active while it is the step's newest, which `CommitResume` and
`CommitReassign` ensure by re-reading the rows, and follows from
`VersionFrontier`, `SupersededLeasesAreOver` and the agents of
`WritesStayWithOwner`; `MergedWorkIsOnMain` needs that a holder of the lock in
`merge_done` has put its commit on `main`.
The invariant `IInv` therefore joins

- `TypeOK`,
- `LockOK`: what the lock's holder knows while it holds it (its lease was issued,
  a checkpoint still fits, a handoff's checkpoint exists, a merge's lease is in
  review or was revoked, a merge that is done is on `main`),
- `FlightOK`: what the handlers without the lock rely on (the step's checkpoint
  exists; the lease a report or a write began with was issued, and a write's
  worktree is not newer than its lease),
- `Tables`: the relations between the tables that the run checks as
  `LeaseTablesAgree` and `MergeRequestsAgree`.

One lemma per action shows that it preserves `IInv`, by the part that the action
can disturb; `Invariance` joins them. Each safety theorem follows from
`Invariance`, and the first two parts of `EndedStaysEnded` are proved by the same
case split. The third, `DecisionsAreFinal`, says that the step's newest request is a
`MergeDecision` and that only a returned one is followed by another report. It needs
a second invariant, `MergeOK`: the lock is the merger's, a checkpoint is written
under the lock too, so no lease after the merger's has a checkpoint to report, and
the commit that Git merges is the newest request's, even one returned meanwhile.
`Refinement` maps every action to an action of `StepOwnership` or to a stutter.

`ExecutorProofs`, for any number of supervisors, steps, leases and claims, any
assignment of steps to agents and any limits, from `ExecutorAssumption`, which
asks that the steps be finitely many. Its `IInv` joins what a run row, an attempt
and a scan know of each other:

- `TokenOK`: a row with a pid belongs to a confirmed claim; a claim in hand is
  that of its own lease's row; only a confirmed claim can be late;
- `CountOK`: all launches but the first are continuations, and a launch is
  counted before its worker starts, so `begun` never passes `launches`;
- `AttemptOK`: a worker that works owns its row;
- `ScanOK`, `OneHeldPerStep`: a supervisor claims for one candidate at a time and
  for no step it already works on.

Most steps end something: `WindingDown` shows once that letting attempts age and
rows be given up keeps the invariant, and the actions of that kind cite it. The
five that begin something (a scan, a claim, a launch, its confirmation, a start)
have a lemma each. `WorkersWithinLimits` is not a matter of one claim: it needs
that the rows owned by prompt claims (`Slots`) grow only by a claim that has
counted the others (`CapacityHolds`), and that different workers occupy different
rows (`WorkersTakeSlots`, an injection).

`ReviewJobsProofs`, for any number of workers and merge requests and whatever
the reports say, from `MRsAssumption`, `ReportsAssumption` and `ReviewBounds`.
`CompletedIsDecided` is not inductive: `complete` looks at neither the merge
request nor the token of a claim (there is none), so the worker that comes last
may write over another's row. Its `IInv` adds `WorkersKnow`, what a worker knows
at each place of its job: at `complete`, that the request is decided; at
`record`, that the outcome it read is approval or that the request is decided
already. That survives the other workers because a decision is never taken back
(`DecisionsStand`), which every action is shown to respect. `DecisionsKept`, that
every merge request is a `MergeDecision`, needs a second invariant (`Locked`): one
worker at most is between the checks of a merge and its record, what it merges was
approved and is merged by nobody else, and what it records is on `main`. A step
that leaves other holders alone keeps it (`LockStays`); the record of a merge does
so because it was made by the holder or while there was none (`RecordStays`).

`AgentRuntimeProofs`, for any number of faults, conversations and restarts, from
`RuntimeBounds`. `ClosedIsQuiet` is not inductive either: a thread that passed
the check of `closed` may still enter `active`. Its `IInv` adds `ClosedIsStill`:
`Close` waits for the scan, the heartbeat loop and the request that is between
the check and the entry, and who comes later finds it closed.

`PipelinesProofs`, for any number of servers and runs and any budget of attempts,
merges and crashes, from the three assumptions of `Pipelines`: every safety
property of its two runs, the action properties included. Its `IInv` joins

- what a worker knows at its place (`WorkerOK`): a claimed attempt has begun and
  its predecessors have passed (`ClaimKnown`); with the lock the row is running
  this attempt (`Owned`); before a build runs its backup is taken
  (`BackupKnown`); the guard of a release holds until its command starts
  (`Guarded`); what `refreshRun` computed is still true when it writes
  (`StatusKnown`); how far a rollback has come (`RollbackKnown`);
- `ClaimedOnce`: no attempt is claimed twice. That is what keeps a claimant whose
  lock is refused, and who fails its row without the lock, away from the attempt
  that another worker executes;
- what the rows of a run know of each other (`RunOK`): among it that whatever a
  run has built is nowhere kept as a backup unless the run has its own
  (`BackupsOK`, which makes "the backup is never the run's own build" inductive),
  and that a started release can be undone (`Undoable`);
- `Abandoned`: nobody works on a release whose worker died, which needs that the
  recovery never makes a release pending.

A worker that is not moved keeps what it knows when the step leaves it what
`Spares` lists; who is `Alone` with the lock spares everybody. With these two, one
lemma per action remains.

`TaskLifeProofs`, for any number of planning and delivery workers, versions and
work items, from the assumptions of `Planning` and `TaskLife`. `AwaitingIsWhole`
speaks of the task, the snapshots and the notifications, and a delivery worker
reads them in four steps. Its `IInv` adds that versions exist in a row and have no
steps before they exist (`PlansOK`), that rounds are of later versions only
(`RoundsOK`), and that what a worker holds is a notification or a round that exists
(`DeliverersOK`); the transaction that builds the snapshot checks the rest again.
`Awaits` adds that a delivery is awaited of a plan that exists, which a decision about
it needs. `PlannedOnce` needs that a task that is not planned yet has
room for an insertion (`PlanOnce`): every step that leads a planned task back to its
planning is counted in `replanned`, and only moves by hand do so (`FirstPlanFits`).
Beside the invariant, `CycleImplemented` needs only which steps leave the task
outside or inside the two statuses the cycle tells apart (`StageStays`); each action
is then planning, an offer, a decision, a closing or reopening by hand, or no step
of the cycle at all.

`AssignmentsProofs`, for any number of servers, agents and steps, from
`ServersAssumption` and `AssignmentBounds`. `assigned` is the last status a task has
here, so one commit at most takes it there, and what a worker knows of its own
commit stays true (`CommitOK`): that gives `GrantsOutlive`. `AssignedComplete` is
about a worker that counts the assigned steps and sets the task `assigned` in a
later statement. Its promise (`Promising`) is that what it found complete is complete or assigned
when it writes. One server clears nothing in between. With several, a complete table
with fewer overrides than steps holds a row of a worker (`CompleteByWorker`); such
rows are written together with the status, so the task is `assigned` already and
nobody clears it. Hence the hypothesis `FewOverrides`; with one server, as in the
run, it holds for any number of overrides.

`WorkspacesProofs`, for any steps with any dependencies and any number of
goroutines, from the assumptions of `Workspaces`. `LeasedIsSynced` is about a lease
that is granted without the lock, so its `IInv` says what the others may not find
changed:

- `Gate`: a row that waits has a step nobody has worked on, and in a task that
  grants leases whatever is ready and has not begun is synced or marked in
  `unsynced`. That makes `Acquire` harmless: the row it needs is ready;
- `WorkOK`: only a lease makes commits, and what is submitted has a checkpoint;
- `Knows`: what the holder of the lock has read and cannot lose to a lease: the
  rows it saw waiting still have untouched steps, merged dependencies stay merged,
  and after the fast-forward the worktree is at main until the row says so.

`DriftIsCaused` is an action property over the same invariant: only three steps find
a drift (`DriftIsFound`), and each has a lemma that names the cause; a failed read is
told by the count of faults (`FaultsCount`).

Every invariant, action property and refinement that a passing run checks is a
theorem; the types of `ReviewJobs` and `AgentRuntime` are theorems only. Only
model-checked are the liveness properties (`SilentWorkIsInterrupted`,
`ProjectLockIsReleased`, `RunningWorkSettles`, `NoneForgotten`, `TaskSettles`,
`AssignmentContinues`, `WorkspacesSettle`, `StatusFollowsProvider`), which are out of
the prover's reach (fairness and ENABLED). The violation is TLC's.

## Not modelled

The parts marked `not_modelled` in `PROJECT.json` hold no state that a property
could be about: the HTTP layer, the event bus (rows and a notification nobody
depends on) and path checks. Of the parts marked `partly` these are left out: the
matcher's scores and the agents' names of older versions, redaction, the checks a
worker runs, the conversation with a model provider, `Supervisor.Close` and
`StopRun`, tokens, the manager's report. `mr.Service.Create`
and `ManagerMerge` have no caller outside the tests.
