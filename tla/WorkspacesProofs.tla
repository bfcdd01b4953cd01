-------------------------- MODULE WorkspacesProofs --------------------------
(***************************************************************************)
(* No step begins without the work it depends on, and no workspace is      *)
(* called drifted without a cause, for any number of steps with any        *)
(* dependencies and of goroutines: the proofs of LeasedIsSynced,           *)
(* DriftHasCause and the types of Workspaces.                              *)
(***************************************************************************)
EXTENDS Workspaces, TLAPS

Commits   == NoCommit .. main
Waits     == {"waiting_dependencies", "dependency_syncing"}
RowStatus == Provisioned \cup {"none", "provisioning", "failed", "drifted", "cleanup_pending", "cleaned"}
Phases    == {"assigned", "active", "interrupted", "frozen", "review", "returned", "completed"}
Works     == {"none", "recorded", "unrecorded"}
Verdicts  == {"waiting", "drifted", "ready"}

Provisioning == {"insert", "write", "commit", "record", "trees", "ready", "waiting", "finalize",
                 "refinalize"}
Reconciling  == {"read", "sync", "merge", "record_sync", "head", "update"}
Places       == Provisioning \cup Reconciling \cup {"idle", "closing", "conflict", "from_database",
                                                    "from_snapshot", "stage", "reopen", "clean", "cleaned"}

RowRec    == [status : RowStatus, base : Commits, provision : Commits]
TreeRec   == [main : Commits, work : Works, present : BOOLEAN]
StepRec   == [phase : Phases, leases : 0 .. MaxLeases, since : 0 .. 2]
RunnerRec == [pc : Places, item : Steps, provision : Commits, drifted : BOOLEAN,
              seen : [Steps -> RowStatus], state : StepRec, verdict : Verdicts \cup {"none"}]

ProjectOK == main \in Nat /\ dirty \in BOOLEAN /\ snapshot \in [Steps -> Commits]
RowsOK    == row \in [Steps -> RowRec]
TreesOK   == tree \in [Steps -> TreeRec]

\* A step is assigned until its first lease; what is merged is completed.
StepsOK ==
    /\ step \in [Steps -> StepRec] /\ merged \in [Steps -> Commits]
    /\ \A s \in Steps : /\ step[s].phase = "assigned" <=> step[s].leases = 0
                        /\ merged[s] # NoCommit => step[s].phase = "completed"

\* Whoever is under way holds the lock.
RunnersOK ==
    /\ runner \in [Runners -> RunnerRec] /\ lock \in Runners \cup {NoRunner}
    /\ \A w \in Runners : /\ runner[w].pc # "idle" <=> lock = w
                          /\ runner[w].pc = "idle" => runner[w] = Idle

Types ==
    /\ task \in {"assigned", "workspace_ready", "workspace_drifted", "delivered"}
    /\ ProjectOK /\ RowsOK /\ TreesOK /\ StepsOK /\ RunnersOK
    /\ unsynced \subseteq Steps

\* Everything a step depends on is merged into its worktree.
Synced(s) == \A d \in Needs[s] : merged[d] # NoCommit /\ tree[s].main >= merged[d]

\* The gate: a row that waits has a step nobody worked on, and one that became
\* ready through the gate has what it waited for.
Gate ==
    /\ \A s \in Steps : row[s].status \in Waits => Untouched(s)
    /\ task = "workspace_ready" => \A s \in Dependents \ unsynced : Synced(s)
    /\ LeasedIsSynced

\* Only a lease makes commits, and what is submitted is recorded.
WorkOK ==
    \A s \in Steps : /\ tree[s].work # "none" => step[s].leases > 0
                     /\ step[s].phase \in {"review", "returned", "completed"} => tree[s].work = "recorded"

\* What a goroutine knows at its place: nothing a lease can move, as it holds
\* the lock and a lease is granted on a row that is ready.
Knows(w) ==
    LET r == runner[w]
        s == runner[w].item
    IN  /\ r.pc = "finalize" => Dependents = {}
        /\ r.pc \in {"from_database", "from_snapshot"} =>
              \A u \in Steps : u < s /\ u \in Dependents => u \in unsynced
        /\ r.pc \in {"stage", "reopen"} => Dependents \subseteq unsynced
        /\ r.pc \in Reconciling =>
              \A u \in Steps : r.seen[u] \in Waits => Untouched(u) /\ row[u].status # "ready"
        /\ r.pc = "sync" => r.seen[s] \in Waits
        /\ r.pc \in {"merge", "record_sync"} => DependenciesMerged(s)
        /\ r.pc = "record_sync" => tree[s].main = main
        /\ r.pc = "head" => r.seen[s] \notin Waits
        /\ r.pc = "update" => r.verdict \in Verdicts /\ (r.verdict = "ready" => r.seen[s] \notin Waits)

\* The inductive invariant.
IInv == Types /\ Gate /\ WorkOK /\ \A w \in Runners : Knows(w)

LEMMA TypesFollow == IInv => TypeOK
<1> SUFFICES ASSUME IInv PROVE TypeOK
  OBVIOUS
<1>1. ASSUME NEW s \in Steps
      PROVE  /\ row[s] \in RowRec /\ tree[s] \in TreeRec /\ step[s] \in StepRec
             /\ merged[s] \in Commits
  BY DEF IInv, Types, RowsOK, TreesOK, StepsOK
<1>2. ASSUME NEW s \in Steps
      PROVE  /\ row[s].status \in RowStatus
             /\ {row[s].base, row[s].provision, tree[s].main, merged[s]} \subseteq NoCommit .. main
             /\ tree[s].work \in Works /\ tree[s].present \in BOOLEAN
             /\ step[s].phase \in Phases
             /\ step[s].leases \in 0 .. MaxLeases /\ step[s].since \in 0 .. 2
  BY <1>1 DEF RowRec, TreeRec, StepRec, Commits
<1>3. /\ task \in {"assigned", "workspace_ready", "workspace_drifted", "delivered"}
      /\ main \in Nat /\ dirty \in BOOLEAN /\ snapshot \in [Steps -> NoCommit .. main]
      /\ lock \in Runners \cup {NoRunner}
      /\ \A w \in Runners : runner[w].pc # "idle" <=> lock = w
      /\ unsynced \subseteq Steps
  BY DEF IInv, Types, ProjectOK, RunnersOK, Commits
<1> QED BY <1>2, <1>3 DEF TypeOK, RowStatus, Works, Phases

------------------------------------------------------------------------------
(* What a step may do to each part, and what stays then.                   *)

\* Main goes on.
Grows == main \in Nat /\ main' \in Nat /\ main <= main'

LEMMA CommitsGrow ==
    ASSUME Grows
    PROVE  Commits \subseteq Commits'
BY DEF Grows, Commits, NoCommit

LEMMA RowsRest ==
    ASSUME RowsOK, Grows, UNCHANGED row
    PROVE  RowsOK'
BY CommitsGrow DEF RowsOK, RowRec

LEMMA RowsAreSet ==
    ASSUME RowsOK, Grows, NEW S, NEW st \in RowStatus, SetRows(S, st)
    PROVE  /\ RowsOK'
           /\ \A s \in Steps : /\ row'[s].status = IF s \in S THEN st ELSE row[s].status
                               /\ row'[s].base = row[s].base /\ row'[s].provision = row[s].provision
<1> DEFINE new(s) == [row[s] EXCEPT !.status = st]
<1>1. row' = [s \in Steps |-> IF s \in S THEN new(s) ELSE row[s]]
  BY DEF SetRows
<1>2. ASSUME NEW s \in Steps
      PROVE  /\ row[s] \in RowRec /\ new(s) \in RowRec /\ new(s).status = st
             /\ new(s).base = row[s].base /\ new(s).provision = row[s].provision
  BY DEF RowsOK, RowRec
<1> HIDE DEF new
<1>3. row' \in [Steps -> RowRec]
  BY <1>1, <1>2
<1>4. RowRec \subseteq RowRec'
  BY CommitsGrow DEF RowRec
<1> QED BY <1>1, <1>2, <1>3, <1>4 DEF RowsOK

LEMMA TreesRest ==
    ASSUME TreesOK, Grows, UNCHANGED tree
    PROVE  TreesOK'
BY CommitsGrow DEF TreesOK, TreeRec

\* One worktree changes.
LEMMA TreeMoves ==
    ASSUME TreesOK, UNCHANGED main, NEW s \in Steps, NEW t \in TreeRec, tree' = [tree EXCEPT ![s] = t]
    PROVE  TreesOK' /\ \A u \in Steps : tree'[u] = IF u = s THEN t ELSE tree[u]
<1>1. tree' \in [Steps -> TreeRec] /\ \A u \in Steps : tree'[u] = IF u = s THEN t ELSE tree[u]
  BY DEF TreesOK
<1>2. TreeRec' = TreeRec
  BY DEF TreeRec, Commits
<1> QED BY <1>1, <1>2 DEF TreesOK

LEMMA StepsRest ==
    ASSUME StepsOK, Grows, UNCHANGED <<step, merged>>
    PROVE  StepsOK'
BY CommitsGrow DEF StepsOK, StepRec

LEMMA ProjectRests ==
    ASSUME ProjectOK, UNCHANGED <<main, dirty, snapshot>>
    PROVE  ProjectOK' /\ Grows
BY DEF ProjectOK, Commits, Grows

LEMMA RunnersRest ==
    ASSUME RunnersOK, Grows, UNCHANGED <<runner, lock>>
    PROVE  RunnersOK'
<1>1. RunnerRec \subseteq RunnerRec'
  BY CommitsGrow DEF RunnerRec, StepRec
<1> QED BY <1>1 DEF RunnersOK

\* A goroutine that has the lock, or takes it, goes on; the others wait.
LEMMA RunnerGoes ==
    ASSUME RunnersOK, Grows, NEW w \in Runners, lock \in {w, NoRunner},
           NEW r \in RunnerRec', runner' = [runner EXCEPT ![w] = r],
           IF r.pc = "idle" THEN lock' = NoRunner /\ r = Idle ELSE lock' = w
    PROVE  /\ RunnersOK' /\ runner'[w] = r
           /\ \A v \in Runners : v # w => Knows(v)'
<1>1. RunnerRec \subseteq RunnerRec'
  BY CommitsGrow DEF RunnerRec, StepRec
<1>2. runner' \in [Runners -> RunnerRec'] /\ \A v \in Runners : runner'[v] = IF v = w THEN r ELSE runner[v]
  BY <1>1 DEF RunnersOK
<1>3. \A v \in Runners : v # w => runner[v].pc = "idle"
  BY RunnerAssumption DEF RunnersOK
<1>4. ASSUME NEW v \in Runners, v # w PROVE Knows(v)'
  BY <1>2, <1>3, <1>4 DEF Knows, Provisioning, Reconciling
<1>5. RunnersOK'
  BY <1>2, <1>3, RunnerAssumption DEF RunnersOK
<1> QED BY <1>2, <1>4, <1>5

\* A goroutine that is idle knows nothing.
LEMMA IdleKnows ==
    ASSUME NEW w \in Runners, runner[w].pc \in {"idle", "closing", "conflict", "clean", "cleaned"}
    PROVE  Knows(w)
BY DEF Knows, Provisioning, Reconciling

\* Worktrees go forward, leases and merges stay.
LEMMA SyncedStays ==
    ASSUME IInv, UNCHANGED merged, NEW s \in Steps, tree[s].main <= tree'[s].main, TreesOK', Grows, Synced(s)
    PROVE  Synced(s)'
<1>1. \A d \in Needs[s] : d \in Steps
  BY NeedsAssumption
<1>2. \A d \in Steps : merged[d] \in Int
  BY DEF IInv, Types, StepsOK, Commits, NoCommit
<1>3. tree[s].main \in Int /\ tree'[s].main \in Int
  BY DEF IInv, Types, TreesOK, TreeRec, Commits, NoCommit
<1> QED BY <1>1, <1>2, <1>3 DEF Synced

\* A step that leaves the leases alone keeps the gate, if rows begin to wait
\* only for steps nobody worked on, if what began outside it stays marked, and
\* if what is ready in a task with leases is synced or marked.
LEMMA GateKept ==
    ASSUME IInv, UNCHANGED <<step, merged>>, TreesOK', Grows,
           \A s \in Steps : /\ tree[s].main <= tree'[s].main /\ tree'[s].work = tree[s].work
                            /\ row'[s].status \in Waits => row[s].status \in Waits \/ Untouched(s)
                            /\ s \in unsynced /\ step[s].leases > 0 => s \in unsynced',
           task' = "workspace_ready" => \A s \in Dependents' \ unsynced' : Synced(s)'
    PROVE  Gate' /\ WorkOK'
<1>1. ASSUME NEW s \in Steps PROVE row'[s].status \in Waits => Untouched(s)'
  BY DEF IInv, Gate, Untouched
<1>2. ASSUME NEW s \in Steps, s \notin unsynced', step'[s].leases > 0 PROVE Synced(s)'
  <2>1. Synced(s)
    BY <1>2 DEF IInv, Gate, LeasedIsSynced, Synced
  <2> QED BY <2>1, SyncedStays
<1>3. LeasedIsSynced'
  BY <1>2 DEF LeasedIsSynced, Synced
<1>4. WorkOK'
  BY DEF IInv, WorkOK
<1> QED BY <1>1, <1>3, <1>4 DEF Gate

\* What is ready was ready, and the task had leases before.
LEMMA ReadyKept ==
    ASSUME IInv, UNCHANGED <<step, merged>>, TreesOK', Grows,
           \A s \in Steps : /\ tree[s].main <= tree'[s].main
                            /\ row'[s].status = "ready" => row[s].status = "ready"
                            /\ s \in unsynced => s \in unsynced',
           task' = "workspace_ready" => task = "workspace_ready"
    PROVE  task' = "workspace_ready" => \A s \in Dependents' \ unsynced' : Synced(s)'
<1> SUFFICES ASSUME task' = "workspace_ready", NEW s \in Steps, s \in Dependents', s \notin unsynced'
             PROVE  Synced(s)'
  BY DEF Dependents
<1>1. s \in Dependents
  BY DEF Dependents, Gated, Untouched
<1>2. Synced(s)
  BY <1>1 DEF IInv, Gate
<1> QED BY <1>2, SyncedStays

\* The parts of a goroutine's step make the invariant again.
LEMMA StepFits ==
    ASSUME IInv, Grows, UNCHANGED <<step, merged>>,
           NEW w \in Runners, lock \in {w, NoRunner},
           NEW r \in RunnerRec', runner' = [runner EXCEPT ![w] = r],
           IF r.pc = "idle" THEN lock' = NoRunner /\ r = Idle ELSE lock' = w,
           task' \in {"assigned", "workspace_ready", "workspace_drifted", "delivered"},
           ProjectOK', RowsOK', TreesOK', unsynced' \subseteq Steps, Gate', WorkOK', Knows(w)'
    PROVE  IInv'
<1>1. RunnersOK' /\ \A v \in Runners : v # w => Knows(v)'
  BY RunnerGoes DEF IInv, Types
<1>2. StepsOK'
  BY StepsRest DEF IInv, Types
<1>3. \A v \in Runners : Knows(v)'
  BY <1>1
<1> QED BY <1>1, <1>2, <1>3 DEF IInv, Types

\* A step that leaves rows, worktrees and leases alone.
LEMMA QuietFits ==
    ASSUME IInv, Grows, ProjectOK', UNCHANGED <<task, row, tree, step, merged, unsynced>>,
           NEW w \in Runners, lock \in {w, NoRunner},
           NEW r \in RunnerRec', runner' = [runner EXCEPT ![w] = r],
           IF r.pc = "idle" THEN lock' = NoRunner /\ r = Idle ELSE lock' = w,
           Knows(w)'
    PROVE  IInv'
<1>1. RowsOK' /\ TreesOK'
  BY RowsRest, TreesRest DEF IInv, Types
<1>2. \A s \in Steps : tree[s].main <= tree'[s].main
  BY DEF IInv, Types, TreesOK, TreeRec, Commits, NoCommit
<1>3. task' = "workspace_ready" => \A s \in Dependents' \ unsynced' : Synced(s)'
  BY <1>1, <1>2, ReadyKept
<1>4. Gate' /\ WorkOK'
  BY <1>1, <1>2, <1>3, GateKept
<1>5. task' \in {"assigned", "workspace_ready", "workspace_drifted", "delivered"} /\ unsynced' \subseteq Steps
  BY DEF IInv, Types
<1> QED BY <1>1, <1>4, <1>5, StepFits

LEMMA IdleType ==
    ASSUME ProjectOK
    PROVE  Idle \in RunnerRec /\ Idle.pc = "idle" /\ NewStep \in StepRec
<1>1. NewStep \in StepRec
  BY BoundsAssumption DEF NewStep, StepRec, Phases
<1>2. NoCommit \in Commits /\ 1 \in Steps
  BY NAssumption DEF ProjectOK, Commits, NoCommit, Steps
<1> QED BY <1>1, <1>2 DEF Idle, RunnerRec, Places, RowStatus

\* What is known of a goroutine that is under way.
LEMMA UnderWay ==
    ASSUME IInv, NEW w \in Runners, runner[w].pc # "idle"
    PROVE  /\ lock = w /\ runner[w] \in RunnerRec /\ runner[w].item \in Steps /\ Knows(w)
           /\ row[runner[w].item] \in RowRec /\ tree[runner[w].item] \in TreeRec
BY DEF IInv, Types, RunnersOK, RowsOK, TreesOK, RunnerRec

\* A handler that gives up or ends leaves its goroutine idle.
LEMMA ReturnFits ==
    ASSUME IInv, NEW w \in Runners, lock \in {w, NoRunner}, Return(w),
           UNCHANGED <<task, project, row, tree, steps, unsynced>>
    PROVE  IInv'
<1>1. UNCHANGED <<main, dirty, snapshot, step, merged>>
  BY DEF project, steps
<1>2. ProjectOK' /\ Grows
  BY <1>1, ProjectRests DEF IInv, Types
<1>3. Idle \in RunnerRec /\ Idle.pc = "idle"
  BY IdleType DEF IInv, Types
<1>4. Idle \in RunnerRec'
  BY <1>2, <1>3, CommitsGrow DEF RunnerRec, StepRec
<1>5. runner' = [runner EXCEPT ![w] = Idle] /\ lock' = NoRunner
  BY DEF Return, Become
<1>6. Knows(w)'
  <2>1. runner'[w].pc = "idle"
    BY <1>3, <1>5 DEF IInv, Types, RunnersOK
  <2> QED BY <2>1 DEF Knows, Provisioning, Reconciling
<1> QED BY <1>1, <1>2, <1>3, <1>4, <1>5, <1>6, QuietFits

LEMMA NextItemType ==
    ASSUME NEW w \in Runners, runner[w] \in RunnerRec, NEW done \in Places
    PROVE  /\ NextItem(w, done) \in RunnerRec
           /\ NextItem(w, done).pc \in {runner[w].pc, done}
           /\ NextItem(w, done).seen = runner[w].seen
           /\ NextItem(w, done).provision = runner[w].provision
<1> DEFINE i == IF runner[w].item < N THEN runner[w].item + 1 ELSE 1
           p == IF runner[w].item < N THEN runner[w].pc ELSE done
<1>1. NextItem(w, done) = [runner[w] EXCEPT !.item = i, !.pc = p]
  BY DEF NextItem
<1>2. i \in Steps
  BY NAssumption DEF RunnerRec, Steps
<1>3. p \in Places /\ p \in {runner[w].pc, done}
  BY DEF RunnerRec
<1> HIDE DEF i, p
<1> QED BY <1>1, <1>2, <1>3 DEF RunnerRec

------------------------------------------------------------------------------
(* ProvisionTask.                                                          *)

\* The steps of a provisioning that touch no row and no worktree.
LEMMA ProvisioningGoes ==
    ASSUME IInv, Grows, ProjectOK', UNCHANGED <<task, row, tree, step, merged, unsynced>>,
           NEW w \in Runners, lock \in {w, NoRunner}, lock' = w,
           NEW r \in RunnerRec', runner' = [runner EXCEPT ![w] = r],
           r.pc \in Provisioning \ {"finalize"}
    PROVE  IInv'
<1>1. runner'[w] = r
  BY DEF IInv, Types, RunnersOK
<1>2. Knows(w)'
  BY <1>1 DEF Knows, Provisioning, Reconciling
<1>3. r.pc # "idle"
  BY DEF Provisioning
<1> QED BY <1>2, <1>3, QuietFits

\* The steps of a provisioning that change rows.
LEMMA ProvisioningSets ==
    ASSUME IInv, UNCHANGED <<task, project, tree, steps>>, RowsOK', unsynced' \subseteq Steps,
           NEW w \in Runners, lock \in {w, NoRunner}, lock' = w,
           \A s \in Steps : /\ row'[s].status \in Waits => row[s].status \in Waits \/ Untouched(s)
                            /\ s \in unsynced /\ step[s].leases > 0 => s \in unsynced',
           task' = "workspace_ready" => \A s \in Dependents' \ unsynced' : Synced(s)',
           NEW r \in RunnerRec, runner' = [runner EXCEPT ![w] = r],
           r.pc \in Provisioning, r.pc = "finalize" => Dependents' = {}
    PROVE  IInv'
<1>1. UNCHANGED <<main, dirty, snapshot, step, merged>>
  BY DEF project, steps
<1>2. ProjectOK' /\ Grows
  BY <1>1, ProjectRests DEF IInv, Types
<1>3. TreesOK' /\ \A s \in Steps : tree[s].main <= tree'[s].main
  BY <1>2, TreesRest DEF IInv, Types, TreesOK, TreeRec, Commits, NoCommit
<1>4. r \in RunnerRec' /\ runner'[w] = r /\ r.pc # "idle"
  BY <1>2, CommitsGrow DEF RunnerRec, StepRec, IInv, Types, RunnersOK, Provisioning
<1>5. Knows(w)'
  BY <1>4 DEF Knows, Provisioning, Reconciling
<1>6. Gate' /\ WorkOK'
  BY <1>1, <1>2, <1>3, GateKept
<1> QED BY <1>1, <1>2, <1>3, <1>4, <1>5, <1>6, StepFits DEF IInv, Types

\* Those that make no row ready.
LEMMA ProvisioningHides ==
    ASSUME IInv, UNCHANGED <<task, project, tree, steps, unsynced>>, RowsOK',
           NEW w \in Runners, lock \in {w, NoRunner}, lock' = w,
           \A s \in Steps : /\ row'[s].status \in Waits => row[s].status \in Waits
                            /\ row'[s].status = "ready" => row[s].status = "ready",
           NEW r \in RunnerRec, runner' = [runner EXCEPT ![w] = r],
           r.pc \in Provisioning \ {"finalize"}
    PROVE  IInv'
<1>1. UNCHANGED <<main, dirty, snapshot, step, merged>>
  BY DEF project, steps
<1>2. ProjectOK' /\ Grows
  BY <1>1, ProjectRests DEF IInv, Types
<1>3. TreesOK' /\ \A s \in Steps : tree[s].main <= tree'[s].main
  BY <1>2, TreesRest DEF IInv, Types, TreesOK, TreeRec, Commits, NoCommit
<1>4. task' = "workspace_ready" => \A s \in Dependents' \ unsynced' : Synced(s)'
  BY <1>1, <1>2, <1>3, ReadyKept
<1>5. unsynced' \subseteq Steps
  BY DEF IInv, Types
<1> QED BY <1>4, <1>5, ProvisioningSets

LEMMA BeginProvisionFits ==
    ASSUME IInv, NEW w \in Runners, BeginProvision(w)
    PROVE  IInv'
<1> DEFINE begun(pc, commit) == [Idle EXCEPT !.pc = pc, !.provision = commit]
           recorded == IF Rows = Steps THEN row[1].provision ELSE NoCommit
<1>1. /\ UNCHANGED <<task, project, tree, steps, unsynced>>
      /\ UNCHANGED <<main, dirty, snapshot, step, merged>>
  BY DEF BeginProvision, project, steps, history
<1>2. ProjectOK' /\ Grows /\ main \in Commits /\ NoCommit \in Commits
  BY <1>1, ProjectRests DEF IInv, Types, ProjectOK, Commits, NoCommit
<1>3. ASSUME NEW pc \in Provisioning, NEW c \in Commits
      PROVE  begun(pc, c) \in RunnerRec /\ begun(pc, c) \in RunnerRec' /\ begun(pc, c).pc = pc
  <2>1. begun(pc, c) \in RunnerRec /\ begun(pc, c).pc = pc
    BY IdleType DEF IInv, Types, RunnerRec, Places
  <2> HIDE DEF begun
  <2> QED BY <2>1, <1>2, CommitsGrow DEF RunnerRec, StepRec
<1>4. recorded \in Commits
  <2>1. 1 \in Steps
    BY NAssumption DEF Steps
  <2> QED BY <2>1, <1>2 DEF IInv, Types, RowsOK, RowRec
<1> HIDE DEF begun, recorded
<1>5. CASE Take(w, begun("refinalize", main)) /\ UNCHANGED row
  <2>1. "refinalize" \in Provisioning
    BY DEF Provisioning
  <2> QED BY <1>1, <1>2, <1>3, <1>5, <2>1, ProvisioningGoes DEF Take, Become
<1>6. CASE Take(w, begun("trees", main)) /\ SetRows(Steps, "provisioning")
  <2>1. "trees" \in Provisioning /\ "provisioning" \in RowStatus
    BY DEF Provisioning, RowStatus
  <2>2. RowsOK' /\ \A s \in Steps : row'[s].status = "provisioning"
    BY <1>2, <1>6, <2>1, RowsAreSet DEF IInv, Types
  <2>3. \A s \in Steps : row'[s].status \notin Waits /\ row'[s].status # "ready"
    BY <2>2 DEF Waits
  <2>4. /\ begun("trees", main) \in RunnerRec /\ begun("trees", main).pc \in Provisioning \ {"finalize"}
        /\ lock = NoRunner /\ lock' = w /\ runner' = [runner EXCEPT ![w] = begun("trees", main)]
    BY <1>2, <1>3, <1>6, <2>1 DEF Take, Become
  <2> QED BY <1>1, <2>2, <2>3, <2>4, ProvisioningHides
<1>7. ASSUME NEW c \in {recorded, NoCommit}, Take(w, begun("insert", c)), UNCHANGED row PROVE IInv'
  <2>1. "insert" \in Provisioning /\ c \in Commits
    BY <1>2, <1>4 DEF Provisioning
  <2> QED BY <1>1, <1>2, <1>3, <1>7, <2>1, ProvisioningGoes DEF Take, Become
<1>8. \/ Take(w, begun("refinalize", main)) /\ UNCHANGED row
      \/ Take(w, begun("insert", recorded)) /\ UNCHANGED row
      \/ Take(w, begun("trees", main)) /\ SetRows(Steps, "provisioning")
      \/ Take(w, begun("insert", NoCommit)) /\ UNCHANGED row
  BY DEF BeginProvision, begun, recorded
<1> QED BY <1>5, <1>6, <1>7, <1>8

LEMMA InsertRowFits ==
    ASSUME IInv, NEW w \in Runners, InsertRow(w)
    PROVE  IInv'
<1> DEFINE i == runner[w].item
           new == [row[i] EXCEPT !.status = "provisioning", !.base = main]
           done == IF runner[w].provision = NoCommit THEN "write" ELSE "trees"
           r == NextItem(w, done)
<1>1. /\ runner[w].pc = "insert" /\ row' = [row EXCEPT ![i] = new] /\ runner' = [runner EXCEPT ![w] = r]
      /\ UNCHANGED <<task, project, tree, steps, lock, unsynced>>
  BY DEF InsertRow, Become, history
<1>2. lock = w /\ runner[w] \in RunnerRec /\ i \in Steps /\ row[i] \in RowRec
  BY <1>1, UnderWay
<1>3. main \in Commits
  BY DEF IInv, Types, ProjectOK, Commits, NoCommit
<1>4. new \in RowRec /\ new.status = "provisioning"
  BY <1>2, <1>3 DEF RowRec, RowStatus
<1>5. done \in Places /\ done \in {"write", "trees"}
  BY DEF Places, Provisioning
<1>6. r \in RunnerRec /\ r.pc \in Provisioning \ {"finalize"}
  BY <1>1, <1>2, <1>5, NextItemType DEF Provisioning
<1> HIDE DEF new, r, done, i
<1>7. /\ row' \in [Steps -> RowRec]
      /\ \A s \in Steps : /\ row'[s].status \in Waits => row[s].status \in Waits
                          /\ row'[s].status = "ready" => row[s].status = "ready"
  BY <1>1, <1>2, <1>4 DEF IInv, Types, RowsOK, Waits
<1>8. RowsOK'
  BY <1>1, <1>7 DEF RowsOK, RowRec, Commits, project
<1> QED BY <1>1, <1>2, <1>6, <1>7, <1>8, ProvisioningHides

LEMMA WriteMetadataFits ==
    ASSUME IInv, NEW w \in Runners, WriteMetadata(w)
    PROVE  IInv'
<1> DEFINE r == [runner[w] EXCEPT !.pc = "commit"]
<1>1. /\ runner[w].pc = "write" /\ runner' = [runner EXCEPT ![w] = r]
      /\ UNCHANGED <<task, main, row, tree, step, merged, lock, unsynced>>
      /\ snapshot' = [s \in Steps |-> row[s].base] /\ dirty' = TRUE
  BY DEF WriteMetadata, Goto, Become, history, steps
<1>2. lock = w /\ runner[w] \in RunnerRec
  BY <1>1, UnderWay
<1>3. Grows /\ ProjectOK'
  BY <1>1 DEF IInv, Types, ProjectOK, RowsOK, RowRec, Grows, Commits
<1>4. r \in RunnerRec /\ r.pc = "commit"
  BY <1>2 DEF RunnerRec, Places, Provisioning
<1> HIDE DEF r
<1>5. r \in RunnerRec' /\ r.pc \in Provisioning \ {"finalize"}
  BY <1>3, <1>4, CommitsGrow DEF RunnerRec, StepRec, Provisioning
<1> QED BY <1>1, <1>2, <1>3, <1>5, ProvisioningGoes

LEMMA CommitMetadataFits ==
    ASSUME IInv, NEW w \in Runners, CommitMetadata(w)
    PROVE  IInv'
<1> DEFINE r == [runner[w] EXCEPT !.pc = "record", !.provision = main + 1]
<1>1. /\ runner[w].pc = "commit" /\ runner' = [runner EXCEPT ![w] = r]
      /\ UNCHANGED <<task, snapshot, row, tree, step, merged, lock, unsynced>>
      /\ main' = main + 1 /\ dirty' = FALSE
  BY DEF CommitMetadata, Become, history, steps
<1>2. lock = w /\ runner[w] \in RunnerRec
  BY <1>1, UnderWay
<1>3. Grows
  BY <1>1 DEF IInv, Types, ProjectOK, Grows
<1>4. ProjectOK'
  BY <1>1, <1>3, CommitsGrow DEF IInv, Types, ProjectOK, Grows
<1>5. main + 1 \in Commits'
  BY <1>1, <1>3 DEF Grows, Commits, NoCommit
<1>6. runner[w] \in RunnerRec'
  BY <1>2, <1>3, CommitsGrow DEF RunnerRec, StepRec
<1>7. r \in RunnerRec' /\ r.pc \in Provisioning \ {"finalize"}
  BY <1>5, <1>6 DEF RunnerRec, Places, Provisioning
<1> HIDE DEF r
<1> QED BY <1>1, <1>2, <1>3, <1>4, <1>7, ProvisioningGoes

LEMMA RecordProvisionFits ==
    ASSUME IInv, NEW w \in Runners, RecordProvision(w)
    PROVE  IInv'
<1> DEFINE c == runner[w].provision
           new(s) == [row[s] EXCEPT !.provision = c]
           r == [runner[w] EXCEPT !.pc = "trees"]
<1>1. /\ runner[w].pc = "record" /\ runner' = [runner EXCEPT ![w] = r]
      /\ UNCHANGED <<task, project, tree, steps, lock, unsynced>>
      /\ row' = [s \in Steps |-> IF s \in Rows THEN new(s) ELSE row[s]]
  BY DEF RecordProvision, Goto, Become, history
<1>2. lock = w /\ runner[w] \in RunnerRec
  BY <1>1, UnderWay
<1>3. r \in RunnerRec /\ r.pc \in Provisioning \ {"finalize"}
  BY <1>2 DEF RunnerRec, Places, Provisioning
<1>4. ASSUME NEW s \in Steps
      PROVE  row[s] \in RowRec /\ new(s) \in RowRec /\ new(s).status = row[s].status
  BY <1>2 DEF IInv, Types, RowsOK, RowRec, RunnerRec
<1> HIDE DEF new, r, c
<1>5. row' \in [Steps -> RowRec] /\ \A s \in Steps : row'[s].status = row[s].status
  BY <1>1, <1>4
<1>6. RowsOK'
  BY <1>1, <1>5 DEF RowsOK, RowRec, Commits, project
<1> QED BY <1>1, <1>2, <1>3, <1>5, <1>6, ProvisioningHides

\* A branch that is there already is not moved.
LEMMA CreateTreeFits ==
    ASSUME IInv, NEW w \in Runners, CreateTree(w)
    PROVE  IInv'
<1> DEFINE s == runner[w].item
           c == runner[w].provision
           t == [main |-> c, work |-> "none", present |-> TRUE]
           r == NextItem(w, "ready")
<1>1. /\ runner[w].pc = "trees" /\ Creatable(s, c) /\ tree' = [tree EXCEPT ![s] = t]
      /\ runner' = [runner EXCEPT ![w] = r]
      /\ UNCHANGED <<task, main, dirty, snapshot, row, step, merged, lock, unsynced>>
  BY DEF CreateTree, Become, history, steps, project
<1>2. /\ lock = w /\ runner[w] \in RunnerRec /\ s \in Steps /\ tree[s] \in TreeRec
      /\ c \in Commits
  BY <1>1, UnderWay DEF Knows, Provisioning, RunnerRec
<1>3. ProjectOK' /\ Grows
  BY <1>1, ProjectRests DEF IInv, Types
<1>4. t \in TreeRec /\ t.main = c /\ t.work = "none"
  BY <1>2 DEF TreeRec, Works
<1>5. tree[s].main \in {NoCommit, c} /\ tree[s].work = "none"
  BY <1>1 DEF Creatable, Exact
<1>6. c \in Int /\ NoCommit <= c
  BY <1>2, <1>3 DEF Commits, NoCommit, Grows
<1>7. r \in RunnerRec /\ r.pc \in Provisioning \ {"finalize"}
  BY <1>1, <1>2, NextItemType DEF Places, Provisioning
<1> HIDE DEF t, r, c, s
<1>8. TreesOK' /\ \A u \in Steps : tree'[u] = IF u = s THEN t ELSE tree[u]
  BY <1>1, <1>2, <1>4, TreeMoves DEF IInv, Types
<1>9. \A u \in Steps : tree[u].main <= tree'[u].main /\ tree'[u].work = tree[u].work
  BY <1>4, <1>5, <1>6, <1>8 DEF IInv, Types, TreesOK, TreeRec, Commits, NoCommit
<1>10. Gate' /\ WorkOK'
  <2>1. task' = "workspace_ready" => \A u \in Dependents' \ unsynced' : Synced(u)'
    BY <1>1, <1>3, <1>8, <1>9, ReadyKept
  <2> QED BY <1>1, <1>2, <1>3, <1>8, <1>9, <2>1, GateKept
<1>11. RowsOK'
  BY <1>1, <1>3, RowsRest DEF IInv, Types
<1>12. r \in RunnerRec' /\ runner'[w] = r /\ r.pc # "idle"
  BY <1>1, <1>3, <1>7, CommitsGrow DEF RunnerRec, StepRec, IInv, Types, RunnersOK, Provisioning
<1>13. Knows(w)'
  BY <1>1, <1>2, <1>7, <1>12 DEF Knows, Provisioning, Reconciling
<1> QED BY <1>1, <1>2, <1>3, <1>8, <1>10, <1>11, <1>12, <1>13, StepFits DEF IInv, Types

LEMMA MarkReadyFits ==
    ASSUME IInv, NEW w \in Runners, MarkReady(w)
    PROVE  IInv'
<1> DEFINE r == [runner[w] EXCEPT !.pc = "waiting"]
<1>1. /\ runner[w].pc = "ready" /\ SetRows(Rows, "ready") /\ runner' = [runner EXCEPT ![w] = r]
      /\ unsynced' = IF task = "workspace_ready" THEN unsynced \cup {s \in Rows : Gated(s)} ELSE unsynced
      /\ UNCHANGED <<task, project, tree, steps, lock>> /\ UNCHANGED <<main, step>>
  BY DEF MarkReady, Goto, Become, project, steps
<1>2. lock = w /\ runner[w] \in RunnerRec
  BY <1>1, UnderWay
<1>3. r \in RunnerRec /\ r.pc \in Provisioning \ {"finalize"}
  BY <1>2 DEF RunnerRec, Places, Provisioning
<1>4. Grows /\ "ready" \in RowStatus
  BY <1>1 DEF IInv, Types, ProjectOK, Grows, RowStatus, Provisioned
<1>5. RowsOK' /\ \A s \in Steps : row'[s].status = IF s \in Rows THEN "ready" ELSE row[s].status
  BY <1>1, <1>4, RowsAreSet DEF IInv, Types
<1>6. \A s \in Steps : /\ row'[s].status \in Waits => row[s].status \in Waits
                       /\ s \in unsynced => s \in unsynced'
  BY <1>1, <1>5 DEF Waits
<1>7. unsynced' \subseteq Steps
  BY <1>1 DEF Rows, IInv, Types
<1>8. task' = "workspace_ready" => \A s \in Dependents' \ unsynced' : Synced(s)'
  <2>1. \A s \in Dependents' : s \in Steps /\ Gated(s) /\ row'[s].status = "ready"
    BY <1>1 DEF Dependents, Gated, Untouched
  <2>2. \A s \in Dependents' : s \in Rows
    BY <1>5, <2>1 DEF Rows
  <2> QED BY <1>1, <2>1, <2>2
<1> HIDE DEF r
<1> QED BY <1>1, <1>2, <1>3, <1>5, <1>6, <1>7, <1>8, ProvisioningSets

\* The dependents among the rows that are ready wait, and none is left.
LEMMA MarkedWaiting ==
    ASSUME IInv, UNCHANGED <<main, step>>, SetRows(Dependents, "waiting_dependencies")
    PROVE  /\ RowsOK' /\ Dependents' = {}
           /\ \A s \in Steps : /\ row'[s].status \in Waits => row[s].status \in Waits \/ Untouched(s)
                               /\ row'[s].status = IF s \in Dependents THEN "waiting_dependencies"
                                                   ELSE row[s].status
<1>1. Grows /\ "waiting_dependencies" \in RowStatus
  BY DEF IInv, Types, ProjectOK, Grows, RowStatus, Provisioned
<1>2. /\ RowsOK'
      /\ \A s \in Steps : row'[s].status = IF s \in Dependents THEN "waiting_dependencies" ELSE row[s].status
  BY <1>1, RowsAreSet DEF IInv, Types
<1>3. \A s \in Dependents : Untouched(s)
  BY DEF Dependents, Gated
<1>4. \A s \in Steps : s \notin Dependents'
  BY <1>2 DEF Dependents, Gated, Untouched
<1>5. Dependents' = {}
  BY <1>4 DEF Dependents
<1> QED BY <1>2, <1>3, <1>5

LEMMA MarkWaitingFits ==
    ASSUME IInv, NEW w \in Runners, MarkWaiting(w)
    PROVE  IInv'
<1> DEFINE r == [runner[w] EXCEPT !.pc = "finalize"]
<1>1. /\ runner[w].pc = "waiting" /\ SetRows(Dependents, "waiting_dependencies")
      /\ runner' = [runner EXCEPT ![w] = r]
      /\ unsynced' = unsynced \ Dependents
      /\ UNCHANGED <<task, project, tree, steps, lock>> /\ UNCHANGED <<main, step>>
  BY DEF MarkWaiting, Goto, Become, project, steps
<1>2. lock = w /\ runner[w] \in RunnerRec
  BY <1>1, UnderWay
<1>3. r \in RunnerRec /\ r.pc \in Provisioning
  BY <1>2 DEF RunnerRec, Places, Provisioning
<1> HIDE DEF r
<1>4. RowsOK' /\ Dependents' = {} /\ unsynced' \subseteq Steps
  BY <1>1, MarkedWaiting DEF IInv, Types
<1>5. \A s \in Steps : /\ row'[s].status \in Waits => row[s].status \in Waits \/ Untouched(s)
                       /\ s \in unsynced /\ step[s].leases > 0 => s \in unsynced'
  BY <1>1, MarkedWaiting DEF Dependents, Gated, Untouched
<1> QED BY <1>1, <1>2, <1>3, <1>4, <1>5, ProvisioningSets

\* The end of a handler: a status of the task, and perhaps marks.
LEMMA EndFits ==
    ASSUME IInv, NEW w \in Runners, lock = w, Return(w),
           UNCHANGED <<project, tree, steps>>, RowsOK',
           \A s \in Steps : /\ row'[s].status \in Waits => row[s].status \in Waits
                            /\ s \in unsynced => s \in unsynced',
           unsynced' \subseteq Steps,
           task' \in {"assigned", "workspace_ready", "workspace_drifted", "delivered"},
           task' = "workspace_ready" => \A s \in Dependents' \ unsynced' : Synced(s)'
    PROVE  IInv'
<1>1. UNCHANGED <<main, dirty, snapshot, step, merged, tree>>
  BY DEF project, steps
<1>2. ProjectOK' /\ Grows
  BY <1>1, ProjectRests DEF IInv, Types
<1>3. TreesOK' /\ \A s \in Steps : tree[s].main <= tree'[s].main /\ tree'[s].work = tree[s].work
  BY <1>1, <1>2, TreesRest DEF IInv, Types, TreesOK, TreeRec, Commits, NoCommit
<1>4. Gate' /\ WorkOK'
  BY <1>1, <1>2, <1>3, GateKept
<1>5. Idle \in RunnerRec /\ Idle.pc = "idle"
  BY IdleType DEF IInv, Types
<1>6. Idle \in RunnerRec'
  BY <1>2, <1>5, CommitsGrow DEF RunnerRec, StepRec
<1>7. runner' = [runner EXCEPT ![w] = Idle] /\ lock' = NoRunner
  BY DEF Return, Become
<1>8. Knows(w)'
  <2>1. runner'[w].pc = "idle"
    BY <1>5, <1>7 DEF IInv, Types, RunnersOK
  <2> QED BY <2>1 DEF Knows, Provisioning, Reconciling
<1> QED BY <1>1, <1>2, <1>3, <1>4, <1>5, <1>6, <1>7, <1>8, StepFits

LEMMA FinalizeFits ==
    ASSUME IInv, NEW w \in Runners, Finalize(w)
    PROVE  IInv'
<1>1. /\ runner[w].pc \in {"finalize", "refinalize"} /\ task' = "workspace_ready" /\ Return(w)
      /\ unsynced' = IF runner[w].pc = "refinalize" THEN unsynced \cup Dependents ELSE unsynced
      /\ UNCHANGED <<project, tree, steps>> /\ UNCHANGED <<main, row, step>>
  BY DEF Finalize, project, steps
<1>2. lock = w /\ (runner[w].pc = "finalize" => Dependents = {})
  BY <1>1, UnderWay DEF Knows
<1>3. RowsOK'
  BY <1>1 DEF IInv, Types, RowsOK, RowRec, Commits
<1>4. Dependents' = Dependents /\ Dependents \subseteq Steps
  BY <1>1 DEF Dependents, Gated, Untouched
<1>5. Dependents' \subseteq unsynced'
  BY <1>1, <1>2, <1>4
<1>6. unsynced' \subseteq Steps
  BY <1>1, <1>4 DEF IInv, Types
<1> QED BY <1>1, <1>2, <1>3, <1>5, <1>6, EndFits

LEMMA FailTaskFits ==
    ASSUME IInv, NEW w \in Runners, FailTask(w)
    PROVE  IInv'
<1>1. /\ runner[w].pc \in Provisioning /\ Failed(w) /\ Return(w)
      /\ UNCHANGED <<task, project, tree, steps, unsynced>> /\ UNCHANGED <<main, step>>
  BY DEF FailTask, history, project, steps, Provisioning
<1>2. lock = w
  BY <1>1, UnderWay DEF Provisioning
<1>3. Grows /\ "failed" \in RowStatus
  BY <1>1 DEF IInv, Types, ProjectOK, Grows, RowStatus
<1>4. /\ RowsOK'
      /\ \A s \in Steps : /\ row'[s].status \in Waits => row[s].status \in Waits
                          /\ row'[s].status = "ready" => row[s].status = "ready"
  <2>1. CASE UNCHANGED row
    BY <2>1, <1>3, RowsRest DEF IInv, Types
  <2>2. CASE SetRows({s \in Steps : row[s].status \in Provisioned \cup {"provisioning"}}, "failed")
    <3> DEFINE S == {s \in Steps : row[s].status \in Provisioned \cup {"provisioning"}}
    <3>1. RowsOK' /\ \A s \in Steps : row'[s].status = IF s \in S THEN "failed" ELSE row[s].status
      BY <2>2, <1>3, RowsAreSet DEF IInv, Types
    <3> HIDE DEF S
    <3> QED BY <3>1 DEF Waits
  <2> QED BY <1>1, <2>1, <2>2 DEF Failed
<1>5. UNCHANGED <<merged, tree>> /\ TreesOK' /\ \A s \in Steps : tree[s].main <= tree'[s].main
  BY <1>1, <1>3, TreesRest DEF steps, IInv, Types, TreesOK, TreeRec, Commits, NoCommit
<1>6. task' = "workspace_ready" => \A s \in Dependents' \ unsynced' : Synced(s)'
  BY <1>1, <1>3, <1>4, <1>5, ReadyKept
<1> QED BY <1>1, <1>2, <1>4, <1>6, EndFits DEF IInv, Types

------------------------------------------------------------------------------
(* ReconcileTask.                                                          *)

LEMMA BeginReconcileFits ==
    ASSUME IInv, NEW w \in Runners, BeginReconcile(w)
    PROVE  IInv'
<1> DEFINE seen == [s \in Steps |-> IF s \in Dependents THEN "waiting_dependencies" ELSE row[s].status]
           pc == IF Rows = {} THEN "closing" ELSE "read"
           r == [Idle EXCEPT !.pc = pc, !.seen = seen]
<1>1. /\ task = "workspace_ready" /\ lock = NoRunner /\ lock' = w
      /\ runner' = [runner EXCEPT ![w] = r]
      /\ SetRows(Dependents, "waiting_dependencies") /\ unsynced' = unsynced \ Dependents
      /\ UNCHANGED <<task, main, dirty, snapshot, tree, step, merged>>
  BY DEF BeginReconcile, Take, Become, project, steps
<1>2. ProjectOK' /\ Grows
  BY <1>1, ProjectRests DEF IInv, Types
<1>3. /\ RowsOK' /\ Dependents' = {}
      /\ \A s \in Steps : /\ row'[s].status \in Waits => row[s].status \in Waits \/ Untouched(s)
                          /\ row'[s].status = seen[s]
  BY <1>1, MarkedWaiting
<1>4. seen \in [Steps -> RowStatus]
  BY DEF IInv, Types, RowsOK, RowRec, RowStatus, Provisioned
<1>5. pc \in {"closing", "read"} /\ pc \in Places
  BY DEF Places, Reconciling
<1> HIDE DEF seen, pc
<1>6. r \in RunnerRec /\ r.pc = pc /\ r.seen = seen
  BY <1>4, <1>5, IdleType DEF IInv, Types, RunnerRec
<1> HIDE DEF r
<1>7. r \in RunnerRec' /\ runner'[w] = r
  BY <1>1, <1>2, <1>6, CommitsGrow DEF RunnerRec, StepRec, IInv, Types, RunnersOK
<1>8. TreesOK' /\ \A s \in Steps : tree[s].main <= tree'[s].main /\ tree'[s].work = tree[s].work
  BY <1>1, <1>2, TreesRest DEF IInv, Types, TreesOK, TreeRec, Commits, NoCommit
<1>9. \A s \in Steps : s \in unsynced /\ step[s].leases > 0 => s \in unsynced'
  BY <1>1 DEF Dependents, Gated, Untouched
<1>10. Gate' /\ WorkOK'
  BY <1>1, <1>2, <1>3, <1>8, <1>9, GateKept
<1>11. \A u \in Steps : seen[u] \in Waits => Untouched(u)' /\ row'[u].status # "ready"
  BY <1>3, <1>10 DEF Gate, Waits
<1>12. Knows(w)'
  BY <1>5, <1>6, <1>7, <1>11 DEF Knows, Provisioning, Reconciling
<1>13. unsynced' \subseteq Steps /\ task' \in {"assigned", "workspace_ready", "workspace_drifted", "delivered"}
  BY <1>1 DEF IInv, Types
<1>14. r.pc # "idle"
  BY <1>5, <1>6
<1> QED BY <1>1, <1>2, <1>3, <1>7, <1>8, <1>10, <1>12, <1>13, <1>14, StepFits

\* A verdict on an item.
LEMMA FoundType ==
    ASSUME NEW w \in Runners, runner[w] \in RunnerRec, NEW v \in Verdicts
    PROVE  /\ Found(w, v) \in RunnerRec /\ Found(w, v).pc = "update" /\ Found(w, v).verdict = v
           /\ Found(w, v).item = runner[w].item /\ Found(w, v).seen = runner[w].seen
<1> DEFINE b == runner[w].drifted \/ v = "drifted"
<1>1. b \in BOOLEAN
  OBVIOUS
<1>2. Found(w, v) = [runner[w] EXCEPT !.pc = "update", !.verdict = v, !.drifted = b]
  BY DEF Found
<1> HIDE DEF b
<1> QED BY <1>1, <1>2 DEF RunnerRec, Places, Reconciling

\* A reconciliation goes on and changes nothing yet.
LEMMA ReconcilingGoes ==
    ASSUME IInv, UNCHANGED <<task, project, row, tree, steps, lock, unsynced>>,
           NEW w \in Runners, runner[w].pc \in Reconciling,
           NEW r \in RunnerRec, runner' = [runner EXCEPT ![w] = r],
           r.pc \in Reconciling \cup {"conflict", "closing"}, r.seen = runner[w].seen,
           LET s == r.item
           IN  /\ r.pc = "sync" => r.seen[s] \in Waits
               /\ r.pc \notin {"merge", "record_sync"}
               /\ r.pc = "head" => r.seen[s] \notin Waits
               /\ r.pc = "update" => r.verdict \in Verdicts /\ (r.verdict = "ready" => r.seen[s] \notin Waits)
    PROVE  IInv'
<1>1. UNCHANGED <<main, dirty, snapshot, step, merged>>
  BY DEF project, steps
<1>2. ProjectOK' /\ Grows
  BY <1>1, ProjectRests DEF IInv, Types
<1>3. lock = w /\ Knows(w)
  BY UnderWay DEF Reconciling
<1>4. r \in RunnerRec' /\ runner'[w] = r /\ r.pc # "idle"
  BY <1>2, CommitsGrow DEF RunnerRec, StepRec, IInv, Types, RunnersOK, Reconciling
<1>5. \A u \in Steps : r.seen[u] \in Waits => Untouched(u)' /\ row'[u].status # "ready"
  BY <1>1, <1>3 DEF Knows, Untouched
<1>6. Knows(w)'
  BY <1>4, <1>5 DEF Knows, Provisioning, Reconciling
<1> QED BY <1>1, <1>2, <1>3, <1>4, <1>6, QuietFits

LEMMA ReadItemFits ==
    ASSUME IInv, NEW w \in Runners, ReadItem(w)
    PROVE  IInv'
<1> DEFINE s == runner[w].item
           pc == IF Awaits(w, s) THEN "sync" ELSE "head"
           r == [runner[w] EXCEPT !.state = step[s], !.pc = pc]
<1>1. /\ runner[w].pc = "read" /\ UNCHANGED <<task, project, row, tree, steps, lock, unsynced>>
      /\ \/ Become(w, Found(w, "waiting")) \/ Become(w, Found(w, "drifted")) \/ Become(w, r)
  BY DEF ReadItem, history
<1>2. runner[w] \in RunnerRec /\ s \in Steps /\ runner[w].pc \in Reconciling
  BY <1>1, UnderWay DEF Reconciling
<1>3. ASSUME NEW v \in {"waiting", "drifted"}, Become(w, Found(w, v)) PROVE IInv'
  <2>1. v \in Verdicts /\ v # "ready"
    BY DEF Verdicts
  <2> QED BY <1>1, <1>2, <1>3, <2>1, FoundType, ReconcilingGoes DEF Become, Reconciling
<1>4. CASE Become(w, r)
  <2>1. step[s] \in StepRec
    BY <1>2 DEF IInv, Types, StepsOK
  <2>2. pc \in {"sync", "head"} /\ (pc = "sync" <=> runner[w].seen[s] \in Waits)
    BY DEF Awaits, Waits
  <2>3. pc \in Places
    BY <2>2 DEF Places, Reconciling
  <2> HIDE DEF pc
  <2>4. r \in RunnerRec /\ r.pc = pc /\ r.seen = runner[w].seen /\ r.item = s
    BY <1>2, <2>1, <2>3 DEF RunnerRec
  <2> HIDE DEF r
  <2> QED BY <1>1, <1>2, <1>4, <2>2, <2>4, ReconcilingGoes DEF Become, Reconciling
<1> QED BY <1>1, <1>3, <1>4

\* The gate opens for a row that waits, or whose sync was interrupted; it keeps
\* waiting until the sync is recorded.
LEMMA CheckDependenciesFits ==
    ASSUME IInv, NEW w \in Runners, CheckDependencies(w)
    PROVE  IInv'
<1>0. PICK s \in Steps : s = runner[w].item
  BY UnderWay DEF CheckDependencies
<1> DEFINE st == IF row[s].status = "waiting_dependencies" THEN "dependency_syncing" ELSE row[s].status
           new == [row[s] EXCEPT !.status = st]
           go(pc) == [runner[w] EXCEPT !.pc = pc]
<1>1. /\ runner[w].pc = "sync" /\ UNCHANGED <<task, project, tree, steps, lock, unsynced>>
      /\ \/ (Become(w, Found(w, "drifted")) \/ Become(w, Found(w, "waiting"))) /\ UNCHANGED row
         \/ /\ DependenciesMerged(s) /\ row' = [row EXCEPT ![s] = new] /\ Become(w, go("merge"))
         \/ Become(w, go("conflict")) /\ UNCHANGED row
  BY <1>0 DEF CheckDependencies, SyncBegins, history, Goto
<1>2. /\ lock = w /\ runner[w] \in RunnerRec /\ s \in Steps /\ runner[w].pc \in Reconciling
      /\ Knows(w) /\ row[s] \in RowRec
  BY <1>0, <1>1, UnderWay DEF Reconciling
<1>3. ASSUME NEW pc \in {"merge", "conflict"}
      PROVE  go(pc) \in RunnerRec /\ go(pc).pc = pc /\ go(pc).seen = runner[w].seen /\ go(pc).item = s
  BY <1>0, <1>2 DEF RunnerRec, Places, Reconciling
<1>4. ASSUME NEW v \in {"waiting", "drifted"}, Become(w, Found(w, v)), UNCHANGED row PROVE IInv'
  <2>1. v \in Verdicts /\ v # "ready"
    BY DEF Verdicts
  <2> QED BY <1>1, <1>2, <1>4, <2>1, FoundType, ReconcilingGoes DEF Become, Reconciling
<1>5. CASE Become(w, go("conflict")) /\ UNCHANGED row
  <2>1. go("conflict") \in RunnerRec /\ go("conflict").pc = "conflict" /\ go("conflict").seen = runner[w].seen
    BY <1>3
  <2> HIDE DEF go
  <2> QED BY <1>1, <1>2, <1>5, <2>1, ReconcilingGoes DEF Become
<1>6. CASE DependenciesMerged(s) /\ row' = [row EXCEPT ![s] = new] /\ Become(w, go("merge"))
  <2>1. new \in RowRec /\ new.status = st /\ st \in RowStatus
    BY <1>2 DEF RowRec, RowStatus, Provisioned
  <2>2. st \in Waits => row[s].status \in Waits
    BY DEF Waits
  <2>3. st = "ready" => row[s].status = "ready"
    OBVIOUS
  <2>4. go("merge") \in RunnerRec /\ go("merge").pc = "merge" /\ go("merge").seen = runner[w].seen
        /\ go("merge").item = s
    BY <1>3
  <2> HIDE DEF st, new
  <2>5. row' \in [Steps -> RowRec] /\ \A u \in Steps : row'[u] = IF u = s THEN new ELSE row[u]
    BY <1>2, <1>6, <2>1 DEF IInv, Types, RowsOK
  <2>6. UNCHANGED <<main, dirty, snapshot, step, merged, tree>>
    BY <1>1 DEF project, steps
  <2>7. ProjectOK' /\ Grows
    BY <2>6, ProjectRests DEF IInv, Types
  <2>8. RowsOK'
    BY <2>5, <2>6 DEF RowsOK, RowRec, Commits
  <2>9. TreesOK' /\ \A u \in Steps : tree[u].main <= tree'[u].main /\ tree'[u].work = tree[u].work
    BY <2>6, <2>7, TreesRest DEF IInv, Types, TreesOK, TreeRec, Commits, NoCommit
  <2>10. \A u \in Steps : /\ row'[u].status \in Waits => row[u].status \in Waits
                          /\ row'[u].status = "ready" => row[u].status = "ready"
    BY <2>1, <2>2, <2>3, <2>5
  <2>11. task' = "workspace_ready" => \A u \in Dependents' \ unsynced' : Synced(u)'
    BY <1>1, <2>6, <2>7, <2>9, <2>10, ReadyKept
  <2>12. Gate' /\ WorkOK'
    BY <1>1, <2>6, <2>7, <2>9, <2>10, <2>11, GateKept
  <2> DEFINE r == go("merge")
  <2>13. r \in RunnerRec /\ r.pc = "merge" /\ r.seen = runner[w].seen /\ r.item = s
         /\ runner' = [runner EXCEPT ![w] = r]
    BY <1>6, <2>4 DEF Become
  <2> HIDE DEF r, go
  <2>14. r \in RunnerRec' /\ runner'[w] = r
    BY <2>7, <2>13, CommitsGrow DEF RunnerRec, StepRec, IInv, Types, RunnersOK
  <2>15. \A u \in Steps : runner[w].seen[u] \in Waits => Untouched(u)' /\ row'[u].status # "ready"
    BY <1>2, <2>6, <2>10 DEF Knows, Untouched
  <2>16. Needs[s] # {} /\ \A d \in Needs[s] : step'[d].phase = "completed" /\ merged'[d] # NoCommit
    BY <1>6, <2>6 DEF DependenciesMerged
  <2>17. Knows(w)'
    BY <2>13, <2>14, <2>15, <2>16 DEF Knows, DependenciesMerged, Provisioning, Reconciling
  <2> QED BY <1>1, <1>2, <2>6, <2>7, <2>8, <2>9, <2>12, <2>13, <2>14, <2>17, StepFits DEF IInv, Types
<1> QED BY <1>1, <1>4, <1>5, <1>6

\* The merge into the worktree.
LEMMA FastForwardFits ==
    ASSUME IInv, NEW w \in Runners, FastForward(w)
    PROVE  IInv'
<1>0. PICK s \in Steps : s = runner[w].item
  BY UnderWay DEF FastForward
<1> DEFINE t == [tree[s] EXCEPT !.main = main]
           r == [runner[w] EXCEPT !.pc = "record_sync"]
<1>1. /\ runner[w].pc = "merge" /\ tree' = [tree EXCEPT ![s] = t] /\ runner' = [runner EXCEPT ![w] = r]
      /\ UNCHANGED <<task, main, dirty, snapshot, row, step, merged, lock, unsynced>>
  BY <1>0 DEF FastForward, Goto, Become, history, steps, project
<1>2. /\ lock = w /\ runner[w] \in RunnerRec /\ s \in Steps /\ tree[s] \in TreeRec /\ Knows(w)
      /\ DependenciesMerged(s)
  BY <1>0, <1>1, UnderWay DEF Knows
<1>3. ProjectOK' /\ Grows
  BY <1>1, ProjectRests DEF IInv, Types
<1>4. t \in TreeRec /\ t.main = main /\ t.work = tree[s].work
  BY <1>2 DEF TreeRec, Commits, NoCommit, IInv, Types, ProjectOK
<1>5. r \in RunnerRec /\ r.pc = "record_sync" /\ r.seen = runner[w].seen /\ r.item = s
  BY <1>0, <1>2 DEF RunnerRec, Places, Reconciling
<1> HIDE DEF t, r
<1>6. TreesOK' /\ \A u \in Steps : tree'[u] = IF u = s THEN t ELSE tree[u]
  BY <1>1, <1>2, <1>4, TreeMoves DEF IInv, Types
<1>7. \A u \in Steps : tree[u].main <= tree'[u].main /\ tree'[u].work = tree[u].work
  BY <1>4, <1>6 DEF IInv, Types, TreesOK, TreeRec, Commits, NoCommit, ProjectOK
<1>8. task' = "workspace_ready" => \A u \in Dependents' \ unsynced' : Synced(u)'
  BY <1>1, <1>3, <1>6, <1>7, ReadyKept
<1>9. Gate' /\ WorkOK'
  BY <1>1, <1>3, <1>6, <1>7, <1>8, GateKept
<1>10. RowsOK'
  BY <1>1, <1>3, RowsRest DEF IInv, Types
<1>11. r \in RunnerRec' /\ runner'[w] = r
  BY <1>1, <1>3, <1>5, CommitsGrow DEF RunnerRec, StepRec, IInv, Types, RunnersOK
<1>12. \A u \in Steps : r.seen[u] \in Waits => Untouched(u)' /\ row'[u].status # "ready"
  BY <1>1, <1>2, <1>5 DEF Knows, Untouched, Reconciling
<1>13. Needs[s] # {} /\ \A d \in Needs[s] : step'[d].phase = "completed" /\ merged'[d] # NoCommit
  BY <1>1, <1>2 DEF DependenciesMerged
<1>14. tree'[runner'[w].item].main = main'
  BY <1>1, <1>2, <1>4, <1>5, <1>6, <1>11
<1>15. Knows(w)'
  BY <1>5, <1>11, <1>12, <1>13, <1>14 DEF Knows, DependenciesMerged, Provisioning, Reconciling
<1> QED BY <1>1, <1>2, <1>3, <1>5, <1>6, <1>9, <1>10, <1>11, <1>15, StepFits DEF IInv, Types

\* A row becomes ready through the gate: what is merged is in its worktree.
LEMMA RecordSyncFits ==
    ASSUME IInv, NEW w \in Runners, RecordSync(w)
    PROVE  IInv'
<1>0. PICK s \in Steps : s = runner[w].item
  BY UnderWay DEF RecordSync
<1> DEFINE new == [row[s] EXCEPT !.status = "ready", !.provision = main]
           r == [runner[w] EXCEPT !.pc = "head", !.seen[s] = "ready"]
           q == [runner[w] EXCEPT !.pc = "conflict"]
<1>1. /\ runner[w].pc = "record_sync"
      /\ UNCHANGED <<task, project, tree, steps, lock, unsynced>>
      /\ UNCHANGED <<main, dirty, snapshot, step, merged, tree>>
      /\ \/ row' = [row EXCEPT ![s] = new] /\ Become(w, r)
         \/ Become(w, q) /\ UNCHANGED row
  BY <1>0 DEF RecordSync, Goto, history, steps, project
<1>2. /\ lock = w /\ runner[w] \in RunnerRec /\ s \in Steps /\ row[s] \in RowRec /\ Knows(w)
      /\ DependenciesMerged(s) /\ tree[s].main = main
  BY <1>0, <1>1, UnderWay DEF Knows
<1>3. CASE Become(w, q) /\ UNCHANGED row
  <2>1. q \in RunnerRec /\ q.pc = "conflict" /\ q.seen = runner[w].seen
    BY <1>2 DEF RunnerRec, Places
  <2> HIDE DEF q
  <2>2. runner[w].pc \in Reconciling
    BY <1>1 DEF Reconciling
  <2> QED BY <1>1, <1>2, <1>3, <2>1, <2>2, ReconcilingGoes DEF Become
<1>4. CASE row' = [row EXCEPT ![s] = new] /\ Become(w, r)
  <2>1. ProjectOK' /\ Grows
    BY <1>1, ProjectRests DEF IInv, Types
  <2>2. new \in RowRec /\ new.status = "ready"
    <3>1. main \in Commits
      BY <2>1 DEF Commits, NoCommit, Grows
    <3> QED BY <1>2, <3>1 DEF RowRec, RowStatus, Provisioned
  <2>3. r \in RunnerRec /\ r.pc = "head" /\ r.item = s
        /\ \A u \in Steps : r.seen[u] = IF u = s THEN "ready" ELSE runner[w].seen[u]
    <3> DEFINE sn == [runner[w].seen EXCEPT ![s] = "ready"]
    <3>1. /\ sn \in [Steps -> RowStatus]
          /\ \A u \in Steps : sn[u] = IF u = s THEN "ready" ELSE runner[w].seen[u]
      BY <1>2 DEF RunnerRec, RowStatus, Provisioned
    <3>2. r = [runner[w] EXCEPT !.pc = "head", !.seen = sn]
      OBVIOUS
    <3> HIDE DEF sn, r
    <3> QED BY <1>0, <1>2, <3>1, <3>2 DEF RunnerRec, Places, Reconciling
  <2> HIDE DEF new, r
  <2>4. row' \in [Steps -> RowRec] /\ \A u \in Steps : row'[u] = IF u = s THEN new ELSE row[u]
    BY <1>2, <1>4, <2>2 DEF IInv, Types, RowsOK
  <2>5. RowsOK'
    BY <1>1, <2>4 DEF RowsOK, RowRec, Commits
  <2>6. TreesOK' /\ \A u \in Steps : tree[u].main <= tree'[u].main /\ tree'[u].work = tree[u].work
    BY <1>1, <2>1, TreesRest DEF IInv, Types, TreesOK, TreeRec, Commits, NoCommit
  <2>7. Synced(s)'
    <3>1. ASSUME NEW d \in Needs[s] PROVE merged'[d] # NoCommit /\ tree'[s].main >= merged'[d]
      <4>1. d \in Steps
        BY <1>2, NeedsAssumption
      <4>2. merged[d] \in Commits
        BY <4>1 DEF IInv, Types, StepsOK
      <4> QED BY <1>1, <1>2, <2>1, <4>2 DEF DependenciesMerged, Commits, NoCommit, Grows
    <3> QED BY <3>1 DEF Synced
  <2>8. task' = "workspace_ready" => \A u \in Dependents' \ unsynced' : Synced(u)'
    <3> SUFFICES ASSUME task' = "workspace_ready", NEW u \in Steps, u \in Dependents', u \notin unsynced', u # s
                 PROVE  Synced(u)'
      BY <2>7 DEF Dependents
    <3>1. u \in Dependents /\ u \notin unsynced /\ task = "workspace_ready"
      BY <1>1, <2>4 DEF Dependents, Gated, Untouched
    <3>2. Synced(u)
      BY <3>1 DEF IInv, Gate
    <3> QED BY <1>1, <2>1, <2>6, <3>2, SyncedStays
  <2>9. Gate' /\ WorkOK'
    <3>1. \A u \in Steps : row'[u].status \in Waits => row[u].status \in Waits
      BY <2>2, <2>4 DEF Waits
    <3> QED BY <1>1, <2>1, <2>6, <2>8, <3>1, GateKept
  <2>10. r \in RunnerRec' /\ runner'[w] = r
    BY <1>4, <2>1, <2>3, CommitsGrow DEF RunnerRec, StepRec, IInv, Types, RunnersOK, Become
  <2>11. \A u \in Steps : r.seen[u] \in Waits => Untouched(u)' /\ row'[u].status # "ready"
    <3> SUFFICES ASSUME NEW u \in Steps, r.seen[u] \in Waits
                 PROVE  Untouched(u)' /\ row'[u].status # "ready"
      OBVIOUS
    <3>1. u # s /\ runner[w].seen[u] \in Waits
      BY <2>3 DEF Waits
    <3>2. Untouched(u) /\ row[u].status # "ready"
      BY <1>1, <1>2, <3>1 DEF Knows, Reconciling
    <3> QED BY <1>1, <2>4, <3>1, <3>2 DEF Untouched
  <2>12. r.seen[s] \notin Waits
    BY <1>2, <2>3 DEF Waits
  <2>13. Knows(w)'
    BY <2>3, <2>10, <2>11, <2>12 DEF Knows, Provisioning, Reconciling
  <2> QED BY <1>1, <1>2, <1>4, <2>1, <2>3, <2>5, <2>6, <2>9, <2>10, <2>13, StepFits DEF IInv, Types, Become
<1> QED BY <1>1, <1>3, <1>4

LEMMA JudgeHeadFits ==
    ASSUME IInv, NEW w \in Runners, JudgeHead(w)
    PROVE  IInv'
<1>1. /\ runner[w].pc = "head" /\ UNCHANGED <<task, project, row, tree, steps, lock, unsynced>>
      /\ Become(w, Found(w, "ready")) \/ Become(w, Found(w, "drifted"))
  BY DEF JudgeHead, history
<1>2. runner[w] \in RunnerRec /\ runner[w].pc \in Reconciling /\ runner[w].seen[runner[w].item] \notin Waits
  BY <1>1, UnderWay DEF Reconciling, Knows
<1>3. ASSUME NEW v \in {"ready", "drifted"}, Become(w, Found(w, v)) PROVE IInv'
  <2>1. v \in Verdicts
    BY DEF Verdicts
  <2> QED BY <1>1, <1>2, <1>3, <2>1, FoundType, ReconcilingGoes DEF Become, Reconciling
<1> QED BY <1>1, <1>3

\* A verdict is written if the row is as it was; who becomes ready in this way
\* is ready already or marked.
LEMMA WriteItemFits ==
    ASSUME IInv, NEW w \in Runners, WriteItem(w)
    PROVE  IInv'
<1>0. PICK s \in Steps : s = runner[w].item
  BY UnderWay DEF WriteItem
<1> DEFINE seen == runner[w].seen[s]
           verdict == runner[w].verdict
           item == NextItem(w, "closing")
           pc == IF item.pc = "update" THEN "read" ELSE item.pc
           r == [item EXCEPT !.pc = pc]
           q == [runner[w] EXCEPT !.pc = "conflict"]
           marks == IF verdict = "ready" /\ row[s].status = seen /\ seen # "ready" /\ Gated(s)
                    THEN unsynced \cup {s} ELSE unsynced
<1>1. /\ runner[w].pc = "update" /\ UNCHANGED <<task, project, tree, steps, lock>>
      /\ UNCHANGED <<main, dirty, snapshot, step, merged, tree>>
      /\ unsynced' = marks
      /\ \/ verdict = "waiting" /\ Become(w, r) /\ UNCHANGED row
         \/ verdict # "waiting" /\ row[s].status = seen /\ SetRows({s}, verdict) /\ Become(w, r)
         \/ row[s].status # seen /\ Become(w, q) /\ UNCHANGED row
  BY <1>0 DEF WriteItem, Goto, project, steps
<1>2. /\ lock = w /\ runner[w] \in RunnerRec /\ runner[w].pc \in Reconciling /\ Knows(w)
      /\ verdict \in Verdicts /\ (verdict = "ready" => seen \notin Waits)
  BY <1>0, <1>1, UnderWay DEF Reconciling, Knows
<1>3. ProjectOK' /\ Grows
  BY <1>1, ProjectRests DEF IInv, Types
<1>4. r \in RunnerRec /\ r.pc \in {"read", "closing"} /\ r.seen = runner[w].seen
  <2>1. /\ item \in RunnerRec /\ item.pc \in {"update", "closing"} /\ item.seen = runner[w].seen
    BY <1>1, <1>2, NextItemType DEF Places
  <2> HIDE DEF item
  <2>2. pc \in {"read", "closing"} /\ pc \in Places
    BY <2>1 DEF Places, Reconciling
  <2> HIDE DEF pc
  <2> QED BY <2>1, <2>2 DEF RunnerRec
<1>5. q \in RunnerRec /\ q.pc = "conflict"
  BY <1>2 DEF RunnerRec, Places
<1>6. CASE UNCHANGED row /\ marks = unsynced /\ (Become(w, r) \/ Become(w, q))
  <2> HIDE DEF marks, q, r
  <2>1. UNCHANGED unsynced
    BY <1>1, <1>6
  <2>2. CASE Become(w, r)
    BY <1>1, <1>2, <1>4, <1>6, <2>1, <2>2, ReconcilingGoes DEF Become, Reconciling
  <2>3. CASE Become(w, q)
    <3>1. q \in RunnerRec' /\ runner'[w].pc = "conflict" /\ runner' = [runner EXCEPT ![w] = q]
      BY <1>3, <1>5, <2>3, CommitsGrow DEF RunnerRec, StepRec, IInv, Types, RunnersOK, Become
    <3>2. Knows(w)'
      BY <3>1 DEF Knows, Provisioning, Reconciling
    <3> QED BY <1>1, <1>2, <1>3, <1>5, <1>6, <2>1, <3>1, <3>2, QuietFits
  <2> QED BY <1>6, <2>2, <2>3
<1>7. CASE row[s].status = seen /\ SetRows({s}, verdict) /\ Become(w, r) /\ verdict # "waiting"
  <2>1. verdict \in {"ready", "drifted"} /\ verdict \in RowStatus
    BY <1>2, <1>7 DEF Verdicts, RowStatus, Provisioned
  <2>2. /\ RowsOK'
        /\ \A u \in Steps : row'[u].status = IF u = s THEN verdict ELSE row[u].status
    BY <1>3, <1>7, <2>1, RowsAreSet DEF IInv, Types
  <2>3. unsynced \subseteq unsynced' /\ unsynced' \subseteq Steps
    BY <1>1 DEF IInv, Types
  <2>4. TreesOK' /\ \A u \in Steps : tree[u].main <= tree'[u].main /\ tree'[u].work = tree[u].work
    BY <1>1, <1>3, TreesRest DEF IInv, Types, TreesOK, TreeRec, Commits, NoCommit
  <2>5. task' = "workspace_ready" => \A u \in Dependents' \ unsynced' : Synced(u)'
    <3> SUFFICES ASSUME task' = "workspace_ready", NEW u \in Steps, u \in Dependents', u \notin unsynced'
                 PROVE  Synced(u)'
      BY DEF Dependents
    <3>1. u \notin unsynced /\ task = "workspace_ready" /\ Gated(u) /\ row'[u].status = "ready"
      BY <1>1, <2>3 DEF Dependents, Gated, Untouched
    <3>2. row[u].status = "ready"
      <4>1. CASE u # s
        BY <2>2, <3>1, <4>1
      <4>2. CASE u = s
        <5>1. verdict = "ready"
          BY <2>2, <3>1, <4>2
        <5> QED BY <1>1, <1>7, <3>1, <4>2, <5>1
      <4> QED BY <4>1, <4>2
    <3>3. Synced(u)
      BY <3>1, <3>2 DEF IInv, Gate, Dependents
    <3> QED BY <1>1, <1>3, <2>4, <3>3, SyncedStays
  <2>6. Gate' /\ WorkOK'
    <3>1. \A u \in Steps : row'[u].status \in Waits => row[u].status \in Waits
      BY <2>1, <2>2 DEF Waits
    <3> HIDE DEF marks
    <3> QED BY <1>1, <1>3, <2>3, <2>4, <2>5, <3>1, GateKept
  <2> HIDE DEF marks, r
  <2>7. r \in RunnerRec' /\ runner'[w] = r
    BY <1>3, <1>4, <1>7, CommitsGrow DEF RunnerRec, StepRec, IInv, Types, RunnersOK, Become
  <2>8. \A u \in Steps : r.seen[u] \in Waits => Untouched(u)' /\ row'[u].status # "ready"
    <3> SUFFICES ASSUME NEW u \in Steps, r.seen[u] \in Waits
                 PROVE  Untouched(u)' /\ row'[u].status # "ready"
      OBVIOUS
    <3>1. Untouched(u) /\ row[u].status # "ready" /\ (u = s => verdict # "ready")
      BY <1>2, <1>4 DEF Knows
    <3> QED BY <1>1, <2>1, <2>2, <3>1 DEF Untouched
  <2>9. Knows(w)'
    BY <1>4, <2>7, <2>8 DEF Knows, Provisioning, Reconciling
  <2> QED BY <1>1, <1>2, <1>3, <1>4, <1>7, <2>2, <2>3, <2>4, <2>6, <2>7, <2>9, StepFits
          DEF IInv, Types, Become
<1>8. verdict = "waiting" \/ row[s].status # seen => marks = unsynced
  OBVIOUS
<1> HIDE DEF marks, r, q
<1> QED BY <1>1, <1>6, <1>7, <1>8

LEMMA FinishReconcileFits ==
    ASSUME IInv, NEW w \in Runners, FinishReconcile(w)
    PROVE  IInv'
<1>1. /\ runner[w].pc = "closing" /\ Return(w) /\ UNCHANGED <<project, tree, steps>>
      /\ UNCHANGED <<main, row, unsynced, step, merged>>
      /\ task' \in {task, "workspace_drifted"}
  BY DEF FinishReconcile, history, project, steps
<1>2. lock = w
  BY <1>1, UnderWay
<1>3. RowsOK'
  BY <1>1 DEF IInv, Types, RowsOK, RowRec, Commits
<1>4. Grows /\ UNCHANGED tree
  BY <1>1 DEF IInv, Types, ProjectOK, Grows
<1>5. TreesOK' /\ \A u \in Steps : tree[u].main <= tree'[u].main
  BY <1>4, TreesRest DEF IInv, Types, TreesOK, TreeRec, Commits, NoCommit
<1>6. task' = "workspace_ready" => \A u \in Dependents' \ unsynced' : Synced(u)'
  BY <1>1, <1>4, <1>5, ReadyKept
<1> QED BY <1>1, <1>2, <1>3, <1>6, EndFits DEF IInv, Types

\* Whoever gives up in the middle, and whoever dies.
LEMMA GivingUpFits ==
    ASSUME IInv, NEW w \in Runners, AbandonReconcile(w) \/ RefuseCleanup(w) \/ Crash(w)
    PROVE  IInv'
<1>1. Return(w) /\ UNCHANGED <<task, project, row, tree, steps, unsynced>>
  BY DEF AbandonReconcile, RefuseCleanup, Crash, history
<1>2. lock \in {w, NoRunner}
  <2>1. CASE runner[w].pc # "idle"
    BY <2>1, UnderWay
  <2>2. CASE runner[w].pc = "idle"
    <3>1. runner[w] # Idle
      BY <2>2 DEF AbandonReconcile, RefuseCleanup, Crash
    <3> QED BY <2>2, <3>1 DEF IInv, Types, RunnersOK
  <2> QED BY <2>1, <2>2
<1> QED BY <1>1, <1>2, ReturnFits

------------------------------------------------------------------------------
(* The administrator.                                                      *)

LEMMA BeginRepairFits ==
    ASSUME IInv, NEW w \in Runners, NEW direction \in {"database", "git_snapshot"},
           BeginRepair(w, direction)
    PROVE  IInv'
<1> DEFINE pc == IF direction = "database" THEN "from_database" ELSE "from_snapshot"
           r == [Idle EXCEPT !.pc = pc]
<1>1. /\ lock = NoRunner /\ lock' = w /\ runner' = [runner EXCEPT ![w] = r]
      /\ UNCHANGED <<task, main, dirty, snapshot, row, tree, step, merged, unsynced>>
  BY DEF BeginRepair, Take, Become, project, steps
<1>2. ProjectOK' /\ Grows
  BY <1>1, ProjectRests DEF IInv, Types
<1>3. pc \in {"from_database", "from_snapshot"} /\ pc \in Places
  BY DEF Places
<1> HIDE DEF pc
<1>4. r \in RunnerRec /\ r.pc = pc /\ r.item = 1
  BY <1>3, IdleType DEF IInv, Types, RunnerRec, Idle
<1> HIDE DEF r
<1>5. r \in RunnerRec' /\ runner'[w] = r
  BY <1>1, <1>2, <1>4, CommitsGrow DEF RunnerRec, StepRec, IInv, Types, RunnersOK
<1>6. \A u \in Steps : ~(u < 1)
  BY NAssumption DEF Steps
<1>7. Knows(w)'
  BY <1>3, <1>4, <1>5, <1>6 DEF Knows, Provisioning, Reconciling
<1> QED BY <1>1, <1>2, <1>3, <1>4, <1>5, <1>7, QuietFits

\* The items of a repair that are done: whoever should have waited is marked.
LEMMA RepairGoes ==
    ASSUME IInv, NEW w \in Runners, runner[w].pc \in {"from_database", "from_snapshot"},
           NEW done \in {"stage", "reopen"}, runner' = [runner EXCEPT ![w] = NextItem(w, done)],
           UNCHANGED <<task, main, tree, step, merged, lock>>, ProjectOK', RowsOK',
           NEW s \in Steps, s = runner[w].item,
           unsynced \subseteq unsynced', unsynced' \subseteq Steps,
           \A u \in Steps : /\ u # s => row'[u].status = row[u].status
                            /\ row'[u].status \in {row[u].status, "ready"},
           s \in Dependents' => s \in unsynced'
    PROVE  IInv'
<1>1. lock = w /\ runner[w] \in RunnerRec /\ Knows(w)
  BY UnderWay
<1>2. Grows
  BY DEF IInv, Types, ProjectOK, Grows
<1>3. TreesOK' /\ \A u \in Steps : tree[u].main <= tree'[u].main
  BY <1>2, TreesRest DEF IInv, Types, TreesOK, TreeRec, Commits, NoCommit
<1>4. \A u \in Dependents' : u # s => u \in Dependents
  BY DEF Dependents, Gated, Untouched
<1>5. task' = "workspace_ready" => \A u \in Dependents' \ unsynced' : Synced(u)'
  <2> SUFFICES ASSUME task' = "workspace_ready", NEW u \in Steps, u \in Dependents', u \notin unsynced'
               PROVE  Synced(u)'
    BY DEF Dependents
  <2>1. Synced(u)
    BY <1>4 DEF IInv, Gate
  <2> QED BY <1>2, <1>3, <2>1, SyncedStays
<1>6. Gate' /\ WorkOK'
  <2>1. \A u \in Steps : row'[u].status \in Waits => row[u].status \in Waits
    BY DEF Waits
  <2> QED BY <1>2, <1>3, <1>5, <2>1, GateKept
<1>7. PICK r : r = NextItem(w, done)
  OBVIOUS
<1>8. /\ r \in RunnerRec /\ r.pc \in {"from_database", "from_snapshot", "stage", "reopen"}
      /\ IF s < N THEN r.item = s + 1 /\ r.pc = runner[w].pc ELSE r.item = 1 /\ r.pc = done
  <2>1. done \in Places
    BY DEF Places
  <2>2. /\ r \in RunnerRec
        /\ r.item = IF s < N THEN s + 1 ELSE 1
        /\ r.pc = IF s < N THEN runner[w].pc ELSE done
    BY <1>1, <1>7, <2>1, NextItemType DEF NextItem, RunnerRec
  <2> QED BY <2>2
<1>9. r \in RunnerRec' /\ runner'[w] = r /\ runner' = [runner EXCEPT ![w] = r]
  BY <1>2, <1>7, <1>8, CommitsGrow DEF RunnerRec, StepRec, IInv, Types, RunnersOK
<1>10. \A u \in Steps : u <= s /\ u \in Dependents' => u \in unsynced'
  BY <1>1, <1>4 DEF Knows, Steps
<1>11. r.pc \in {"from_database", "from_snapshot"} =>
           \A u \in Steps : u < r.item /\ u \in Dependents' => u \in unsynced'
  BY <1>8, <1>10, NAssumption DEF Steps
<1>12. r.pc \in {"stage", "reopen"} => Dependents' \subseteq unsynced'
  <2>1. ASSUME r.pc \in {"stage", "reopen"} PROVE \A u \in Steps : u <= s
    BY <1>8, <2>1, NAssumption DEF Steps
  <2> QED BY <1>10, <2>1 DEF Dependents
<1>13. Knows(w)'
  BY <1>8, <1>9, <1>11, <1>12 DEF Knows, Provisioning, Reconciling
<1>14. task' \in {"assigned", "workspace_ready", "workspace_drifted", "delivered"} /\ r.pc # "idle"
  BY <1>8 DEF IInv, Types
<1> QED BY <1>1, <1>2, <1>3, <1>6, <1>9, <1>13, <1>14, StepFits

\* A repair makes a row ready and marks its step if it should have waited.
LEMMA RepairFromDatabaseFits ==
    ASSUME IInv, NEW w \in Runners, RepairFromDatabase(w)
    PROVE  IInv'
<1>0. PICK s \in Steps : s = runner[w].item
  BY UnderWay DEF RepairFromDatabase
<1>1. /\ runner[w].pc = "from_database" /\ s \in Rows
      /\ snapshot' = [snapshot EXCEPT ![s] = row[s].base] /\ dirty' = (dirty \/ snapshot' # snapshot)
      /\ SetRows({s}, "ready") \/ UNCHANGED row
      /\ unsynced' = unsynced \cup {u \in {s} : Gated(u)}
      /\ runner' = [runner EXCEPT ![w] = NextItem(w, "stage")]
      /\ UNCHANGED <<task, main, tree, step, merged, lock>>
  BY <1>0 DEF RepairFromDatabase, Reopened, Become, steps
<1>2. Grows /\ "ready" \in RowStatus /\ row[s] \in RowRec
  BY <1>1 DEF IInv, Types, ProjectOK, RowsOK, Grows, RowStatus, Provisioned
<1>3. ProjectOK'
  <2>1. snapshot' \in [Steps -> Commits] /\ dirty' \in BOOLEAN
    BY <1>1, <1>2 DEF IInv, Types, ProjectOK, RowRec
  <2> QED BY <1>1, <2>1 DEF IInv, Types, ProjectOK, Commits
<1>4. /\ RowsOK'
      /\ \A u \in Steps : /\ u # s => row'[u].status = row[u].status
                          /\ row'[u].status \in {row[u].status, "ready"}
  <2>1. CASE SetRows({s}, "ready")
    BY <1>2, <2>1, RowsAreSet DEF IInv, Types
  <2>2. CASE UNCHANGED row
    BY <1>2, <2>2, RowsRest DEF IInv, Types
  <2> QED BY <1>1, <2>1, <2>2
<1>5. unsynced \subseteq unsynced' /\ unsynced' \subseteq Steps
  BY <1>1 DEF IInv, Types
<1>6. s \in Dependents' => s \in unsynced'
  BY <1>1 DEF Dependents, Gated, Untouched
<1> QED BY <1>0, <1>1, <1>3, <1>4, <1>5, <1>6, RepairGoes

LEMMA RepairFromSnapshotFits ==
    ASSUME IInv, NEW w \in Runners, RepairFromSnapshot(w)
    PROVE  IInv'
<1>0. PICK s \in Steps : s = runner[w].item
  BY UnderWay DEF RepairFromSnapshot
<1> DEFINE new == [row[s] EXCEPT !.status = "ready", !.base = snapshot[s]]
<1>1. /\ runner[w].pc = "from_snapshot" /\ UNCHANGED <<task, project, tree, steps>>
      /\ UNCHANGED <<main, dirty, snapshot, step, merged>>
      /\ \/ Return(w) /\ UNCHANGED <<row, unsynced>>
         \/ /\ row' = [row EXCEPT ![s] = new]
            /\ unsynced' = unsynced \cup {u \in {s} : Gated(u)}
            /\ runner' = [runner EXCEPT ![w] = NextItem(w, "reopen")] /\ UNCHANGED lock
  BY <1>0 DEF RepairFromSnapshot, Reopened, Become, project, steps
<1>2. lock = w
  BY <1>1, UnderWay
<1>3. CASE Return(w) /\ UNCHANGED <<row, unsynced>>
  BY <1>1, <1>2, <1>3, ReturnFits
<1>4. CASE /\ row' = [row EXCEPT ![s] = new]
           /\ unsynced' = unsynced \cup {u \in {s} : Gated(u)}
           /\ runner' = [runner EXCEPT ![w] = NextItem(w, "reopen")] /\ UNCHANGED lock
  <2>1. ProjectOK' /\ snapshot[s] \in Commits
    BY <1>1, ProjectRests DEF IInv, Types, ProjectOK
  <2>2. new \in RowRec /\ new.status = "ready"
    BY <2>1 DEF IInv, Types, RowsOK, RowRec, RowStatus, Provisioned
  <2> HIDE DEF new
  <2>3. row' \in [Steps -> RowRec] /\ \A u \in Steps : row'[u] = IF u = s THEN new ELSE row[u]
    BY <1>4, <2>2 DEF IInv, Types, RowsOK
  <2>4. RowsOK'
    BY <1>1, <2>3 DEF RowsOK, RowRec, Commits
  <2>5. \A u \in Steps : /\ u # s => row'[u].status = row[u].status
                         /\ row'[u].status \in {row[u].status, "ready"}
    BY <2>2, <2>3
  <2>6. unsynced \subseteq unsynced' /\ unsynced' \subseteq Steps
    BY <1>4 DEF IInv, Types
  <2>7. s \in Dependents' => s \in unsynced'
    BY <1>1, <1>4 DEF Dependents, Gated, Untouched
  <2> QED BY <1>0, <1>1, <1>4, <2>1, <2>4, <2>5, <2>6, <2>7, RepairGoes
<1> QED BY <1>1, <1>3, <1>4

LEMMA PassOverFits ==
    ASSUME IInv, NEW w \in Runners, PassOver(w)
    PROVE  IInv'
<1>0. PICK s \in Steps : s = runner[w].item
  BY UnderWay DEF PassOver
<1>1. PICK done \in {"stage", "reopen"} : runner' = [runner EXCEPT ![w] = NextItem(w, done)]
  BY DEF PassOver, Become
<1>2. /\ runner[w].pc \in {"from_database", "from_snapshot"} /\ s \notin Rows
      /\ UNCHANGED <<task, main, dirty, snapshot, row, tree, step, merged, lock, unsynced>>
  BY <1>0 DEF PassOver, history, project, steps
<1>3. ProjectOK' /\ RowsOK' /\ unsynced' \subseteq Steps
  BY <1>2, ProjectRests, RowsRest DEF IInv, Types
<1>4. s \notin Dependents'
  BY <1>2 DEF Dependents, Rows
<1> QED BY <1>0, <1>1, <1>2, <1>3, <1>4, RepairGoes

LEMMA CommitRepairFits ==
    ASSUME IInv, NEW w \in Runners, CommitRepair(w)
    PROVE  IInv'
<1> DEFINE r == [runner[w] EXCEPT !.pc = "reopen"]
<1>1. /\ runner[w].pc = "stage" /\ main' = (IF dirty THEN main + 1 ELSE main) /\ dirty' = FALSE
      /\ runner' = [runner EXCEPT ![w] = r]
      /\ UNCHANGED <<task, snapshot, row, tree, step, merged, lock, unsynced>>
  BY DEF CommitRepair, Goto, Become, history, steps
<1>2. lock = w /\ runner[w] \in RunnerRec /\ Dependents \subseteq unsynced
  BY <1>1, UnderWay DEF Knows
<1>3. Grows
  BY <1>1 DEF IInv, Types, ProjectOK, Grows
<1>4. ProjectOK'
  BY <1>1, <1>3, CommitsGrow DEF IInv, Types, ProjectOK, Grows
<1>5. r \in RunnerRec /\ r.pc = "reopen"
  BY <1>2 DEF RunnerRec, Places
<1> HIDE DEF r
<1>6. r \in RunnerRec' /\ runner'[w] = r
  BY <1>1, <1>3, <1>5, CommitsGrow DEF RunnerRec, StepRec, IInv, Types, RunnersOK
<1>7. Dependents' \subseteq unsynced'
  BY <1>1, <1>2 DEF Dependents, Gated, Untouched
<1>8. Knows(w)'
  BY <1>5, <1>6, <1>7 DEF Knows, Provisioning, Reconciling
<1> QED BY <1>1, <1>2, <1>3, <1>4, <1>5, <1>6, <1>8, QuietFits

LEMMA ReopenTaskFits ==
    ASSUME IInv, NEW w \in Runners, ReopenTask(w)
    PROVE  IInv'
<1>1. /\ runner[w].pc = "reopen" /\ task' = "workspace_ready" /\ Return(w)
      /\ UNCHANGED <<project, tree, steps>> /\ UNCHANGED <<main, row, unsynced, step>>
  BY DEF ReopenTask, history, project, steps
<1>2. lock = w /\ Dependents \subseteq unsynced
  BY <1>1, UnderWay DEF Knows
<1>3. RowsOK' /\ Dependents' \subseteq unsynced'
  BY <1>1, <1>2 DEF IInv, Types, RowsOK, RowRec, Commits, Dependents, Gated, Untouched
<1> QED BY <1>1, <1>2, <1>3, EndFits DEF IInv, Types

\* A cleanup: its first step, and one that goes on to the next item.
LEMMA CleaningGoes ==
    ASSUME IInv, Grows, ProjectOK', RowsOK', TreesOK', UNCHANGED <<task, step, merged, unsynced>>,
           NEW w \in Runners, lock \in {w, NoRunner},
           NEW r \in RunnerRec, runner' = [runner EXCEPT ![w] = r],
           \/ r.pc = "clean" /\ lock' = w
           \/ r = Idle /\ lock' = NoRunner,
           \A s \in Steps : /\ tree[s].main <= tree'[s].main /\ tree'[s].work = tree[s].work
                            /\ row'[s].status \in {row[s].status, "cleaned"}
    PROVE  IInv'
<1>1. \A s \in Steps : /\ row'[s].status \in Waits => row[s].status \in Waits
                       /\ row'[s].status = "ready" => row[s].status = "ready"
  BY DEF Waits
<1>2. task' = "workspace_ready" => \A s \in Dependents' \ unsynced' : Synced(s)'
  BY <1>1, ReadyKept
<1>3. Gate' /\ WorkOK'
  BY <1>1, <1>2, GateKept
<1>4. r \in RunnerRec' /\ runner'[w] = r
  BY CommitsGrow DEF RunnerRec, StepRec, IInv, Types, RunnersOK
<1>5. r.pc \in {"clean", "idle"} /\ IF r.pc = "idle" THEN lock' = NoRunner /\ r = Idle ELSE lock' = w
  BY DEF Idle
<1>6. Knows(w)'
  BY <1>4, <1>5 DEF Knows, Provisioning, Reconciling
<1> QED BY <1>3, <1>4, <1>5, <1>6, StepFits DEF IInv, Types

LEMMA BeginCleanupFits ==
    ASSUME IInv, NEW w \in Runners, BeginCleanup(w)
    PROVE  IInv'
<1> DEFINE r == [Idle EXCEPT !.pc = "clean"]
<1>1. /\ lock = NoRunner /\ lock' = w /\ runner' = [runner EXCEPT ![w] = r]
      /\ UNCHANGED <<task, main, dirty, snapshot, row, tree, step, merged, unsynced>>
  BY DEF BeginCleanup, Take, Become, history, project, steps
<1>2. ProjectOK' /\ Grows
  BY <1>1, ProjectRests DEF IInv, Types
<1>3. RowsOK' /\ TreesOK'
  BY <1>1, <1>2, RowsRest, TreesRest DEF IInv, Types
<1>4. r \in RunnerRec /\ r.pc = "clean"
  BY IdleType DEF IInv, Types, RunnerRec, Places
<1>5. \A s \in Steps : tree[s].main <= tree'[s].main
  BY <1>1 DEF IInv, Types, TreesOK, TreeRec, Commits, NoCommit
<1> HIDE DEF r
<1> QED BY <1>1, <1>2, <1>3, <1>4, <1>5, CleaningGoes

LEMMA CleanItemFits ==
    ASSUME IInv, NEW w \in Runners, CleanItem(w)
    PROVE  IInv'
<1>0. PICK s \in Steps : s = runner[w].item
  BY UnderWay DEF CleanItem
<1> DEFINE t == [tree[s] EXCEPT !.present = FALSE]
           r == NextItem(w, "cleaned")
<1>1. /\ runner[w].pc = "clean" /\ tree' = [tree EXCEPT ![s] = t] /\ SetRows({s}, "cleaned")
      /\ (r.pc = "cleaned" /\ Return(w)) \/ (r.pc # "cleaned" /\ Become(w, r) /\ UNCHANGED lock)
      /\ UNCHANGED <<task, main, dirty, snapshot, step, merged, unsynced>>
  BY <1>0 DEF CleanItem, history, project, steps
<1>2. lock = w /\ runner[w] \in RunnerRec /\ tree[s] \in TreeRec
  BY <1>0, <1>1, UnderWay
<1>3. ProjectOK' /\ Grows /\ "cleaned" \in RowStatus
  BY <1>1, ProjectRests DEF IInv, Types, RowStatus
<1>4. RowsOK' /\ \A u \in Steps : row'[u].status \in {row[u].status, "cleaned"}
  BY <1>1, <1>3, RowsAreSet DEF IInv, Types
<1>5. t \in TreeRec /\ t.main = tree[s].main /\ t.work = tree[s].work
  BY <1>2 DEF TreeRec
<1>6. r \in RunnerRec /\ r.pc \in {"clean", "cleaned"}
  BY <1>1, <1>2, NextItemType DEF Places
<1> HIDE DEF t, r
<1>7. TreesOK' /\ \A u \in Steps : tree'[u] = IF u = s THEN t ELSE tree[u]
  BY <1>1, <1>5, TreeMoves DEF IInv, Types
<1>8. \A u \in Steps : tree[u].main <= tree'[u].main /\ tree'[u].work = tree[u].work
  BY <1>5, <1>7 DEF IInv, Types, TreesOK, TreeRec, Commits, NoCommit
<1>9. CASE Become(w, r) /\ UNCHANGED lock /\ r.pc = "clean"
  BY <1>1, <1>2, <1>3, <1>4, <1>6, <1>7, <1>8, <1>9, CleaningGoes DEF Become
<1>10. CASE Return(w)
  <2>1. Idle \in RunnerRec
    BY IdleType DEF IInv, Types
  <2> QED BY <1>1, <1>2, <1>3, <1>4, <1>7, <1>8, <1>10, <2>1, CleaningGoes DEF Return, Become
<1> QED BY <1>1, <1>6, <1>9, <1>10

------------------------------------------------------------------------------
(* Leases, reviews, merges and orders, whoever has the lock.               *)

\* The parts of a step that leaves the goroutines alone.
LEMMA OutsideFits ==
    ASSUME IInv, Grows, UNCHANGED <<lock, runner>>,
           task' \in {"assigned", "workspace_ready", "workspace_drifted", "delivered"},
           ProjectOK', RowsOK', TreesOK', StepsOK', unsynced' \subseteq Steps, Gate', WorkOK',
           \A w \in Runners : Knows(w)'
    PROVE  IInv'
<1>1. RunnersOK'
  BY RunnersRest DEF IInv, Types
<1> QED BY <1>1 DEF IInv, Types

\* What a goroutine knows, nobody else can change.
LEMMA KnowsStays ==
    ASSUME IInv, UNCHANGED <<main, tree, merged, runner, unsynced>>,
           \A u \in Steps : /\ u \in Dependents' => u \in Dependents
                            /\ Untouched(u) /\ row[u].status # "ready" =>
                                   Untouched(u)' /\ row'[u].status # "ready"
                            /\ step[u].phase = "completed" => step'[u].phase = "completed"
    PROVE  \A w \in Runners : Knows(w)'
<1> SUFFICES ASSUME NEW w \in Runners PROVE Knows(w)'
  OBVIOUS
<1>1. Knows(w) /\ runner[w].item \in Steps
  BY DEF IInv, Types, RunnersOK, RunnerRec
<1>2. Dependents' \subseteq Dependents
  BY DEF Dependents
<1>3. ASSUME NEW s \in Steps, DependenciesMerged(s) PROVE DependenciesMerged(s)'
  <2>1. \A d \in Needs[s] : d \in Steps
    BY NeedsAssumption
  <2> QED BY <1>3, <2>1 DEF DependenciesMerged
<1>4. runner[w].pc \in {"merge", "record_sync"} => DependenciesMerged(runner[w].item)'
  BY <1>1, <1>3 DEF Knows
<1>5. runner[w].pc \in Reconciling =>
          \A u \in Steps : runner[w].seen[u] \in Waits => Untouched(u)' /\ row'[u].status # "ready"
  BY <1>1 DEF Knows
<1>6. /\ runner[w].pc = "finalize" => Dependents' = {}
      /\ runner[w].pc \in {"stage", "reopen"} => Dependents' \subseteq unsynced
  BY <1>1, <1>2 DEF Knows
<1>7. runner[w].pc \in {"from_database", "from_snapshot"} =>
          \A u \in Steps : u < runner[w].item /\ u \in Dependents' => u \in unsynced
  BY <1>1, <1>2 DEF Knows
<1>8. /\ runner[w].pc = "sync" => runner[w].seen[runner[w].item] \in Waits
      /\ runner[w].pc = "record_sync" => tree[runner[w].item].main = main
      /\ runner[w].pc = "head" => runner[w].seen[runner[w].item] \notin Waits
      /\ runner[w].pc = "update" =>
            /\ runner[w].verdict \in Verdicts
            /\ runner[w].verdict = "ready" => runner[w].seen[runner[w].item] \notin Waits
  BY <1>1 DEF Knows
<1> QED BY <1>4, <1>5, <1>6, <1>7, <1>8 DEF Knows, DependenciesMerged, Untouched

\* While nobody has the lock nobody knows anything.
LEMMA UnlockedKnows ==
    ASSUME IInv, lock = NoRunner, UNCHANGED runner
    PROVE  \A w \in Runners : Knows(w)'
<1>1. \A w \in Runners : runner[w].pc = "idle"
  BY RunnerAssumption DEF IInv, Types, RunnersOK
<1> QED BY <1>1 DEF Knows, Provisioning, Reconciling

\* A lease that is granted or moves, a review: the step has begun.
LEMMA LeaseFits ==
    ASSUME IInv, UNCHANGED <<task, main, dirty, snapshot, row, tree, merged, lock, runner, unsynced>>,
           NEW s \in Steps, NEW r \in StepRec, step' = [step EXCEPT ![s] = r],
           r.phase \notin {"assigned", "completed"}, r.leases > 0,
           step[s].phase # "completed",
           ~Untouched(s) \/ row[s].status = "ready",
           r.phase \in {"review", "returned"} => tree[s].work = "recorded",
           step[s].leases > 0 \/ s \in unsynced \/ Synced(s)
    PROVE  IInv'
<1>1. ProjectOK' /\ Grows /\ StepRec' = StepRec
  BY ProjectRests DEF IInv, Types, StepRec
<1>2. RowsOK' /\ TreesOK'
  BY <1>1, RowsRest, TreesRest DEF IInv, Types
<1>3. step' \in [Steps -> StepRec] /\ \A u \in Steps : step'[u] = IF u = s THEN r ELSE step[u]
  BY DEF IInv, Types, StepsOK
<1>4. ASSUME NEW u \in Steps
      PROVE  /\ step'[u].phase = "assigned" <=> step'[u].leases = 0
             /\ merged[u] # NoCommit => step'[u].phase = "completed"
             /\ u # s => step'[u] = step[u]
  <2>1. CASE u = s
    <3>1. r.leases # 0
      OBVIOUS
    <3> QED BY <1>3, <2>1, <3>1 DEF IInv, Types, StepsOK
  <2>2. CASE u # s
    BY <1>3, <2>2 DEF IInv, Types, StepsOK
  <2> QED BY <2>1, <2>2
<1>5. merged' \in [Steps -> Commits']
  BY DEF IInv, Types, StepsOK, Commits
<1>6. StepsOK'
  BY <1>1, <1>3, <1>4, <1>5 DEF StepsOK
<1>7. \A u \in Steps : Untouched(u)' <=> (u # s /\ Untouched(u))
  BY <1>3 DEF Untouched
<1>8. Dependents' \subseteq Dependents
  BY <1>7 DEF Dependents, Gated
<1>9. \A u \in Steps : Synced(u)' <=> Synced(u)
  BY DEF Synced
<1>10. Gate'
  <2>1. row[s].status \notin Waits
    BY DEF IInv, Gate, Waits
  <2>2. ASSUME NEW u \in Steps, row'[u].status \in Waits PROVE Untouched(u)'
    BY <1>7, <2>1, <2>2 DEF IInv, Gate
  <2>3. task' = "workspace_ready" => \A u \in Dependents' \ unsynced' : Synced(u)'
    BY <1>8, <1>9 DEF IInv, Gate, Dependents
  <2>4. ASSUME NEW u \in Steps, u \notin unsynced, step'[u].leases > 0 PROVE Synced(u)
    <3>1. step[u].leases > 0 => Synced(u)
      BY <2>4 DEF IInv, Gate, LeasedIsSynced, Synced
    <3> QED BY <1>3, <2>4, <3>1
  <2>5. LeasedIsSynced'
    BY <2>4 DEF LeasedIsSynced, Synced
  <2> QED BY <2>2, <2>3, <2>5 DEF Gate
<1>11. WorkOK'
  <2>1. ASSUME NEW u \in Steps
        PROVE  /\ tree[u].work # "none" => step'[u].leases > 0
               /\ step'[u].phase \in {"review", "returned", "completed"} => tree[u].work = "recorded"
    <3>1. /\ tree[u].work # "none" => step[u].leases > 0
          /\ step[u].phase \in {"review", "returned", "completed"} => tree[u].work = "recorded"
      BY DEF IInv, WorkOK
    <3> QED BY <1>3, <3>1
  <2> QED BY <2>1 DEF WorkOK
<1>12. \A w \in Runners : Knows(w)'
  <2>1. \A u \in Steps : /\ u \in Dependents' => u \in Dependents
                         /\ Untouched(u) /\ row[u].status # "ready" =>
                                Untouched(u)' /\ row'[u].status # "ready"
                         /\ step[u].phase = "completed" => step'[u].phase = "completed"
    BY <1>3, <1>7, <1>8
  <2> QED BY <2>1, KnowsStays
<1>13. task' \in {"assigned", "workspace_ready", "workspace_drifted", "delivered"} /\ unsynced' \subseteq Steps
  BY DEF IInv, Types
<1> QED BY <1>1, <1>2, <1>6, <1>10, <1>11, <1>12, <1>13, OutsideFits

LEMMA AcquireFits ==
    ASSUME IInv, NEW s \in Steps, Acquire(s)
    PROVE  IInv'
<1> DEFINE r == [phase |-> "active", leases |-> step[s].leases + 1,
                 since |-> IF step[s].phase = "returned" THEN 1 ELSE 0]
<1>1. /\ task = "workspace_ready" /\ row[s].status = "ready"
      /\ step[s].phase \in {"assigned", "returned"} /\ step[s].leases < MaxLeases
      /\ step' = [step EXCEPT ![s] = r]
      /\ UNCHANGED <<task, main, dirty, snapshot, row, tree, merged, lock, runner, unsynced>>
  BY DEF Acquire, StepOnly, history, project, IInv, Types, StepsOK
<1>2. step[s] \in StepRec /\ (step[s].phase = "assigned" <=> step[s].leases = 0) /\ MaxLeases \in Nat
  BY BoundsAssumption DEF IInv, Types, StepsOK
<1>3. r \in StepRec /\ r.phase = "active" /\ r.leases > 0
  BY <1>1, <1>2 DEF StepRec, Phases
<1> HIDE DEF r
<1>4. step[s].leases > 0 \/ s \in unsynced \/ Synced(s)
  <2>1. CASE step[s].leases = 0
    <3>1. Untouched(s)
      BY <1>2, <2>1 DEF Untouched
    <3>2. CASE Needs[s] = {}
      BY <3>2 DEF Synced
    <3>3. CASE Needs[s] # {}
      BY <1>1, <3>1, <3>3 DEF Dependents, Gated, IInv, Gate
    <3> QED BY <3>2, <3>3
  <2>2. CASE step[s].leases # 0
    BY <1>2, <2>2 DEF StepRec
  <2> QED BY <2>1, <2>2
<1> QED BY <1>1, <1>3, <1>4, LeaseFits

LEMMA MoveLeaseFits ==
    ASSUME IInv, NEW s \in Steps, MoveLease(s)
    PROVE  IInv'
<1>1. UNCHANGED <<task, main, dirty, snapshot, row, tree, merged, lock, runner, unsynced>>
  BY DEF MoveLease, StepOnly, history, project
<1>2. /\ step[s] \in StepRec /\ (step[s].phase = "assigned" <=> step[s].leases = 0)
      /\ MaxLeases \in Nat /\ step \in [Steps -> StepRec]
  BY BoundsAssumption DEF IInv, Types, StepsOK
<1>3. /\ step[s].phase \in {"active", "interrupted", "review", "frozen"}
      /\ step[s].phase = "review" => tree[s].work = "recorded"
  BY DEF MoveLease, IInv, WorkOK
<1>4. step[s].leases > 0 /\ ~Untouched(s)
  BY <1>2, <1>3 DEF StepRec, Untouched
<1>5. CASE \E p \in {"interrupted", "frozen", "active", "returned"} :
              Moves(s, p) /\ (p = "returned" => step[s].phase = "review")
  <2>1. PICK p \in {"interrupted", "frozen", "active", "returned"} :
           Moves(s, p) /\ (p = "returned" => step[s].phase = "review")
    BY <1>5
  <2> DEFINE r == [step[s] EXCEPT !.phase = p]
  <2>2. r \in StepRec /\ r.phase = p /\ r.leases > 0 /\ step' = [step EXCEPT ![s] = r]
    BY <1>2, <1>4, <2>1 DEF Moves, StepRec, Phases
  <2> HIDE DEF r
  <2> QED BY <1>1, <1>3, <1>4, <2>1, <2>2, LeaseFits
<1>6. CASE /\ step[s].leases < MaxLeases
           /\ step' = [step EXCEPT ![s] = [phase |-> "active", leases |-> @.leases + 1,
                                           since |-> IF tree[s].work = "recorded" /\ @.since < 2
                                                     THEN @.since + 1 ELSE @.since]]
  <2> DEFINE n == IF tree[s].work = "recorded" /\ step[s].since < 2 THEN step[s].since + 1
                                                                  ELSE step[s].since
             r == [phase |-> "active", leases |-> step[s].leases + 1, since |-> n]
  <2>1. step' = [step EXCEPT ![s] = r]
    BY <1>2, <1>6
  <2>2. step[s].leases \in 0 .. MaxLeases /\ step[s].since \in 0 .. 2
    BY <1>2 DEF StepRec
  <2>3. n \in 0 .. 2
    BY <2>2
  <2> HIDE DEF n
  <2>4. r \in StepRec /\ r.phase = "active" /\ r.leases > 0
    BY <1>2, <1>6, <2>2, <2>3 DEF StepRec, Phases
  <2> HIDE DEF r
  <2> QED BY <1>1, <1>3, <1>4, <2>1, <2>4, LeaseFits
<1> QED BY <1>5, <1>6 DEF MoveLease

LEMMA SubmitFits ==
    ASSUME IInv, NEW s \in Steps, Submit(s)
    PROVE  IInv'
<1> DEFINE r == [step[s] EXCEPT !.phase = "review"]
<1>1. /\ step[s].phase = "active" /\ tree[s].work = "recorded" /\ step' = [step EXCEPT ![s] = r]
      /\ UNCHANGED <<task, main, dirty, snapshot, row, tree, merged, lock, runner, unsynced>>
  BY DEF Submit, Moves, StepOnly, history, project
<1>2. step[s] \in StepRec /\ (step[s].phase = "assigned" <=> step[s].leases = 0)
  BY DEF IInv, Types, StepsOK
<1>3. step[s].leases > 0 /\ ~Untouched(s)
  BY <1>1, <1>2 DEF StepRec, Untouched
<1>4. r \in StepRec /\ r.phase = "review" /\ r.leases > 0
  BY <1>2, <1>3 DEF StepRec, Phases
<1> HIDE DEF r
<1> QED BY <1>1, <1>3, <1>4, LeaseFits

LEMMA CommitFits ==
    ASSUME IInv, NEW s \in Steps, Commit(s)
    PROVE  IInv'
<1>1. PICK work \in {"recorded", "unrecorded"} :
         /\ tree' = [tree EXCEPT ![s].work = work]
         /\ step' = [step EXCEPT ![s].since = IF work = "recorded" THEN 0 ELSE @]
  BY DEF Commit
<1> DEFINE t == [tree[s] EXCEPT !.work = work]
           r == [step[s] EXCEPT !.since = IF work = "recorded" THEN 0 ELSE step[s].since]
<1>2. /\ step[s].phase = "active" /\ lock = NoRunner
      /\ tree' = [tree EXCEPT ![s] = t] /\ step' = [step EXCEPT ![s] = r]
      /\ UNCHANGED <<task, main, dirty, snapshot, row, merged, lock, runner, unsynced>>
  BY <1>1 DEF Commit, history, project, IInv, Types, StepsOK
<1>3. step[s] \in StepRec /\ tree[s] \in TreeRec /\ step[s].leases # 0
  BY <1>2 DEF IInv, Types, StepsOK, TreesOK
<1>4. t \in TreeRec /\ t.main = tree[s].main
  BY <1>3 DEF TreeRec, Works
<1>5. r \in StepRec /\ r.phase = step[s].phase /\ r.leases = step[s].leases
  BY <1>3 DEF StepRec
<1> HIDE DEF t, r
<1>6. TreesOK' /\ \A u \in Steps : tree'[u] = IF u = s THEN t ELSE tree[u]
  BY <1>2, <1>4, TreeMoves DEF IInv, Types
<1>7. /\ step' \in [Steps -> StepRec]
      /\ \A u \in Steps : step'[u].phase = step[u].phase /\ step'[u].leases = step[u].leases
  BY <1>2, <1>5 DEF IInv, Types, StepsOK
<1>8. ProjectOK' /\ Grows /\ StepRec' = StepRec /\ RowsOK'
  BY <1>2, ProjectRests, RowsRest DEF IInv, Types, StepRec
<1>9. StepsOK'
  <2>1. merged' \in [Steps -> Commits']
    BY <1>2 DEF IInv, Types, StepsOK, Commits
  <2> QED BY <1>2, <1>7, <1>8, <2>1 DEF IInv, Types, StepsOK
<1>10. \A u \in Steps : (Untouched(u)' <=> Untouched(u)) /\ (Synced(u)' <=> Synced(u))
  <2>1. \A u \in Steps : tree'[u].main = tree[u].main
    BY <1>4, <1>6
  <2> QED BY <1>2, <1>7, <2>1 DEF Untouched, Synced
<1>11. Gate'
  <2>1. \A u \in Steps : u \in Dependents' <=> u \in Dependents
    BY <1>2, <1>10 DEF Dependents, Gated
  <2>2. \A u \in Steps : row'[u].status \in Waits => Untouched(u)'
    BY <1>2, <1>10 DEF IInv, Gate
  <2>3. task' = "workspace_ready" => \A u \in Dependents' \ unsynced' : Synced(u)'
    BY <1>2, <1>10, <2>1 DEF IInv, Gate, Dependents
  <2>4. ASSUME NEW u \in Steps, u \notin unsynced, step'[u].leases > 0 PROVE Synced(u)'
    <3>1. Synced(u)
      BY <1>7, <2>4 DEF IInv, Gate, LeasedIsSynced, Synced
    <3> QED BY <1>10, <3>1
  <2>5. LeasedIsSynced'
    BY <1>2, <2>4 DEF LeasedIsSynced, Synced
  <2> QED BY <2>2, <2>3, <2>5 DEF Gate
<1>12. WorkOK'
  <2>1. ASSUME NEW u \in Steps
        PROVE  /\ tree'[u].work # "none" => step'[u].leases > 0
               /\ step'[u].phase \in {"review", "returned", "completed"} => tree'[u].work = "recorded"
    <3>1. /\ tree[u].work # "none" => step[u].leases > 0
          /\ step[u].phase \in {"review", "returned", "completed"} => tree[u].work = "recorded"
      BY DEF IInv, WorkOK
    <3>2. step[s].leases > 0 /\ step[s].phase = "active"
      BY <1>2, <1>3 DEF StepRec
    <3> QED BY <1>6, <1>7, <3>1, <3>2
  <2> QED BY <2>1 DEF WorkOK
<1>13. \A w \in Runners : Knows(w)'
  BY <1>2, UnlockedKnows
<1>14. task' \in {"assigned", "workspace_ready", "workspace_drifted", "delivered"} /\ unsynced' \subseteq Steps
  BY <1>2 DEF IInv, Types
<1> QED BY <1>2, <1>6, <1>8, <1>9, <1>11, <1>12, <1>13, <1>14, OutsideFits

\* Main has one commit more.
LEMMA MainMoves ==
    ASSUME IInv, main' = main + 1, UNCHANGED <<dirty, snapshot, row, tree>>
    PROVE  ProjectOK' /\ Grows /\ RowsOK' /\ TreesOK'
<1>1. Grows
  BY DEF IInv, Types, ProjectOK, Grows
<1>2. ProjectOK'
  BY <1>1, CommitsGrow DEF IInv, Types, ProjectOK, Grows
<1> QED BY <1>1, <1>2, RowsRest, TreesRest DEF IInv, Types

\* Nobody works with a step's commits before they are merged.
LEMMA MergeStepFits ==
    ASSUME IInv, NEW s \in Steps, MergeStep(s)
    PROVE  IInv'
<1> DEFINE r == [step[s] EXCEPT !.phase = "completed"]
<1>1. /\ step[s].phase = "review" /\ lock = NoRunner
      /\ step' = [step EXCEPT ![s] = r]
      /\ main' = main + 1 /\ merged' = [merged EXCEPT ![s] = main + 1]
      /\ UNCHANGED <<task, dirty, snapshot, row, tree, lock, runner, unsynced>>
  BY DEF MergeStep, Moves, history
<1>2. ProjectOK' /\ Grows /\ RowsOK' /\ TreesOK'
  BY <1>1, MainMoves
<1>3. step[s] \in StepRec /\ step[s].leases # 0 /\ merged[s] = NoCommit
  BY <1>1 DEF IInv, Types, StepsOK
<1>4. r \in StepRec /\ r.phase = "completed" /\ r.leases = step[s].leases
  BY <1>3 DEF StepRec, Phases
<1> HIDE DEF r
<1>5. /\ step' \in [Steps -> StepRec] /\ StepRec' = StepRec
      /\ \A u \in Steps : step'[u] = IF u = s THEN r ELSE step[u]
  BY <1>1, <1>4 DEF IInv, Types, StepsOK, StepRec
<1>6. /\ merged' \in [Steps -> Commits']
      /\ \A u \in Steps : merged'[u] = IF u = s THEN main + 1 ELSE merged[u]
  <2>1. main + 1 \in Commits'
    BY <1>1, <1>2 DEF Commits, Grows, NoCommit
  <2> QED BY <1>1, <1>2, <2>1, CommitsGrow DEF IInv, Types, StepsOK
<1>7. StepsOK'
  <2>1. ASSUME NEW u \in Steps
        PROVE  /\ step'[u].phase = "assigned" <=> step'[u].leases = 0
               /\ merged'[u] # NoCommit => step'[u].phase = "completed"
    <3>1. CASE u = s
      BY <1>3, <1>4, <1>5, <1>6, <3>1
    <3>2. CASE u # s
      BY <1>5, <1>6, <3>2 DEF IInv, Types, StepsOK
    <3> QED BY <3>1, <3>2
  <2> QED BY <1>5, <1>6, <2>1 DEF StepsOK
<1>8. ASSUME NEW u \in Steps PROVE Untouched(u)' <=> Untouched(u)
  BY <1>1, <1>4, <1>5 DEF Untouched
<1>9. ASSUME NEW u \in Steps, Synced(u) PROVE Synced(u)'
  <2>1. \A d \in Needs[u] : d \in Steps /\ d # s
    BY <1>3, <1>9, NeedsAssumption DEF Synced
  <2> QED BY <1>1, <1>6, <1>9, <2>1 DEF Synced
<1>10. Gate'
  <2>1. \A u \in Steps : u \in Dependents' <=> u \in Dependents
    BY <1>1, <1>8 DEF Dependents, Gated
  <2>2. \A u \in Steps : row'[u].status \in Waits => Untouched(u)'
    BY <1>1, <1>8 DEF IInv, Gate
  <2>3. task' = "workspace_ready" => \A u \in Dependents' \ unsynced' : Synced(u)'
    BY <1>1, <1>9, <2>1 DEF IInv, Gate, Dependents
  <2>4. ASSUME NEW u \in Steps, u \notin unsynced, step'[u].leases > 0 PROVE Synced(u)'
    <3>1. Synced(u)
      BY <1>4, <1>5, <2>4 DEF IInv, Gate, LeasedIsSynced, Synced
    <3> QED BY <1>9, <3>1
  <2>5. LeasedIsSynced'
    BY <1>1, <2>4 DEF LeasedIsSynced, Synced
  <2> QED BY <2>2, <2>3, <2>5 DEF Gate
<1>11. WorkOK'
  BY <1>1, <1>4, <1>5 DEF IInv, WorkOK
<1>12. \A w \in Runners : Knows(w)'
  BY <1>1, UnlockedKnows
<1>13. task' \in {"assigned", "workspace_ready", "workspace_drifted", "delivered"} /\ unsynced' \subseteq Steps
  BY <1>1 DEF IInv, Types
<1> QED BY <1>1, <1>2, <1>7, <1>10, <1>11, <1>12, <1>13, OutsideFits

\* A step that leaves leases, worktrees and merges alone.
LEMMA OrderFits ==
    ASSUME IInv, UNCHANGED <<tree, step, merged, lock, runner, unsynced>>,
           Grows, ProjectOK', RowsOK', TreesOK',
           \A s \in Steps : row'[s].status \in {row[s].status, "cleanup_pending"},
           task' \in {task, "delivered"},
           \A w \in Runners : Knows(w)'
    PROVE  IInv'
<1>1. \A s \in Steps :
         /\ tree[s].main <= tree'[s].main /\ tree'[s].work = tree[s].work
         /\ row'[s].status \in Waits => row[s].status \in Waits
         /\ row'[s].status = "ready" => row[s].status = "ready"
         /\ s \in unsynced => s \in unsynced'
  BY DEF Waits, IInv, Types, TreesOK, TreeRec, Commits, NoCommit
<1>2. task' = "workspace_ready" => \A s \in Dependents' \ unsynced' : Synced(s)'
  BY <1>1, ReadyKept
<1>3. Gate' /\ WorkOK'
  BY <1>1, <1>2, GateKept
<1>4. StepsOK'
  BY StepsRest DEF IInv, Types
<1>5. task' \in {"assigned", "workspace_ready", "workspace_drifted", "delivered"} /\ unsynced' \subseteq Steps
  BY DEF IInv, Types
<1> QED BY <1>3, <1>4, <1>5, OutsideFits

LEMMA OthersCommitFits ==
    ASSUME IInv, OthersCommit
    PROVE  IInv'
<1>1. /\ lock = NoRunner /\ main' = main + 1
      /\ UNCHANGED <<task, dirty, snapshot, row, tree, step, merged, lock, runner, unsynced>>
  BY DEF OthersCommit, history
<1>2. ProjectOK' /\ Grows /\ RowsOK' /\ TreesOK'
  BY <1>1, MainMoves
<1>3. \A w \in Runners : Knows(w)'
  BY <1>1, UnlockedKnows
<1> QED BY <1>1, <1>2, <1>3, OrderFits

LEMMA DeliverFits ==
    ASSUME IInv, Deliver
    PROVE  IInv'
<1>1. /\ task = "workspace_ready" /\ task' = "delivered"
      /\ UNCHANGED <<main, dirty, snapshot, row, tree, step, merged, lock, runner, unsynced>>
  BY DEF Deliver, history, project, steps
<1>2. ProjectOK' /\ Grows /\ RowsOK' /\ TreesOK'
  BY <1>1, ProjectRests, RowsRest, TreesRest DEF IInv, Types
<1>3. \A w \in Runners : Knows(w)'
  BY <1>1, KnowsStays DEF Dependents, Gated, Untouched
<1> QED BY <1>1, <1>2, <1>3, OrderFits

LEMMA RequestCleanupFits ==
    ASSUME IInv, RequestCleanup
    PROVE  IInv'
<1>1. /\ SetRows(Rows, "cleanup_pending")
      /\ UNCHANGED <<task, main, dirty, snapshot, tree, step, merged, lock, runner, unsynced>>
  BY DEF RequestCleanup, project, steps
<1>2. ProjectOK' /\ Grows /\ TreesOK' /\ "cleanup_pending" \in RowStatus
  BY <1>1, ProjectRests, TreesRest DEF IInv, Types, RowStatus
<1>3. RowsOK' /\ \A s \in Steps : row'[s].status = IF s \in Rows THEN "cleanup_pending" ELSE row[s].status
  BY <1>1, <1>2, RowsAreSet DEF IInv, Types
<1>4. \A s \in Steps : row'[s].status # "ready"
  BY <1>3 DEF Rows
<1>5. \A w \in Runners : Knows(w)'
  BY <1>1, <1>4, KnowsStays DEF Dependents, Untouched
<1> QED BY <1>1, <1>2, <1>3, <1>5, OrderFits

------------------------------------------------------------------------------
(* The invariant, and what follows from it.                                *)

LEMMA InitFits == Init => IInv
<1> SUFFICES ASSUME Init PROVE IInv
  OBVIOUS
<1>1. ProjectOK
  <2>1. main = 0 /\ dirty = FALSE /\ snapshot = [s \in Steps |-> NoCommit]
    BY DEF Init
  <2>2. NoCommit \in Commits /\ main \in Nat
    BY <2>1 DEF Commits, NoCommit
  <2>3. dirty \in BOOLEAN
    BY <2>1
  <2> QED BY <2>1, <2>2, <2>3 DEF ProjectOK
<1>2. Idle \in RunnerRec /\ Idle.pc = "idle" /\ NewStep \in StepRec
  BY <1>1, IdleType
<1>3. NoCommit \in Commits
  BY <1>1 DEF ProjectOK, Commits, NoCommit
<1>4. RowsOK /\ TreesOK
  BY <1>3 DEF Init, RowsOK, TreesOK, RowRec, TreeRec, RowStatus, Works, NoRow, NoBranch
<1>5. StepsOK
  <2>1. NewStep.phase = "assigned" /\ NewStep.leases = 0
    BY DEF NewStep
  <2> QED BY <1>2, <1>3, <2>1 DEF Init, StepsOK
<1>6. RunnersOK
  BY <1>2, RunnerAssumption DEF Init, RunnersOK
<1>7. Types
  BY <1>1, <1>4, <1>5, <1>6 DEF Init, Types
<1>8. \A s \in Steps : /\ row[s].status = "none" /\ tree[s].work = "none"
                       /\ step[s].phase = "assigned" /\ step[s].leases = 0
  BY DEF Init, NoRow, NoBranch, NewStep
<1>9. Gate /\ WorkOK
  BY <1>8 DEF Init, Gate, WorkOK, Waits, LeasedIsSynced
<1>10. \A w \in Runners : Knows(w)
  BY <1>2 DEF Init, Knows, Provisioning, Reconciling
<1> QED BY <1>7, <1>9, <1>10 DEF IInv

LEMMA RunnerStepFits ==
    ASSUME IInv, NEW w \in Runners, RunnerStep(w) \/ Crash(w)
    PROVE  IInv'
<1>1. CASE ProvisionStep(w) \/ FailTask(w)
  BY <1>1, BeginProvisionFits, InsertRowFits, WriteMetadataFits, CommitMetadataFits, RecordProvisionFits,
     CreateTreeFits, MarkReadyFits, MarkWaitingFits, FinalizeFits,
     FailTaskFits DEF ProvisionStep
<1>2. CASE ReconcileStep(w)
  BY <1>2, BeginReconcileFits, ReadItemFits, CheckDependenciesFits, FastForwardFits,
     RecordSyncFits, JudgeHeadFits, WriteItemFits, FinishReconcileFits
     DEF ReconcileStep
<1>3. CASE AbandonReconcile(w) \/ Crash(w)
  BY <1>3, GivingUpFits
<1>4. CASE AdminStep(w)
  BY <1>4, BeginRepairFits, RepairFromDatabaseFits, RepairFromSnapshotFits, PassOverFits, CommitRepairFits,
     ReopenTaskFits, BeginCleanupFits, CleanItemFits, GivingUpFits DEF AdminStep
<1> QED BY <1>1, <1>2, <1>3, <1>4 DEF RunnerStep

LEMMA NextFits == IInv /\ [Next]_vars => IInv'
<1> SUFFICES ASSUME IInv, [Next]_vars PROVE IInv'
  OBVIOUS
<1>1. CASE \E w \in Runners : RunnerStep(w) \/ Crash(w)
  BY <1>1, RunnerStepFits
<1>2. CASE RequestCleanup \/ OthersCommit \/ Deliver
  BY <1>2, RequestCleanupFits, OthersCommitFits, DeliverFits
<1>3. CASE \E s \in Steps : StepMove(s)
  BY <1>3, AcquireFits, MoveLeaseFits, CommitFits, SubmitFits, MergeStepFits DEF StepMove
<1>4. CASE UNCHANGED vars
  <2>1. UNCHANGED <<task, main, dirty, snapshot, row, tree, step, merged, lock, runner, unsynced>>
    BY <1>4 DEF vars, project, steps, history
  <2>2. ProjectOK' /\ Grows /\ RowsOK' /\ TreesOK'
    BY <2>1, ProjectRests, RowsRest, TreesRest DEF IInv, Types
  <2>3. \A w \in Runners : Knows(w)'
    BY <2>1, KnowsStays DEF Dependents, Gated, Untouched
  <2> QED BY <2>1, <2>2, <2>3, OrderFits
<1> QED BY <1>1, <1>2, <1>3, <1>4 DEF Next

LEMMA Invariance == Spec => []IInv
BY InitFits, NextFits, PTL DEF Spec

\* Every row, file, commit and worktree stays in its domain, and a handler
\* under way is the one that holds the project's lock.
THEOREM TypeCorrect == Spec => []TypeOK
BY Invariance, TypesFollow, PTL

\* A step that has had a lease has the work of the steps it depends on, unless
\* its row became 'ready' outside the gate, whatever the lease and the
\* worktree operations do between the handlers' reads and writes.
THEOREM SyncHolds == Spec => []LeasedIsSynced
<1>1. IInv => LeasedIsSynced
  BY DEF IInv, Gate
<1> QED BY Invariance, <1>1, PTL

------------------------------------------------------------------------------
(* Why a workspace is called drifted.                                      *)

\* One goroutine moves, and it has found no drift that it had not.
LEMMA NoDriftFound ==
    ASSUME IInv, NEW v \in Runners, NEW r, runner' = [runner EXCEPT ![v] = r],
           r.drifted => runner[v].drifted,
           NEW w \in Runners, runner'[w].drifted
    PROVE  runner[w].drifted
<1>1. runner'[w] = IF w = v THEN r ELSE runner[w]
  BY DEF IInv, Types, RunnersOK
<1>2. CASE w = v
  BY <1>1, <1>2
<1>3. CASE w # v
  BY <1>1, <1>3
<1> QED BY <1>2, <1>3

LEMMA NextItemKeeps ==
    ASSUME NEW w \in Runners, runner[w] \in RunnerRec, NEW done
    PROVE  NextItem(w, done).drifted = runner[w].drifted
BY DEF NextItem, RunnerRec

\* Only the three looks at a workspace find a drift.
LEMMA DriftIsFound ==
    ASSUME IInv, NEW v \in Runners, RunnerStep(v) \/ Crash(v),
           ~ReadItem(v), ~CheckDependencies(v), ~JudgeHead(v),
           NEW w \in Runners, runner'[w].drifted
    PROVE  runner[w].drifted
<1>1. runner[v] \in RunnerRec /\ Idle.drifted = FALSE
  BY DEF IInv, Types, RunnersOK, Idle
<1>2. ASSUME NEW r, Become(v, r), r.drifted => runner[v].drifted PROVE runner[w].drifted
  BY <1>2, NoDriftFound DEF Become
<1>3. ASSUME NEW pc, Goto(v, pc) PROVE runner[w].drifted
  <2> DEFINE r == [runner[v] EXCEPT !.pc = pc]
  <2>1. Become(v, r)
    BY <1>3 DEF Goto
  <2>2. r.drifted = runner[v].drifted
    BY <1>1 DEF RunnerRec
  <2> HIDE DEF r
  <2> QED BY <1>2, <2>1, <2>2
<1>4. ASSUME NEW r, Take(v, r), r.drifted = FALSE PROVE runner[w].drifted
  BY <1>2, <1>4 DEF Take
<1>5. Return(v) => runner[w].drifted
  BY <1>1, <1>2 DEF Return
<1>6. ASSUME NEW done, Become(v, NextItem(v, done)) PROVE runner[w].drifted
  BY <1>1, <1>2, <1>6, NextItemKeeps
<1>7. CASE ProvisionStep(v)
  <2>1. CASE BeginProvision(v)
    <3>1. PICK pc, c : Take(v, [Idle EXCEPT !.pc = pc, !.provision = c])
      BY <2>1 DEF BeginProvision
    <3> DEFINE r == [Idle EXCEPT !.pc = pc, !.provision = c]
    <3>2. r.drifted = FALSE
      BY DEF Idle
    <3> HIDE DEF r
    <3> QED BY <1>4, <3>1, <3>2 DEF r
  <2>2. CASE InsertRow(v) \/ CreateTree(v)
    BY <1>6, <2>2 DEF InsertRow, CreateTree
  <2>3. CASE WriteMetadata(v) \/ RecordProvision(v) \/ MarkReady(v) \/ MarkWaiting(v)
    BY <1>3, <2>3 DEF WriteMetadata, RecordProvision, MarkReady, MarkWaiting
  <2>4. CASE CommitMetadata(v)
    <3> DEFINE r == [runner[v] EXCEPT !.pc = "record", !.provision = main + 1]
    <3>1. Become(v, r)
      BY <2>4 DEF CommitMetadata
    <3>2. r.drifted = runner[v].drifted
      BY <1>1 DEF RunnerRec
    <3> HIDE DEF r
    <3> QED BY <1>2, <3>1, <3>2
  <2>5. CASE Finalize(v)
    BY <1>5, <2>5 DEF Finalize
  <2> QED BY <1>7, <2>1, <2>2, <2>3, <2>4, <2>5 DEF ProvisionStep
<1>8. CASE FailTask(v) \/ AbandonReconcile(v) \/ Crash(v)
  BY <1>5, <1>8 DEF FailTask, AbandonReconcile, Crash
<1>9. CASE ReconcileStep(v)
  <2>1. CASE BeginReconcile(v)
    <3>1. PICK pc, seen : Take(v, [Idle EXCEPT !.pc = pc, !.seen = seen])
      BY <2>1 DEF BeginReconcile
    <3> DEFINE r == [Idle EXCEPT !.pc = pc, !.seen = seen]
    <3>2. r.drifted = FALSE
      BY DEF Idle
    <3> HIDE DEF r
    <3> QED BY <1>4, <3>1, <3>2 DEF r
  <2>2. CASE FastForward(v)
    BY <1>3, <2>2 DEF FastForward
  <2>3. CASE RecordSync(v)
    <3> DEFINE r(s) == [runner[v] EXCEPT !.pc = "head", !.seen[s] = "ready"]
    <3>1. (\E s : Become(v, r(s))) \/ Goto(v, "conflict")
      BY <2>3 DEF RecordSync
    <3>2. ASSUME NEW s PROVE r(s).drifted = runner[v].drifted
      BY <1>1 DEF RunnerRec
    <3> HIDE DEF r
    <3> QED BY <1>2, <1>3, <3>1, <3>2
  <2>4. CASE WriteItem(v)
    <3> DEFINE n == NextItem(v, "closing")
               r == [n EXCEPT !.pc = IF @ = "update" THEN "read" ELSE @]
    <3>1. Become(v, r) \/ Goto(v, "conflict")
      BY <2>4 DEF WriteItem
    <3>2. n \in RunnerRec /\ n.drifted = runner[v].drifted
      BY <1>1, NextItemKeeps, NextItemType DEF Places
    <3> HIDE DEF n
    <3>3. r.drifted = runner[v].drifted
      BY <3>2 DEF RunnerRec
    <3> HIDE DEF r
    <3> QED BY <1>2, <1>3, <3>1, <3>3
  <2>5. CASE FinishReconcile(v)
    BY <1>5, <2>5 DEF FinishReconcile
  <2> QED BY <1>9, <2>1, <2>2, <2>3, <2>4, <2>5 DEF ReconcileStep
<1>10. CASE AdminStep(v)
  <2>1. CASE (\E direction \in {"database", "git_snapshot"} : BeginRepair(v, direction)) \/ BeginCleanup(v)
    <3>1. PICK pc : Take(v, [Idle EXCEPT !.pc = pc])
      BY <2>1 DEF BeginRepair, BeginCleanup
    <3> DEFINE r == [Idle EXCEPT !.pc = pc]
    <3>2. r.drifted = FALSE
      BY DEF Idle
    <3> HIDE DEF r
    <3> QED BY <1>4, <3>1, <3>2 DEF r
  <2>2. CASE CommitRepair(v)
    BY <1>3, <2>2 DEF CommitRepair
  <2>3. CASE ReopenTask(v) \/ RefuseCleanup(v)
    BY <1>5, <2>3 DEF ReopenTask, RefuseCleanup
  <2>4. CASE CleanItem(v) \/ RepairFromDatabase(v) \/ RepairFromSnapshot(v) \/ PassOver(v)
    BY <1>5, <1>6, <2>4 DEF CleanItem, RepairFromDatabase, RepairFromSnapshot, PassOver
  <2> QED BY <1>10, <2>1, <2>2, <2>3, <2>4 DEF AdminStep
<1> QED BY <1>7, <1>8, <1>9, <1>10 DEF RunnerStep

\* A look that changes what its goroutine has found.
LEMMA LookedAt ==
    ASSUME IInv, NEW v \in Runners, NEW r, runner' = [runner EXCEPT ![v] = r],
           NEW w \in Runners, ~runner[w].drifted, runner'[w].drifted
    PROVE  v = w /\ r.drifted
BY DEF IInv, Types, RunnersOK

LEMMA FoundDrift ==
    ASSUME NEW w \in Runners, runner[w] \in RunnerRec, ~runner[w].drifted, NEW verdict,
           Found(w, verdict).drifted
    PROVE  verdict = "drifted"
BY DEF Found, RunnerRec

\* Failures are counted, and only failures.
Counted == faults \in Nat

LEMMA FaultsCount == Spec => []Counted
<1>1. Init => Counted
  BY DEF Init, Counted
<1>2. Counted /\ [Next]_vars => Counted'
  <2> SUFFICES ASSUME faults \in Nat, [Next]_vars PROVE faults' \in Nat
    BY DEF Counted
  <2>1. ASSUME NEW w \in Runners, RunnerStep(w) \/ Crash(w) PROVE faults' \in {faults, faults + 1}
    <3>1. ProvisionStep(w) \/ FailTask(w) => faults' \in {faults, faults + 1}
      BY DEF ProvisionStep, BeginProvision, InsertRow, WriteMetadata, CommitMetadata, RecordProvision,
             CreateTree, MarkReady, MarkWaiting, Finalize, FailTask, Fault
    <3>2. ReconcileStep(w) => faults' \in {faults, faults + 1}
      BY DEF ReconcileStep, BeginReconcile, ReadItem, CheckDependencies, FastForward, RecordSync,
             JudgeHead, WriteItem, FinishReconcile, Fault
    <3>3. AdminStep(w) => faults' \in {faults, faults + 1}
      BY DEF AdminStep, BeginRepair, RepairFromDatabase, RepairFromSnapshot, PassOver, CommitRepair,
             ReopenTask, BeginCleanup, CleanItem, RefuseCleanup, Fault
    <3>4. AbandonReconcile(w) \/ Crash(w) => faults' \in {faults, faults + 1}
      BY DEF AbandonReconcile, Crash, Fault
    <3> QED BY <2>1, <3>1, <3>2, <3>3, <3>4 DEF RunnerStep
  <2>2. RequestCleanup \/ OthersCommit \/ Deliver => faults' = faults
    BY DEF RequestCleanup, OthersCommit, Deliver
  <2>3. ASSUME NEW s \in Steps, StepMove(s) PROVE faults' \in {faults, faults + 1}
    BY <2>3 DEF StepMove, Acquire, MoveLease, Commit, Submit, MergeStep, StepOnly
  <2>4. UNCHANGED vars => faults' = faults
    BY DEF vars
  <2> QED BY <2>1, <2>2, <2>3, <2>4 DEF Next
<1> QED BY <1>1, <1>2, PTL DEF Spec

LEMMA ReadItemHasCause ==
    ASSUME IInv, faults \in Nat, NEW v \in Runners, ReadItem(v),
           NEW w \in Runners, ~runner[w].drifted, runner'[w].drifted
    PROVE  Misplaced(runner[w].item) \/ faults' > faults
<1>0. PICK s \in Steps : s = runner[v].item
  BY UnderWay DEF ReadItem
<1> DEFINE g == [runner[v] EXCEPT !.state = step[s], !.pc = IF Awaits(v, s) THEN "sync" ELSE "head"]
<1>1. /\ runner[v].pc = "read" /\ lock = v /\ runner[v] \in RunnerRec /\ Knows(v)
      /\ \/ runner' = [runner EXCEPT ![v] = Found(v, "waiting")]
         \/ /\ ~Registered(s) \/ (Awaits(v, s) /\ ~Untouched(s))
            /\ runner' = [runner EXCEPT ![v] = Found(v, "drifted")]
         \/ runner' = [runner EXCEPT ![v] = g]
         \/ Fault
  BY <1>0, UnderWay DEF ReadItem, Become
<1>2. g.drifted = runner[v].drifted
  BY <1>1 DEF RunnerRec
<1> HIDE DEF g
<1>3. CASE runner' = [runner EXCEPT ![v] = Found(v, "waiting")]
  BY <1>1, <1>3, LookedAt, FoundDrift
<1>4. CASE runner' = [runner EXCEPT ![v] = g]
  BY <1>2, <1>4, LookedAt
<1>5. CASE /\ ~Registered(s) \/ (Awaits(v, s) /\ ~Untouched(s))
           /\ runner' = [runner EXCEPT ![v] = Found(v, "drifted")]
  <2>1. v = w
    BY <1>5, LookedAt
  <2>2. Awaits(v, s) => Untouched(s)
    BY <1>1 DEF Awaits, Knows, Reconciling, Waits
  <2> QED BY <1>0, <1>5, <2>1, <2>2 DEF Misplaced
<1>6. CASE Fault
  BY <1>6 DEF Fault
<1> QED BY <1>1, <1>3, <1>4, <1>5, <1>6

LEMMA CheckHasCause ==
    ASSUME IInv, faults \in Nat, NEW v \in Runners, CheckDependencies(v),
           NEW w \in Runners, ~runner[w].drifted, runner'[w].drifted
    PROVE  Misplaced(runner[w].item) \/ faults' > faults
<1>0. PICK s \in Steps : s = runner[v].item
  BY UnderWay DEF CheckDependencies
<1>1. /\ runner[v].pc = "sync" /\ runner[v] \in RunnerRec /\ Knows(v)
      /\ row[s] \in RowRec /\ tree[s] \in TreeRec
      /\ \/ ~Controlled(s, runner[v].seen[s]) /\ runner' = [runner EXCEPT ![v] = Found(v, "drifted")]
         \/ runner' = [runner EXCEPT ![v] = Found(v, "waiting")]
         \/ \E pc \in {"merge", "conflict"} : runner' = [runner EXCEPT ![v] = [runner[v] EXCEPT !.pc = pc]]
         \/ Fault
  BY <1>0, UnderWay DEF CheckDependencies, SyncBegins, Become, Goto
<1>2. CASE runner' = [runner EXCEPT ![v] = Found(v, "waiting")]
  BY <1>1, <1>2, LookedAt, FoundDrift
<1>3. CASE \E pc \in {"merge", "conflict"} : runner' = [runner EXCEPT ![v] = [runner[v] EXCEPT !.pc = pc]]
  <2>1. PICK pc \in {"merge", "conflict"} : runner' = [runner EXCEPT ![v] = [runner[v] EXCEPT !.pc = pc]]
    BY <1>3
  <2>2. [runner[v] EXCEPT !.pc = pc].drifted = runner[v].drifted
    BY <1>1 DEF RunnerRec
  <2> QED BY <2>1, <2>2, LookedAt
<1>4. CASE ~Controlled(s, runner[v].seen[s]) /\ runner' = [runner EXCEPT ![v] = Found(v, "drifted")]
  <2>1. v = w
    BY <1>4, LookedAt
  <2>2. Untouched(s)
    BY <1>0, <1>1 DEF Knows, Reconciling
  <2>3. tree[s].work = "none"
    BY <2>2 DEF Untouched, IInv, WorkOK, Types, StepsOK, StepRec
  <2>4. tree[s].main # row[s].provision
    BY <1>1, <1>4, <2>3 DEF Controlled, RowRec, TreeRec, Commits, NoCommit
  <2> QED BY <1>0, <2>1, <2>3, <2>4 DEF Misplaced
<1>5. CASE Fault
  BY <1>5 DEF Fault
<1> QED BY <1>1, <1>2, <1>3, <1>4, <1>5

LEMMA JudgeHasCause ==
    ASSUME IInv, faults \in Nat, NEW v \in Runners, JudgeHead(v),
           NEW w \in Runners, ~runner[w].drifted, runner'[w].drifted
    PROVE  \/ Misplaced(runner[w].item) \/ runner[w].state # step[runner[w].item]
           \/ faults' > faults
<1>0. PICK s \in Steps : s = runner[v].item
  BY UnderWay DEF JudgeHead
<1>1. /\ runner[v] \in RunnerRec /\ row[s] \in RowRec /\ tree[s] \in TreeRec /\ step[s] \in StepRec
      /\ \/ runner' = [runner EXCEPT ![v] = Found(v, "ready")]
         \/ ~HeadFits(s, runner[v].state) /\ runner' = [runner EXCEPT ![v] = Found(v, "drifted")]
         \/ Fault
  BY <1>0, UnderWay DEF JudgeHead, Become, IInv, Types, StepsOK
<1>2. CASE runner' = [runner EXCEPT ![v] = Found(v, "ready")]
  BY <1>1, <1>2, LookedAt, FoundDrift
<1>3. CASE ~HeadFits(s, runner[v].state) /\ runner' = [runner EXCEPT ![v] = Found(v, "drifted")]
  <2>1. v = w
    BY <1>3, LookedAt
  <2> SUFFICES ASSUME ~Misplaced(s), runner[v].state = step[s] PROVE FALSE
    BY <1>0, <2>1
  <2>2. /\ tree[s].work \in {"none", "recorded"} /\ step[s].since = 0
        /\ tree[s].work = "none" => tree[s].main = row[s].provision
        /\ tree[s].main >= row[s].provision
    BY <1>1 DEF Misplaced, TreeRec, RowRec, Works, StepRec, Commits, NoCommit
  <2>3. /\ tree[s].work = "none" => step[s].phase \notin {"review", "returned", "completed"}
        /\ tree[s].work # "none" => step[s].phase # "assigned"
    BY <1>1 DEF IInv, WorkOK, Types, StepsOK, StepRec
  <2>4. step[s].phase \in Phases
    BY <1>1 DEF StepRec
  <2> QED BY <1>3, <2>2, <2>3, <2>4 DEF HeadFits, Phases
<1>4. CASE Fault
  BY <1>4 DEF Fault
<1> QED BY <1>1, <1>2, <1>3, <1>4

\* No workspace is called drifted while its files, its worktree and its
\* checkpoint are what the rows say, its step began behind the gate and stands
\* still, and every read succeeds: the reconciliation stops a task only for a
\* cause.
THEOREM DriftIsCaused == Spec => DriftHasCause
<1> DEFINE Cause(w) == Misplaced(runner[w].item) \/ runner[w].state # step[runner[w].item] \/ faults' > faults
<1>1. ASSUME IInv, faults \in Nat, Next, NEW w \in Runners, ~runner[w].drifted, runner'[w].drifted
      PROVE  Cause(w)
  <2>1. ASSUME NEW v \in Runners, RunnerStep(v) \/ Crash(v) PROVE Cause(w)
    BY <1>1, <2>1, DriftIsFound, ReadItemHasCause, CheckHasCause, JudgeHasCause
  <2>2. CASE UNCHANGED runner
    BY <1>1, <2>2
  <2>3. RequestCleanup \/ OthersCommit \/ Deliver => UNCHANGED runner
    BY DEF RequestCleanup, OthersCommit, Deliver
  <2>4. ASSUME NEW s \in Steps, StepMove(s) PROVE UNCHANGED runner
    BY <2>4 DEF StepMove, Acquire, MoveLease, Commit, Submit, MergeStep, StepOnly
  <2> QED BY <1>1, <2>1, <2>2, <2>3, <2>4 DEF Next
<1>2. IInv /\ Counted /\ [Next]_vars =>
        [\A w \in Runners : ~runner[w].drifted /\ runner'[w].drifted => Cause(w)]_vars
  BY <1>1 DEF Counted
<1> QED BY Invariance, FaultsCount, <1>2, PTL DEF Spec, DriftHasCause

=============================================================================
