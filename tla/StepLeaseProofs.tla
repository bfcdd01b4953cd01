--------------------------- MODULE StepLeaseProofs ---------------------------
(***************************************************************************)
(* StepLease holds its invariants for every number of agents, leases,      *)
(* checkpoints and commits and for every length of the deadlines.          *)
(***************************************************************************)
EXTENDS StepLease, TLAPS

\* What the handler holding the project lock may rely on.
LockOK ==
  /\ lock.op \in CheckpointOps =>
       lock.lease \in Versions /\ Len(checkpoints) < MaxCheckpoint
  /\ lock.op = "commit" => lock.arg \in 0..MaxCommit
  /\ lock.op = "block" =>
       /\ lock.lease \in Versions
       /\ leases[lock.lease].status \notin {"none", "completed"}
  /\ lock.op \in HandoffOps =>
       /\ lock.lease \in Versions /\ lock.lease < MaxVersion
       /\ lock.agent \in Agents /\ lock.arg \in DOMAIN checkpoints
  /\ lock.op \in MergeOps =>
       /\ lock.lease \in Versions /\ lock.arg \in 0..MaxCommit
       /\ leases[lock.lease].status \in {"review", "revoked"}
       /\ mr.lease = lock.lease => mr.commit = lock.arg
  /\ lock.op = "merge_done" => lock.arg \in main

\* What the handlers without the lock may rely on.
FlightOK ==
  /\ step.checkpoint \in 0..Len(checkpoints)
  /\ submitting.lease \in 0..step.version
  /\ writing # NoWrite => /\ writing.lease \in 1..step.version
                          /\ writing.tree <= writing.lease

Tables ==
  /\ VersionFrontier /\ SupersededLeasesAreOver /\ StepFollowsLease
  /\ OpenReviewPinsLease /\ ReviewedWorkIsCheckpointed /\ MergedWorkIsOnMain
  /\ WritesStayWithOwner

IInv == TypeOK /\ LockOK /\ FlightOK /\ Tables

-----------------------------------------------------------------------------
(* Rows *)

\* Changing the status of the step row, or its status and lease, leaves the
\* other columns alone.
LEMMA StepStatusSet ==
  ASSUME NEW s \in StepRow, NEW st \in StepStatus
  PROVE  LET t == [s EXCEPT !.status = st] IN
         /\ t \in StepRow /\ t.status = st
         /\ t.lease = s.lease /\ t.version = s.version /\ t.agent = s.agent
         /\ t.checkpoint = s.checkpoint
BY DEF StepRow

\* The step row of a new grant keeps its agent and its checkpoint.
LEMMA StepGranted ==
  ASSUME NEW s \in StepRow, NEW v \in 0..MaxVersion
  PROVE  LET t == [s EXCEPT !.status = "in_progress", !.lease = v, !.version = v] IN
         /\ t \in StepRow /\ t.status = "in_progress"
         /\ t.lease = v /\ t.version = v /\ t.agent = s.agent
         /\ t.checkpoint = s.checkpoint
BY DEF StepRow, StepStatus

\* A lease row made of typed columns is one.
LEMMA LeaseTyped ==
  ASSUME NEW st \in LeaseStatus, NEW a \in Agents \cup {NoAgent},
         NEW ttl \in 0..TTL, NEW wait \in 0..Window
  PROVE  /\ Lease(st, a, ttl, wait) \in LeaseRow
         /\ Lease(st, a, ttl, wait).status = st
         /\ Lease(st, a, ttl, wait).agent = a
BY DEF Lease, LeaseRow

\* Moving one lease leaves the other rows, and every agent, alone.
LEMMA MovedTable ==
  ASSUME TypeOK, NEW v \in Versions, NEW st \in LeaseStatus,
         NEW ttl \in 0..TTL, NEW wait \in 0..Window
  PROVE  /\ Moved(v, st, ttl, wait) \in [Versions -> LeaseRow]
         /\ \A u \in Versions :
              /\ Moved(v, st, ttl, wait)[u].status =
                   IF u = v THEN st ELSE leases[u].status
              /\ Moved(v, st, ttl, wait)[u].agent = leases[u].agent
<1>1. leases \in [Versions -> LeaseRow]
  BY DEF TypeOK
<1>2. leases[v].agent \in Agents \cup {NoAgent}
  BY <1>1 DEF LeaseRow
<1>. QED
  BY <1>1, <1>2, LeaseTyped DEF Moved

\* So does ending one.
LEMMA EndedTable ==
  ASSUME TypeOK, NEW v \in Versions, NEW st \in LeaseStatus, StepLeaseAssumption
  PROVE  /\ Ended(v, st) \in [Versions -> LeaseRow]
         /\ \A u \in Versions :
              /\ Ended(v, st)[u].status = IF u = v THEN st ELSE leases[u].status
              /\ Ended(v, st)[u].agent = leases[u].agent
<1>1. 0 \in 0..TTL /\ 0 \in 0..Window
  BY DEF StepLeaseAssumption
<1>. QED
  BY <1>1, MovedTable DEF Ended

\* A new lease is active and its agent's; the other rows stay.
LEMMA IssuedTable ==
  ASSUME TypeOK, NEW v \in Versions, NEW a \in Agents, StepLeaseAssumption
  PROVE  /\ Issued(v, a) \in [Versions -> LeaseRow]
         /\ \A u \in Versions :
              /\ Issued(v, a)[u].status = IF u = v THEN "active" ELSE leases[u].status
              /\ Issued(v, a)[u].agent = IF u = v THEN a ELSE leases[u].agent
<1>1. leases \in [Versions -> LeaseRow] /\ "active" \in LeaseStatus
  BY DEF TypeOK, LeaseStatus
<1>2. TTL \in 0..TTL /\ 0 \in 0..Window
  BY DEF StepLeaseAssumption
<1>. QED
  BY <1>1, <1>2, LeaseTyped DEF Issued

\* A handler that takes the project lock is recorded as it asked.
LEMMA Held ==
  ASSUME NEW op \in LockOps, NEW v \in 0..MaxVersion,
         NEW a \in Agents \cup {NoAgent}, NEW arg \in Nat, StepLeaseAssumption
  PROVE  LET h == Hold(op, v, a, arg) IN
         /\ h \in Holder /\ h.op = op /\ h.lease = v /\ h.agent = a /\ h.arg = arg
BY DEF Hold, Holder, StepLeaseAssumption

\* What is left of a deadline stays within the deadline.
LEMMA LeftInRange ==
  ASSUME NEW d \in Nat, NEW x \in 0..d, NEW age \in Nat
  PROVE  Left(x, age) \in 0..d
BY DEF Left

\* Commits and writes leave the worktree the same directory.
LEMMA WorkspaceSet ==
  ASSUME NEW w \in WorkspaceRow, NEW h \in 0..MaxCommit, NEW d \in BOOLEAN
  PROVE  /\ [w EXCEPT !.head = h, !.dirty = d] \in WorkspaceRow
         /\ [w EXCEPT !.head = h, !.dirty = d].tree = w.tree
         /\ [w EXCEPT !.dirty = d] \in WorkspaceRow
         /\ [w EXCEPT !.dirty = d].tree = w.tree
BY DEF WorkspaceRow

-----------------------------------------------------------------------------
(* Types *)

\* The types of the columns the actions read.
LEMMA Columns ==
  ASSUME TypeOK, StepLeaseAssumption
  PROVE  /\ step.lease \in 0..MaxVersion /\ step.version \in 0..MaxVersion
         /\ step.agent \in Agents /\ step.checkpoint \in 0..MaxCheckpoint
         /\ step.status \in StepStatus
         /\ workspace.head \in 0..MaxCommit /\ workspace.tree \in 0..MaxVersion
         /\ workspace.dirty \in BOOLEAN
         /\ mr.lease \in 0..MaxVersion /\ mr.commit \in 0..MaxCommit
         /\ lock.op \in LockOps /\ lock.lease \in 0..MaxVersion
         /\ lock.agent \in Agents \cup {NoAgent} /\ lock.arg \in Nat
         /\ lock.age \in 0..TTL
         /\ resuming.lease \in 0..MaxVersion /\ resuming.age \in 0..TTL
         /\ submitting.lease \in 0..MaxVersion
         /\ submitting.commit \in 0..MaxCommit
         /\ writing.lease \in 0..MaxVersion /\ writing.tree \in 0..MaxVersion
<1>1. step \in StepRow /\ workspace \in WorkspaceRow /\ mr \in MRRow /\ lock \in Holder
  BY DEF TypeOK
<1>2. /\ resuming \in [lease : 0..MaxVersion, age : 0..TTL]
      /\ submitting \in [lease : 0..MaxVersion, commit : 0..MaxCommit]
      /\ writing \in [lease : 0..MaxVersion, tree : 0..MaxVersion]
  BY DEF TypeOK
<1>3. /\ step.lease \in 0..MaxVersion /\ step.version \in 0..MaxVersion
      /\ step.agent \in Agents /\ step.checkpoint \in 0..MaxCheckpoint
      /\ step.status \in StepStatus
  BY <1>1 DEF StepRow
<1>4. /\ workspace.head \in 0..MaxCommit /\ workspace.tree \in 0..MaxVersion
      /\ workspace.dirty \in BOOLEAN
  BY <1>1 DEF WorkspaceRow
<1>5. mr.lease \in 0..MaxVersion /\ mr.commit \in 0..MaxCommit
  BY <1>1 DEF MRRow
<1>6. /\ lock.op \in LockOps /\ lock.lease \in 0..MaxVersion
      /\ lock.agent \in Agents \cup {NoAgent} /\ lock.arg \in Nat
      /\ lock.age \in 0..TTL
  BY <1>1 DEF Holder
<1>. QED
  BY <1>2, <1>3, <1>4, <1>5, <1>6

\* The bound variable of a checkpoint row.
LEMMA CheckpointColumns ==
  ASSUME TypeOK, NEW c \in DOMAIN checkpoints
  PROVE  /\ checkpoints[c].lease \in Versions
         /\ checkpoints[c].commit \in 0..MaxCommit
         /\ checkpoints[c].clean \in BOOLEAN
         /\ c \in Nat \ {0} /\ c <= Len(checkpoints)
<1>1. checkpoints \in Seq(Checkpoint)
  BY DEF TypeOK
<1>2. checkpoints[c] \in Checkpoint /\ c \in 1..Len(checkpoints) /\ Len(checkpoints) \in Nat
  BY <1>1
<1>. QED
  BY <1>2 DEF Checkpoint

\* Every step keeps every column in its type.
LEMMA TypeStep ==
  ASSUME IInv, Next PROVE TypeOK'
<1>. USE StepLeaseAssumption
<1>. TypeOK /\ LockOK /\ FlightOK
  BY DEF IInv
<1>. /\ step \in StepRow /\ leases \in [Versions -> LeaseRow]
     /\ checkpoints \in Seq(Checkpoint) /\ workspace \in WorkspaceRow
     /\ mr \in MRRow /\ lock \in Holder /\ prepared \in [Versions -> Preparation]
     /\ commits \in 0..MaxCommit /\ main \subseteq 0..MaxCommit
  BY DEF TypeOK
<1>0. /\ {"active", "review", "interrupted", "frozen", "revoked", "completed"}
           \subseteq LeaseStatus
      /\ {"assigned", "interrupted", "blocked", "in_progress", "review",
          "completed", "checkpointed"} \subseteq StepStatus
      /\ {"block", "commit", "record", "context", "handoff", "handoff_marked",
          "merge_checked", "merge_done", "free"} \subseteq LockOps
  BY DEF LeaseStatus, StepStatus, LockOps, CheckpointOps, HandoffOps, MergeOps
<1>1. 0 \in 0..TTL /\ 0 \in 0..Window /\ TTL \in 0..TTL /\ Window \in 0..Window
  BY DEF StepLeaseAssumption
<1>f. Free \in Holder
  BY <1>0, Held DEF Free
<1>2. ASSUME Acquire PROVE TypeOK'
  <2>0. step.version \in 0..MaxVersion /\ step.version < MaxVersion
    BY <1>2, Columns DEF Acquire
  <2>1. step.version + 1 \in Versions /\ step.version + 1 \in 0..MaxVersion
    BY <2>0 DEF Versions
  <2>2. step' \in StepRow
    BY <1>2, <2>1, StepGranted DEF Acquire
  <2>3. leases' \in [Versions -> LeaseRow]
    BY <1>2, <2>1, Columns, IssuedTable DEF Acquire
  <2>. QED  BY <1>2, <2>2, <2>3 DEF Acquire, TypeOK
<1>3. ASSUME FreezeStep PROVE TypeOK'
  <2>0. step.lease \in 0..MaxVersion /\ step.lease # 0
    BY <1>3, Columns DEF FreezeStep
  <2>1. step.lease \in Versions
    BY <2>0 DEF Versions
  <2>2. step' \in StepRow
    BY <1>0, <1>3, StepStatusSet DEF FreezeStep
  <2>3. leases' \in [Versions -> LeaseRow]
    BY <1>0, <1>3, <2>1, EndedTable DEF FreezeStep
  <2>. QED  BY <1>3, <2>2, <2>3 DEF FreezeStep, TypeOK
<1>4. ASSUME UnfreezeStep PROVE TypeOK'
  <2>0. step.version \in 0..MaxVersion /\ step.version < MaxVersion
    BY <1>4, Columns DEF UnfreezeStep
  <2>1. step.version + 1 \in Versions /\ step.version + 1 \in 0..MaxVersion
    BY <2>0 DEF Versions
  <2>2. step' \in StepRow
    BY <1>4, <2>1, StepGranted DEF UnfreezeStep
  <2>3. leases' \in [Versions -> LeaseRow]
    BY <1>4, <2>1, Columns, IssuedTable DEF UnfreezeStep
  <2>. QED  BY <1>4, <2>2, <2>3 DEF UnfreezeStep, TypeOK
<1>5. ASSUME NEW v \in Versions, Heartbeat(v) PROVE TypeOK'
  <2>1. leases' \in [Versions -> LeaseRow]
    BY <1>0, <1>1, <1>5, MovedTable DEF Heartbeat
  <2>. QED  BY <1>5, <2>1 DEF Heartbeat, TypeOK
<1>6. ASSUME NEW v \in Versions, InterruptExpired(v) PROVE TypeOK'
  <2>1. leases' \in [Versions -> LeaseRow]
    BY <1>0, <1>1, <1>6, MovedTable DEF InterruptExpired
  <2>2. step' \in StepRow
    BY <1>0, <1>6, StepStatusSet DEF InterruptExpired
  <2>. QED  BY <1>6, <2>1, <2>2 DEF InterruptExpired, TypeOK
<1>7. ASSUME NEW v \in Versions, NEW w \in 1..Window, ExtendResumeDeadline(v, w)
      PROVE  TypeOK'
  <2>1. w \in 0..Window
    OBVIOUS
  <2>2. leases' \in [Versions -> LeaseRow]
    BY <1>0, <1>1, <1>7, <2>1, MovedTable DEF ExtendResumeDeadline
  <2>. QED  BY <1>7, <2>2 DEF ExtendResumeDeadline, TypeOK
<1>8. ASSUME NEW v \in Versions, BeginResume(v) PROVE TypeOK'
  BY <1>1, <1>8 DEF BeginResume, TypeOK, Versions
<1>9. ASSUME NEW v \in Versions, AuthorizeWrite(v) PROVE TypeOK'
  <2>1. v \in 0..MaxVersion /\ workspace.tree \in 0..MaxVersion
    BY Columns DEF Versions
  <2>. QED  BY <1>9, <2>1 DEF AuthorizeWrite, TypeOK
<1>10. ASSUME NEW v \in Versions, StageCommit(v) PROVE TypeOK'
  <2>1. commits + 1 \in 0..MaxCommit
    BY <1>10 DEF StageCommit
  <2>2. workspace' \in WorkspaceRow
    BY <1>10, <2>1, WorkspaceSet DEF StageCommit
  <2>3. v \in 0..MaxVersion /\ workspace.head \in Nat
    BY Columns DEF Versions
  <2>4. lock' \in Holder
    BY <1>0, <1>10, <2>3, Held DEF StageCommit
  <2>. QED  BY <1>10, <2>1, <2>2, <2>4 DEF StageCommit, TypeOK
<1>11. ASSUME NEW v \in Versions, NEW op \in {"record", "context"},
              BeginCheckpoint(v, op)
       PROVE  TypeOK'
  <2>1. v \in 0..MaxVersion /\ 0 \in Nat
    BY DEF Versions
  <2>2. lock' \in Holder
    BY <1>0, <1>11, <2>1, Held DEF BeginCheckpoint
  <2>. QED  BY <1>11, <2>2 DEF BeginCheckpoint, TypeOK
<1>12. ASSUME NEW v \in Versions, NEW c \in DOMAIN checkpoints, BeginSubmit(v, c)
       PROVE  TypeOK'
  <2>1. v \in 0..MaxVersion /\ checkpoints[c].commit \in 0..MaxCommit
    BY CheckpointColumns DEF Versions
  <2>. QED  BY <1>12, <2>1 DEF BeginSubmit, TypeOK
<1>13. ASSUME PersistCheckpoint PROVE TypeOK'
  <2>1. /\ lock.op \in CheckpointOps /\ lock.lease \in Versions
        /\ Len(checkpoints) < MaxCheckpoint
    BY <1>13 DEF PersistCheckpoint, LockOK
  <2>2. workspace.head \in 0..MaxCommit /\ 0 \in 0..MaxCommit
    BY Columns DEF StepLeaseAssumption
  <2>3. [lease |-> lock.lease, clean |-> lock.op # "context",
         commit |-> IF lock.op # "context" THEN workspace.head ELSE 0] \in Checkpoint
    BY <2>1, <2>2 DEF Checkpoint
  <2>4. /\ checkpoints' \in Seq(Checkpoint)
        /\ Len(checkpoints') = Len(checkpoints) + 1
    BY <1>13, <2>3 DEF PersistCheckpoint
  <2>5. Len(checkpoints) + 1 \in 0..MaxCheckpoint
    BY <2>1
  <2>6. step' \in StepRow
    <3>1. [step EXCEPT !.status = "checkpointed", !.checkpoint = Len(checkpoints) + 1]
            \in StepRow
      BY <1>0, <2>5 DEF StepRow
    <3>. QED  BY <1>13, <3>1 DEF PersistCheckpoint
  <2>7. Len(checkpoints') <= MaxCheckpoint
    BY <2>4, <2>5
  <2>. QED  BY <1>13, <1>f, <2>4, <2>6, <2>7 DEF PersistCheckpoint, TypeOK
<1>14. ASSUME RefuseCheckpoint PROVE TypeOK'
  <2>1. lock.op = "commit" => lock.arg \in 0..MaxCommit
    BY DEF LockOK
  <2>2. workspace' \in WorkspaceRow
    BY <1>14, <2>1, WorkspaceSet DEF RefuseCheckpoint
  <2>. QED  BY <1>14, <1>f, <2>2 DEF RefuseCheckpoint, TypeOK
<1>15. ASSUME NEW a \in Agents, NEW c \in 0..MaxCheckpoint, NEW i \in BOOLEAN,
              BeginReassign(a, c, i)
       PROVE  TypeOK'
  <2>1. step.lease \in 0..MaxVersion /\ c \in Nat
    BY Columns
  <2>2. lock' \in Holder
    BY <1>0, <1>15, <2>1, Held DEF BeginReassign
  <2>3. prepared' \in [Versions -> Preparation]
    <3>1. [agent |-> a, checkpoint |-> c] \in Preparation
      BY DEF Preparation
    <3>. QED  BY <1>15, <3>1 DEF BeginReassign
  <2>. QED  BY <1>15, <2>2, <2>3 DEF BeginReassign, TypeOK
<1>16. ASSUME NEW c \in 0..MaxCheckpoint, NEW i \in BOOLEAN, RefuseReassign(c, i)
       PROVE  TypeOK'
  <2>1. step.lease \in 0..MaxVersion /\ 0 \in Nat
    BY Columns
  <2>2. lock' \in Holder
    BY <1>0, <1>16, <2>1, Held DEF RefuseReassign
  <2>. QED  BY <1>16, <2>2 DEF RefuseReassign, TypeOK
<1>17. ASSUME MarkRecoveryBlocked PROVE TypeOK'
  <2>1. step' \in StepRow
    BY <1>0, <1>17, StepStatusSet DEF MarkRecoveryBlocked
  <2>. QED  BY <1>17, <1>f, <2>1 DEF MarkRecoveryBlocked, TypeOK
<1>18. ASSUME MarkTaskHandoffPreparing PROVE TypeOK'
  <2>1. lock' \in Holder
    BY <1>0, <1>18 DEF MarkTaskHandoffPreparing, Holder
  <2>. QED  BY <1>18, <2>1 DEF MarkTaskHandoffPreparing, TypeOK
<1>19. ASSUME CommitReassign PROVE TypeOK'
  <2>1. /\ lock.lease \in Versions /\ lock.lease < MaxVersion /\ lock.agent \in Agents
        /\ lock.arg \in DOMAIN checkpoints /\ step.version = lock.lease
    BY <1>19 DEF CommitReassign, LockOK, HandoffOps
  <2>2. step.version + 1 \in Versions /\ step.version + 1 \in 0..MaxVersion
    BY <2>1 DEF Versions
  <2>3. checkpoints[lock.arg].commit \in 0..MaxCommit /\ lock.arg \in 0..MaxCheckpoint
    BY <2>1, CheckpointColumns DEF TypeOK
  <2>4. Left(TTL, lock.age) \in 0..TTL
    <3>1. lock.age \in Nat /\ TTL \in Nat
      BY Columns DEF StepLeaseAssumption
    <3>. QED  BY <1>1, <3>1, LeftInRange
  <2>5. leases' \in [Versions -> LeaseRow]
    <3>1. Ended(lock.lease, "revoked") \in [Versions -> LeaseRow]
      BY <1>0, <2>1, EndedTable
    <3>2. Lease("active", lock.agent, Left(TTL, lock.age), 0) \in LeaseRow
      BY <1>0, <1>1, <2>1, <2>4, LeaseTyped
    <3>. QED  BY <1>19, <2>2, <3>1, <3>2 DEF CommitReassign
  <2>6. step' \in StepRow
    BY <1>0, <1>19, <2>1, <2>2, <2>3 DEF CommitReassign, StepRow
  <2>7. workspace' \in WorkspaceRow
    BY <1>19, <2>2, <2>3 DEF CommitReassign, HandoffWorktree, WorkspaceRow
  <2>8. prepared' \in [Versions -> Preparation]
    <3>1. NotPrepared \in Preparation
      BY DEF NotPrepared, Preparation, StepLeaseAssumption
    <3>. QED  BY <1>19, <3>1 DEF CommitReassign
  <2>. QED  BY <1>19, <1>f, <2>5, <2>6, <2>7, <2>8 DEF CommitReassign, TypeOK
<1>20. ASSUME AbortReassign PROVE TypeOK'
  BY <1>20, <1>f DEF AbortReassign, TypeOK
<1>21. ASSUME CommitResume PROVE TypeOK'
  <2>1. resuming.lease \in Versions
    <3>1. resuming.lease \in 0..MaxVersion /\ resuming.lease # 0
      BY <1>21, Columns DEF CommitResume
    <3>. QED  BY <3>1 DEF Versions
  <2>2. Left(TTL, resuming.age) \in 0..TTL
    <3>1. resuming.age \in Nat /\ TTL \in Nat
      BY Columns DEF StepLeaseAssumption
    <3>. QED  BY <1>1, <3>1, LeftInRange
  <2>3. leases' \in [Versions -> LeaseRow]
    BY <1>0, <1>1, <1>21, <2>1, <2>2, MovedTable DEF CommitResume
  <2>4. step' \in StepRow
    BY <1>0, <1>21, StepStatusSet DEF CommitResume
  <2>5. resuming' \in [lease : 0..MaxVersion, age : 0..TTL]
    BY <1>1, <1>21 DEF CommitResume, NoResume
  <2>. QED  BY <1>21, <2>3, <2>4, <2>5 DEF CommitResume, TypeOK
<1>22. ASSUME AbandonResume PROVE TypeOK'
  BY <1>1, <1>22 DEF AbandonResume, TypeOK, NoResume
<1>23. ASSUME FinishWrite PROVE TypeOK'
  <2>1. (workspace.dirty \/ writing.tree = workspace.tree) \in BOOLEAN
    OBVIOUS
  <2>2. workspace' \in WorkspaceRow
    BY <1>23, <2>1, WorkspaceSet DEF FinishWrite
  <2>3. writing' \in [lease : 0..MaxVersion, tree : 0..MaxVersion]
    BY <1>23 DEF FinishWrite, NoWrite, StepLeaseAssumption
  <2>. QED  BY <1>23, <2>2, <2>3 DEF FinishWrite, TypeOK
<1>24. ASSUME SubmitReport PROVE TypeOK'
  <2>1. submitting.lease \in 0..MaxVersion /\ submitting.commit \in 0..MaxCommit
    BY Columns
  <2>2. submitting.lease \in Versions
    BY <1>24, <2>1 DEF SubmitReport, Versions
  <2>3. mr' \in MRRow
    BY <1>24, <2>1 DEF SubmitReport, MRRow
  <2>4. step' \in StepRow
    BY <1>0, <1>24, StepStatusSet DEF SubmitReport
  <2>5. leases' \in [Versions -> LeaseRow]
    BY <1>0, <1>24, <2>2, EndedTable DEF SubmitReport
  <2>6. submitting' \in [lease : 0..MaxVersion, commit : 0..MaxCommit]
    BY <1>24 DEF SubmitReport, NoSubmit, StepLeaseAssumption
  <2>. QED  BY <1>24, <2>3, <2>4, <2>5, <2>6 DEF SubmitReport, TypeOK
<1>25. ASSUME AbandonSubmit PROVE TypeOK'
  BY <1>25 DEF AbandonSubmit, TypeOK, NoSubmit, StepLeaseAssumption
<1>26. ASSUME NEW t \in BOOLEAN, Approve(t) PROVE TypeOK'
  <2>1. mr.lease \in 0..MaxVersion /\ mr.lease # 0
    BY <1>26, Columns DEF Approve, Reviewable
  <2>2. mr.lease \in Versions
    BY <2>1 DEF Versions
  <2>3. mr' \in MRRow
    BY <1>26 DEF Approve, MRRow
  <2>4. leases' \in [Versions -> LeaseRow]
    BY <1>0, <1>26, <2>2, EndedTable DEF Approve
  <2>5. step' \in StepRow
    BY <1>0, <1>26, StepStatusSet DEF Approve
  <2>. QED  BY <1>26, <2>3, <2>4, <2>5 DEF Approve, TypeOK
<1>27. ASSUME NEW t \in BOOLEAN, RequestChanges(t) PROVE TypeOK'
  <2>1. mr.lease \in 0..MaxVersion /\ mr.lease # 0
    BY <1>27, Columns DEF RequestChanges, Reviewable
  <2>2. mr.lease \in Versions
    BY <2>1 DEF Versions
  <2>3. mr' \in MRRow
    BY <1>27 DEF RequestChanges, MRRow
  <2>4. leases' \in [Versions -> LeaseRow]
    BY <1>0, <1>27, <2>2, EndedTable DEF RequestChanges
  <2>5. step' \in StepRow
    <3>1. [step EXCEPT !.status = "assigned", !.lease = 0, !.checkpoint = 0] \in StepRow
      <4>1. 0 \in 0..MaxVersion /\ 0 \in 0..MaxCheckpoint
        BY DEF StepLeaseAssumption
      <4>. QED  BY <1>0, <4>1 DEF StepRow
    <3>. QED  BY <1>27, <3>1 DEF RequestChanges
  <2>. QED  BY <1>27, <2>3, <2>4, <2>5 DEF RequestChanges, TypeOK
<1>28. ASSUME CheckMerge PROVE TypeOK'
  <2>1. mr.lease \in 0..MaxVersion /\ mr.commit \in Nat
    BY Columns
  <2>2. lock' \in Holder
    BY <1>0, <1>28, <2>1, Held DEF CheckMerge
  <2>. QED  BY <1>28, <2>2 DEF CheckMerge, TypeOK
<1>29. ASSUME GitMerge PROVE TypeOK'
  <2>1. lock.arg \in 0..MaxCommit
    BY <1>29 DEF GitMerge, LockOK, MergeOps
  <2>2. lock' \in Holder
    BY <1>0, <1>29 DEF GitMerge, Holder
  <2>. QED  BY <1>29, <2>1, <2>2 DEF GitMerge, TypeOK
<1>30. ASSUME ReconcileMerge PROVE TypeOK'
  <2>1. mr.lease \in 0..MaxVersion /\ mr.commit \in Nat
    BY Columns
  <2>2. lock' \in Holder
    BY <1>0, <1>30, <2>1, Held DEF ReconcileMerge
  <2>. QED  BY <1>30, <2>2 DEF ReconcileMerge, TypeOK
<1>31. ASSUME PersistMerged PROVE TypeOK'
  <2>1. mr.lease \in Versions
    BY <1>31 DEF PersistMerged, LockOK, MergeOps
  <2>2. mr' \in MRRow
    BY <1>31 DEF PersistMerged, MRRow
  <2>3. step' \in StepRow
    BY <1>0, <1>31, StepStatusSet DEF PersistMerged
  <2>4. leases' \in [Versions -> LeaseRow]
    BY <1>0, <1>31, <2>1, EndedTable DEF PersistMerged
  <2>. QED  BY <1>31, <1>f, <2>2, <2>3, <2>4 DEF PersistMerged, TypeOK
<1>32. ASSUME AbortMerge PROVE TypeOK'
  BY <1>32, <1>f DEF AbortMerge, TypeOK
<1>33. ASSUME CrashLockHolder PROVE TypeOK'
  BY <1>33, <1>f DEF CrashLockHolder, TypeOK
<1>34. ASSUME Tick PROVE TypeOK'
  <2>1. leases' \in [Versions -> LeaseRow]
    <3>1. ASSUME NEW v \in Versions
          PROVE  Lease(leases[v].status, leases[v].agent, Left(leases[v].ttl, 1),
                       Left(leases[v].wait, 1)) \in LeaseRow
      <4>1. /\ leases[v].status \in LeaseStatus
            /\ leases[v].agent \in Agents \cup {NoAgent}
            /\ leases[v].ttl \in 0..TTL /\ leases[v].wait \in 0..Window
        BY DEF LeaseRow
      <4>2. Left(leases[v].ttl, 1) \in 0..TTL /\ Left(leases[v].wait, 1) \in 0..Window
        BY <4>1, LeftInRange DEF StepLeaseAssumption
      <4>. QED  BY <4>1, <4>2, LeaseTyped
    <3>. QED  BY <1>34, <3>1 DEF Tick
  <2>2. resuming' \in [lease : 0..MaxVersion, age : 0..TTL]
    BY <1>34 DEF Tick, TypeOK, StepLeaseAssumption
  <2>3. lock' \in Holder
    BY <1>34 DEF Tick, Holder, StepLeaseAssumption
  <2>. QED  BY <1>34, <2>1, <2>2, <2>3 DEF Tick, TypeOK
<1>. QED
  BY <1>2, <1>3, <1>4, <1>5, <1>6, <1>7, <1>8, <1>9, <1>10, <1>11, <1>12, <1>13,
     <1>14, <1>15, <1>16, <1>17, <1>18, <1>19, <1>20, <1>21, <1>22, <1>23, <1>24,
     <1>25, <1>26, <1>27, <1>28, <1>29, <1>30, <1>31, <1>32, <1>33, <1>34
  DEF Next, LeaseStep, LockStep, Handoff

-----------------------------------------------------------------------------
(* What a step does to the lease table *)

\* No lease changes its status or its holder.
StatusKept ==
  \A u \in Versions : /\ leases'[u].status = leases[u].status
                      /\ leases'[u].agent = leases[u].agent

\* One lease changes its status.
StatusMoved(v, st) ==
  \A u \in Versions : /\ leases'[u].status = IF u = v THEN st ELSE leases[u].status
                      /\ leases'[u].agent = leases[u].agent

\* One lease is issued to a.
StatusIssued(v, a) ==
  \A u \in Versions :
    /\ leases'[u].status = IF u = v THEN "active" ELSE leases[u].status
    /\ leases'[u].agent = IF u = v THEN a ELSE leases[u].agent

\* A lease that has not ended is the step's current and newest one.
LEMMA CurrentLease ==
  ASSUME IInv, NEW v \in Versions,
         leases[v].status \in {"active", "interrupted", "review", "completed"}
  PROVE  v = step.lease /\ v = step.version
<1>1. v <= step.version
  BY DEF IInv, Tables, VersionFrontier, Versions, TypeOK, StepRow
<1>2. v \in 1..step.version
  BY <1>1, StepLeaseAssumption, Columns DEF Versions, IInv
<1>3. v = step.lease
  BY <1>2 DEF IInv, Tables, SupersededLeasesAreOver
<1>. QED
  BY <1>3 DEF IInv, Tables, VersionFrontier, Versions

\* The columns that are compared as numbers are numbers.
LEMMA StepColumns ==
  ASSUME TypeOK
  PROVE  /\ step.lease \in Nat /\ step.version \in Nat /\ step.version <= MaxVersion
         /\ workspace.tree \in Nat /\ Len(checkpoints) \in Nat
<1>1. Len(checkpoints) \in Nat
  <2>1. checkpoints \in Seq(Checkpoint)
    BY DEF TypeOK
  <2>. QED  BY <2>1
<1>2. MaxVersion \in Nat
  BY StepLeaseAssumption DEF StepLeaseAssumption
<1>3. /\ step.lease \in 0..MaxVersion /\ step.version \in 0..MaxVersion
      /\ workspace.tree \in 0..MaxVersion
  BY Columns, StepLeaseAssumption
<1>. QED
  BY <1>1, <1>2, <1>3

\* A step that changes no step, lease status, merge request or checkpoint
\* keeps what the tables promise.
LEMMA QuietTables ==
  ASSUME IInv, StatusKept, UNCHANGED <<step, checkpoints, assignment, mr>>,
         main \subseteq main', workspace'.tree = workspace.tree,
         writing' # NoWrite => /\ writing'.lease \in 1..step.version
                               /\ writing'.tree <= writing'.lease
  PROVE  Tables'
<1>. VersionFrontier /\ SupersededLeasesAreOver /\ StepFollowsLease
     /\ OpenReviewPinsLease /\ ReviewedWorkIsCheckpointed /\ MergedWorkIsOnMain
     /\ WritesStayWithOwner /\ TypeOK
  BY DEF IInv, Tables
<1>. step.lease \in 0..MaxVersion /\ mr.lease \in 0..MaxVersion
     /\ step.version \in 0..MaxVersion /\ MaxVersion \in Nat
  BY Columns, StepLeaseAssumption DEF StepLeaseAssumption
<1>0. 1..step.version \subseteq Versions
  BY DEF Versions
<1>1. VersionFrontier'
  BY DEF VersionFrontier, StatusKept
<1>2. SupersededLeasesAreOver'
  BY <1>0 DEF SupersededLeasesAreOver, StatusKept
<1>3. StepFollowsLease'
  BY DEF StepFollowsLease, StatusKept, Beside, Versions
<1>4. OpenReviewPinsLease'
  BY DEF OpenReviewPinsLease, StatusKept, MROpen, Versions
<1>5. ReviewedWorkIsCheckpointed'
  BY DEF ReviewedWorkIsCheckpointed, MROpen
<1>6. MergedWorkIsOnMain'
  BY DEF MergedWorkIsOnMain, StatusKept, Versions
<1>7. WritesStayWithOwner'
  BY <1>0 DEF WritesStayWithOwner, StatusKept
<1>. QED
  BY <1>1, <1>2, <1>3, <1>4, <1>5, <1>6, <1>7 DEF Tables

\* The lock is not touched, nothing it relies on goes away.
LEMMA LockFrame ==
  ASSUME LockOK, UNCHANGED <<lock, mr>>, Len(checkpoints') = Len(checkpoints),
         DOMAIN checkpoints' = DOMAIN checkpoints, main \subseteq main',
         \A u \in Versions :
           /\ leases[u].status \notin {"none", "completed"} =>
                leases'[u].status \notin {"none", "completed"}
           /\ leases[u].status \in {"review", "revoked"} =>
                leases'[u].status \in {"review", "revoked"}
  PROVE  LockOK'
BY DEF LockOK

\* Nobody relies on anything when the lock is free.
LEMMA FreeLock ==
  ASSUME lock' = Free
  PROVE  LockOK'
BY DEF LockOK, Free, Hold, CheckpointOps, HandoffOps, MergeOps

\* The steps that change no step, lease status, merge request or checkpoint.
QuietLeaseStep(v) ==
  \/ Heartbeat(v) \/ \E w \in 1..Window : ExtendResumeDeadline(v, w)
  \/ BeginResume(v) \/ AuthorizeWrite(v) \/ StageCommit(v)
  \/ \E op \in {"record", "context"} : BeginCheckpoint(v, op)
  \/ \E c \in DOMAIN checkpoints : BeginSubmit(v, c)

Quiet ==
  \/ \E v \in Versions : QuietLeaseStep(v)
  \/ RefuseCheckpoint \/ Handoff \/ MarkTaskHandoffPreparing \/ AbortReassign
  \/ AbandonResume \/ FinishWrite \/ AbandonSubmit
  \/ CheckMerge \/ GitMerge \/ ReconcileMerge \/ AbortMerge
  \/ CrashLockHolder \/ Tick

\* A quiet step keeps the invariant.
LEMMA QuietStep ==
  ASSUME IInv, Quiet PROVE LockOK' /\ FlightOK' /\ Tables'
<1>. USE StepLeaseAssumption
<1>. TypeOK /\ LockOK /\ FlightOK
  BY DEF IInv
<1>c. /\ step.version \in Nat /\ step.version <= MaxVersion /\ step.lease \in Nat
      /\ Len(checkpoints) \in Nat /\ workspace.tree \in Nat
  BY StepColumns
<1>t. leases \in [Versions -> LeaseRow]
  BY DEF TypeOK
<1>0. {"active", "interrupted"} \subseteq LeaseStatus
  BY DEF LeaseStatus
<1>m. TTL \in 0..TTL /\ 0 \in 0..TTL /\ 0 \in 0..Window
  BY DEF StepLeaseAssumption
<1>k. ASSUME leases' = leases PROVE StatusKept
  BY <1>k DEF StatusKept
<1>s. ASSUME UNCHANGED <<step, checkpoints, submitting, writing>> PROVE FlightOK'
  BY <1>s DEF FlightOK
<1>q1. ASSUME NEW v \in Versions, Heartbeat(v)
      PROVE  LockOK' /\ FlightOK' /\ Tables'
  <2>1. StatusKept
    BY <1>q1, <1>0, <1>m, MovedTable DEF Heartbeat, StatusKept, Authorized
  <2>2. LockOK'
    BY <1>q1, <2>1, LockFrame DEF Heartbeat, StatusKept
  <2>. QED  BY <1>q1, <1>s, <2>1, <2>2, QuietTables DEF Heartbeat, FlightOK
<1>q2. ASSUME NEW v \in Versions, NEW w \in 1..Window, ExtendResumeDeadline(v, w)
      PROVE  LockOK' /\ FlightOK' /\ Tables'
  <2>0. w \in 0..Window
    OBVIOUS
  <2>1. StatusKept
    BY <1>q2, <1>0, <1>m, <2>0, MovedTable DEF ExtendResumeDeadline, StatusKept
  <2>2. LockOK'
    BY <1>q2, <2>1, LockFrame DEF ExtendResumeDeadline, StatusKept
  <2>. QED  BY <1>q2, <1>s, <2>1, <2>2, QuietTables DEF ExtendResumeDeadline, FlightOK
<1>q3. ASSUME Tick
      PROVE  LockOK' /\ FlightOK' /\ Tables'
  <2>1. StatusKept
    BY <1>q3 DEF Tick, StatusKept, Lease
  <2>2. LockOK'
    <3>1. /\ lock'.op = lock.op /\ lock'.lease = lock.lease
          /\ lock'.agent = lock.agent /\ lock'.arg = lock.arg
      BY <1>q3 DEF Tick, TypeOK, Holder
    <3>. QED  BY <1>q3, <2>1, <3>1 DEF Tick, StatusKept, LockOK
  <2>. QED  BY <1>q3, <1>s, <2>1, <2>2, QuietTables DEF Tick, FlightOK
<1>q4. ASSUME NEW v \in Versions, BeginResume(v)
      PROVE  LockOK' /\ FlightOK' /\ Tables'
  <2>1. LockOK'
    BY <1>q4, LockFrame DEF BeginResume
  <2>2. FlightOK'
    BY <1>q4, <1>s DEF BeginResume
  <2>. QED  BY <1>q4, <1>k, <2>1, <2>2, QuietTables DEF BeginResume, FlightOK
<1>q5. ASSUME AbandonResume
      PROVE  LockOK' /\ FlightOK' /\ Tables'
  <2>1. LockOK'
    BY <1>q5, LockFrame DEF AbandonResume
  <2>2. FlightOK'
    BY <1>q5, <1>s DEF AbandonResume
  <2>. QED  BY <1>q5, <1>k, <2>1, <2>2, QuietTables DEF AbandonResume, FlightOK
<1>q6. ASSUME AbandonSubmit
      PROVE  LockOK' /\ FlightOK' /\ Tables'
  <2>1. LockOK'
    BY <1>q6, LockFrame DEF AbandonSubmit
  <2>2. FlightOK'
    BY <1>q6, <1>c DEF AbandonSubmit, FlightOK, NoSubmit
  <2>. QED  BY <1>q6, <1>k, <2>1, <2>2, QuietTables DEF AbandonSubmit, FlightOK
<1>q7. ASSUME NEW v \in Versions, AuthorizeWrite(v)
      PROVE  LockOK' /\ FlightOK' /\ Tables'
  <2>0. v = step.version
    BY <1>q7, CurrentLease DEF AuthorizeWrite, Authorized
  <2>1. LockOK'
    BY <1>q7, LockFrame DEF AuthorizeWrite
  <2>2. workspace.tree <= step.version
    BY DEF IInv, Tables, WritesStayWithOwner
  <2>3. writing'.lease \in 1..step.version /\ writing'.tree <= writing'.lease
    BY <1>q7, <1>c, <2>0, <2>2 DEF AuthorizeWrite, Versions
  <2>4. FlightOK'
    BY <1>q7, <2>3 DEF AuthorizeWrite, FlightOK
  <2>. QED  BY <1>q7, <1>k, <2>1, <2>3, <2>4, QuietTables DEF AuthorizeWrite
<1>q8. ASSUME NEW v \in Versions, NEW c \in DOMAIN checkpoints, BeginSubmit(v, c)
      PROVE  LockOK' /\ FlightOK' /\ Tables'
  <2>1. LockOK'
    BY <1>q8, LockFrame DEF BeginSubmit
  <2>2. submitting'.lease \in 0..step.version
    BY <1>q8, <1>c DEF BeginSubmit, Versions
  <2>3. FlightOK'
    BY <1>q8, <2>2 DEF BeginSubmit, FlightOK
  <2>. QED  BY <1>q8, <1>k, <2>1, <2>3, QuietTables DEF BeginSubmit, FlightOK
<1>q9. ASSUME FinishWrite
      PROVE  LockOK' /\ FlightOK' /\ Tables'
  <2>1. LockOK'
    BY <1>q9, LockFrame DEF FinishWrite
  <2>2. FlightOK'
    BY <1>q9 DEF FinishWrite, FlightOK
  <2>. QED  BY <1>q9, <1>k, <2>1, <2>2, QuietTables DEF FinishWrite, FlightOK, TypeOK, WorkspaceRow
<1>q10. ASSUME NEW v \in Versions, StageCommit(v)
      PROVE  LockOK' /\ FlightOK' /\ Tables'
  <2>1. lock' = Hold("commit", v, NoAgent, workspace.head) /\ workspace.head \in 0..MaxCommit
    BY <1>q10, Columns DEF StageCommit
  <2>2. LockOK'
    BY <1>q10, <2>1 DEF StageCommit, LockOK, Hold, CheckpointOps, HandoffOps, MergeOps
  <2>3. workspace'.tree = workspace.tree
    BY <1>q10 DEF StageCommit, TypeOK, WorkspaceRow
  <2>. QED  BY <1>q10, <1>k, <1>s, <2>2, <2>3, QuietTables DEF StageCommit, FlightOK
<1>q11. ASSUME NEW v \in Versions, NEW op \in {"record", "context"}, BeginCheckpoint(v, op)
      PROVE  LockOK' /\ FlightOK' /\ Tables'
  <2>1. LockOK'
    BY <1>q11 DEF BeginCheckpoint, LockOK, Hold, CheckpointOps, HandoffOps, MergeOps
  <2>. QED  BY <1>q11, <1>k, <1>s, <2>1, QuietTables DEF BeginCheckpoint, FlightOK
<1>q12. ASSUME RefuseCheckpoint
      PROVE  LockOK' /\ FlightOK' /\ Tables'
  <2>1. LockOK'
    BY <1>q12, FreeLock DEF RefuseCheckpoint
  <2>2. workspace'.tree = workspace.tree
    BY <1>q12 DEF RefuseCheckpoint, TypeOK, WorkspaceRow
  <2>. QED  BY <1>q12, <1>k, <1>s, <2>1, <2>2, QuietTables DEF RefuseCheckpoint, FlightOK
<1>q13. ASSUME NEW a \in Agents, NEW c \in 0..MaxCheckpoint, NEW i \in BOOLEAN, BeginReassign(a, c, i)
      PROVE  LockOK' /\ FlightOK' /\ Tables'
  <2>a. step.lease \in 0..MaxVersion /\ step.lease # 0
    BY <1>q13, Columns DEF BeginReassign
  <2>0. step.lease \in Versions
    BY <2>a DEF Versions
  <2>1. step.lease < MaxVersion
    <3>1. step.version < MaxVersion /\ step.lease = step.version
      BY <1>q13, <2>0, CurrentLease DEF BeginReassign
    <3>. QED  BY <3>1
  <2>2. lock' = Hold("handoff", step.lease, a, c) /\ c \in DOMAIN checkpoints
    BY <1>q13 DEF BeginReassign, HandoffCheckpoint
  <2>3. LockOK'
    BY <1>q13, <2>0, <2>1, <2>2 DEF BeginReassign, LockOK, Hold, CheckpointOps, HandoffOps, MergeOps
  <2>. QED  BY <1>q13, <1>k, <1>s, <2>3, QuietTables DEF BeginReassign, FlightOK
<1>q14. ASSUME NEW c \in 0..MaxCheckpoint, NEW i \in BOOLEAN, RefuseReassign(c, i)
      PROVE  LockOK' /\ FlightOK' /\ Tables'
  <2>a. step.lease \in 0..MaxVersion /\ step.lease # 0
    BY <1>q14, Columns DEF RefuseReassign
  <2>0. step.lease \in Versions
    BY <2>a DEF Versions
  <2>1. LockOK'
    BY <1>q14, <2>0 DEF RefuseReassign, LockOK, Hold, CheckpointOps, HandoffOps, MergeOps
  <2>. QED  BY <1>q14, <1>k, <1>s, <2>1, QuietTables DEF RefuseReassign, FlightOK
<1>q15. ASSUME MarkTaskHandoffPreparing
      PROVE  LockOK' /\ FlightOK' /\ Tables'
  <2>0. lock' = [lock EXCEPT !.op = "handoff_marked"] /\ lock.op = "handoff"
    BY <1>q15 DEF MarkTaskHandoffPreparing
  <2>1. /\ lock'.op = "handoff_marked" /\ lock'.lease = lock.lease
        /\ lock'.agent = lock.agent /\ lock'.arg = lock.arg
    BY <2>0 DEF TypeOK, Holder
  <2>2. LockOK'
    BY <1>q15, <2>0, <2>1 DEF MarkTaskHandoffPreparing, LockOK, CheckpointOps, HandoffOps, MergeOps
  <2>. QED  BY <1>q15, <1>k, <1>s, <2>2, QuietTables DEF MarkTaskHandoffPreparing, FlightOK
<1>q16. ASSUME AbortReassign
      PROVE  LockOK' /\ FlightOK' /\ Tables'
  <2>1. LockOK'
    BY <1>q16, FreeLock DEF AbortReassign
  <2>2. FlightOK'
    BY <1>q16, <1>s DEF AbortReassign
  <2>. QED  BY <1>q16, <1>k, <2>1, <2>2, QuietTables DEF AbortReassign, FlightOK
<1>q17. ASSUME AbortMerge
      PROVE  LockOK' /\ FlightOK' /\ Tables'
  <2>1. LockOK'
    BY <1>q17, FreeLock DEF AbortMerge
  <2>2. FlightOK'
    BY <1>q17, <1>s DEF AbortMerge
  <2>. QED  BY <1>q17, <1>k, <2>1, <2>2, QuietTables DEF AbortMerge, FlightOK
<1>q18. ASSUME CrashLockHolder
      PROVE  LockOK' /\ FlightOK' /\ Tables'
  <2>1. LockOK'
    BY <1>q18, FreeLock DEF CrashLockHolder
  <2>2. FlightOK'
    BY <1>q18, <1>s DEF CrashLockHolder
  <2>. QED  BY <1>q18, <1>k, <2>1, <2>2, QuietTables DEF CrashLockHolder, FlightOK
<1>q19. ASSUME CheckMerge
      PROVE  LockOK' /\ FlightOK' /\ Tables'
  <2>0. /\ mr.lease \in Versions /\ leases[mr.lease].status = "review"
        /\ mr.commit \in 0..MaxCommit
    BY <1>q19, Columns DEF CheckMerge, IInv, Tables, OpenReviewPinsLease, MROpen, Versions
  <2>1. LockOK'
    BY <1>q19, <2>0 DEF CheckMerge, LockOK, Hold, CheckpointOps, HandoffOps, MergeOps
  <2>. QED  BY <1>q19, <1>k, <1>s, <2>1, QuietTables DEF CheckMerge, FlightOK
<1>q20. ASSUME GitMerge
      PROVE  LockOK' /\ FlightOK' /\ Tables'
  <2>0. lock' = [lock EXCEPT !.op = "merge_done"] /\ lock.op = "merge_checked"
    BY <1>q20 DEF GitMerge
  <2>1. /\ lock'.op = "merge_done" /\ lock'.lease = lock.lease
        /\ lock'.agent = lock.agent /\ lock'.arg = lock.arg
    BY <2>0 DEF TypeOK, Holder
  <2>2. LockOK'
    BY <1>q20, <2>0, <2>1 DEF GitMerge, LockOK, CheckpointOps, HandoffOps, MergeOps
  <2>. QED  BY <1>q20, <1>k, <1>s, <2>2, QuietTables DEF GitMerge, FlightOK
<1>q21. ASSUME ReconcileMerge
      PROVE  LockOK' /\ FlightOK' /\ Tables'
  <2>0. /\ mr.lease \in Versions /\ leases[mr.lease].status = "review"
        /\ mr.commit \in 0..MaxCommit
    BY <1>q21, Columns DEF ReconcileMerge, IInv, Tables, OpenReviewPinsLease, MROpen, Versions
  <2>1. LockOK'
    BY <1>q21, <2>0 DEF ReconcileMerge, LockOK, Hold, CheckpointOps, HandoffOps, MergeOps
  <2>. QED  BY <1>q21, <1>k, <1>s, <2>1, QuietTables DEF ReconcileMerge, FlightOK
<1>. QED
  BY <1>q1, <1>q2, <1>q3, <1>q4, <1>q5, <1>q6, <1>q7, <1>q8, <1>q9, <1>q10,
     <1>q11, <1>q12, <1>q13, <1>q14, <1>q15, <1>q16, <1>q17, <1>q18, <1>q19,
     <1>q20, <1>q21
  DEF Quiet, QuietLeaseStep, Handoff

-----------------------------------------------------------------------------
(* The steps that change the tables *)

\* An active or interrupted lease becomes active, interrupted or frozen, and
\* the step follows it.
LEMMA MoveTables ==
  ASSUME IInv, NEW v \in Versions, NEW st \in {"active", "interrupted", "frozen"},
         leases[v].status \in {"active", "interrupted"},
         StatusMoved(v, st), step'.status \in Beside(st),
         step'.lease = step.lease, step'.version = step.version,
         step'.agent = step.agent, step'.checkpoint = step.checkpoint,
         UNCHANGED <<checkpoints, workspace, assignment, mr, main, lock,
                     submitting, writing>>
  PROVE  LockOK' /\ FlightOK' /\ Tables'
<1>. VersionFrontier /\ SupersededLeasesAreOver /\ StepFollowsLease
     /\ OpenReviewPinsLease /\ ReviewedWorkIsCheckpointed /\ MergedWorkIsOnMain
     /\ WritesStayWithOwner /\ TypeOK /\ LockOK /\ FlightOK
  BY DEF IInv, Tables
<1>c. /\ step.version \in Nat /\ step.version <= MaxVersion
      /\ MaxVersion \in Nat /\ mr.lease \in 0..MaxVersion
  BY StepColumns, Columns, StepLeaseAssumption DEF StepLeaseAssumption
<1>v. v = step.lease /\ v = step.version
  BY CurrentLease
<1>0. 1..step.version \subseteq Versions
  BY <1>c DEF Versions
<1>m. ~MROpen /\ mr.status # "merged"
  BY <1>v DEF OpenReviewPinsLease, MergedWorkIsOnMain
<1>1. VersionFrontier'
  BY DEF VersionFrontier, StatusMoved
<1>2. SupersededLeasesAreOver'
  BY <1>0, <1>v DEF SupersededLeasesAreOver, StatusMoved
<1>3. StepFollowsLease'
  BY <1>v DEF StepFollowsLease, StatusMoved, Beside, Versions
<1>4. OpenReviewPinsLease'
  BY <1>m DEF OpenReviewPinsLease, StatusMoved, MROpen
<1>5. ReviewedWorkIsCheckpointed' /\ MergedWorkIsOnMain'
  BY <1>m DEF ReviewedWorkIsCheckpointed, MergedWorkIsOnMain, MROpen
<1>6. WritesStayWithOwner'
  BY <1>0 DEF WritesStayWithOwner, StatusMoved, FlightOK
<1>7. LockOK'
  BY LockFrame DEF StatusMoved
<1>8. FlightOK'
  BY DEF FlightOK
<1>. QED
  BY <1>1, <1>2, <1>3, <1>4, <1>5, <1>6, <1>7, <1>8 DEF Tables

\* The next lease is issued: to the step's agent in the same worktree, or with
\* a new worktree to any agent.  The lease before it is over.
LEMMA GrantTables ==
  ASSUME IInv, NEW v \in Versions, NEW a \in Agents, v = step.version + 1,
         \/ step.lease = 0
         \/ leases[step.lease].status = "frozen"
         \/ leases[step.lease].status = "interrupted"
              /\ leases'[step.lease].status = "revoked",
         leases'[v].status = "active", leases'[v].agent = a,
         \A u \in Versions \ {v} :
           /\ leases'[u].agent = leases[u].agent
           /\ \/ leases'[u].status = leases[u].status
              \/ u = step.lease /\ leases'[u].status = "revoked",
         step'.status = "in_progress", step'.lease = v, step'.version = v,
         step'.agent = a,
         \/ a = step.agent /\ workspace' = workspace
         \/ workspace'.tree = v,
         UNCHANGED <<mr, main, writing>>
  PROVE  Tables'
<1>. VersionFrontier /\ SupersededLeasesAreOver /\ StepFollowsLease
     /\ OpenReviewPinsLease /\ ReviewedWorkIsCheckpointed /\ MergedWorkIsOnMain
     /\ WritesStayWithOwner /\ TypeOK /\ FlightOK
  BY DEF IInv, Tables
<1>c. /\ step.version \in Nat /\ step.lease \in Nat
      /\ MaxVersion \in Nat /\ mr.lease \in 0..MaxVersion /\ workspace.tree \in Nat
  BY StepColumns, Columns, StepLeaseAssumption DEF StepLeaseAssumption
<1>0. /\ 1..step.version \subseteq Versions
      /\ v \notin 1..step.version /\ 1..v = (1..step.version) \cup {v}
  BY <1>c DEF Versions
<1>m. ~MROpen /\ mr.status # "merged"
  BY DEF OpenReviewPinsLease, MergedWorkIsOnMain
<1>1. VersionFrontier'
  BY <1>0, <1>c DEF VersionFrontier, Versions
<1>2. SupersededLeasesAreOver'
  BY <1>0 DEF SupersededLeasesAreOver
<1>3. StepFollowsLease'
  BY <1>c DEF StepFollowsLease, Beside, Versions
<1>4. OpenReviewPinsLease'
  BY <1>m DEF OpenReviewPinsLease, MROpen
<1>5. ReviewedWorkIsCheckpointed' /\ MergedWorkIsOnMain'
  BY <1>m DEF ReviewedWorkIsCheckpointed, MergedWorkIsOnMain, MROpen
<1>6. WritesStayWithOwner'
  <2>1. workspace'.tree <= v
    BY <1>c DEF WritesStayWithOwner
  <2>2. \A u \in 1..v : u >= workspace'.tree => leases'[u].agent = a
    BY <1>0, <1>c DEF WritesStayWithOwner
  <2>3. (writing # NoWrite /\ writing.tree = workspace'.tree) =>
           leases'[writing.lease].agent = a
    BY <1>0, <1>c, <2>2 DEF FlightOK
  <2>. QED  BY <2>1, <2>2, <2>3 DEF WritesStayWithOwner
<1>. QED
  BY <1>1, <1>2, <1>3, <1>4, <1>5, <1>6 DEF Tables

\* The first lease, or the one after a rejected review.
LEMMA AcquireKeeps ==
  ASSUME IInv, Acquire PROVE LockOK' /\ FlightOK' /\ Tables'
<1>. DEFINE v == step.version + 1
<1>. TypeOK /\ LockOK /\ FlightOK
  BY DEF IInv
<1>c. /\ step.version \in Nat /\ step.agent \in Agents /\ step \in StepRow
  BY StepColumns, Columns, StepLeaseAssumption DEF TypeOK
<1>0. v \in Versions /\ v \in 0..MaxVersion
  BY <1>c, StepLeaseAssumption DEF Acquire, Versions, StepLeaseAssumption
<1>1. StatusIssued(v, step.agent)
  BY <1>0, <1>c, IssuedTable, StepLeaseAssumption DEF Acquire, StatusIssued
<1>2. /\ step'.status = "in_progress" /\ step'.lease = v /\ step'.version = v
      /\ step'.agent = step.agent /\ step'.checkpoint = step.checkpoint
  BY <1>0, <1>c, StepGranted DEF Acquire
<1>3. leases[v].status = "none"
  BY <1>0, <1>c DEF IInv, Tables, VersionFrontier
<1>4. LockOK'
  BY <1>1, <1>3, LockFrame DEF Acquire, StatusIssued
<1>5. FlightOK'
  BY <1>2, <1>c DEF Acquire, FlightOK
<1>. QED
  BY <1>0, <1>1, <1>2, <1>4, <1>5, <1>c, GrantTables DEF Acquire, StatusIssued

\* A new lease after a frozen one.
LEMMA UnfreezeKeeps ==
  ASSUME IInv, UnfreezeStep PROVE LockOK' /\ FlightOK' /\ Tables'
<1>. DEFINE v == step.version + 1
<1>. TypeOK /\ LockOK /\ FlightOK
  BY DEF IInv
<1>c. /\ step.version \in Nat /\ step.agent \in Agents /\ step \in StepRow
  BY StepColumns, Columns, StepLeaseAssumption DEF TypeOK
<1>0. v \in Versions /\ v \in 0..MaxVersion
  BY <1>c, StepLeaseAssumption DEF UnfreezeStep, Versions, StepLeaseAssumption
<1>1. StatusIssued(v, step.agent)
  BY <1>0, <1>c, IssuedTable, StepLeaseAssumption DEF UnfreezeStep, StatusIssued
<1>2. /\ step'.status = "in_progress" /\ step'.lease = v /\ step'.version = v
      /\ step'.agent = step.agent /\ step'.checkpoint = step.checkpoint
  BY <1>0, <1>c, StepGranted DEF UnfreezeStep
<1>3. leases[v].status = "none"
  BY <1>0, <1>c DEF IInv, Tables, VersionFrontier
<1>4. LockOK'
  BY <1>1, <1>3, LockFrame DEF UnfreezeStep, StatusIssued
<1>5. FlightOK'
  BY <1>2, <1>c DEF UnfreezeStep, FlightOK
<1>. QED
  BY <1>0, <1>1, <1>2, <1>4, <1>5, <1>c, GrantTables DEF UnfreezeStep, StatusIssued

\* A handoff commits: new lease, new agent, new worktree.
LEMMA CommitReassignKeeps ==
  ASSUME IInv, CommitReassign PROVE LockOK' /\ FlightOK' /\ Tables'
<1>. DEFINE v == step.version + 1
<1>. TypeOK /\ LockOK /\ FlightOK
  BY DEF IInv
<1>1. /\ lock.lease \in Versions /\ lock.lease < MaxVersion /\ lock.agent \in Agents
      /\ lock.arg \in DOMAIN checkpoints
      /\ step.version = lock.lease /\ step.lease = lock.lease
  BY DEF CommitReassign, LockOK, HandoffOps
<1>2. v \in Versions /\ v # lock.lease
  BY <1>1, StepLeaseAssumption DEF Versions, StepLeaseAssumption
<1>3. /\ Ended(lock.lease, "revoked") \in [Versions -> LeaseRow]
      /\ \A u \in Versions :
           /\ Ended(lock.lease, "revoked")[u].status =
                IF u = lock.lease THEN "revoked" ELSE leases[u].status
           /\ Ended(lock.lease, "revoked")[u].agent = leases[u].agent
  BY <1>1, EndedTable, StepLeaseAssumption DEF LeaseStatus
<1>4. /\ leases'[v].status = "active" /\ leases'[v].agent = lock.agent
      /\ leases'[lock.lease].status = "revoked"
      /\ \A u \in Versions \ {v} :
           /\ leases'[u].agent = leases[u].agent
           /\ leases'[u].status = IF u = lock.lease THEN "revoked"
                                  ELSE leases[u].status
  BY <1>1, <1>2, <1>3 DEF CommitReassign, Lease
<1>5. LockOK'
  BY FreeLock DEF CommitReassign
<1>6. lock.arg \in 0..Len(checkpoints) /\ step.version \in Nat
  BY <1>1, CheckpointColumns, StepColumns
<1>7. FlightOK'
  BY <1>6 DEF CommitReassign, FlightOK
<1>. QED
  BY <1>1, <1>2, <1>4, <1>5, <1>7, GrantTables DEF CommitReassign, HandoffWorktree

\* Freezing spares leases in review and completed ones.
LEMMA FreezeKeeps ==
  ASSUME IInv, FreezeStep PROVE LockOK' /\ FlightOK' /\ Tables'
<1>. TypeOK
  BY DEF IInv
<1>1. step.lease \in 0..MaxVersion /\ step.lease # 0
  BY Columns, StepLeaseAssumption DEF FreezeStep
<1>2. step.lease \in Versions
  BY <1>1 DEF Versions
<1>3. StatusMoved(step.lease, "frozen")
  BY <1>2, EndedTable, StepLeaseAssumption DEF FreezeStep, StatusMoved, LeaseStatus
<1>4. /\ step'.status \in Beside("frozen") /\ step'.lease = step.lease
      /\ step'.version = step.version /\ step'.agent = step.agent
      /\ step'.checkpoint = step.checkpoint
  BY StepStatusSet DEF FreezeStep, TypeOK, StepStatus, Beside
<1>. QED
  BY <1>2, <1>3, <1>4, MoveTables DEF FreezeStep

\* The scan interrupts an expired lease and its step.
LEMMA InterruptKeeps ==
  ASSUME IInv, NEW v \in Versions, InterruptExpired(v)
  PROVE  LockOK' /\ FlightOK' /\ Tables'
<1>. TypeOK
  BY DEF IInv
<1>1. StatusMoved(v, "interrupted")
  <2>1. 0 \in 0..TTL /\ Window \in 0..Window
    BY StepLeaseAssumption DEF StepLeaseAssumption
  <2>. QED  BY <2>1, MovedTable DEF InterruptExpired, StatusMoved, LeaseStatus
<1>2. /\ step'.status \in Beside("interrupted") /\ step'.lease = step.lease
      /\ step'.version = step.version /\ step'.agent = step.agent
      /\ step'.checkpoint = step.checkpoint
  BY StepStatusSet DEF InterruptExpired, TypeOK, StepStatus, Beside
<1>. QED
  BY <1>1, <1>2, MoveTables DEF InterruptExpired

\* A resume commits: what it validated earlier may be gone, its lease is not.
LEMMA ResumeKeeps ==
  ASSUME IInv, CommitResume PROVE LockOK' /\ FlightOK' /\ Tables'
<1>. DEFINE v == resuming.lease
<1>. TypeOK
  BY DEF IInv
<1>0. v \in 0..MaxVersion /\ v # 0 /\ resuming.age \in Nat
  BY Columns, StepLeaseAssumption DEF CommitResume
<1>1. v \in Versions
  BY <1>0 DEF Versions
<1>2. StatusMoved(v, "active")
  <2>1. TTL \in 0..TTL /\ TTL \in Nat /\ 0 \in 0..Window
    BY StepLeaseAssumption DEF StepLeaseAssumption
  <2>2. Left(TTL, resuming.age) \in 0..TTL
    BY <1>0, <2>1, LeftInRange
  <2>. QED  BY <1>1, <2>1, <2>2, MovedTable DEF CommitResume, StatusMoved, LeaseStatus
<1>3. /\ step'.status \in Beside("active") /\ step'.lease = step.lease
      /\ step'.version = step.version /\ step'.agent = step.agent
      /\ step'.checkpoint = step.checkpoint
  BY StepStatusSet DEF CommitResume, TypeOK, StepStatus, Beside
<1>. QED
  BY <1>1, <1>2, <1>3, MoveTables DEF CommitResume

\* A failed recovery blocks a step whose status nobody expected.
LEMMA BlockKeeps ==
  ASSUME IInv, MarkRecoveryBlocked PROVE LockOK' /\ FlightOK' /\ Tables'
<1>. VersionFrontier /\ SupersededLeasesAreOver /\ StepFollowsLease
     /\ OpenReviewPinsLease /\ ReviewedWorkIsCheckpointed /\ MergedWorkIsOnMain
     /\ WritesStayWithOwner /\ TypeOK /\ LockOK /\ FlightOK
  BY DEF IInv, Tables
<1>1. LockOK'
  BY FreeLock DEF MarkRecoveryBlocked
<1>2. CASE step.lease # lock.lease
  <2>1. UNCHANGED <<step, leases, checkpoints, workspace, assignment, mr, main,
                    submitting, writing>>
    BY <1>2 DEF MarkRecoveryBlocked
  <2>. QED  BY <1>1, <2>1, QuietTables DEF StatusKept, FlightOK
<1>3. CASE step.lease = lock.lease
  <2>1. /\ step'.status = "blocked" /\ step'.lease = step.lease
        /\ step'.version = step.version /\ step'.agent = step.agent
        /\ step'.checkpoint = step.checkpoint
    BY <1>3, StepStatusSet DEF MarkRecoveryBlocked, TypeOK, StepStatus
  <2>2. step.lease \in Versions /\ leases[step.lease].status \notin {"none", "completed"}
    BY <1>3 DEF MarkRecoveryBlocked, LockOK
  <2>3. leases \in [Versions -> LeaseRow] /\ 0 \notin Versions
    BY DEF TypeOK, Versions
  <2>4. StepFollowsLease'
    BY <2>1, <2>2, <2>3 DEF MarkRecoveryBlocked, StepFollowsLease, Beside, LeaseRow,
                       LeaseStatus
  <2>5. MergedWorkIsOnMain'
    BY <2>2 DEF MarkRecoveryBlocked, MergedWorkIsOnMain
  <2>6. VersionFrontier' /\ SupersededLeasesAreOver'
    BY <2>1 DEF MarkRecoveryBlocked, VersionFrontier, SupersededLeasesAreOver
  <2>7. OpenReviewPinsLease' /\ ReviewedWorkIsCheckpointed' /\ WritesStayWithOwner'
    BY <2>1 DEF MarkRecoveryBlocked, OpenReviewPinsLease, MROpen,
                ReviewedWorkIsCheckpointed, WritesStayWithOwner
  <2>8. FlightOK'
    BY <2>1 DEF MarkRecoveryBlocked, FlightOK
  <2>. QED  BY <1>1, <2>4, <2>5, <2>6, <2>7, <2>8 DEF Tables
<1>. QED
  BY <1>2, <1>3

\* A checkpoint row is added, for a lease that may by now be an older one.
LEMMA PersistKeeps ==
  ASSUME IInv, PersistCheckpoint PROVE LockOK' /\ FlightOK' /\ Tables'
<1>. VersionFrontier /\ SupersededLeasesAreOver /\ StepFollowsLease
     /\ OpenReviewPinsLease /\ ReviewedWorkIsCheckpointed /\ MergedWorkIsOnMain
     /\ WritesStayWithOwner /\ TypeOK /\ LockOK /\ FlightOK
  BY DEF IInv, Tables
<1>1. LockOK'
  BY FreeLock DEF PersistCheckpoint
<1>2. lock.lease \in Versions /\ leases[lock.lease].status = "active"
  BY DEF PersistCheckpoint, LockOK
<1>3. step.lease = lock.lease /\ step.version = lock.lease
  BY <1>2, CurrentLease
<1>m. ~MROpen /\ mr.status # "merged"
  BY <1>2, <1>3 DEF OpenReviewPinsLease, MergedWorkIsOnMain
<1>4. /\ step'.status = "checkpointed" /\ step'.lease = step.lease
      /\ step'.version = step.version /\ step'.agent = step.agent
      /\ step'.checkpoint = Len(checkpoints) + 1
  <2>1. step' = [step EXCEPT !.status = "checkpointed",
                             !.checkpoint = Len(checkpoints) + 1]
    BY <1>3 DEF PersistCheckpoint
  <2>. QED  BY <2>1 DEF TypeOK, StepRow
<1>5. Len(checkpoints') = Len(checkpoints) + 1 /\ Len(checkpoints) \in Nat
  BY StepColumns DEF PersistCheckpoint, TypeOK
<1>6. FlightOK'
  BY <1>4, <1>5 DEF PersistCheckpoint, FlightOK
<1>7. VersionFrontier' /\ SupersededLeasesAreOver'
  BY <1>4 DEF PersistCheckpoint, VersionFrontier, SupersededLeasesAreOver
<1>8. StepFollowsLease'
  BY <1>2, <1>3, <1>4 DEF PersistCheckpoint, StepFollowsLease, Beside, Versions
<1>9. OpenReviewPinsLease' /\ ReviewedWorkIsCheckpointed' /\ MergedWorkIsOnMain'
  BY <1>m DEF PersistCheckpoint, OpenReviewPinsLease, MROpen,
              ReviewedWorkIsCheckpointed, MergedWorkIsOnMain
<1>10. WritesStayWithOwner'
  BY <1>4 DEF PersistCheckpoint, WritesStayWithOwner
<1>. QED
  BY <1>1, <1>6, <1>7, <1>8, <1>9, <1>10 DEF Tables

\* A report opens the review of its lease.
LEMMA SubmitKeeps ==
  ASSUME IInv, SubmitReport PROVE LockOK' /\ FlightOK' /\ Tables'
<1>. DEFINE v == submitting.lease
<1>. VersionFrontier /\ SupersededLeasesAreOver /\ StepFollowsLease
     /\ OpenReviewPinsLease /\ ReviewedWorkIsCheckpointed /\ MergedWorkIsOnMain
     /\ WritesStayWithOwner /\ TypeOK /\ LockOK /\ FlightOK
  BY DEF IInv, Tables
<1>c. /\ step.version \in Nat /\ step.version <= MaxVersion /\ MaxVersion \in Nat
      /\ v \in 0..MaxVersion /\ v # 0 /\ mr.lease \in 0..MaxVersion
  BY StepColumns, Columns, StepLeaseAssumption DEF SubmitReport, StepLeaseAssumption
<1>1. v \in Versions /\ 0 \notin Versions /\ 1..step.version \subseteq Versions
  BY <1>c DEF Versions
<1>2. step.lease = v /\ step.version = v /\ leases[v].status = "active"
  BY <1>1, CurrentLease DEF SubmitReport
<1>3. StatusMoved(v, "review")
  BY <1>1, EndedTable, StepLeaseAssumption DEF SubmitReport, StatusMoved, LeaseStatus
<1>4. /\ step'.status = "review" /\ step'.lease = step.lease
      /\ step'.version = step.version /\ step'.agent = step.agent
      /\ step'.checkpoint = step.checkpoint
  BY StepStatusSet DEF SubmitReport, TypeOK, StepStatus
<1>5. mr' = [status |-> "pending_review", lease |-> v, commit |-> submitting.commit]
  BY DEF SubmitReport
<1>m. ~MROpen /\ mr.status # "merged"
  BY DEF SubmitReport, MROpen
<1>6. LockOK'
  <2>1. lock.op \in MergeOps => lock.lease # v
    BY <1>2 DEF LockOK
  <2>2. UNCHANGED <<lock, checkpoints, main>>
    BY DEF SubmitReport
  <2>. QED  BY <1>1, <1>2, <1>3, <1>5, <2>1, <2>2 DEF LockOK, StatusMoved
<1>7. FlightOK'
  BY <1>4, <1>c DEF SubmitReport, FlightOK, NoSubmit
<1>8. VersionFrontier'
  BY <1>1, <1>2, <1>3, <1>4 DEF VersionFrontier, StatusMoved
<1>9. SupersededLeasesAreOver'
  BY <1>1, <1>2, <1>3, <1>4 DEF SupersededLeasesAreOver, StatusMoved
<1>10. StepFollowsLease'
  BY <1>1, <1>2, <1>3, <1>4 DEF StepFollowsLease, StatusMoved, Beside
<1>11. OpenReviewPinsLease'
  <2>1. assignment' = "review"
    BY DEF SubmitReport
  <2>2. \A u \in Versions : leases'[u].status = "review" => u = v
    BY <1>3, <1>m DEF StatusMoved, OpenReviewPinsLease
  <2>. QED  BY <1>1, <1>2, <1>3, <1>4, <1>5, <2>1, <2>2
            DEF OpenReviewPinsLease, StatusMoved, MROpen
<1>12. ReviewedWorkIsCheckpointed'
  <2>1. /\ step.checkpoint # 0 /\ step.checkpoint \in 0..Len(checkpoints)
        /\ Len(checkpoints) \in Nat /\ checkpoints \in Seq(Checkpoint)
    BY StepColumns DEF SubmitReport, SubmittedCheckpoint, FlightOK, TypeOK
  <2>2. step.checkpoint \in DOMAIN checkpoints
    BY <2>1
  <2>3. /\ checkpoints[step.checkpoint].lease = v
        /\ checkpoints[step.checkpoint].clean
        /\ checkpoints[step.checkpoint].commit = submitting.commit
    BY DEF SubmitReport, SubmittedCheckpoint
  <2>4. checkpoints[step.checkpoint] \in Checkpoint
    BY <2>1, <2>2
  <2>5. checkpoints[step.checkpoint] =
          [lease |-> v, commit |-> submitting.commit, clean |-> TRUE]
    BY <2>3, <2>4 DEF Checkpoint
  <2>6. UNCHANGED checkpoints
    BY DEF SubmitReport
  <2>. QED  BY <1>4, <1>5, <2>2, <2>5, <2>6 DEF ReviewedWorkIsCheckpointed
<1>13. MergedWorkIsOnMain'
  BY <1>5 DEF MergedWorkIsOnMain
<1>14. WritesStayWithOwner'
  BY <1>1, <1>3, <1>4 DEF SubmitReport, WritesStayWithOwner, StatusMoved, FlightOK
<1>. QED
  BY <1>6, <1>7, <1>8, <1>9, <1>10, <1>11, <1>12, <1>13, <1>14 DEF Tables

\* An approval leaves the lease in review.
LEMMA ApproveKeeps ==
  ASSUME IInv, NEW takeover \in BOOLEAN, Approve(takeover)
  PROVE  LockOK' /\ FlightOK' /\ Tables'
<1>. DEFINE v == mr.lease
<1>. VersionFrontier /\ SupersededLeasesAreOver /\ StepFollowsLease
     /\ OpenReviewPinsLease /\ ReviewedWorkIsCheckpointed /\ MergedWorkIsOnMain
     /\ WritesStayWithOwner /\ TypeOK /\ LockOK /\ FlightOK
  BY DEF IInv, Tables
<1>c. /\ step.version \in Nat /\ step.version <= MaxVersion /\ MaxVersion \in Nat
      /\ v \in 0..MaxVersion
  BY StepColumns, Columns, StepLeaseAssumption DEF StepLeaseAssumption
<1>0. MROpen /\ mr.status # "merged" /\ mr \in MRRow
  BY DEF Approve, MROpen, TypeOK
<1>1. v \in Versions /\ 0 \notin Versions /\ 1..step.version \subseteq Versions
  BY <1>0, <1>c DEF Versions, OpenReviewPinsLease
<1>2. leases[v].status = "review" /\ step.lease = v /\ assignment = "review"
  BY <1>0 DEF OpenReviewPinsLease
<1>3. StatusKept
  BY <1>1, <1>2, EndedTable, StepLeaseAssumption DEF Approve, StatusKept, LeaseStatus
<1>4. /\ step'.status = "review" /\ step'.lease = step.lease
      /\ step'.version = step.version /\ step'.agent = step.agent
      /\ step'.checkpoint = step.checkpoint
  BY StepStatusSet DEF Approve, TypeOK, StepStatus
<1>5. mr'.status = "approved" /\ mr'.lease = v /\ mr'.commit = mr.commit
  BY <1>0 DEF Approve, MRRow
<1>6. LockOK'
  <2>1. UNCHANGED <<lock, checkpoints, main>>
    BY DEF Approve
  <2>. QED  BY <1>3, <1>5, <2>1 DEF LockOK, StatusKept
<1>7. FlightOK'
  BY <1>4 DEF Approve, FlightOK
<1>8. VersionFrontier' /\ SupersededLeasesAreOver'
  BY <1>1, <1>3, <1>4 DEF VersionFrontier, SupersededLeasesAreOver, StatusKept
<1>9. StepFollowsLease'
  BY <1>1, <1>2, <1>3, <1>4 DEF StepFollowsLease, StatusKept, Beside
<1>10. OpenReviewPinsLease'
  <2>1. assignment' = assignment
    BY DEF Approve
  <2>. QED  BY <1>0, <1>1, <1>2, <1>3, <1>4, <1>5, <2>1
            DEF OpenReviewPinsLease, StatusKept, MROpen
<1>11. ReviewedWorkIsCheckpointed'
  BY <1>0, <1>4, <1>5 DEF Approve, ReviewedWorkIsCheckpointed
<1>12. MergedWorkIsOnMain'
  BY <1>5 DEF MergedWorkIsOnMain
<1>13. WritesStayWithOwner'
  BY <1>1, <1>3, <1>4 DEF Approve, WritesStayWithOwner, StatusKept, FlightOK
<1>. QED
  BY <1>6, <1>7, <1>8, <1>9, <1>10, <1>11, <1>12, <1>13 DEF Tables

\* A rejection revokes the lease and leaves the step without one.
LEMMA RequestChangesKeeps ==
  ASSUME IInv, NEW takeover \in BOOLEAN, RequestChanges(takeover)
  PROVE  LockOK' /\ FlightOK' /\ Tables'
<1>. DEFINE v == mr.lease
<1>. VersionFrontier /\ SupersededLeasesAreOver /\ StepFollowsLease
     /\ OpenReviewPinsLease /\ ReviewedWorkIsCheckpointed /\ MergedWorkIsOnMain
     /\ WritesStayWithOwner /\ TypeOK /\ LockOK /\ FlightOK
  BY DEF IInv, Tables
<1>c. /\ step.version \in Nat /\ step.version <= MaxVersion /\ MaxVersion \in Nat
      /\ v \in 0..MaxVersion
  BY StepColumns, Columns, StepLeaseAssumption DEF StepLeaseAssumption
<1>0. MROpen /\ mr \in MRRow
  BY DEF RequestChanges, MROpen, TypeOK
<1>1. v \in Versions /\ 0 \notin Versions /\ 1..step.version \subseteq Versions
  BY <1>0, <1>c DEF Versions, OpenReviewPinsLease
<1>2. leases[v].status = "review" /\ step.lease = v
  BY <1>0 DEF OpenReviewPinsLease
<1>3. StatusMoved(v, "revoked")
  BY <1>1, EndedTable, StepLeaseAssumption DEF RequestChanges, StatusMoved, LeaseStatus
<1>4. /\ step'.status = "assigned" /\ step'.lease = 0
      /\ step'.version = step.version /\ step'.agent = step.agent
      /\ step'.checkpoint = 0
  BY DEF RequestChanges, TypeOK, StepRow
<1>5. mr'.status = "changes_requested" /\ mr'.lease = v /\ mr'.commit = mr.commit
  BY <1>0 DEF RequestChanges, MRRow
<1>6. LockOK'
  <2>1. UNCHANGED <<lock, checkpoints, main>>
    BY DEF RequestChanges
  <2>. QED  BY <1>2, <1>3, <1>5, <2>1 DEF LockOK, StatusMoved
<1>7. FlightOK'
  BY <1>4, StepColumns DEF RequestChanges, FlightOK
<1>8. VersionFrontier'
  BY <1>1, <1>2, <1>3, <1>4 DEF VersionFrontier, StatusMoved
<1>9. SupersededLeasesAreOver'
  BY <1>1, <1>2, <1>3, <1>4 DEF SupersededLeasesAreOver, StatusMoved
<1>10. StepFollowsLease'
  BY <1>4 DEF StepFollowsLease
<1>11. OpenReviewPinsLease' /\ ReviewedWorkIsCheckpointed' /\ MergedWorkIsOnMain'
  BY <1>0, <1>3, <1>5 DEF OpenReviewPinsLease, ReviewedWorkIsCheckpointed,
                          MergedWorkIsOnMain, MROpen, StatusMoved
<1>12. WritesStayWithOwner'
  BY <1>1, <1>3, <1>4 DEF RequestChanges, WritesStayWithOwner, StatusMoved, FlightOK
<1>. QED
  BY <1>6, <1>7, <1>8, <1>9, <1>10, <1>11, <1>12 DEF Tables

\* A merge is recorded for the request it was checked for.
LEMMA MergedKeeps ==
  ASSUME IInv, PersistMerged PROVE LockOK' /\ FlightOK' /\ Tables'
<1>. DEFINE v == mr.lease
<1>. VersionFrontier /\ SupersededLeasesAreOver /\ StepFollowsLease
     /\ OpenReviewPinsLease /\ ReviewedWorkIsCheckpointed /\ MergedWorkIsOnMain
     /\ WritesStayWithOwner /\ TypeOK /\ LockOK /\ FlightOK
  BY DEF IInv, Tables
<1>c. /\ step.version \in Nat /\ step.version <= MaxVersion /\ MaxVersion \in Nat
      /\ v \in 0..MaxVersion
  BY StepColumns, Columns, StepLeaseAssumption DEF StepLeaseAssumption
<1>0. MROpen /\ mr \in MRRow
  BY DEF PersistMerged, MROpen, TypeOK
<1>1. v \in Versions /\ 0 \notin Versions /\ 1..step.version \subseteq Versions
  BY <1>0, <1>c DEF Versions, OpenReviewPinsLease
<1>2. leases[v].status = "review" /\ step.lease = v
  BY <1>0 DEF OpenReviewPinsLease
<1>3. StatusMoved(v, "completed")
  BY <1>1, EndedTable, StepLeaseAssumption DEF PersistMerged, StatusMoved, LeaseStatus
<1>4. /\ step'.status = "completed" /\ step'.lease = step.lease
      /\ step'.version = step.version /\ step'.agent = step.agent
      /\ step'.checkpoint = step.checkpoint
  BY StepStatusSet DEF PersistMerged, TypeOK, StepStatus
<1>5. mr'.status = "merged" /\ mr'.lease = v /\ mr'.commit = mr.commit
  BY <1>0 DEF PersistMerged, MRRow
<1>m. mr.commit \in main
  BY DEF PersistMerged, LockOK, MergeOps
<1>6. LockOK'
  BY FreeLock DEF PersistMerged
<1>7. FlightOK'
  BY <1>4 DEF PersistMerged, FlightOK
<1>8. VersionFrontier'
  BY <1>1, <1>2, <1>3, <1>4 DEF VersionFrontier, StatusMoved
<1>9. SupersededLeasesAreOver'
  BY <1>1, <1>2, <1>3, <1>4 DEF SupersededLeasesAreOver, StatusMoved
<1>10. StepFollowsLease'
  BY <1>1, <1>2, <1>3, <1>4 DEF StepFollowsLease, StatusMoved, Beside
<1>11. OpenReviewPinsLease' /\ ReviewedWorkIsCheckpointed'
  BY <1>0, <1>3, <1>5 DEF OpenReviewPinsLease, ReviewedWorkIsCheckpointed,
                          MROpen, StatusMoved
<1>12. MergedWorkIsOnMain'
  BY <1>1, <1>2, <1>3, <1>4, <1>5, <1>m DEF PersistMerged, MergedWorkIsOnMain, StatusMoved
<1>13. WritesStayWithOwner'
  BY <1>1, <1>3, <1>4 DEF PersistMerged, WritesStayWithOwner, StatusMoved, FlightOK
<1>. QED
  BY <1>6, <1>7, <1>8, <1>9, <1>10, <1>11, <1>12, <1>13 DEF Tables

-----------------------------------------------------------------------------
(* The invariant *)

\* The invariant holds at first.
LEMMA InitInv == Init => IInv
<1>. SUFFICES ASSUME Init PROVE IInv
  OBVIOUS
<1>0. /\ MaxVersion \in Nat /\ MaxCheckpoint \in Nat /\ MaxCommit \in Nat
      /\ TTL \in Nat /\ Window \in Nat
  BY StepLeaseAssumption DEF StepLeaseAssumption
<1>1. PICK a \in Agents :
        step = [status |-> "assigned", lease |-> 0, version |-> 0, agent |-> a,
                checkpoint |-> 0]
  BY DEF Init
<1>2. leases = [v \in Versions |-> Lease("none", NoAgent, 0, 0)]
  BY DEF Init
<1>3. \A v \in Versions : leases[v] \in LeaseRow /\ leases[v].status = "none"
  <2>1. "none" \in LeaseStatus /\ 0 \in 0..TTL /\ 0 \in 0..Window
    BY <1>0 DEF LeaseStatus
  <2>. QED  BY <1>2, <2>1, LeaseTyped
<1>4. step \in StepRow /\ step.lease = 0 /\ step.version = 0 /\ step.status = "assigned"
      /\ step.checkpoint = 0
  BY <1>0, <1>1 DEF StepRow, StepStatus
<1>5. TypeOK
  <2>1. leases \in [Versions -> LeaseRow]
    BY <1>2, <1>3
  <2>2. lock \in Holder
    <3>1. "free" \in LockOps /\ 0 \in 0..MaxVersion /\ 0 \in Nat
      BY <1>0 DEF LockOps
    <3>. QED  BY <3>1, Held, StepLeaseAssumption DEF Init, Free
  <2>3. prepared \in [Versions -> Preparation]
    BY <1>0 DEF Init, NotPrepared, Preparation
  <2>4. workspace \in WorkspaceRow /\ mr \in MRRow
    BY <1>0 DEF Init, WorkspaceRow, MRRow
  <2>5. checkpoints \in Seq(Checkpoint) /\ Len(checkpoints) <= MaxCheckpoint
    BY <1>0 DEF Init
  <2>6. /\ resuming \in [lease : 0..MaxVersion, age : 0..TTL]
        /\ submitting \in [lease : 0..MaxVersion, commit : 0..MaxCommit]
        /\ writing \in [lease : 0..MaxVersion, tree : 0..MaxVersion]
    BY <1>0 DEF Init, NoResume, NoSubmit, NoWrite
  <2>. QED  BY <1>0, <1>4, <2>1, <2>2, <2>3, <2>4, <2>5, <2>6 DEF Init, TypeOK
<1>6. LockOK
  BY DEF Init, LockOK, Free, Hold, CheckpointOps, HandoffOps, MergeOps
<1>7. FlightOK
  BY <1>0, <1>4 DEF Init, FlightOK, NoSubmit
<1>8. Tables
  <2>1. VersionFrontier /\ SupersededLeasesAreOver
    BY <1>3, <1>4 DEF VersionFrontier, SupersededLeasesAreOver, Versions
  <2>2. StepFollowsLease /\ OpenReviewPinsLease /\ ReviewedWorkIsCheckpointed
        /\ MergedWorkIsOnMain
    BY <1>3, <1>4 DEF Init, StepFollowsLease, OpenReviewPinsLease, MROpen,
                      ReviewedWorkIsCheckpointed, MergedWorkIsOnMain
  <2>3. WritesStayWithOwner
    BY <1>4 DEF Init, WritesStayWithOwner
  <2>. QED  BY <2>1, <2>2, <2>3 DEF Tables
<1>. QED
  BY <1>5, <1>6, <1>7, <1>8 DEF IInv

\* Every step keeps the invariant.
LEMMA InvNext ==
  ASSUME IInv, Next PROVE IInv'
<1>1. TypeOK'
  BY TypeStep
<1>2. LockOK' /\ FlightOK' /\ Tables'
  <2>1. CASE Quiet
    BY <2>1, QuietStep
  <2>2. CASE Acquire \/ UnfreezeStep \/ CommitReassign
    BY <2>2, AcquireKeeps, UnfreezeKeeps, CommitReassignKeeps
  <2>3. CASE FreezeStep \/ CommitResume \/ \E v \in Versions : InterruptExpired(v)
    BY <2>3, FreezeKeeps, ResumeKeeps, InterruptKeeps
  <2>4. CASE MarkRecoveryBlocked \/ PersistCheckpoint \/ SubmitReport \/ PersistMerged
    BY <2>4, BlockKeeps, PersistKeeps, SubmitKeeps, MergedKeeps
  <2>5. CASE \E takeover \in BOOLEAN : Approve(takeover) \/ RequestChanges(takeover)
    BY <2>5, ApproveKeeps, RequestChangesKeeps
  <2>. QED
    BY <2>1, <2>2, <2>3, <2>4, <2>5
       DEF Next, LeaseStep, LockStep, Quiet, QuietLeaseStep
<1>. QED
  BY <1>1, <1>2 DEF IInv

\* So does a step of somebody else.
LEMMA InvStutter ==
  ASSUME IInv, UNCHANGED vars PROVE IInv'
<1>1. TypeOK'
  BY DEF IInv, vars, TypeOK
<1>2. LockOK' /\ FlightOK'
  BY DEF IInv, vars, LockOK, FlightOK
<1>3. Tables'
  BY DEF IInv, vars, Tables, VersionFrontier, SupersededLeasesAreOver,
         StepFollowsLease, OpenReviewPinsLease, ReviewedWorkIsCheckpointed,
         MergedWorkIsOnMain, WritesStayWithOwner, MROpen
<1>. QED
  BY <1>1, <1>2, <1>3 DEF IInv

\* The inductive invariant: what the tables promise each other, strengthened
\* by what the handlers in flight know.
THEOREM Invariance == Spec => []IInv
<1>1. IInv /\ [Next]_vars => IInv'
  BY InvNext, InvStutter
<1>. QED
  BY InitInv, <1>1, PTL DEF Spec

\* Every column keeps its type.
THEOREM TypeCorrect == Spec => []TypeOK
<1>1. IInv => TypeOK
  BY DEF IInv
<1>. QED
  BY <1>1, Invariance, PTL

\* The newest lease is the only one that can be active.
LEMMA OneWriter == IInv => SingleWriter
<1>. SUFFICES ASSUME IInv, NEW v \in Versions, leases[v].status = "active"
              PROVE  /\ v = step.lease /\ v = step.version
                     /\ leases[v].agent = step.agent
  BY DEF SingleWriter
<1>1. v = step.lease /\ v = step.version
  BY CurrentLease
<1>2. /\ v >= workspace.tree /\ v \in 1..step.version
      /\ \A u \in 1..step.version : u >= workspace.tree => leases[u].agent = step.agent
  BY <1>1, StepColumns DEF IInv, Tables, WritesStayWithOwner, Versions
<1>. QED
  BY <1>1, <1>2

\* Leases are issued in order and the step points at none or at the last one.
THEOREM VersionFrontierAlways == Spec => []VersionFrontier
<1>1. IInv => VersionFrontier
  BY DEF IInv, Tables
<1>. QED
  BY <1>1, Invariance, PTL

\* A lease the step no longer points at was frozen or revoked.
THEOREM SupersededAreOver == Spec => []SupersededLeasesAreOver
<1>1. IInv => SupersededLeasesAreOver
  BY DEF IInv, Tables
<1>. QED
  BY <1>1, Invariance, PTL

\* At most one lease can write, the newest one, held by the step's agent:
\* no order of heartbeat, expiry, resume, freeze, handoff, report, review and
\* merge transactions breaks it.
THEOREM OneWriterAlways == Spec => []SingleWriter
BY OneWriter, Invariance, PTL

\* The step's status always fits the status of its current lease, although some
\* updates of the two tables name no expected status.
THEOREM StepFollowsLeaseAlways == Spec => []StepFollowsLease
<1>1. IInv => StepFollowsLease
  BY DEF IInv, Tables
<1>. QED
  BY <1>1, Invariance, PTL

\* Nobody takes over, resumes or writes to a step under its reviewer.
THEOREM OpenReviewPinsLeaseAlways == Spec => []OpenReviewPinsLease
<1>1. IInv => OpenReviewPinsLease
  BY DEF IInv, Tables
<1>. QED
  BY <1>1, Invariance, PTL

\* What is reviewed is the step's own clean checkpoint.
THEOREM ReviewedIsCheckpointed == Spec => []ReviewedWorkIsCheckpointed
<1>1. IInv => ReviewedWorkIsCheckpointed
  BY DEF IInv, Tables
<1>. QED
  BY <1>1, Invariance, PTL

\* A merged request has its commit on main, and its step, lease and assignment
\* are closed, whatever crashed between Git and the database.
THEOREM MergedIsOnMain == Spec => []MergedWorkIsOnMain
<1>1. IInv => MergedWorkIsOnMain
  BY DEF IInv, Tables
<1>. QED
  BY <1>1, Invariance, PTL

\* A write authorised before a handoff does not reach the new agent's worktree.
THEOREM WritesStayWithOwnerAlways == Spec => []WritesStayWithOwner
<1>1. IInv => WritesStayWithOwner
  BY DEF IInv, Tables
<1>. QED
  BY <1>1, Invariance, PTL

\* The lease tables agree about the step in every reachable state.
THEOREM LeaseTablesAgreeAlways == Spec => []LeaseTablesAgree
<1>1. VersionFrontier /\ SupersededLeasesAreOver /\ StepFollowsLease => LeaseTablesAgree
  BY DEF LeaseTablesAgree
<1>. QED
  BY <1>1, VersionFrontierAlways, SupersededAreOver, StepFollowsLeaseAlways, PTL

\* A merge request agrees with its lease, its checkpoint, its assignment and main.
THEOREM MergeRequestsAgreeAlways == Spec => []MergeRequestsAgree
<1>1. OpenReviewPinsLease /\ ReviewedWorkIsCheckpointed /\ MergedWorkIsOnMain
        => MergeRequestsAgree
  BY DEF MergeRequestsAgree
<1>. QED
  BY <1>1, OpenReviewPinsLeaseAlways, ReviewedIsCheckpointed, MergedIsOnMain, PTL

-----------------------------------------------------------------------------
(* What a step may never do *)

\* What is known of a lease that was followed by another one.
LEMMA OldLeaseIsOver ==
  ASSUME IInv, NEW v \in Versions, v < step.version
  PROVE  /\ v # step.lease /\ leases[v].status \in {"frozen", "revoked"}
         /\ v # step.version /\ v # step.version + 1
<1>. /\ step.lease \in Nat /\ step.version \in Nat /\ v \in 1..step.version
  BY StepColumns DEF IInv, Versions
<1>1. v # step.lease
  BY DEF IInv, Tables, VersionFrontier, Versions
<1>. QED
  BY <1>1 DEF IInv, Tables, SupersededLeasesAreOver

\* No step moves such a lease.
LEMMA OldLeaseStays ==
  ASSUME IInv, Next, NEW v \in Versions, v < step.version
  PROVE  leases'[v].status = leases[v].status
<1>. USE StepLeaseAssumption
<1>. TypeOK /\ LockOK
  BY DEF IInv
<1>t. leases \in [Versions -> LeaseRow]
  BY DEF TypeOK
<1>o. /\ v # step.lease /\ leases[v].status \in {"frozen", "revoked"}
      /\ v # step.version /\ v # step.version + 1
  BY OldLeaseIsOver
<1>r. mr.status \in {"pending_review", "approved"} => mr.lease = step.lease
  BY DEF IInv, Tables, OpenReviewPinsLease, MROpen
<1>1. CASE Acquire
  BY <1>1, <1>o, <1>t DEF Acquire, Issued
<1>2. CASE FreezeStep
  BY <1>2, <1>o, <1>t DEF FreezeStep, Ended, Moved
<1>3. CASE UnfreezeStep
  BY <1>3, <1>o, <1>t DEF UnfreezeStep, Issued
<1>4. CASE \E u \in Versions : LeaseStep(u)
  <2>. PICK u \in Versions : LeaseStep(u)
    BY <1>4
  <2>1. CASE Heartbeat(u)
    BY <2>1, <1>o, <1>t DEF Heartbeat, Moved
  <2>2. CASE InterruptExpired(u)
    BY <2>2, <1>o, <1>t DEF InterruptExpired, Moved
  <2>3. CASE \E w \in 1..Window : ExtendResumeDeadline(u, w)
    BY <2>3, <1>o, <1>t DEF ExtendResumeDeadline, Moved
  <2>4. CASE BeginResume(u) \/ AuthorizeWrite(u) \/ StageCommit(u)
             \/ (\E op \in {"record", "context"} : BeginCheckpoint(u, op))
             \/ (\E c \in DOMAIN checkpoints : BeginSubmit(u, c))
    BY <2>4 DEF BeginResume, AuthorizeWrite, StageCommit, BeginCheckpoint, BeginSubmit
  <2>. QED
    BY <2>1, <2>2, <2>3, <2>4 DEF LeaseStep
<1>5. CASE CommitResume
  BY <1>5, <1>o, <1>t DEF CommitResume, Moved
<1>6. CASE SubmitReport
  BY <1>6, <1>o, <1>t DEF SubmitReport, Ended, Moved
<1>7. CASE \E takeover \in BOOLEAN : Approve(takeover) \/ RequestChanges(takeover)
  BY <1>7, <1>o, <1>r, <1>t DEF Approve, RequestChanges, Ended, Moved
<1>8. CASE CommitReassign
  BY <1>8, <1>o, <1>t DEF CommitReassign, Ended, Moved
<1>9. CASE PersistMerged
  BY <1>9, <1>o, <1>r, <1>t DEF PersistMerged, Ended, Moved
<1>10. CASE Tick
  BY <1>10 DEF Tick, Lease
<1>11. CASE UNCHANGED leases
  BY <1>11
<1>12. (/\ ~Acquire /\ ~FreezeStep /\ ~UnfreezeStep /\ ~CommitResume /\ ~SubmitReport
        /\ ~CommitReassign /\ ~PersistMerged /\ ~Tick
        /\ ~(\E u \in Versions : LeaseStep(u))
        /\ ~(\E takeover \in BOOLEAN : Approve(takeover) \/ RequestChanges(takeover)))
       => UNCHANGED leases
  <2>1. (Handoff \/ AbandonResume \/ FinishWrite \/ AbandonSubmit \/ CheckMerge
        \/ ReconcileMerge \/ CrashLockHolder) => UNCHANGED leases
    BY DEF Handoff, BeginReassign, RefuseReassign, AbandonResume, FinishWrite,
           AbandonSubmit, CheckMerge, ReconcileMerge, CrashLockHolder
  <2>2. (PersistCheckpoint \/ RefuseCheckpoint \/ MarkRecoveryBlocked
        \/ MarkTaskHandoffPreparing \/ AbortReassign \/ GitMerge \/ AbortMerge) => UNCHANGED leases
    BY DEF PersistCheckpoint, RefuseCheckpoint, MarkRecoveryBlocked,
           MarkTaskHandoffPreparing, AbortReassign, GitMerge, AbortMerge
  <2>. QED
    BY <2>1, <2>2 DEF Next, LockStep
<1>. QED
  BY <1>1, <1>2, <1>3, <1>4, <1>5, <1>6, <1>7, <1>8, <1>9, <1>10, <1>11, <1>12

\* A lease that was followed by another one is never brought back by a late
\* resume, freeze, report, review or merge.
THEOREM SupersededStayOver == Spec => SupersededLeasesStayOver
<1>1. IInv /\ [Next]_vars =>
        [\A v \in Versions : v < step.version =>
           leases'[v].status = leases[v].status]_vars
  BY OldLeaseStays
<1>. QED
  BY <1>1, Invariance, PTL DEF Spec, SupersededLeasesStayOver

\* No step moves a completed step.
LEMMA CompletedStays ==
  ASSUME IInv, Next, step.status = "completed"
  PROVE  step' = step /\ mr' = mr /\ UNCHANGED assignment
<1>. USE StepLeaseAssumption
<1>. TypeOK /\ LockOK
  BY DEF IInv
<1>1. /\ step.lease # 0 /\ leases[step.lease].status = "completed"
      /\ step.lease \in Versions
  BY Columns DEF IInv, Tables, StepFollowsLease, Beside, Versions
<1>2. ~MROpen
  BY <1>1 DEF IInv, Tables, OpenReviewPinsLease
<1>3. \A v \in Versions : leases[v].status # "active" /\ leases[v].status # "interrupted"
  BY <1>1, CurrentLease
<1>4. lock.op = "block" => step.lease # lock.lease
  BY <1>1 DEF LockOK
<1>5. ~Acquire /\ ~FreezeStep /\ ~UnfreezeStep
  BY <1>1 DEF Acquire, FreezeStep, UnfreezeStep
<1>6. \A takeover \in BOOLEAN : ~Approve(takeover) /\ ~RequestChanges(takeover)
  BY <1>2 DEF Approve, RequestChanges, MROpen
<1>7. ~PersistMerged
  BY <1>2 DEF PersistMerged, MROpen
<1>8. ~CommitReassign /\ ~PersistCheckpoint
  BY <1>3 DEF CommitReassign, PersistCheckpoint, LockOK, HandoffOps
<1>9. ~CommitResume
  <2>1. resuming.lease \in 0..MaxVersion
    BY Columns
  <2>2. resuming.lease # 0 => resuming.lease \in Versions
    BY <2>1 DEF Versions
  <2>. QED  BY <1>3, <2>2 DEF CommitResume
<1>10. ~SubmitReport
  BY <1>1 DEF SubmitReport
<1>11. \A v \in Versions : ~InterruptExpired(v)
  BY <1>3 DEF InterruptExpired
<1>12. MarkRecoveryBlocked => UNCHANGED <<step, mr, assignment>>
  BY <1>4 DEF MarkRecoveryBlocked
<1>13. Quiet => UNCHANGED <<step, mr, assignment>>
  <2>1. (\E v \in Versions : QuietLeaseStep(v)) => UNCHANGED <<step, mr, assignment>>
    BY DEF QuietLeaseStep, Heartbeat, ExtendResumeDeadline, BeginResume,
           AuthorizeWrite, StageCommit, BeginCheckpoint, BeginSubmit
  <2>2. Handoff => UNCHANGED <<step, mr, assignment>>
    BY DEF Handoff, BeginReassign, RefuseReassign
  <2>3. (RefuseCheckpoint \/ MarkTaskHandoffPreparing \/ AbortReassign
        \/ AbandonResume \/ FinishWrite \/ AbandonSubmit) => UNCHANGED <<step, mr, assignment>>
    BY DEF RefuseCheckpoint, MarkTaskHandoffPreparing, AbortReassign,
           AbandonResume, FinishWrite, AbandonSubmit
  <2>4. (CheckMerge \/ GitMerge \/ ReconcileMerge \/ AbortMerge
        \/ CrashLockHolder \/ Tick) => UNCHANGED <<step, mr, assignment>>
    BY DEF CheckMerge, GitMerge, ReconcileMerge, AbortMerge, CrashLockHolder, Tick
  <2>. QED
    BY <2>1, <2>2, <2>3, <2>4 DEF Quiet
<1>. QED
  BY <1>5, <1>6, <1>7, <1>8, <1>9, <1>10, <1>11, <1>12, <1>13
     DEF Next, LeaseStep, LockStep, Quiet, QuietLeaseStep

\* A completed step is final for every handler that was under way when the
\* merge was recorded.
THEOREM CompletedStaysFinal == Spec => CompletedIsFinal
<1>1. IInv /\ [Next]_vars =>
        [step.status = "completed" => step' = step /\ mr' = mr /\ UNCHANGED assignment]_vars
  BY CompletedStays
<1>. QED
  BY <1>1, Invariance, PTL DEF Spec, CompletedIsFinal

-----------------------------------------------------------------------------
(* Merge requests *)

\* What a request and the merge under way still rely on while it is reviewed,
\* returned and followed by another one.  Nobody writes a checkpoint under the
\* merger's lock, so no later lease can report before the merge has ended.
MergeOK ==
  /\ mr.lease <= step.version
  /\ mr.status = "none" => mr.lease = 0
  /\ mr.status = "changes_requested" => mr.lease # 0 /\ mr.lease # step.lease
  /\ \A c \in DOMAIN checkpoints : checkpoints[c].lease <= step.version
  /\ lock.op \in MergeOps =>
       /\ mr.lease = lock.lease /\ mr.status \in {"approved", "changes_requested"}
       /\ \A c \in DOMAIN checkpoints : checkpoints[c].lease <= lock.lease

\* The request stays and is decided, or another one follows a returned one.
MRStep ==
  IF mr'.lease = mr.lease
  THEN [Decision!Next]_(Decision!vars)
  ELSE mr.status \in {"none", "changes_requested"} /\ mr'.status = "pending_review"

\* The merge under way keeps the lock, or nobody merges any more.
MergerStays == lock'.op \notin MergeOps \/ lock' = lock

\* The columns of the merge request and of the merge are numbers.
LEMMA MergeColumns ==
  ASSUME IInv
  PROVE  /\ mr.lease \in Nat /\ lock.lease \in Nat /\ step.version \in Nat
         /\ step.lease \in Nat /\ step.lease <= step.version
         /\ \A c \in DOMAIN checkpoints : checkpoints[c].lease \in Nat
<1>. TypeOK
  BY DEF IInv
<1>1. mr.lease \in Nat /\ lock.lease \in Nat
  BY Columns, StepLeaseAssumption
<1>2. step.version \in Nat /\ step.lease \in Nat
  BY StepColumns
<1>3. step.lease <= step.version
  BY <1>2 DEF IInv, Tables, VersionFrontier
<1>4. \A c \in DOMAIN checkpoints : checkpoints[c].lease \in Nat
  BY CheckpointColumns DEF Versions
<1>. QED
  BY <1>1, <1>2, <1>3, <1>4

\* A step that leaves the request, main and the checkpoints alone.
LEMMA RequestStays ==
  ASSUME IInv, MergeOK, MergerStays, UNCHANGED <<mr, main, checkpoints>>,
         \/ step'.version = step.version /\ step'.lease = step.lease
         \/ step'.version = step.version + 1 /\ step'.lease = step.version + 1
  PROVE  MergeOK' /\ MRStep
<1>. USE MergeColumns
<1>1. MRStep
  BY DEF MRStep, Decision!vars
<1>2. /\ (mr.lease <= step.version)'
      /\ (mr.status = "changes_requested" => mr.lease # 0 /\ mr.lease # step.lease)'
      /\ (\A c \in DOMAIN checkpoints : checkpoints[c].lease <= step.version)'
  BY DEF MergeOK
<1>. QED
  BY <1>1, <1>2 DEF MergeOK, MergerStays

\* The steps that keep the request, main and the checkpoints.
LEMMA RequestKept ==
  ASSUME IInv, MergeOK, Next,
         ~PersistCheckpoint, ~SubmitReport, ~GitMerge, ~PersistMerged,
         ~CheckMerge, ~ReconcileMerge,
         \A takeover \in BOOLEAN : ~Approve(takeover) /\ ~RequestChanges(takeover)
  PROVE  MergeOK' /\ MRStep
<1>. TypeOK /\ step \in StepRow
  BY DEF IInv, TypeOK
<1>st. {"blocked", "interrupted", "in_progress"} \subseteq StepStatus
  BY DEF StepStatus
<1>free. ASSUME lock' = Free PROVE MergerStays
  BY <1>free DEF MergerStays, Free, Hold, MergeOps
<1>kept. ASSUME UNCHANGED <<step, mr, main, checkpoints>>, MergerStays
         PROVE  MergeOK' /\ MRStep
  BY <1>kept, RequestStays
<1>1. CASE Acquire \/ UnfreezeStep
  <2>1. UNCHANGED <<lock, mr, main, checkpoints>>
    BY <1>1 DEF Acquire, UnfreezeStep
  <2>2. step'.version = step.version + 1 /\ step'.lease = step.version + 1
    BY <1>1 DEF Acquire, UnfreezeStep, StepRow
  <2>. QED  BY <2>1, <2>2, RequestStays DEF MergerStays
<1>2. CASE FreezeStep \/ CommitResume \/ \E v \in Versions : InterruptExpired(v)
  <2>1. UNCHANGED <<lock, mr, main, checkpoints>>
    BY <1>2 DEF FreezeStep, CommitResume, InterruptExpired
  <2>2. step'.version = step.version /\ step'.lease = step.lease
    <3>1. FreezeStep => step'.version = step.version /\ step'.lease = step.lease
      BY <1>st, StepStatusSet DEF FreezeStep
    <3>2. CommitResume => step'.version = step.version /\ step'.lease = step.lease
      BY <1>st, StepStatusSet DEF CommitResume
    <3>3. \A v \in Versions : InterruptExpired(v) =>
            step'.version = step.version /\ step'.lease = step.lease
      BY <1>st, StepStatusSet DEF InterruptExpired
    <3>. QED  BY <1>2, <3>1, <3>2, <3>3
  <2>. QED  BY <2>1, <2>2, RequestStays DEF MergerStays
<1>3. CASE MarkRecoveryBlocked
  <2>1. lock' = Free /\ UNCHANGED <<mr, main, checkpoints>>
    BY <1>3 DEF MarkRecoveryBlocked
  <2>2. step'.version = step.version /\ step'.lease = step.lease
    BY <1>3, <1>st, StepStatusSet DEF MarkRecoveryBlocked
  <2>. QED  BY <1>free, <2>1, <2>2, RequestStays
<1>4. CASE CommitReassign
  <2>1. /\ lock' = Free /\ UNCHANGED <<mr, main, checkpoints>>
        /\ step'.version = step.version + 1 /\ step'.lease = step.version + 1
    BY <1>4 DEF CommitReassign
  <2>. QED  BY <1>free, <2>1, RequestStays
<1>5. CASE \/ RefuseCheckpoint \/ AbortReassign \/ AbortMerge \/ CrashLockHolder
           \/ AbandonResume \/ FinishWrite \/ AbandonSubmit
  <2>1. UNCHANGED <<step, mr, main, checkpoints>> /\ lock' \in {lock, Free}
    BY <1>5 DEF RefuseCheckpoint, AbortReassign, AbortMerge, CrashLockHolder,
                AbandonResume, FinishWrite, AbandonSubmit
  <2>. QED  BY <1>free, <1>kept, <2>1 DEF MergerStays
<1>6. CASE MarkTaskHandoffPreparing
  <2>1. lock'.op = "handoff_marked"
    BY <1>6 DEF MarkTaskHandoffPreparing, TypeOK, Holder
  <2>. QED  BY <1>6, <1>kept, <2>1 DEF MarkTaskHandoffPreparing, MergerStays, MergeOps
<1>7. CASE Handoff
  <2>1. UNCHANGED <<step, mr, main, checkpoints>>
    BY <1>7 DEF Handoff, BeginReassign, RefuseReassign
  <2>2. lock'.op \in {"handoff", "block"}
    <3>1. \A a \in Agents, c \in 0..MaxCheckpoint, immediate \in BOOLEAN :
            BeginReassign(a, c, immediate) => lock'.op = "handoff"
      BY DEF BeginReassign, Hold
    <3>2. \A c \in 0..MaxCheckpoint, immediate \in BOOLEAN :
            RefuseReassign(c, immediate) => lock'.op = "block"
      BY DEF RefuseReassign, Hold
    <3>. QED  BY <1>7, <3>1, <3>2 DEF Handoff
  <2>. QED  BY <1>kept, <2>1, <2>2 DEF MergerStays, MergeOps
<1>8. CASE Tick
  <2>1. \/ lock' = lock
        \/ lock.op \in HandoffOps /\ lock' = [lock EXCEPT !.age = @ + 1]
    BY <1>8 DEF Tick
  <2>3. [lock EXCEPT !.age = @ + 1].op = lock.op
    BY DEF TypeOK, Holder
  <2>2. HandoffOps \cap MergeOps = {}
    BY DEF HandoffOps, MergeOps
  <2>4. MergerStays
    BY <2>1, <2>2, <2>3 DEF MergerStays
  <2>. QED  BY <1>8, <1>kept, <2>4 DEF Tick
<1>9. CASE \E v \in Versions : QuietLeaseStep(v)
  <2>1. UNCHANGED <<step, mr, main, checkpoints>>
    BY <1>9 DEF QuietLeaseStep, Heartbeat, ExtendResumeDeadline, BeginResume,
                AuthorizeWrite, StageCommit, BeginCheckpoint, BeginSubmit
  <2>2. \/ lock' = lock
        \/ lock'.op \in CheckpointOps
    BY <1>9 DEF QuietLeaseStep, Heartbeat, ExtendResumeDeadline, BeginResume,
                AuthorizeWrite, StageCommit, BeginCheckpoint, BeginSubmit,
                Hold, CheckpointOps
  <2>3. CheckpointOps \cap MergeOps = {}
    BY DEF CheckpointOps, MergeOps
  <2>. QED  BY <1>kept, <2>1, <2>2, <2>3 DEF MergerStays
<1>. QED
  BY <1>1, <1>2, <1>3, <1>4, <1>5, <1>6, <1>7, <1>8, <1>9
     DEF Next, LeaseStep, LockStep, QuietLeaseStep

\* A checkpoint row is written under the newest lease, and not under a merge.
LEMMA CheckpointUnmerged ==
  ASSUME IInv, MergeOK, PersistCheckpoint PROVE MergeOK' /\ MRStep
<1>. TypeOK /\ LockOK /\ checkpoints \in Seq(Checkpoint) /\ step \in StepRow
  BY DEF IInv, TypeOK
<1>1. lock.lease \in Versions /\ leases[lock.lease].status = "active"
  BY DEF PersistCheckpoint, LockOK
<1>2. step.lease = lock.lease /\ step.version = lock.lease
  BY <1>1, CurrentLease
<1>3. /\ step'.version = step.version /\ step'.lease = step.lease
  <2>1. step' = [step EXCEPT !.status = "checkpointed",
                             !.checkpoint = Len(checkpoints) + 1]
    BY <1>2 DEF PersistCheckpoint
  <2>. QED  BY <2>1 DEF StepRow
<1>4. \A c \in DOMAIN checkpoints' : checkpoints'[c].lease <= step.version
  <2>1. \E r : checkpoints' = Append(checkpoints, r) /\ r.lease = lock.lease
    BY DEF PersistCheckpoint
  <2>. QED  BY <1>2, <2>1, MergeColumns DEF MergeOK
<1>5. lock'.op \notin MergeOps /\ UNCHANGED <<mr, main>>
  BY DEF PersistCheckpoint, Free, Hold, MergeOps
<1>. QED
  BY <1>3, <1>4, <1>5 DEF MergeOK, MRStep, Decision!vars

\* A report is another request's, and no merge is under way.
LEMMA ReportFollows ==
  ASSUME IInv, MergeOK, SubmitReport PROVE MergeOK' /\ MRStep
<1>. DEFINE v == submitting.lease
<1>. TypeOK /\ LockOK /\ FlightOK /\ step \in StepRow
  BY DEF IInv, TypeOK
<1>0. v \in Versions
  <2>1. v \in 0..MaxVersion /\ v # 0
    BY Columns, StepLeaseAssumption DEF SubmitReport
  <2>. QED  BY <2>1 DEF Versions
<1>1. step.lease = v /\ step.version = v /\ leases[v].status = "active" /\ v \in Nat \ {0}
  BY <1>0, CurrentLease DEF SubmitReport, Versions
<1>2. step'.version = v /\ step'.lease = v /\ UNCHANGED <<checkpoints, lock, main>>
  BY <1>1, StepStatusSet DEF SubmitReport, StepStatus
<1>3. mr'.status = "pending_review" /\ mr'.lease = v
  BY DEF SubmitReport
<1>4. mr.lease # v /\ mr.status \in {"none", "changes_requested"}
  BY <1>1 DEF MergeOK, SubmitReport
<1>5. lock.op \notin MergeOps
  <2>. SUFFICES ASSUME lock.op \in MergeOps PROVE FALSE
    OBVIOUS
  <2>1. step.checkpoint \in DOMAIN checkpoints /\ checkpoints[step.checkpoint].lease = v
    <3>1. /\ step.checkpoint # 0 /\ step.checkpoint \in 0..Len(checkpoints)
          /\ Len(checkpoints) \in Nat /\ checkpoints \in Seq(Checkpoint)
      BY StepColumns DEF SubmitReport, SubmittedCheckpoint, FlightOK, TypeOK
    <3>. QED  BY <3>1 DEF SubmitReport, SubmittedCheckpoint
  <2>2. v <= lock.lease
    BY <2>1 DEF MergeOK
  <2>3. lock.lease \in Versions /\ leases[lock.lease].status \in {"review", "revoked"}
    BY DEF LockOK
  <2>4. lock.lease <= step.version
    BY <2>3, MergeColumns DEF IInv, Tables, VersionFrontier
  <2>. QED  BY <1>1, <2>2, <2>3, <2>4, MergeColumns
<1>6. MergeOK'
  BY <1>1, <1>2, <1>3, <1>5 DEF MergeOK
<1>. QED
  BY <1>3, <1>4, <1>6 DEF MRStep

\* An approval, of a request that nobody merges yet.
LEMMA ApprovalDecides ==
  ASSUME IInv, MergeOK, NEW takeover \in BOOLEAN, Approve(takeover)
  PROVE  MergeOK' /\ MRStep
<1>. TypeOK /\ step \in StepRow /\ mr \in MRRow
  BY DEF IInv, TypeOK
<1>1. /\ step'.version = step.version /\ step'.lease = step.lease
      /\ UNCHANGED <<checkpoints, lock, main>>
  BY StepStatusSet DEF Approve, StepStatus
<1>2. /\ mr.status = "pending_review" /\ mr'.status = "approved"
      /\ mr'.lease = mr.lease /\ mr'.commit = mr.commit
  BY DEF Approve, MRRow
<1>3. MergeOK'
  BY <1>1, <1>2 DEF MergeOK
<1>. QED
  BY <1>1, <1>2, <1>3 DEF MRStep, Decision!Next, Decision!Approve, Decision!Become

\* A rejection, perhaps while Git merges.
LEMMA RejectionDecides ==
  ASSUME IInv, MergeOK, NEW takeover \in BOOLEAN, RequestChanges(takeover)
  PROVE  MergeOK' /\ MRStep
<1>. TypeOK /\ step \in StepRow /\ mr \in MRRow
  BY DEF IInv, TypeOK
<1>1. /\ step'.version = step.version /\ step'.lease = 0
      /\ UNCHANGED <<checkpoints, lock, main>>
  BY DEF RequestChanges, StepRow
<1>2. /\ mr.status \in {"pending_review", "approved"}
      /\ mr'.status = "changes_requested" /\ mr.lease # 0
      /\ mr'.lease = mr.lease /\ mr'.commit = mr.commit
  BY DEF RequestChanges, Reviewable, MRRow
<1>3. MergeOK'
  BY <1>1, <1>2 DEF MergeOK
<1>. QED
  BY <1>1, <1>2, <1>3 DEF MRStep, Decision!Next, Decision!Return, Decision!Become

\* A merge is checked for an approved request of the newest lease.
LEMMA MergeChecked ==
  ASSUME IInv, MergeOK, CheckMerge \/ ReconcileMerge
  PROVE  MergeOK' /\ MRStep
<1>1. mr.status = "approved" /\ UNCHANGED <<step, mr, main, checkpoints>>
      /\ lock'.lease = mr.lease
  BY DEF CheckMerge, ReconcileMerge, Hold
<1>2. mr.lease = step.lease /\ step.lease # 0
  BY <1>1 DEF IInv, Tables, OpenReviewPinsLease, MROpen
<1>3. mr.lease = step.version
  BY <1>2 DEF IInv, Tables, VersionFrontier
<1>4. MergeOK'
  BY <1>1, <1>3 DEF MergeOK
<1>. QED
  BY <1>1, <1>4 DEF MRStep, Decision!vars

\* Git merges the commit of the request, which may have been returned since.
LEMMA MergeLands ==
  ASSUME IInv, MergeOK, GitMerge PROVE MergeOK' /\ MRStep
<1>. TypeOK /\ LockOK /\ lock \in Holder
  BY DEF IInv, TypeOK
<1>1. lock.op \in MergeOps /\ UNCHANGED <<step, mr, checkpoints>>
  BY DEF GitMerge, MergeOps
<1>2. lock'.op \in MergeOps /\ lock'.lease = lock.lease
  BY DEF GitMerge, MergeOps, Holder
<1>3. mr.lease = lock.lease /\ mr.status \in {"approved", "changes_requested"}
  BY <1>1 DEF MergeOK
<1>4. mr.commit \in main'
  BY <1>1, <1>3 DEF GitMerge, LockOK
<1>5. MergeOK'
  BY <1>1, <1>2 DEF MergeOK
<1>. QED
  BY <1>1, <1>3, <1>4, <1>5 DEF MRStep, Decision!Next, Decision!Land

\* The merge of an approved request is recorded with its commit on main.
LEMMA MergeRecorded ==
  ASSUME IInv, MergeOK, PersistMerged PROVE MergeOK' /\ MRStep
<1>. TypeOK /\ LockOK /\ step \in StepRow /\ mr \in MRRow
  BY DEF IInv, TypeOK
<1>1. /\ step'.version = step.version /\ step'.lease = step.lease
      /\ UNCHANGED <<checkpoints, main>>
  BY StepStatusSet DEF PersistMerged, StepStatus
<1>2. /\ mr.status = "approved" /\ mr'.status = "merged"
      /\ mr'.lease = mr.lease /\ mr'.commit = mr.commit
  BY DEF PersistMerged, MRRow
<1>3. mr.commit \in main
  BY DEF PersistMerged, LockOK, MergeOps
<1>4. lock'.op \notin MergeOps
  BY DEF PersistMerged, Free, Hold, MergeOps
<1>5. MergeOK'
  BY <1>1, <1>2, <1>4 DEF MergeOK
<1>. QED
  BY <1>1, <1>2, <1>3, <1>5 DEF MRStep, Decision!Next, Decision!Record, Decision!Become

\* Every step decides a request at most once.
LEMMA MergeNext ==
  ASSUME IInv, MergeOK, Next PROVE MergeOK' /\ MRStep
BY RequestKept, CheckpointUnmerged, ReportFollows, ApprovalDecides,
   RejectionDecides, MergeChecked, MergeLands, MergeRecorded

\* A merge request is decided once and merged only with its commit on main,
\* although a rejection does not wait for the merge under way, and only a
\* returned request is followed by another report.
THEOREM DecisionsStayFinal == Spec => DecisionsAreFinal
<1>1. Init => MergeOK
  BY DEF Init, MergeOK, Free, Hold, MergeOps
<1>2. IInv /\ MergeOK /\ [Next]_vars => MergeOK' /\ [MRStep]_vars
  <2>1. ASSUME MergeOK, UNCHANGED vars PROVE MergeOK'
    BY <2>1 DEF MergeOK, vars
  <2>. QED  BY <2>1, MergeNext
<1>3. DecisionsAreFinal <=> [][MRStep]_vars
  BY DEF DecisionsAreFinal, MRStep
<1>. QED
  BY <1>1, <1>2, <1>3, Invariance, PTL DEF Spec

\* What is over stays over, in every handler: superseded leases, completed
\* steps and decided merge requests.
THEOREM EndedStays == Spec => EndedStaysEnded
BY SupersededStayOver, CompletedStaysFinal, DecisionsStayFinal DEF EndedStaysEnded

------------------------------------------------------------------------------
(***************************************************************************)
(* The lease tables implement StepOwnership: every transaction of leases   *)
(* and mr is a step of exclusive, numbered ownership or none at all.       *)
(***************************************************************************)

\* The phase that the status of the current lease shows.
Shown(status) ==
  CASE status = "active"      -> "writing"
    [] status = "interrupted" -> "paused"
    [] status = "frozen"      -> "frozen"
    [] status = "review"      -> "reviewing"
    [] status = "completed"   -> "done"
    [] OTHER                  -> "lost"

\* The phase of the step is read off its current lease,
LEMMA PhaseShown ==
  /\ step.lease = 0 => Phase = "idle"
  /\ step.lease # 0 => Phase = Shown(leases[step.lease].status)
BY DEF Phase, Shown

\* and so is the next one.
LEMMA PhaseShownNext ==
  /\ step'.lease = 0 => Phase' = "idle"
  /\ step'.lease # 0 => Phase' = Shown(leases'[step'.lease].status)
BY DEF Phase, Shown

\* The row of an issued lease is the writer's.
LEMMA GrantShown ==
  ASSUME IInv, step.version < MaxVersion,
         step' = [step EXCEPT !.status = "in_progress", !.lease = step.version + 1,
                              !.version = step.version + 1],
         leases' = Issued(step.version + 1, step.agent)
  PROVE  /\ Phase' = "writing" /\ step'.version = step.version + 1
         /\ step'.agent = step.agent
<1>. DEFINE v == step.version + 1
<1>. TypeOK
  BY DEF IInv
<1>1. step.version \in Nat /\ step.agent \in Agents /\ step \in StepRow /\ MaxVersion \in Nat
  BY StepColumns, Columns, StepLeaseAssumption DEF TypeOK, StepLeaseAssumption
<1>2. v \in Versions /\ v \in 0..MaxVersion /\ v # 0
  BY <1>1 DEF Versions
<1>3. step'.lease = v /\ step'.version = v /\ step'.agent = step.agent
  BY <1>1, <1>2, StepGranted
<1>4. leases'[v].status = "active"
  BY <1>1, <1>2, IssuedTable, StepLeaseAssumption
<1>. QED
  BY <1>2, <1>3, <1>4, PhaseShownNext DEF Shown

\* The current lease changes its status, the step stays with it.
LEMMA MoveShown ==
  ASSUME IInv, NEW v \in Versions, NEW st \in LeaseStatus,
         NEW ttl \in 0..TTL, NEW wait \in 0..Window,
         leases' = Moved(v, st, ttl, wait), step.lease = v, step'.lease = v
  PROVE  Phase = Shown(leases[v].status) /\ Phase' = Shown(st)
<1>1. v # 0
  BY DEF Versions
<1>2. leases'[v].status = st
  BY MovedTable DEF IInv
<1>. QED
  BY <1>1, <1>2, PhaseShown, PhaseShownNext

\* Nothing that the owner sees changes.
LEMMA KeptShown ==
  ASSUME IInv, StatusKept,
         step'.lease = step.lease, step'.version = step.version, step'.agent = step.agent
  PROVE  UNCHANGED <<step.version, Phase, step.agent>>
<1>1. step.lease = 0 \/ step.lease \in Versions
  BY Columns, StepLeaseAssumption DEF IInv, Versions
<1>2. step.lease # 0 => leases'[step.lease].status = leases[step.lease].status
  BY <1>1 DEF StatusKept
<1>3. Phase' = Phase
  BY <1>2, PhaseShown, PhaseShownNext
<1>. QED
  BY <1>3

\* The quiet steps of the invariance proof are invisible to the owner.
LEMMA QuietShown ==
  ASSUME IInv, Quiet
  PROVE  UNCHANGED <<step.version, Phase, step.agent>>
<1>. USE StepLeaseAssumption
<1>. TypeOK
  BY DEF IInv
<1>k. ASSUME UNCHANGED <<leases, step>> PROVE StatusKept /\ step' = step
  BY <1>k DEF StatusKept
<1>m. /\ TTL \in 0..TTL /\ 0 \in 0..TTL /\ 0 \in 0..Window
      /\ {"active", "interrupted"} \subseteq LeaseStatus
  BY DEF StepLeaseAssumption, LeaseStatus
<1>1. ASSUME NEW v \in Versions, Heartbeat(v) PROVE StatusKept /\ step' = step
  BY <1>1, <1>m, MovedTable DEF Heartbeat, Authorized, StatusKept
<1>2. ASSUME NEW v \in Versions, NEW w \in 1..Window, ExtendResumeDeadline(v, w)
      PROVE  StatusKept /\ step' = step
  <2>1. w \in 0..Window
    OBVIOUS
  <2>. QED  BY <1>2, <1>m, <2>1, MovedTable DEF ExtendResumeDeadline, StatusKept
<1>3. CASE Tick
  <2>1. StatusKept /\ step' = step
    BY <1>3 DEF Tick, StatusKept, Lease
  <2>. QED  BY <2>1, KeptShown
<1>4. CASE \E v \in Versions : QuietLeaseStep(v)
  <2>. PICK v \in Versions : QuietLeaseStep(v)
    BY <1>4
  <2>1. (BeginResume(v) \/ AuthorizeWrite(v) \/ StageCommit(v)
         \/ (\E op \in {"record", "context"} : BeginCheckpoint(v, op))
         \/ (\E c \in DOMAIN checkpoints : BeginSubmit(v, c)))
        => UNCHANGED <<leases, step>>
    BY DEF BeginResume, AuthorizeWrite, StageCommit, BeginCheckpoint, BeginSubmit
  <2>2. StatusKept /\ step' = step
    BY <1>k, <1>1, <1>2, <2>1 DEF QuietLeaseStep
  <2>. QED  BY <2>2, KeptShown
<1>5. CASE UNCHANGED <<leases, step>>
  BY <1>5, <1>k, KeptShown
<1>6. (RefuseCheckpoint \/ MarkTaskHandoffPreparing \/ AbortReassign \/ AbandonResume
       \/ FinishWrite \/ AbandonSubmit \/ Handoff) => UNCHANGED <<leases, step>>
  BY DEF RefuseCheckpoint, MarkTaskHandoffPreparing, AbortReassign, AbandonResume,
         FinishWrite, AbandonSubmit, Handoff, BeginReassign, RefuseReassign
<1>7. (CheckMerge \/ GitMerge \/ ReconcileMerge \/ AbortMerge \/ CrashLockHolder)
       => UNCHANGED <<leases, step>>
  BY DEF CheckMerge, GitMerge, ReconcileMerge, AbortMerge, CrashLockHolder
<1>. QED
  BY <1>3, <1>4, <1>5, <1>6, <1>7 DEF Quiet

-----------------------------------------------------------------------------

\* Every step is a step of StepOwnership or is invisible to the owner.
LEMMA StepSimulates ==
  ASSUME IInv, Next
  PROVE  Ownership!Next \/ UNCHANGED <<step.version, Phase, step.agent>>
<1>. USE StepLeaseAssumption
<1>. TypeOK /\ LockOK
  BY DEF IInv
<1>s. step \in StepRow /\ step.version \in Nat /\ step.lease \in 0..MaxVersion
  BY Columns, StepColumns DEF TypeOK
<1>m. /\ TTL \in 0..TTL /\ 0 \in 0..TTL /\ Window \in 0..Window /\ 0 \in 0..Window
      /\ {"active", "interrupted", "frozen", "review", "revoked", "completed"}
           \subseteq LeaseStatus
  BY DEF StepLeaseAssumption, LeaseStatus
<1>st. {"blocked", "interrupted", "in_progress", "review", "completed"} \subseteq StepStatus
  BY DEF StepStatus
<1>1. CASE Quiet
  BY <1>1, QuietShown
<1>2. CASE Acquire
  <2>1. Phase = "idle"
    BY <1>2, PhaseShown DEF Acquire
  <2>2. /\ Phase' = "writing" /\ step'.version = step.version + 1
        /\ step'.agent = step.agent
    BY <1>2, GrantShown DEF Acquire
  <2>. QED  BY <2>1, <2>2 DEF Ownership!Next, Ownership!Grant
<1>3. CASE UnfreezeStep
  <2>1. Phase = "frozen"
    BY <1>3, PhaseShown DEF UnfreezeStep, Shown
  <2>2. /\ Phase' = "writing" /\ step'.version = step.version + 1
        /\ step'.agent = step.agent
    BY <1>3, GrantShown DEF UnfreezeStep
  <2>. QED  BY <2>1, <2>2 DEF Ownership!Next, Ownership!Grant
<1>4. CASE CommitReassign
  <2>1. /\ lock.lease \in Versions /\ lock.lease < MaxVersion /\ lock.agent \in Agents
        /\ step.version = lock.lease /\ step.lease = lock.lease
    BY <1>4 DEF CommitReassign, LockOK, HandoffOps
  <2>2. Phase = "paused"
    BY <1>4, <2>1, PhaseShown DEF CommitReassign, Shown, Versions
  <2>3. step.version + 1 \in Versions /\ step.version + 1 # 0
    BY <2>1 DEF Versions, StepLeaseAssumption
  <2>4. leases'[step.version + 1].status = "active"
    <3>1. Ended(lock.lease, "revoked") \in [Versions -> LeaseRow]
      BY <1>m, <2>1, EndedTable
    <3>. QED  BY <1>4, <2>3, <3>1 DEF CommitReassign, Lease
  <2>5. /\ step'.lease = step.version + 1 /\ step'.version = step.version + 1
        /\ step'.agent = lock.agent
    BY <1>4 DEF CommitReassign
  <2>6. Phase' = "writing"
    BY <2>3, <2>4, <2>5, PhaseShownNext DEF Shown
  <2>. QED  BY <2>1, <2>2, <2>5, <2>6 DEF Ownership!Next, Ownership!TakeOver
<1>5. CASE FreezeStep
  <2>1. step.lease \in Versions
    BY <1>5, <1>s DEF FreezeStep, Versions
  <2>2. /\ step'.lease = step.lease /\ step'.version = step.version
        /\ step'.agent = step.agent
    BY <1>5, <1>s, <1>st, StepStatusSet DEF FreezeStep
  <2>3. Phase \in {"writing", "paused"} /\ Phase' = "frozen"
    BY <1>5, <1>m, <2>1, <2>2, MoveShown DEF FreezeStep, Ended, Shown
  <2>. QED  BY <2>2, <2>3 DEF Ownership!Next, Ownership!Freeze, Ownership!Move
<1>6. CASE \E v \in Versions : InterruptExpired(v)
  <2>. PICK v \in Versions : InterruptExpired(v)
    BY <1>6
  <2>2. /\ step.lease = v /\ step'.lease = step.lease /\ step'.version = step.version
        /\ step'.agent = step.agent
    BY <1>s, <1>st, StepStatusSet DEF InterruptExpired
  <2>3. Phase = "writing" /\ Phase' = "paused"
    BY <1>m, <2>2, MoveShown DEF InterruptExpired, Shown
  <2>. QED  BY <2>2, <2>3 DEF Ownership!Next, Ownership!Pause, Ownership!Move
<1>7. CASE CommitResume
  <2>1. resuming.lease \in Versions /\ Left(TTL, resuming.age) \in 0..TTL
    <3>1. resuming.lease \in 0..MaxVersion /\ resuming.lease # 0 /\ resuming.age \in Nat
      BY <1>7, Columns DEF CommitResume
    <3>2. TTL \in Nat
      BY DEF StepLeaseAssumption
    <3>3. Left(TTL, resuming.age) \in 0..TTL
      BY <1>m, <3>1, <3>2, LeftInRange
    <3>. QED  BY <3>1, <3>3 DEF Versions
  <2>2. /\ step.lease = resuming.lease /\ step'.lease = step.lease
        /\ step'.version = step.version /\ step'.agent = step.agent
    BY <1>7, <1>s, <1>st, StepStatusSet DEF CommitResume
  <2>3. Phase = "paused" /\ Phase' = "writing"
    BY <1>7, <1>m, <2>1, <2>2, MoveShown DEF CommitResume, Shown
  <2>. QED  BY <2>2, <2>3 DEF Ownership!Next, Ownership!Resume, Ownership!Move
<1>8. CASE SubmitReport
  <2>1. submitting.lease \in Versions
    <3>1. submitting.lease \in 0..MaxVersion /\ submitting.lease # 0
      BY <1>8, Columns DEF SubmitReport
    <3>. QED  BY <3>1 DEF Versions
  <2>2. step.lease = submitting.lease
    BY <1>8, <2>1, CurrentLease DEF SubmitReport
  <2>3. /\ step'.lease = step.lease /\ step'.version = step.version
        /\ step'.agent = step.agent
    BY <1>8, <1>s, <1>st, StepStatusSet DEF SubmitReport
  <2>4. Phase = "writing" /\ Phase' = "reviewing"
    BY <1>8, <1>m, <2>1, <2>2, <2>3, MoveShown DEF SubmitReport, Ended, Shown
  <2>. QED  BY <2>3, <2>4 DEF Ownership!Next, Ownership!Submit, Ownership!Move
<1>9. ASSUME MROpen
      PROVE  /\ mr.lease \in Versions /\ step.lease = mr.lease /\ step.lease # 0
             /\ leases[mr.lease].status = "review"
  BY <1>9, <1>s DEF IInv, Tables, OpenReviewPinsLease, Versions
<1>10. CASE \E takeover \in BOOLEAN : Approve(takeover)
  <2>. PICK takeover \in BOOLEAN : Approve(takeover)
    BY <1>10
  <2>1. MROpen
    BY DEF Approve, MROpen
  <2>2. /\ step'.lease = step.lease /\ step'.version = step.version
        /\ step'.agent = step.agent
    BY <1>s, <1>st, StepStatusSet DEF Approve
  <2>3. Phase' = Phase
    BY <1>9, <1>m, <2>1, <2>2, MoveShown DEF Approve, Ended
  <2>. QED  BY <2>2, <2>3
<1>11. CASE \E takeover \in BOOLEAN : RequestChanges(takeover)
  <2>. PICK takeover \in BOOLEAN : RequestChanges(takeover)
    BY <1>11
  <2>1. MROpen
    BY DEF RequestChanges, MROpen
  <2>2. /\ step'.lease = 0 /\ step'.version = step.version
        /\ step'.agent = step.agent
    BY <1>s DEF RequestChanges, StepRow
  <2>3. Phase = "reviewing" /\ Phase' = "idle"
    BY <1>9, <2>1, <2>2, PhaseShown, PhaseShownNext DEF Shown
  <2>. QED  BY <2>2, <2>3 DEF Ownership!Next, Ownership!Return, Ownership!Move
<1>12. CASE PersistMerged
  <2>1. MROpen
    BY <1>12 DEF PersistMerged, MROpen
  <2>2. /\ step'.lease = step.lease /\ step'.version = step.version
        /\ step'.agent = step.agent
    BY <1>12, <1>s, <1>st, StepStatusSet DEF PersistMerged
  <2>3. Phase = "reviewing" /\ Phase' = "done"
    BY <1>12, <1>9, <1>m, <2>1, <2>2, MoveShown DEF PersistMerged, Ended, Shown
  <2>. QED  BY <2>2, <2>3 DEF Ownership!Next, Ownership!Accept, Ownership!Move
<1>13. CASE MarkRecoveryBlocked
  <2>1. UNCHANGED leases
    BY <1>13 DEF MarkRecoveryBlocked
  <2>2. /\ step'.lease = step.lease /\ step'.version = step.version
        /\ step'.agent = step.agent
    BY <1>13, <1>s, <1>st, StepStatusSet DEF MarkRecoveryBlocked
  <2>. QED  BY <2>1, <2>2, KeptShown DEF StatusKept
<1>14. CASE PersistCheckpoint
  <2>1. UNCHANGED leases
    BY <1>14 DEF PersistCheckpoint
  <2>2. /\ step'.lease = step.lease /\ step'.version = step.version
        /\ step'.agent = step.agent
    BY <1>14, <1>s DEF PersistCheckpoint, StepRow
  <2>. QED  BY <2>1, <2>2, KeptShown DEF StatusKept
<1>. QED
  BY <1>1, <1>2, <1>3, <1>4, <1>5, <1>6, <1>7, <1>8, <1>10, <1>11, <1>12, <1>13, <1>14
     DEF Next, LeaseStep, LockStep, Quiet, QuietLeaseStep

\* The tables of leases and mr implement exclusive, numbered ownership: every
\* transaction is one step of StepOwnership, or is invisible to the owner.
THEOREM Refinement == Spec => ImplementsOwnership
<1>1. Init => Ownership!Init
  BY PhaseShown DEF Init, Ownership!Init
<1>2. IInv /\ [Next]_vars => [Ownership!Next]_(Ownership!vars)
  <2>1. UNCHANGED vars => UNCHANGED Ownership!vars
    BY DEF vars, Ownership!vars, Phase
  <2>2. IInv /\ Next => [Ownership!Next]_(Ownership!vars)
    BY StepSimulates DEF Ownership!vars
  <2>. QED  BY <2>1, <2>2
<1>. QED
  BY <1>1, <1>2, Invariance, PTL DEF Spec, ImplementsOwnership, Ownership!Spec

=============================================================================
