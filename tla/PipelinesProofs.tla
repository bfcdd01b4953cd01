--------------------------- MODULE PipelinesProofs ---------------------------
(***************************************************************************)
(* The safety of the pipelines for any number of servers and runs, any     *)
(* budget of attempts and however often a server crashes.                  *)
(***************************************************************************)
EXTENDS Pipelines, TLAPS

USE DEF history

------------------------------------------------------------------------------
(* The inductive invariant: what a worker knows of the rows and of the     *)
(* project at its place, and what the rows of a run know of each other.    *)

StepPcs == {"claimed", "executing", "copying", "ready", "ran"}
Works(s)    == worker[s].pc \in StepPcs
Executes(s) == Works(s) /\ worker[s].pc # "claimed"
HoldsLock(s) == worker[s].pc \in LockedPcs \ {"refresh", "write"}

Backed(r) == "release" \in Kinds => run[r].backup # "none" \/ r \in unsaved

\* The job a worker has, and who holds the lock.
Assigned(s) ==
    LET w == worker[s] IN
    /\ HoldsLock(s) => w.locked
    /\ w.pc # "idle" => w.run \in Runs /\ run[w.run].status # "none"
    /\ w.pc \in StepPcs \cup {"recover"} => w.kind \in Kinds

\* A claim is of an attempt that has begun; a release is not tried again
\* behind the back of its claimant.
ClaimKnown(s) ==
    LET w == worker[s] IN
    Works(s) => /\ w.attempt <= StepOf(s).attempt
                /\ PriorPassed(w.run, w.kind)
                /\ w.kind = "release" => /\ StepOf(s).attempt = w.attempt
                                         /\ StepOf(s).status \in {"running", "failed"}

Owned(s) ==
    Executes(s) => /\ StepOf(s).status = "running"
                   /\ StepOf(s).attempt = worker[s].attempt

\* Before a build runs, what it overwrites is backed up, or known not to be.
BackupKnown(s) ==
    LET w == worker[s] IN
    /\ w.pc = "copying" => w.kind = "build" /\ run[w.run].backupHash # "none"
    /\ w.kind = "build" /\ (w.pc = "ready" \/ (w.pc = "ran" /\ w.result = "ok")) => Backed(w.run)

Guarded(s) ==
    LET w == worker[s] IN
    w.pc = "ready" /\ w.kind = "release" =>
        /\ head = run[w.run].safe
        /\ file = w.run
        /\ rollback[w.run].status = "monitoring"
        /\ rollback[w.run].expected = run[w.run].safe

\* What refreshRun computed is still true when it is written; what it could
\* not read it does not know.
StatusKnown(s) ==
    LET w == worker[s] IN
    w.pc = "write" =>
        /\ w.result \in {"running", "passed", "failed", "unread"}
        /\ w.result = "passed" => \A k \in Kinds : step[w.run][k].status = "passed"
        /\ w.result = "failed" => \E k \in Kinds : step[w.run][k].status = "failed"

\* How far a rollback has come.
RollbackKnown(s) ==
    LET w == worker[s]
        done == w.pc = "rollback_ran" /\ w.result = "rolled_back"
    IN  /\ done \/ w.pc \in {"rollback_restore", "rollback_copy", "rollback_restart"} =>
              head = run[w.run].safe
        /\ done \/ w.pc \in {"rollback_copy", "rollback_restart"} => run[w.run].backup # "none"
        /\ done \/ w.pc = "rollback_restart" => file = run[w.run].backup
        /\ done => serving = run[w.run].backup

WorkerOK(s) ==
    /\ Assigned(s) /\ ClaimKnown(s) /\ Owned(s) /\ BackupKnown(s)
    /\ Guarded(s) /\ StatusKnown(s) /\ RollbackKnown(s)

\* No attempt is claimed twice.
ClaimedOnce ==
    \A s, t \in Servers :
        /\ Works(s) /\ Works(t)
        /\ worker[s].run = worker[t].run /\ worker[s].kind = worker[t].kind
        /\ worker[s].attempt = worker[t].attempt
        => s = t

\* A run that was not requested has nothing; one that was has all its steps.
Requested(r) ==
    /\ run[r].status = "none" => /\ \A k \in Kinds : step[r][k].status = "none"
                                 /\ rollback[r].status = "none"
    /\ run[r].status # "none" => \A k \in Kinds : step[r][k].status # "none"

Honest(r) ==
    /\ run[r].status = "passed" =>
          r \in unread \/ \A k \in Kinds : step[r][k].status = "passed"
    /\ run[r].status = "failed" => \E k \in Kinds : step[r][k].status = "failed"

\* Nothing a run has built is where another artifact, its own backup
\* included, is kept unless the run has its backup or went ahead without.
BackupsOK(r) ==
    /\ run[r].backup \in {"none", run[r].backupHash}
    /\ run[r].artifact \in {"none", r}
    /\ run[r].backupHash # r \/ r \in unsaved
    /\ file = r => Backed(r)
    /\ \A q \in Runs : run[q].backupHash = r => Backed(r)
    /\ "build" \in Kinds /\ step[r]["build"].status = "passed" => Backed(r)

\* A release that was started can be undone; whose worker has died, it is
\* not pending again.
Undoable(r) ==
    launched[r] # "no" =>
        /\ "release" \in Kinds
        /\ launched[r] = "interrupted" => step[r]["release"].status \in {"running", "failed"}
        /\ step[r]["release"].status # "passed" =>
              /\ rollback[r].status # "none"
              /\ rollback[r].expected # NoHead
              /\ run[r].backup # "none" \/ r \in unsaved
              /\ step[r]["release"].status = "failed" => rollback[r].status # "monitoring"

RunOK(r) == Requested(r) /\ Honest(r) /\ BackupsOK(r) /\ Undoable(r)

\* ... and no worker is at work on it.
Abandoned(r) ==
    launched[r] = "interrupted" =>
        \A s \in Servers : ~(Works(s) /\ worker[s].run = r /\ worker[s].kind = "release")

IInv == /\ TypeOK /\ ClaimedOnce
        /\ \A s \in Servers : WorkerOK(s)
        /\ \A r \in Runs : RunOK(r) /\ Abandoned(r)

------------------------------------------------------------------------------
(* What a step may do to the rows and to the workers it does not move.     *)

\* What is settled stays so.
Grows ==
    /\ unsaved \subseteq unsaved'
    /\ \A r \in Runs :
        /\ run[r].status # "none" => run'[r].status # "none" /\ run'[r].safe = run[r].safe
        /\ run[r].backupHash # "none" => run'[r].backupHash # "none"
        /\ run[r].backup # "none" => run'[r].backup = run[r].backup
        /\ \A k \in Kinds :
              /\ step[r][k].attempt <= step'[r][k].attempt
              /\ step[r][k].status \in {"passed", "failed"} =>
                    step'[r][k].status = step[r][k].status

\* What a step leaves to a worker t that it does not move.
Spares(t) ==
    LET w == worker[t] IN
    /\ worker'[t] = w
    /\ Executes(t) => step'[w.run][w.kind] = step[w.run][w.kind]
    /\ Works(t) /\ w.kind = "release" =>
          /\ step'[w.run][w.kind].attempt = step[w.run][w.kind].attempt
          /\ step'[w.run][w.kind].status \in {"running", "failed"}
    /\ w.locked => UNCHANGED <<head, file, serving>>
    /\ w.pc = "ready" /\ w.kind = "release" /\ rollback[w.run].status = "monitoring" =>
          rollback'[w.run] = rollback[w.run]

\* What the types say of the variables.
LEMMA Types ==
    ASSUME IInv
    PROVE  /\ run \in [Runs -> RunRow] /\ step \in [Runs -> [Kinds -> StepRow]]
           /\ rollback \in [Runs -> RollbackRow]
           /\ head \in Commits /\ recorded \in Commits /\ file \in Contents /\ serving \in Contents
           /\ launched \in [Runs -> {"no", "started", "interrupted"}]
           /\ unsaved \subseteq Runs /\ unread \subseteq Runs
           /\ merges \in 0 .. MaxMerges /\ crashes \in 0 .. MaxCrashes
           /\ worker \in [Servers -> WorkerRow]
BY DEF IInv, TypeOK, RowsOK

\* A worker that is spared knows what it knew.
LEMMA Spared ==
    ASSUME IInv, RowsOK', Grows, NEW t \in Servers, Spares(t)
    PROVE  WorkerOK(t)'
<1> DEFINE w == worker[t]
<1>0. WorkerOK(t) /\ worker'[t] = w
  BY DEF IInv, Spares
<1>1. Assigned(t)'
  BY <1>0 DEF WorkerOK, Assigned, Grows, HoldsLock
<1>2. w.pc # "idle" => w.run \in Runs /\ run[w.run].status # "none" /\ run'[w.run].safe = run[w.run].safe
  BY <1>0 DEF WorkerOK, Assigned, Grows
<1>3. Works(t) => w.run \in Runs /\ w.kind \in Kinds
  BY <1>0 DEF WorkerOK, Assigned, Works, StepPcs
<1>4. ClaimKnown(t)'
  <2> SUFFICES ASSUME Works(t)
               PROVE  /\ w.attempt <= step'[w.run][w.kind].attempt
                      /\ \A j \in Kinds : Rank(j) < Rank(w.kind) => step'[w.run][j].status = "passed"
                      /\ w.kind = "release" => /\ step'[w.run][w.kind].attempt = w.attempt
                                               /\ step'[w.run][w.kind].status \in {"running", "failed"}
    BY <1>0 DEF ClaimKnown, Works, StepOf, PriorPassed
  <2>1. /\ w.attempt <= step[w.run][w.kind].attempt
        /\ \A j \in Kinds : Rank(j) < Rank(w.kind) => step[w.run][j].status = "passed"
        /\ w.kind = "release" => step[w.run][w.kind].attempt = w.attempt
    BY <1>0 DEF WorkerOK, ClaimKnown, StepOf, PriorPassed
  <2>2. step[w.run][w.kind].attempt <= step'[w.run][w.kind].attempt
    BY <1>3 DEF Grows
  <2>3. /\ w.attempt \in Nat /\ step[w.run][w.kind].attempt \in Nat
        /\ step'[w.run][w.kind].attempt \in Nat
    BY <1>3, Types DEF WorkerRow, StepRow, RowsOK
  <2>4. w.attempt <= step'[w.run][w.kind].attempt
    BY <2>1, <2>2, <2>3
  <2>5. \A j \in Kinds : Rank(j) < Rank(w.kind) => step'[w.run][j].status = "passed"
    BY <1>3, <2>1 DEF Grows
  <2>6. w.kind = "release" => /\ step'[w.run][w.kind].attempt = step[w.run][w.kind].attempt
                              /\ step'[w.run][w.kind].status \in {"running", "failed"}
    BY DEF Spares
  <2> QED BY <2>1, <2>4, <2>5, <2>6
<1>5. Owned(t)'
  BY <1>0 DEF WorkerOK, Owned, Executes, Works, Spares, StepOf
<1>6. BackupKnown(t)'
  <2>1. w.pc \in {"copying", "ready", "ran"} => w.run \in Runs
    BY <1>3 DEF Works, StepPcs
  <2> QED BY <1>0, <2>1 DEF WorkerOK, BackupKnown, Backed, Grows
<1>7. w.pc \in LockedPcs \ {"refresh", "write"} =>
         UNCHANGED <<head, file, serving>>
  BY <1>0 DEF WorkerOK, Assigned, HoldsLock, Spares, LockedPcs
<1>8. Guarded(t)'
  BY <1>0, <1>2, <1>7 DEF WorkerOK, Guarded, Spares, LockedPcs
<1>9. StatusKnown(t)'
  BY <1>0, <1>2 DEF WorkerOK, StatusKnown, Grows
<1>10. RollbackKnown(t)'
  <2>1. run[w.run].backup # "none" /\ w.pc # "idle" => run'[w.run].backup = run[w.run].backup
    BY <1>2 DEF Grows
  <2> QED BY <1>0, <1>2, <1>7, <2>1 DEF WorkerOK, RollbackKnown, LockedPcs
<1> QED BY <1>1, <1>4, <1>5, <1>6, <1>8, <1>9, <1>10 DEF WorkerOK

------------------------------------------------------------------------------
(* What a step of a worker does to the workers.                            *)

Moves(s, w) ==
    /\ worker' = [worker EXCEPT ![s] = w]
    /\ worker' \in [Servers -> WorkerRow]
    /\ worker'[s] = w
    /\ \A t \in Servers \ {s} : worker'[t] = worker[t]

\* The lock is taken while it is free, and given back.
LockFits(s, w) == w.locked => w.pc \in LockedPcs /\ (worker[s].locked \/ LockFree)

\* No new attempt is claimed.
JobFits(s, w) ==
    w.pc \in StepPcs =>
        /\ Works(s) /\ w.run = worker[s].run /\ w.kind = worker[s].kind
        /\ w.attempt = worker[s].attempt

\* A worker becomes another, of the right type.
LEMMA BecomeMoves ==
    ASSUME IInv, NEW s \in Servers, NEW w \in WorkerRow, Become(s, w)
    PROVE  Moves(s, w)
BY Types DEF Become, Moves

\* Nobody is idle with a job or with the lock.
LEMMA IdleRow ==
    /\ Idle \in WorkerRow /\ Idle.pc = "idle" /\ Idle.locked = FALSE
    /\ Idle.pc \notin StepPcs
BY DEF Idle, WorkerRow, Pcs, Results, RunStatus, StepPcs

\* A worker goes to another place of its job.
LEMMA GotoMoves ==
    ASSUME IInv, NEW s \in Servers, NEW pc \in Pcs, Goto(s, pc)
    PROVE  LET w == worker'[s] IN
           /\ Moves(s, w) /\ w.pc = pc /\ w.run = worker[s].run /\ w.kind = worker[s].kind
           /\ w.attempt = worker[s].attempt /\ w.locked = worker[s].locked
           /\ w.result = worker[s].result
<1> DEFINE w == [worker[s] EXCEPT !.pc = pc]
<1>1. w \in WorkerRow /\ w.pc = pc /\ w.run = worker[s].run /\ w.kind = worker[s].kind
      /\ w.attempt = worker[s].attempt /\ w.locked = worker[s].locked
      /\ w.result = worker[s].result
  BY Types DEF WorkerRow
<1>2. Become(s, w)
  BY DEF Goto
<1> HIDE DEF w
<1>3. Moves(s, w)
  BY <1>1, <1>2, BecomeMoves
<1> QED BY <1>1, <1>3 DEF Moves

\* ... with a result.
LEMMA EndWithMoves ==
    ASSUME IInv, NEW s \in Servers, NEW pc \in Pcs, NEW res \in Results, EndWith(s, pc, res)
    PROVE  LET w == worker'[s] IN
           /\ Moves(s, w) /\ w.pc = pc /\ w.run = worker[s].run /\ w.kind = worker[s].kind
           /\ w.attempt = worker[s].attempt /\ w.locked = worker[s].locked
           /\ w.result = res
<1> DEFINE w == [worker[s] EXCEPT !.pc = pc, !.result = res]
<1>1. w \in WorkerRow /\ w.pc = pc /\ w.run = worker[s].run /\ w.kind = worker[s].kind
      /\ w.attempt = worker[s].attempt /\ w.locked = worker[s].locked
      /\ w.result = res
  BY Types DEF WorkerRow
<1>2. Become(s, w)
  BY DEF EndWith
<1> HIDE DEF w
<1>3. Moves(s, w)
  BY <1>1, <1>2, BecomeMoves
<1> QED BY <1>1, <1>3 DEF Moves

\* One worker at most holds the lock afterwards.
LEMMA LockKept ==
    ASSUME IInv, NEW s \in Servers, NEW w, Moves(s, w), LockFits(s, w)
    PROVE  LockOK'
<1>1. LockOK
  BY DEF IInv, TypeOK
<1>2. ASSUME NEW t \in Servers, worker'[t].locked
      PROVE  worker'[t].pc \in LockedPcs /\ \A u \in Servers : worker'[u].locked => u = t
  <2>1. CASE t = s
    BY <1>1, <1>2, <2>1 DEF LockOK, Moves, LockFits, LockFree
  <2>2. CASE t # s
    BY <1>1, <1>2, <2>2 DEF LockOK, Moves, LockFits, LockFree
  <2> QED BY <2>1, <2>2
<1> QED BY <1>2 DEF LockOK

\* No attempt is claimed twice when none is claimed.
LEMMA ClaimsKept ==
    ASSUME IInv, NEW s \in Servers, NEW w, Moves(s, w), JobFits(s, w)
    PROVE  ClaimedOnce'
<1>1. ASSUME NEW t \in Servers, Works(t)'
      PROVE  /\ Works(t) /\ worker'[t].run = worker[t].run /\ worker'[t].kind = worker[t].kind
             /\ worker'[t].attempt = worker[t].attempt
  BY <1>1 DEF Moves, JobFits, Works
<1> QED BY <1>1 DEF IInv, ClaimedOnce

\* An interrupted release finds no new worker.
LEMMA AbandonedKept ==
    ASSUME IInv, NEW s \in Servers, NEW w, Moves(s, w), JobFits(s, w),
           NEW r \in Runs, launched'[r] = "interrupted" => launched[r] = "interrupted"
    PROVE  Abandoned(r)'
<1>1. ASSUME NEW t \in Servers, Works(t)'
      PROVE  /\ Works(t) /\ worker'[t].run = worker[t].run /\ worker'[t].kind = worker[t].kind
  BY <1>1 DEF Moves, JobFits, Works
<1> QED BY <1>1 DEF IInv, Abandoned

\* A step of one worker that takes nothing from the others.
LEMMA StepKeeps ==
    ASSUME IInv, NEW s \in Servers, NEW w, Moves(s, w), LockFits(s, w), JobFits(s, w),
           RowsOK', Grows, \A t \in Servers \ {s} : Spares(t), WorkerOK(s)',
           \A r \in Runs : RunOK(r)',
           \A r \in Runs : launched'[r] = "interrupted" => launched[r] = "interrupted"
    PROVE  IInv'
<1>1. \A t \in Servers : WorkerOK(t)'
  BY Spared
<1>2. \A r \in Runs : Abandoned(r)'
  BY AbandonedKept
<1>3. TypeOK'
  BY LockKept DEF TypeOK, Moves
<1> QED BY <1>1, <1>2, <1>3, ClaimsKept DEF IInv

\* A step that moves no worker.
LEMMA RequestKeeps ==
    ASSUME IInv, UNCHANGED worker, RowsOK', Grows, \A t \in Servers : Spares(t),
           \A r \in Runs : RunOK(r)', UNCHANGED launched
    PROVE  IInv'
<1>1. \A t \in Servers : WorkerOK(t)'
  BY Spared
<1>2. ClaimedOnce' /\ LockOK' /\ worker' \in [Servers -> WorkerRow]
  BY DEF IInv, TypeOK, ClaimedOnce, LockOK, Works
<1>3. \A r \in Runs : Abandoned(r)'
  BY DEF IInv, Abandoned, Works
<1> QED BY <1>1, <1>2, <1>3 DEF IInv, TypeOK

\* Nothing but a worker moves.
LEMMA RowsRest ==
    ASSUME IInv, UNCHANGED <<run, step, rollback>>, EnvUnchanged
    PROVE  /\ RowsOK' /\ Grows /\ \A r \in Runs : RunOK(r)'
           /\ \A t \in Servers : worker'[t] = worker[t] => Spares(t)
           /\ \A r \in Runs : launched'[r] = "interrupted" => launched[r] = "interrupted"
<1>1. RowsOK'
  BY DEF IInv, TypeOK, RowsOK, EnvUnchanged, ProjectUnchanged
<1>2. Grows
  <2>1. \A r \in Runs, k \in Kinds : step[r][k].attempt \in Nat
    BY Types DEF StepRow
  <2> QED BY <2>1 DEF Grows, EnvUnchanged
<1>3. \A r \in Runs : RunOK(r)'
  BY DEF IInv, RunOK, Requested, Honest, BackupsOK, Backed, Undoable, EnvUnchanged, ProjectUnchanged
<1>4. ASSUME NEW t \in Servers, worker'[t] = worker[t] PROVE Spares(t)
  <2>1. ClaimKnown(t)
    BY DEF IInv, WorkerOK
  <2> QED BY <1>4, <2>1 DEF Spares, ClaimKnown, StepOf, EnvUnchanged, ProjectUnchanged
<1> QED BY <1>1, <1>2, <1>3, <1>4 DEF EnvUnchanged, ProjectUnchanged

\* A step of a worker that changes nothing else.
LEMMA WorkerMoves ==
    ASSUME IInv, NEW s \in Servers, NEW w, Moves(s, w), LockFits(s, w), JobFits(s, w),
           UNCHANGED <<run, step, rollback>>, EnvUnchanged, WorkerOK(s)'
    PROVE  IInv'
<1>1. \A t \in Servers \ {s} : Spares(t)
  BY RowsRest DEF Moves
<1> QED BY <1>1, RowsRest, StepKeeps

\* ... because it gives its job up.
LEMMA IdleKnows ==
    ASSUME NEW s \in Servers, worker'[s] = Idle
    PROVE  WorkerOK(s)'
BY IdleRow DEF WorkerOK, Assigned, ClaimKnown, Owned, Executes, Works, BackupKnown, Guarded,
     StatusKnown, RollbackKnown, HoldsLock, LockedPcs, StepPcs

\* A worker that releases is idle, without a job and without the lock.
LEMMA Gives ==
    ASSUME IInv, NEW s \in Servers, Release(s)
    PROVE  Moves(s, Idle) /\ LockFits(s, Idle) /\ JobFits(s, Idle) /\ WorkerOK(s)'
<1>1. Moves(s, Idle)
  BY IdleRow, BecomeMoves DEF Release
<1> QED BY <1>1, IdleRow, IdleKnows DEF Moves, LockFits, JobFits

\* A worker that executes a step goes on with it and knows what it knew.
LEMMA JobKnows ==
    ASSUME IInv, NEW s \in Servers, NEW w, Moves(s, w), Works(s), RowsOK', Grows, UNCHANGED step,
           StepOf(s).status = "running", StepOf(s).attempt = worker[s].attempt,
           w.pc \in {"executing", "copying", "ready", "ran"},
           w.run = worker[s].run, w.kind = worker[s].kind, w.attempt = worker[s].attempt,
           w.locked, worker[s].locked \/ LockFree, w.pc = "ran" => w.result # "rolled_back",
           BackupKnown(s)', Guarded(s)'
    PROVE  WorkerOK(s)' /\ LockFits(s, w) /\ JobFits(s, w)
<1>0. /\ Assigned(s) /\ ClaimKnown(s) /\ worker'[s] = w
      /\ w.run \in Runs /\ run[w.run].status # "none" /\ w.kind \in Kinds
  BY DEF IInv, WorkerOK, Moves, Assigned, Works, StepPcs
<1>1. Assigned(s)'
  BY <1>0 DEF Assigned, HoldsLock, Grows
<1>2. ClaimKnown(s)' /\ Owned(s)'
  BY <1>0 DEF ClaimKnown, Owned, Executes, Works, StepOf, PriorPassed, StepPcs
<1>3. StatusKnown(s)' /\ RollbackKnown(s)'
  BY <1>0 DEF StatusKnown, RollbackKnown
<1>4. LockFits(s, w) /\ JobFits(s, w)
  BY <1>0 DEF LockFits, JobFits, LockedPcs
<1> QED BY <1>1, <1>2, <1>3, <1>4 DEF WorkerOK

\* What a worker that executes has.
LEMMA ExecutesKnows ==
    ASSUME IInv, NEW s \in Servers, Executes(s)
    PROVE  /\ Works(s) /\ worker[s].locked
           /\ StepOf(s).status = "running" /\ StepOf(s).attempt = worker[s].attempt
           /\ worker[s].run \in Runs /\ worker[s].kind \in Kinds
           /\ run[worker[s].run].status # "none" /\ PriorPassed(worker[s].run, worker[s].kind)
           /\ ClaimKnown(s) /\ BackupKnown(s) /\ Guarded(s)
BY DEF IInv, WorkerOK, Assigned, Owned, ClaimKnown, Executes, Works, StepPcs, HoldsLock, LockedPcs

\* A command has ended.
LEMMA RanKnows ==
    ASSUME IInv, NEW s \in Servers, Executes(s), RowsOK', Grows, UNCHANGED step,
           NEW res \in {"ok", "environment_failure", "code_failure"}, EndWith(s, "ran", res),
           NEW r \in Runs, r = worker[s].run,
           res = "ok" /\ worker[s].kind = "build" => Backed(r)'
    PROVE  LET w == worker'[s] IN Moves(s, w) /\ WorkerOK(s)' /\ LockFits(s, w) /\ JobFits(s, w)
<1> DEFINE w == worker'[s]
<1>1. "ran" \in Pcs /\ res \in Results
  BY DEF Pcs, Results
<1>2. /\ Moves(s, w) /\ w.pc = "ran" /\ w.run = worker[s].run /\ w.kind = worker[s].kind
      /\ w.attempt = worker[s].attempt /\ w.locked = worker[s].locked
      /\ w.result = res
  BY <1>1, EndWithMoves
<1>3. BackupKnown(s)' /\ Guarded(s)'
  BY <1>2 DEF BackupKnown, Guarded
<1> HIDE DEF w
<1>4. w.result # "rolled_back" /\ w.pc \in {"executing", "copying", "ready", "ran"}
  BY <1>2
<1>5. WorkerOK(s)' /\ LockFits(s, w) /\ JobFits(s, w)
  BY <1>2, <1>3, <1>4, JobKnows, ExecutesKnows
<1> QED BY <1>2, <1>5 DEF w

\* A step is about to be executed, or what it overwrites to be copied.
LEMMA ReadyKnows ==
    ASSUME IInv, NEW s \in Servers, Executes(s),
           RowsOK', Grows, UNCHANGED <<step, head, file>>,
           NEW pc \in {"copying", "ready"}, Goto(s, pc), NEW r \in Runs, r = worker[s].run,
           pc = "copying" => worker[s].kind = "build" /\ run'[r].backupHash # "none",
           pc = "ready" /\ worker[s].kind = "build" => Backed(r)',
           pc = "ready" /\ worker[s].kind = "release" =>
               /\ head = run[r].safe /\ file = r
               /\ rollback'[r].status = "monitoring" /\ rollback'[r].expected = run[r].safe
    PROVE  LET w == worker'[s] IN Moves(s, w) /\ WorkerOK(s)' /\ LockFits(s, w) /\ JobFits(s, w)
<1> DEFINE w == worker'[s]
<1>1. pc \in Pcs
  BY DEF Pcs
<1>2. /\ Moves(s, w) /\ w.pc = pc /\ w.run = worker[s].run /\ w.kind = worker[s].kind
      /\ w.attempt = worker[s].attempt /\ w.locked = worker[s].locked
      /\ w.result = worker[s].result
  BY <1>1, GotoMoves
<1>3. run'[r].safe = run[r].safe
  BY ExecutesKnows DEF Grows
<1>4. BackupKnown(s)' /\ Guarded(s)'
  BY <1>2, <1>3 DEF BackupKnown, Guarded
<1> HIDE DEF w
<1>5. WorkerOK(s)' /\ LockFits(s, w) /\ JobFits(s, w)
  BY <1>2, <1>4, JobKnows, ExecutesKnows
<1> QED BY <1>2, <1>5 DEF w

\* A worker that has ended its job and refreshes the run, or gives it up.
LEMMA RefreshKnows ==
    ASSUME IInv, NEW s \in Servers, NEW w, Moves(s, w), w.pc = "refresh",
           w.locked => worker[s].locked \/ LockFree,
           w.run \in Runs, run'[w.run].status # "none"
    PROVE  WorkerOK(s)' /\ LockFits(s, w) /\ JobFits(s, w)
BY DEF WorkerOK, Assigned, ClaimKnown, Owned, Executes, Works, BackupKnown, Guarded,
     StatusKnown, RollbackKnown, HoldsLock, LockedPcs, StepPcs, Moves, LockFits, JobFits

\* While a worker holds the lock, or nobody does, no other one does.
LEMMA Alone ==
    ASSUME IInv, NEW s \in Servers, worker[s].locked \/ LockFree, NEW t \in Servers \ {s}
    PROVE  ~worker[t].locked /\ ~Executes(t) /\ ~HoldsLock(t)
<1>1. ~worker[t].locked
  BY DEF IInv, TypeOK, LockOK, LockFree
<1> QED BY <1>1, ExecutesKnows DEF IInv, WorkerOK, Assigned

\* ... and a step of it takes nothing from them but perhaps a claim.
LEMMA AloneSpares ==
    ASSUME IInv, NEW s \in Servers, worker[s].locked \/ LockFree, NEW t \in Servers \ {s},
           worker'[t] = worker[t],
           LET w == worker[t] IN
           Works(t) /\ w.kind = "release" =>
               /\ step'[w.run][w.kind].attempt = step[w.run][w.kind].attempt
               /\ step'[w.run][w.kind].status \in {"running", "failed"}
    PROVE  Spares(t)
<1>1. ~worker[t].locked /\ ~Executes(t) /\ ~HoldsLock(t)
  BY Alone
<1> QED BY <1>1 DEF Spares, HoldsLock, LockedPcs

\* ... none, when it leaves the rows of the steps alone.
LEMMA AloneSparesSteps ==
    ASSUME IInv, NEW s \in Servers, worker[s].locked \/ LockFree, NEW t \in Servers \ {s},
           worker'[t] = worker[t], UNCHANGED step
    PROVE  Spares(t)
<1>1. ClaimKnown(t)
  BY DEF IInv, WorkerOK
<1> QED BY <1>1, AloneSpares DEF ClaimKnown, StepOf

------------------------------------------------------------------------------
(* What a step does to the rows.                                           *)

\* One row of pipeline_steps is written.
LEMMA RowMoves ==
    ASSUME IInv, NEW r \in Runs, NEW k \in Kinds, NEW row \in StepRow, SetStep(r, k, row)
    PROVE  /\ step' \in [Runs -> [Kinds -> StepRow]] /\ step'[r][k] = row
           /\ \A q \in Runs, j \in Kinds : q # r \/ j # k => step'[q][j] = step[q][j]
<1> DEFINE new == [step[r] EXCEPT ![k] = row]
<1>1. /\ new \in [Kinds -> StepRow] /\ new[k] = row
      /\ \A j \in Kinds : j # k => new[j] = step[r][j]
  BY Types
<1>2. step' = [step EXCEPT ![r] = new]
  BY DEF SetStep
<1> HIDE DEF new
<1> QED BY <1>1, <1>2, Types

\* A row that gets another status.
LEMMA StatusRow ==
    ASSUME NEW row \in StepRow, NEW status \in StepStatus
    PROVE  LET new == [row EXCEPT !.status = status]
           IN  new \in StepRow /\ new.status = status /\ new.attempt = row.attempt
BY DEF StepRow

\* The rollback of a release is offered.
LEMMA OfferMoves ==
    ASSUME IInv, NEW r \in Runs, OfferRollback(r)
    PROVE  /\ rollback' \in [Runs -> RollbackRow]
           /\ \A q \in Runs : q # r => rollback'[q] = rollback[q]
           /\ rollback'[r].expected = rollback[r].expected
           /\ rollback'[r].status \notin {"none", "monitoring"}
<1> DEFINE row == [rollback[r] EXCEPT !.status = "awaiting_confirmation"]
<1>1. row \in RollbackRow /\ row.expected = rollback[r].expected /\ row.status = "awaiting_confirmation"
  BY Types DEF RollbackRow, RollbackStatus
<1>2. rollback' = IF rollback[r].status \in {"none", "monitoring"}
                  THEN [rollback EXCEPT ![r] = row] ELSE rollback
  BY DEF OfferRollback
<1> HIDE DEF row
<1> QED BY <1>1, <1>2, Types

\* A row that has not ended is written: nothing that is settled changes.
LEMMA RowGrows ==
    ASSUME IInv, NEW r \in Runs, NEW k \in Kinds, NEW row \in StepRow, SetStep(r, k, row),
           step[r][k].status \notin {"none", "passed", "failed"}, row.status # "none",
           step[r][k].attempt <= row.attempt, UNCHANGED run, EnvUnchanged,
           rollback' \in [Runs -> RollbackRow],
           \A q \in Runs : q # r \/ k # "release" => rollback'[q] = rollback[q],
           k = "build" /\ row.status = "passed" => Backed(r),
           k = "release" => Undoable(r)'
    PROVE  /\ RowsOK' /\ Grows /\ \A q \in Runs : RunOK(q)'
           /\ \A q \in Runs : launched'[q] = "interrupted" => launched[q] = "interrupted"
<1>1. /\ step' \in [Runs -> [Kinds -> StepRow]] /\ step'[r][k] = row
      /\ \A q \in Runs, j \in Kinds : q # r \/ j # k => step'[q][j] = step[q][j]
  BY RowMoves
<1>2. RowsOK'
  BY <1>1, Types DEF RowsOK, EnvUnchanged, ProjectUnchanged
<1>3. Grows
  <2>1. \A q \in Runs, j \in Kinds : step[q][j].attempt \in Nat
    BY Types DEF StepRow
  <2>2. UNCHANGED <<run, unsaved>>
    BY DEF EnvUnchanged
  <2> QED BY <1>1, <2>1, <2>2 DEF Grows
<1>4. ASSUME NEW q \in Runs PROVE RunOK(q)'
  <2>0. RunOK(q) /\ run'[q] = run[q]
    BY DEF IInv
  <2>1. Requested(q)'
    BY <1>1, <2>0 DEF RunOK, Requested
  <2>2. Honest(q)'
    BY <1>1, <2>0 DEF RunOK, Honest, EnvUnchanged
  <2>3. BackupsOK(q)'
    BY <1>1, <2>0 DEF RunOK, BackupsOK, Backed, EnvUnchanged, ProjectUnchanged
  <2>4. Undoable(q)'
    BY <1>1, <2>0 DEF RunOK, Undoable, EnvUnchanged, ProjectUnchanged
  <2> QED BY <2>1, <2>2, <2>3, <2>4 DEF RunOK
<1> QED BY <1>2, <1>3, <1>4 DEF EnvUnchanged, ProjectUnchanged

\* The row of a release is written: what was launched can still be undone.
LEMMA RowUndoable ==
    ASSUME IInv, NEW r \in Runs, "release" \in Kinds, NEW row \in StepRow,
           SetStep(r, "release", row), UNCHANGED <<run, launched, history>>,
           step[r]["release"].status \notin {"passed", "failed"},
           row.status \in {"running", "pending", "failed", "passed"},
           row.status \in {"pending", "passed"} => launched[r] # "interrupted",
           row.status \in {"running", "pending"} => UNCHANGED rollback,
           row.status = "failed" => OfferRollback(r)
    PROVE  Undoable(r)'
<1>1. step'[r]["release"] = row
  BY RowMoves
<1>2. Undoable(r)
  BY DEF IInv, RunOK
<1>3. CASE row.status = "failed"
  BY <1>1, <1>2, <1>3, OfferMoves DEF Undoable
<1>4. CASE row.status = "passed"
  BY <1>1, <1>2, <1>4 DEF Undoable
<1>5. CASE row.status \in {"running", "pending"}
  BY <1>1, <1>2, <1>5 DEF Undoable
<1> QED BY <1>3, <1>4, <1>5

\* A row of pipeline_rollbacks is written.
LEMMA RollbackGrows ==
    ASSUME IInv, NEW r \in Runs, NEW row \in RollbackRow, rollback' = [rollback EXCEPT ![r] = row],
           UNCHANGED <<run, step, head, file, serving, launched, history, merges, crashes>>,
           recorded' \in Commits, run[r].status # "none",
           row.status # "none", row.expected = rollback[r].expected \/ row.expected # NoHead,
           row.status = "monitoring" /\ "release" \in Kinds =>
               step[r]["release"].status \notin {"passed", "failed"}
    PROVE  /\ RowsOK' /\ Grows /\ \A q \in Runs : RunOK(q)'
           /\ \A q \in Runs : launched'[q] = "interrupted" => launched[q] = "interrupted"
<1>1. /\ rollback' \in [Runs -> RollbackRow] /\ rollback'[r] = row
      /\ \A q \in Runs : q # r => rollback'[q] = rollback[q]
  BY Types
<1>2. RowsOK'
  BY <1>1, Types DEF RowsOK
<1>3. Grows
  <2>1. \A q \in Runs, j \in Kinds : step[q][j].attempt \in Nat
    BY Types DEF StepRow
  <2> QED BY <2>1 DEF Grows
<1>4. ASSUME NEW q \in Runs PROVE RunOK(q)'
  <2>0. RunOK(q)
    BY DEF IInv
  <2>1. Requested(q)'
    BY <1>1, <2>0 DEF RunOK, Requested
  <2>2. Honest(q)' /\ BackupsOK(q)'
    BY <2>0 DEF RunOK, Honest, BackupsOK, Backed
  <2>3. Undoable(q)'
    BY <1>1, <2>0 DEF RunOK, Undoable
  <2> QED BY <2>1, <2>2, <2>3 DEF RunOK
<1> QED BY <1>2, <1>3, <1>4

\* What is not monitoring a release may be written behind every worker.
LEMMA RollbackSpares ==
    ASSUME IInv, NEW r \in Runs, rollback[r].status # "monitoring",
           NEW row, rollback' = [rollback EXCEPT ![r] = row],
           UNCHANGED <<step, head, file, serving>>,
           NEW t \in Servers, worker'[t] = worker[t]
    PROVE  Spares(t)
<1>1. ClaimKnown(t) /\ (worker[t].pc # "idle" => worker[t].run \in Runs)
  BY DEF IInv, WorkerOK, Assigned
<1>2. \A q \in Runs : q # r => rollback'[q] = rollback[q]
  BY Types
<1> QED BY <1>1, <1>2 DEF Spares, ClaimKnown, StepOf

\* A row of pipeline_steps may be written behind a worker that is not at work
\* on it.
LEMMA RowSpares ==
    ASSUME IInv, NEW r \in Runs, NEW k \in Kinds, NEW row \in StepRow, SetStep(r, k, row),
           EnvUnchanged,
           NEW t \in Servers, worker'[t] = worker[t],
           LET w == worker[t] IN
           /\ ~(w.run = r /\ w.kind = k /\ (Executes(t) \/ (Works(t) /\ k = "release")))
           /\ w.pc = "ready" /\ w.kind = "release" /\ rollback[w.run].status = "monitoring" =>
                 rollback'[w.run] = rollback[w.run]
    PROVE  Spares(t)
<1> DEFINE w == worker[t]
<1>1. \A q \in Runs, j \in Kinds : q # r \/ j # k => step'[q][j] = step[q][j]
  BY RowMoves
<1>2. ClaimKnown(t) /\ (Works(t) => w.run \in Runs /\ w.kind \in Kinds)
  BY DEF IInv, WorkerOK, Assigned, Works, StepPcs
<1>3. Executes(t) => step'[w.run][w.kind] = step[w.run][w.kind]
  BY <1>1, <1>2 DEF Executes
<1>4. Works(t) /\ w.kind = "release" =>
          /\ step'[w.run][w.kind].attempt = step[w.run][w.kind].attempt
          /\ step'[w.run][w.kind].status \in {"running", "failed"}
  BY <1>1, <1>2 DEF ClaimKnown, StepOf
<1> QED BY <1>3, <1>4 DEF Spares, EnvUnchanged, ProjectUnchanged

\* ... as far as a worker that is alone with the lock writes it.
LEMMA AloneRow ==
    ASSUME IInv, NEW s \in Servers, worker[s].locked \/ LockFree,
           NEW r \in Runs, NEW k \in Kinds, NEW row \in StepRow, SetStep(r, k, row),
           k = "release" => row.attempt = step[r][k].attempt /\ row.status \in {"running", "failed"},
           NEW t \in Servers \ {s}, worker'[t] = worker[t]
    PROVE  Spares(t)
<1> DEFINE w == worker[t]
<1>1. /\ step'[r][k] = row
      /\ \A q \in Runs, j \in Kinds : q # r \/ j # k => step'[q][j] = step[q][j]
  BY RowMoves
<1>2. ClaimKnown(t) /\ (Works(t) => w.run \in Runs /\ w.kind \in Kinds)
  BY DEF IInv, WorkerOK, Assigned, Works, StepPcs
<1>3. Works(t) /\ w.kind = "release" =>
          /\ step'[w.run][w.kind].attempt = step[w.run][w.kind].attempt
          /\ step'[w.run][w.kind].status \in {"running", "failed"}
  BY <1>1, <1>2 DEF ClaimKnown, StepOf
<1> QED BY <1>3, AloneSpares

\* Nobody else executes, or has claimed as a release, what is still of a
\* worker's own attempt.
LEMMA SoleClaim ==
    ASSUME IInv, NEW s \in Servers, NEW t \in Servers \ {s}, Works(s),
           StepOf(s).attempt = worker[s].attempt,
           worker[t].run = worker[s].run, worker[t].kind = worker[s].kind
    PROVE  ~Executes(t) /\ (worker[s].kind = "release" => ~Works(t))
<1>1. ASSUME Works(t), worker[t].attempt = worker[s].attempt PROVE FALSE
  BY <1>1 DEF IInv, ClaimedOnce
<1>2. Executes(t) => Works(t) /\ worker[t].attempt = worker[s].attempt
  BY ExecutesKnows DEF StepOf
<1>3. Works(t) /\ worker[s].kind = "release" => worker[t].attempt = worker[s].attempt
  BY DEF IInv, WorkerOK, ClaimKnown, StepOf
<1> QED BY <1>1, <1>2, <1>3

\* What a worker at work on a step has.
LEMMA WorksKnows ==
    ASSUME IInv, NEW s \in Servers, Works(s) \/ worker[s].pc = "recover"
    PROVE  /\ worker[s].run \in Runs /\ worker[s].kind \in Kinds
           /\ run[worker[s].run].status # "none" /\ StepOf(s) \in StepRow
           /\ StepOf(s) = step[worker[s].run][worker[s].kind]
<1>1. worker[s].run \in Runs /\ worker[s].kind \in Kinds /\ run[worker[s].run].status # "none"
  BY DEF IInv, WorkerOK, Assigned, Works, StepPcs
<1> QED BY <1>1, Types DEF StepOf

\* A worker gives its job up.
LEMMA Leaves ==
    ASSUME IInv, NEW s \in Servers, Release(s), UNCHANGED <<run, step, rollback>>, EnvUnchanged
    PROVE  IInv'
BY Gives, WorkerMoves

------------------------------------------------------------------------------
(* The steps of a job.                                                     *)

\* The lock is taken for a claim: what is executed is the claimed attempt.
LEMMA TakeStepLockKeeps ==
    ASSUME IInv, NEW s \in Servers, TakeStepLock(s)
    PROVE  IInv'
<1> DEFINE w == [worker[s] EXCEPT !.locked = TRUE]
           r == worker[s].run
           k == worker[s].kind
<1>0. /\ Works(s) /\ LockFree /\ UNCHANGED <<run, rollback>> /\ EnvUnchanged
      /\ r \in Runs /\ k \in Kinds /\ run[r].status # "none" /\ StepOf(s) \in StepRow
      /\ StepOf(s) = step[r][k]
  BY WorksKnows DEF TakeStepLock, Works, StepPcs
<1>w. /\ w \in WorkerRow /\ w.run = r /\ w.kind = k /\ w.attempt = worker[s].attempt
      /\ w.locked
  BY Types DEF WorkerRow
<1>1. ASSUME SameClaim(s), Become(s, [w EXCEPT !.pc = "executing"]), UNCHANGED step PROVE IInv'
  <2> DEFINE v == [w EXCEPT !.pc = "executing"]
  <2>1. /\ v \in WorkerRow /\ v.pc = "executing" /\ v.run = r /\ v.kind = k
        /\ v.attempt = worker[s].attempt /\ v.locked
    BY <1>w DEF WorkerRow, Pcs
  <2>2. Become(s, v)
    BY <1>1
  <2> HIDE DEF v, w
  <2>3. Moves(s, v)
    BY <2>1, <2>2, BecomeMoves
  <2>4. RowsOK' /\ Grows
    BY <1>0, <1>1, RowsRest
  <2>5. BackupKnown(s)' /\ Guarded(s)'
    BY <2>1, <2>3 DEF Moves, BackupKnown, Guarded
  <2>6. WorkerOK(s)' /\ LockFits(s, v) /\ JobFits(s, v)
    BY <1>0, <1>1, <2>1, <2>3, <2>4, <2>5, JobKnows DEF SameClaim
  <2> QED BY <1>0, <1>1, <2>3, <2>6, WorkerMoves
<1>2. ASSUME ~SameClaim(s), StepOf(s).status = "running",
             SetStep(r, k, [StepOf(s) EXCEPT !.status = "failed"]),
             Become(s, [w EXCEPT !.pc = "refresh"])
      PROVE  IInv'
  <2> DEFINE v   == [w EXCEPT !.pc = "refresh"]
             row == [StepOf(s) EXCEPT !.status = "failed"]
  <2>1. v \in WorkerRow /\ v.pc = "refresh" /\ v.run = r
    BY <1>w DEF WorkerRow, Pcs
  <2>2. row \in StepRow /\ row.status = "failed" /\ row.attempt = StepOf(s).attempt
    BY <1>0, StatusRow DEF StepStatus
  <2>3. Become(s, v) /\ SetStep(r, k, row)
    BY <1>2
  <2> HIDE DEF v, w, row
  <2>4. k # "release"
    <3>1. ClaimKnown(s)
      BY DEF IInv, WorkerOK
    <3> QED BY <1>0, <1>2, <3>1 DEF ClaimKnown, SameClaim
  <2>5. Moves(s, v)
    BY <2>1, <2>3, BecomeMoves
  <2>6. /\ RowsOK' /\ Grows /\ \A q \in Runs : RunOK(q)'
        /\ \A q \in Runs : launched'[q] = "interrupted" => launched[q] = "interrupted"
    <3>1. step[r][k].attempt <= row.attempt
      BY <1>0, <2>2 DEF StepRow
    <3> QED BY <1>0, <1>2, <2>2, <2>3, <2>4, <3>1, Types, RowGrows
  <2>7. \A t \in Servers \ {s} : Spares(t)
    BY <1>0, <2>2, <2>3, <2>4, <2>5, AloneRow DEF Moves
  <2>8. WorkerOK(s)' /\ LockFits(s, v) /\ JobFits(s, v)
    BY <1>0, <2>1, <2>5, RefreshKnows
  <2> QED BY <2>5, <2>6, <2>7, <2>8, StepKeeps
<1>3. ASSUME Release(s), UNCHANGED step PROVE IInv'
  BY <1>0, <1>3, Leaves
<1> QED BY <1>1, <1>2, <1>3 DEF TakeStepLock

\* An attempt is failed or put back by the worker whose attempt it is.
LEMMA RecordFailureKeeps ==
    ASSUME IInv, NEW s \in Servers, NEW r \in Runs, NEW k \in Kinds,
           r = worker[s].run, k = worker[s].kind, Works(s), StepOf(s).status = "running",
           StepOf(s).attempt = worker[s].attempt, NEW w \in WorkerRow,
           w.run = worker[s].run, w.kind = worker[s].kind, w.locked = worker[s].locked,
           RecordFailure(s, w), UNCHANGED run, EnvUnchanged
    PROVE  IInv'
<1> DEFINE v == [w EXCEPT !.pc = "refresh"]
<1>0. /\ run[r].status # "none" /\ StepOf(s) \in StepRow
      /\ StepOf(s) = step[r][k]
  BY WorksKnows
<1>1. v \in WorkerRow /\ v.pc = "refresh" /\ v.run = r /\ v.locked = worker[s].locked
  BY DEF WorkerRow, Pcs
<1>2. Become(s, v)
  BY DEF RecordFailure
<1> HIDE DEF v
<1>3. Moves(s, v)
  BY <1>1, <1>2, BecomeMoves
<1>4. WorkerOK(s)' /\ LockFits(s, v) /\ JobFits(s, v)
  BY <1>0, <1>1, <1>3, RefreshKnows
<1>5. ASSUME NEW status \in {"pending", "failed"},
             SetStep(r, k, [StepOf(s) EXCEPT !.status = status]),
             IF k = "release" /\ status = "failed" THEN OfferRollback(r) ELSE UNCHANGED rollback
      PROVE  IInv'
  <2> DEFINE row == [StepOf(s) EXCEPT !.status = status]
  <2>0. status \in StepStatus /\ step[r][k].status = "running"
    BY <1>0 DEF StepStatus
  <2>1. row \in StepRow /\ row.status = status /\ row.attempt = StepOf(s).attempt
    BY <1>0, <2>0, StatusRow
  <2>2. SetStep(r, k, row)
    BY <1>5
  <2> HIDE DEF row
  <2>3. /\ rollback' \in [Runs -> RollbackRow]
        /\ \A q \in Runs : q # r \/ k # "release" => rollback'[q] = rollback[q]
    BY <1>0, <1>5, Types, OfferMoves
  <2>4. k = "release" => Undoable(r)'
    <3> SUFFICES ASSUME k = "release" PROVE Undoable(r)'
      OBVIOUS
    <3>1. launched[r] # "interrupted"
      BY <1>0 DEF IInv, Abandoned
    <3>2. /\ SetStep(r, "release", row) /\ step[r]["release"].status = "running"
          /\ "release" \in Kinds /\ UNCHANGED <<launched, history>>
      BY <1>0, <2>0, <2>2 DEF EnvUnchanged, ProjectUnchanged
    <3>3. IF status = "failed" THEN OfferRollback(r) ELSE UNCHANGED rollback
      BY <1>5
    <3> QED BY <1>0, <2>1, <3>1, <3>2, <3>3, RowUndoable
  <2>5. /\ RowsOK' /\ Grows /\ \A q \in Runs : RunOK(q)'
        /\ \A q \in Runs : launched'[q] = "interrupted" => launched[q] = "interrupted"
    <3>1. step[r][k].attempt <= row.attempt
      BY <1>0, <2>1 DEF StepRow
    <3>2. row.status \in {"pending", "failed"}
      BY <2>1
    <3> QED BY <1>0, <2>0, <2>1, <2>2, <2>3, <2>4, <3>1, <3>2, RowGrows
  <2>6. ASSUME NEW t \in Servers \ {s} PROVE Spares(t)
    <3>1. worker[t].run = r /\ worker[t].kind = k =>
             ~Executes(t) /\ (k = "release" => ~Works(t))
      BY SoleClaim
    <3>2. worker[t].pc = "ready" => Executes(t) /\ Works(t)
      BY DEF Executes, Works, StepPcs
    <3>3. worker[t].pc = "ready" /\ worker[t].kind = "release" =>
             rollback'[worker[t].run] = rollback[worker[t].run]
      BY <2>3, <3>1, <3>2, ExecutesKnows
    <3>4. worker'[t] = worker[t]
      BY <1>3 DEF Moves
    <3> QED BY <1>0, <2>1, <2>2, <3>1, <3>3, <3>4, RowSpares
  <2> QED BY <1>3, <1>4, <2>5, <2>6, StepKeeps
<1> QED BY <1>5 DEF RecordFailure

\* The lock is refused to a claim.
LEMMA LockRefusedKeeps ==
    ASSUME IInv, NEW s \in Servers, LockRefused(s)
    PROVE  IInv'
<1> DEFINE w == [worker[s] EXCEPT !.result = "environment_failure"]
<1>1. /\ w \in WorkerRow /\ w.run = worker[s].run /\ w.kind = worker[s].kind
      /\ w.locked = worker[s].locked /\ w.attempt = worker[s].attempt /\ w.pc = worker[s].pc
  BY Types DEF WorkerRow, Results
<1>2. /\ w.pc = "claimed" /\ StepOf(s).status = "running" /\ StepOf(s).attempt = w.attempt
      /\ RecordFailure(s, w) /\ UNCHANGED run /\ EnvUnchanged
  BY DEF LockRefused
<1> HIDE DEF w
<1>3. Works(s) /\ worker[s].run \in Runs /\ worker[s].kind \in Kinds
  BY <1>1, <1>2, WorksKnows DEF Works, StepPcs
<1> QED BY <1>1, <1>2, <1>3, RecordFailureKeeps

\* A command has failed.
LEMMA FinishFailedKeeps ==
    ASSUME IInv, NEW s \in Servers, FinishFailed(s)
    PROVE  IInv'
<1>1. Executes(s) /\ worker[s] \in WorkerRow /\ UNCHANGED run /\ EnvUnchanged
  BY Types DEF FinishFailed, Executes, Works, StepPcs
<1>2. CASE RecordFailure(s, worker[s])
  BY <1>1, <1>2, RecordFailureKeeps, ExecutesKnows
<1>3. CASE Release(s) /\ UNCHANGED <<step, rollback>>
  BY <1>1, <1>3, Leaves
<1> QED BY <1>2, <1>3 DEF FinishFailed

\* A command has succeeded.
LEMMA FinishPassedKeeps ==
    ASSUME IInv, NEW s \in Servers, FinishPassed(s)
    PROVE  IInv'
<1>0. /\ Executes(s) /\ UNCHANGED run /\ EnvUnchanged
      /\ worker[s].pc = "ran" /\ worker[s].result = "ok"
  BY DEF FinishPassed, Executes, Works, StepPcs
<1>1. ASSUME NEW r \in Runs, NEW k \in Kinds, r = worker[s].run, k = worker[s].kind,
             SetStep(r, k, [StepOf(s) EXCEPT !.status = "passed"]), Goto(s, "refresh"),
             rollback' = IF k = "release" THEN [rollback EXCEPT ![r] = NoRollback] ELSE rollback
      PROVE  IInv'
  <2> DEFINE row == [StepOf(s) EXCEPT !.status = "passed"]
             w   == worker'[s]
  <2>0. /\ run[r].status # "none" /\ StepOf(s) \in StepRow /\ StepOf(s) = step[r][k]
        /\ step[r][k].status = "running" /\ Works(s) /\ worker[s].locked
        /\ StepOf(s).attempt = worker[s].attempt
    BY <1>0, <1>1, ExecutesKnows, WorksKnows
  <2>1. "passed" \in StepStatus /\ "refresh" \in Pcs
    BY DEF StepStatus, Pcs
  <2>2. row \in StepRow /\ row.status = "passed" /\ row.attempt = StepOf(s).attempt
    BY <2>0, <2>1, StatusRow
  <2>3. SetStep(r, k, row)
    BY <1>1
  <2>4. Moves(s, w) /\ w.pc = "refresh" /\ w.run = r
    BY <1>1, <2>1, GotoMoves
  <2> HIDE DEF row, w
  <2>5. WorkerOK(s)' /\ LockFits(s, w) /\ JobFits(s, w)
    BY <1>0, <2>0, <2>4, RefreshKnows
  <2>6. NoRollback \in RollbackRow
    BY DEF NoRollback, RollbackRow, RollbackStatus
  <2>7. /\ rollback' \in [Runs -> RollbackRow]
        /\ \A q \in Runs : q # r \/ k # "release" => rollback'[q] = rollback[q]
    BY <1>1, <2>6, Types
  <2>8. k = "release" => Undoable(r)'
    <3> SUFFICES ASSUME k = "release" PROVE Undoable(r)'
      OBVIOUS
    <3>1. launched[r] # "interrupted"
      BY <1>1, <2>0 DEF IInv, Abandoned
    <3>2. /\ SetStep(r, "release", row) /\ step[r]["release"].status = "running"
          /\ "release" \in Kinds /\ UNCHANGED <<launched, history>>
      BY <1>0, <2>0, <2>3 DEF EnvUnchanged, ProjectUnchanged
    <3> QED BY <1>0, <2>2, <3>1, <3>2, RowUndoable
  <2>9. k = "build" => Backed(r)
    BY <1>0, <1>1, ExecutesKnows DEF BackupKnown
  <2>10. /\ RowsOK' /\ Grows /\ \A q \in Runs : RunOK(q)'
         /\ \A q \in Runs : launched'[q] = "interrupted" => launched[q] = "interrupted"
    <3>1. step[r][k].attempt <= row.attempt
      BY <2>0, <2>2 DEF StepRow
    <3> QED BY <1>0, <2>0, <2>2, <2>3, <2>7, <2>8, <2>9, <3>1, RowGrows
  <2>11. ASSUME NEW t \in Servers \ {s} PROVE Spares(t)
    <3>1. worker[t].run = r /\ worker[t].kind = k =>
             ~Executes(t) /\ (k = "release" => ~Works(t))
      BY <1>1, <2>0, SoleClaim
    <3>2. worker[t].pc # "ready"
      BY <2>0, Alone DEF HoldsLock, LockedPcs
    <3>3. worker'[t] = worker[t]
      BY <2>4 DEF Moves
    <3> QED BY <1>0, <2>2, <2>3, <3>1, <3>2, <3>3, RowSpares
  <2> QED BY <2>4, <2>5, <2>10, <2>11, StepKeeps
<1>2. CASE Release(s) /\ UNCHANGED <<step, rollback>>
  BY <1>0, <1>2, Leaves
<1> QED BY <1>0, <1>1, <1>2, ExecutesKnows DEF FinishPassed

\* The steps of a run are read: what is computed of them stays true.
LEMMA RefreshReadKeeps ==
    ASSUME IInv, NEW s \in Servers, RefreshRead(s)
    PROVE  IInv'
<1> DEFINE r == worker[s].run
           w == worker'[s]
<1>0. /\ worker[s].pc = "refresh" /\ UNCHANGED <<run, step, rollback>> /\ EnvUnchanged
  BY DEF RefreshRead
<1>1. r \in Runs /\ run[r].status # "none"
  BY <1>0 DEF IInv, WorkerOK, Assigned
<1>2. /\ ComputedStatus(r) \in {"running", "passed", "failed"}
      /\ ComputedStatus(r) = "failed" => \E k \in Kinds : step[r][k].status = "failed"
      /\ ComputedStatus(r) = "passed" => \A k \in Kinds : step[r][k].status = "passed"
  <2>1. \A k \in Kinds : step[r][k].status \in StepStatus \ {"none"}
    BY <1>1, Types DEF IInv, RunOK, Requested, StepRow
  <2> QED BY <2>1 DEF ComputedStatus, Unfinished, StepStatus
<1>3. PICK res \in {ComputedStatus(r), "unread"} : EndWith(s, "write", res)
  BY DEF RefreshRead
<1>4. /\ Moves(s, w) /\ w.pc = "write" /\ w.run = r /\ w.locked = worker[s].locked
      /\ w.result = res
  <2>1. "write" \in Pcs /\ res \in Results
    BY <1>2, <1>3 DEF Pcs, Results, RunStatus
  <2> QED BY <1>3, <2>1, EndWithMoves
<1>5. StatusKnown(s)'
  BY <1>0, <1>2, <1>3, <1>4 DEF StatusKnown
<1>6. Assigned(s)' /\ RollbackKnown(s)'
  BY <1>0, <1>1, <1>4 DEF Assigned, HoldsLock, RollbackKnown, StepPcs
<1>7. ClaimKnown(s)' /\ Owned(s)' /\ BackupKnown(s)' /\ Guarded(s)'
  BY <1>4 DEF ClaimKnown, Owned, Executes, Works, StepPcs, BackupKnown, Guarded
<1>8. LockFits(s, w) /\ JobFits(s, w)
  BY <1>4 DEF LockFits, JobFits, LockedPcs, StepPcs
<1> QED BY <1>0, <1>4, <1>5, <1>6, <1>7, <1>8, WorkerMoves DEF WorkerOK

\* The status of a run is written.
LEMMA RefreshWriteKeeps ==
    ASSUME IInv, NEW s \in Servers, RefreshWrite(s)
    PROVE  IInv'
<1> DEFINE r == worker[s].run
           read == worker[s].result # "unread"
           status == IF read THEN worker[s].result ELSE "passed"
           row == [run[r] EXCEPT !.status = status]
<1>0. /\ Release(s) /\ UNCHANGED <<step, rollback, unsaved>> /\ ProjectUnchanged
      /\ run' = [run EXCEPT ![r] = row]
      /\ unread' = IF read THEN unread \ {r} ELSE unread \cup {r}
  BY DEF RefreshWrite
<1>1. /\ r \in Runs /\ run[r].status # "none" /\ StatusKnown(s)
      /\ status \in {"running", "passed", "failed"}
      /\ read => status = worker[s].result
      /\ ~read => status = "passed"
  BY DEF RefreshWrite, IInv, WorkerOK, Assigned, StatusKnown
<1> HIDE DEF status
<1>2. /\ row \in RunRow /\ row.status = status /\ row.safe = run[r].safe
      /\ row.artifact = run[r].artifact
      /\ row.backup = run[r].backup /\ row.backupHash = run[r].backupHash
  BY <1>1, Types DEF RunRow, RunStatus
<1> HIDE DEF row
<1>3. /\ run' \in [Runs -> RunRow] /\ run'[r] = row
      /\ \A q \in Runs : q # r => run'[q] = run[q]
  BY <1>0, <1>1, <1>2, Types
<1>4. RowsOK'
  BY <1>0, <1>3, Types DEF RowsOK, ProjectUnchanged
<1>5. Grows
  <2>1. \A q \in Runs, k \in Kinds : step[q][k].attempt \in Nat
    BY Types DEF StepRow
  <2>2. UNCHANGED <<step, unsaved>>
    BY <1>0
  <2> QED BY <1>1, <1>2, <1>3, <2>1, <2>2 DEF Grows
<1>6. ASSUME NEW q \in Runs PROVE RunOK(q)'
  <2>0. RunOK(q) /\ UNCHANGED <<step, rollback, file, launched, unsaved>>
    BY <1>0 DEF IInv, ProjectUnchanged
  <2>1. Requested(q)'
    BY <1>1, <1>2, <1>3, <2>0 DEF RunOK, Requested
  <2>2. Honest(q)'
    <3>1. CASE q = r
      BY <1>0, <1>1, <1>2, <1>3, <2>0, <3>1 DEF RefreshWrite, StatusKnown, Honest
    <3>2. CASE q # r
      BY <1>0, <1>3, <2>0, <3>2 DEF RunOK, Honest
    <3> QED BY <3>1, <3>2
  <2>3. \A p \in Runs : run'[p].backup = run[p].backup /\ run'[p].backupHash = run[p].backupHash
                        /\ run'[p].artifact = run[p].artifact
    BY <1>2, <1>3
  <2>4. BackupsOK(q)'
    BY <2>0, <2>3 DEF RunOK, BackupsOK, Backed
  <2>5. Undoable(q)'
    BY <2>0, <2>3 DEF RunOK, Undoable
  <2> QED BY <2>1, <2>2, <2>4, <2>5 DEF RunOK
<1>7. ASSUME NEW t \in Servers \ {s} PROVE Spares(t)
  <2>1. ClaimKnown(t) /\ worker'[t] = worker[t]
    BY <1>0, Gives DEF IInv, WorkerOK, Moves
  <2> QED BY <1>0, <2>1 DEF Spares, ClaimKnown, StepOf, ProjectUnchanged
<1> QED BY <1>0, <1>4, <1>5, <1>6, <1>7, Gives, StepKeeps DEF ProjectUnchanged

\* A worker picks something, without the lock.
LEMMA PickKnows ==
    ASSUME IInv, NEW s \in Servers, NEW w, Moves(s, w), ~w.locked,
           w.pc \in {"recover", "rollback_claimed", "rollback_recover"},
           w.run \in Runs, run'[w.run].status # "none", w.pc = "recover" => w.kind \in Kinds
    PROVE  WorkerOK(s)' /\ LockFits(s, w) /\ JobFits(s, w)
BY DEF WorkerOK, Assigned, ClaimKnown, Owned, Executes, Works, BackupKnown, Guarded,
     StatusKnown, RollbackKnown, HoldsLock, LockedPcs, StepPcs, Moves, LockFits, JobFits

\* A step that has been running for too long is picked.
LEMMA SelectInterruptedKeeps ==
    ASSUME IInv, NEW s \in Servers, NEW r \in Runs, NEW k \in Kinds, SelectInterrupted(s, r, k)
    PROVE  IInv'
<1> DEFINE w == [Idle EXCEPT !.pc = "recover", !.run = r, !.kind = k, !.attempt = step[r][k].attempt]
<1>1. step[r][k].attempt \in Nat /\ run[r].status # "none"
  BY Types DEF StepRow, IInv, RunOK, Requested, SelectInterrupted
<1>2. w \in WorkerRow /\ w.pc = "recover" /\ w.run = r /\ w.kind = k /\ ~w.locked
  BY <1>1 DEF Idle, WorkerRow, Pcs, Results, RunStatus
<1>3. Become(s, w) /\ UNCHANGED <<run, step, rollback>> /\ EnvUnchanged
  BY DEF SelectInterrupted
<1> HIDE DEF w
<1> QED BY <1>1, <1>2, <1>3, BecomeMoves, PickKnows, WorkerMoves

\* ... or a rollback.
LEMMA SelectInterruptedRollbackKeeps ==
    ASSUME IInv, NEW s \in Servers, NEW r \in Runs, SelectInterruptedRollback(s, r)
    PROVE  IInv'
<1> DEFINE w == [Idle EXCEPT !.pc = "rollback_recover", !.run = r]
<1>1. run[r].status # "none"
  BY DEF IInv, RunOK, Requested, SelectInterruptedRollback
<1>2. w \in WorkerRow /\ w.pc = "rollback_recover" /\ w.run = r /\ ~w.locked
  BY DEF Idle, WorkerRow, Pcs, Results, RunStatus
<1>3. Become(s, w) /\ UNCHANGED <<run, step, rollback>> /\ EnvUnchanged
  BY DEF SelectInterruptedRollback
<1> HIDE DEF w
<1> QED BY <1>1, <1>2, <1>3, BecomeMoves, PickKnows, WorkerMoves

\* The recovery of a test or build retries it, fails it or leaves it.
LEMMA RecoverStepKeeps ==
    ASSUME IInv, NEW s \in Servers, RecoverStep(s)
    PROVE  IInv'
<1>0. /\ worker[s].pc = "recover" /\ worker[s].kind # "release" /\ LockFree
      /\ UNCHANGED <<run, rollback>> /\ EnvUnchanged
  BY DEF RecoverStep
<1>1. ASSUME NEW r \in Runs, NEW k \in Kinds, r = worker[s].run, k = worker[s].kind,
             SameClaim(s), NEW status \in {"pending", "failed"}, NEW w, Moves(s, w),
             SetStep(r, k, [StepOf(s) EXCEPT !.status = status]),
             WorkerOK(s)', LockFits(s, w), JobFits(s, w)
      PROVE  IInv'
  <2> DEFINE row == [StepOf(s) EXCEPT !.status = status]
  <2>0. /\ StepOf(s) \in StepRow /\ StepOf(s) = step[r][k] /\ step[r][k].status = "running"
        /\ status \in StepStatus
    BY <1>0, <1>1, WorksKnows DEF SameClaim, StepStatus
  <2>1. row \in StepRow /\ row.status = status /\ row.attempt = StepOf(s).attempt
    BY <2>0, StatusRow
  <2>2. SetStep(r, k, row)
    BY <1>1
  <2> HIDE DEF row
  <2>3. /\ RowsOK' /\ Grows /\ \A q \in Runs : RunOK(q)'
        /\ \A q \in Runs : launched'[q] = "interrupted" => launched[q] = "interrupted"
    <3>1. step[r][k].attempt <= row.attempt
      BY <2>0, <2>1 DEF StepRow
    <3>2. row.status \in {"pending", "failed"} /\ k # "release"
      BY <1>0, <1>1, <2>1
    <3> QED BY <1>0, <2>0, <2>1, <2>2, <3>1, <3>2, RowGrows, Types
  <2>4. \A t \in Servers \ {s} : Spares(t)
    BY <1>0, <1>1, <2>1, <2>2, AloneRow DEF Moves
  <2> QED BY <1>1, <2>3, <2>4, StepKeeps
<1>2. /\ worker[s].run \in Runs /\ worker[s].kind \in Kinds /\ run[worker[s].run].status # "none"
  BY <1>0, WorksKnows
<1>3. CASE SameClaim(s) /\ Release(s)
           /\ SetStep(worker[s].run, worker[s].kind, [StepOf(s) EXCEPT !.status = "pending"])
  BY <1>1, <1>2, <1>3, Gives
<1>4. CASE SameClaim(s) /\ Become(s, [worker[s] EXCEPT !.pc = "refresh", !.locked = TRUE])
           /\ SetStep(worker[s].run, worker[s].kind, [StepOf(s) EXCEPT !.status = "failed"])
  <2> DEFINE w == [worker[s] EXCEPT !.pc = "refresh", !.locked = TRUE]
  <2>1. w \in WorkerRow /\ w.pc = "refresh" /\ w.run = worker[s].run
    BY Types DEF WorkerRow, Pcs
  <2>2. Become(s, w)
    BY <1>4
  <2> HIDE DEF w
  <2>3. Moves(s, w)
    BY <2>1, <2>2, BecomeMoves
  <2>4. WorkerOK(s)' /\ LockFits(s, w) /\ JobFits(s, w)
    BY <1>0, <1>2, <2>1, <2>3, RefreshKnows
  <2> QED BY <1>1, <1>2, <1>4, <2>3, <2>4
<1>5. CASE Release(s) /\ UNCHANGED step
  BY <1>0, <1>5, Leaves
<1> QED BY <1>3, <1>4, <1>5 DEF RecoverStep

\* The recovery of a release fails it and offers its rollback, whoever has
\* claimed it meanwhile.
LEMMA RecoverReleaseKeeps ==
    ASSUME IInv, NEW s \in Servers, RecoverRelease(s)
    PROVE  IInv'
<1>0. /\ worker[s].pc = "recover" /\ worker[s].kind = "release" /\ LockFree
      /\ UNCHANGED run /\ EnvUnchanged
  BY DEF RecoverRelease
<1>1. ASSUME NEW r \in Runs, r = worker[s].run, StepOf(s).status = "running",
             SetStep(r, "release", [StepOf(s) EXCEPT !.status = "failed"]), OfferRollback(r),
             Become(s, [worker[s] EXCEPT !.pc = "refresh", !.locked = TRUE])
      PROVE  IInv'
  <2> DEFINE row == [StepOf(s) EXCEPT !.status = "failed"]
             w   == [worker[s] EXCEPT !.pc = "refresh", !.locked = TRUE]
  <2>0. /\ StepOf(s) \in StepRow /\ StepOf(s) = step[r]["release"]
        /\ step[r]["release"].status = "running" /\ "release" \in Kinds
        /\ run[r].status # "none" /\ "failed" \in StepStatus
    BY <1>0, <1>1, WorksKnows DEF StepStatus
  <2>1. row \in StepRow /\ row.status = "failed" /\ row.attempt = StepOf(s).attempt
    BY <2>0, StatusRow
  <2>2. w \in WorkerRow /\ w.pc = "refresh" /\ w.run = r
    BY <1>1, Types DEF WorkerRow, Pcs
  <2>3. Become(s, w) /\ SetStep(r, "release", row)
    BY <1>1
  <2> HIDE DEF row, w
  <2>4. Moves(s, w)
    BY <2>2, <2>3, BecomeMoves
  <2>5. WorkerOK(s)' /\ LockFits(s, w) /\ JobFits(s, w)
    BY <1>0, <2>0, <2>2, <2>4, RefreshKnows
  <2>6. Undoable(r)'
    BY <1>0, <1>1, <2>0, <2>1, <2>3, RowUndoable DEF EnvUnchanged, ProjectUnchanged
  <2>7. /\ RowsOK' /\ Grows /\ \A q \in Runs : RunOK(q)'
        /\ \A q \in Runs : launched'[q] = "interrupted" => launched[q] = "interrupted"
    <3>1. step[r]["release"].attempt <= row.attempt
      BY <2>0, <2>1 DEF StepRow
    <3> QED BY <1>0, <1>1, <2>0, <2>1, <2>3, <2>6, <3>1, OfferMoves, RowGrows
  <2>8. \A t \in Servers \ {s} : Spares(t)
    BY <1>0, <2>0, <2>1, <2>3, <2>4, AloneRow DEF Moves
  <2> QED BY <2>4, <2>5, <2>7, <2>8, StepKeeps
<1>2. CASE Release(s) /\ UNCHANGED <<step, rollback>>
  BY <1>0, <1>2, Leaves
<1>3. worker[s].run \in Runs
  BY <1>0, WorksKnows
<1> QED BY <1>0, <1>1, <1>2, <1>3 DEF RecoverRelease

\* A new attempt is claimed: its number is higher than those at work.
LEMMA ClaimKeeps ==
    ASSUME IInv, NEW s \in Servers, NEW r \in Runs, NEW k \in Kinds, Claim(s, r, k)
    PROVE  IInv'
<1> DEFINE n   == step[r][k].attempt + 1
           row == [status |-> "running", attempt |-> n]
           w   == [Idle EXCEPT !.pc = "claimed", !.run = r, !.kind = k, !.attempt = n]
<1>0. /\ worker[s].pc = "idle" /\ step[r][k].status = "pending" /\ PriorPassed(r, k)
      /\ SetStep(r, k, row) /\ Become(s, w) /\ UNCHANGED <<run, rollback>> /\ EnvUnchanged
  BY DEF Claim
<1>1. step[r][k].attempt \in Nat /\ n \in Nat /\ step[r][k].attempt < n
  BY Types DEF StepRow
<1>2. row \in StepRow /\ row.status = "running" /\ row.attempt = n
  BY <1>1 DEF StepRow, StepStatus
<1>3. /\ w \in WorkerRow /\ w.pc = "claimed" /\ w.run = r /\ w.kind = k /\ w.attempt = n
      /\ ~w.locked
  BY <1>1 DEF Idle, WorkerRow, Pcs, Results, RunStatus
<1> HIDE DEF n, row, w
<1>4. Moves(s, w)
  BY <1>0, <1>3, BecomeMoves
<1>5. /\ step'[r][k] = row
      /\ \A q \in Runs, j \in Kinds : q # r \/ j # k => step'[q][j] = step[q][j]
  BY <1>0, <1>2, RowMoves
<1>6. run[r].status # "none" /\ (k = "release" => launched[r] # "interrupted")
  BY <1>0 DEF IInv, RunOK, Requested, Undoable
<1>7. /\ RowsOK' /\ Grows /\ \A q \in Runs : RunOK(q)'
      /\ UNCHANGED launched
  <2>1. step[r][k].attempt <= row.attempt
    BY <1>1, <1>2
  <2>2. k = "release" => Undoable(r)'
    <3> SUFFICES ASSUME k = "release" PROVE Undoable(r)'
      OBVIOUS
    <3>1. /\ SetStep(r, "release", row) /\ step[r]["release"].status = "pending"
          /\ "release" \in Kinds /\ UNCHANGED <<launched, history>>
      BY <1>0 DEF EnvUnchanged, ProjectUnchanged
    <3> QED BY <1>0, <1>2, <3>1, RowUndoable
  <2> QED BY <1>0, <1>2, <2>1, <2>2, RowGrows, Types DEF EnvUnchanged, ProjectUnchanged
<1>8. ASSUME NEW t \in Servers, worker[t].run = r, worker[t].kind = k
      PROVE  ~Executes(t) /\ (Works(t) => k # "release" /\ worker[t].attempt < n)
  <2>1. ClaimKnown(t) /\ Owned(t)
    BY DEF IInv, WorkerOK
  <2>2. worker[t].attempt \in Nat
    BY Types DEF WorkerRow
  <2> QED BY <1>0, <1>1, <1>8, <2>1, <2>2 DEF ClaimKnown, Owned, StepOf
<1>9. ASSUME NEW t \in Servers \ {s} PROVE WorkerOK(t)'
  <2>1. Spares(t)
    BY <1>0, <1>2, <1>4, <1>8, RowSpares DEF Moves
  <2> QED BY <1>7, <2>1, Spared
<1>10. WorkerOK(s)'
  <2>1. worker'[s] = w
    BY <1>4 DEF Moves
  <2>2. Assigned(s)' /\ StatusKnown(s)' /\ RollbackKnown(s)' /\ Owned(s)' /\ BackupKnown(s)' /\ Guarded(s)'
    BY <1>0, <1>3, <1>6, <2>1 DEF Assigned, HoldsLock, LockedPcs, StatusKnown, RollbackKnown,
       Owned, Executes, BackupKnown, Guarded
  <2>3. ClaimKnown(s)'
    <3>1. /\ n <= step'[r][k].attempt /\ step'[r][k].attempt = n /\ step'[r][k].status = "running"
      BY <1>1, <1>2, <1>5
    <3>2. \A j \in Kinds : Rank(j) < Rank(k) => step'[r][j].status = "passed"
      BY <1>0, <1>5 DEF PriorPassed
    <3> QED BY <1>3, <2>1, <3>1, <3>2 DEF ClaimKnown, StepOf, PriorPassed
  <2> QED BY <2>2, <2>3 DEF WorkerOK
<1>11. ClaimedOnce'
  <2>1. ASSUME NEW t \in Servers \ {s}, Works(t)'
        PROVE  /\ Works(t) /\ worker'[t] = worker[t]
               /\ ~(worker'[t].run = r /\ worker'[t].kind = k /\ worker'[t].attempt = n)
    <3>1. Works(t) /\ worker'[t] = worker[t]
      BY <1>4, <2>1 DEF Moves, Works
    <3>2. worker[t].attempt < n => worker[t].attempt # n
      <4>1. worker[t].attempt \in Nat
        BY Types DEF WorkerRow
      <4> QED BY <1>1, <4>1
    <3> QED BY <1>8, <3>1, <3>2
  <2>2. worker'[s].run = r /\ worker'[s].kind = k /\ worker'[s].attempt = n
    BY <1>3, <1>4 DEF Moves
  <2> QED BY <2>1, <2>2 DEF IInv, ClaimedOnce
<1>12. ASSUME NEW q \in Runs PROVE Abandoned(q)'
  BY <1>3, <1>4, <1>6, <1>7 DEF IInv, Abandoned, Works, Moves
<1>13. TypeOK'
  <2>1. LockFits(s, w)
    BY <1>3 DEF LockFits
  <2> QED BY <1>4, <1>7, <2>1, LockKept DEF TypeOK, Moves
<1> QED BY <1>7, <1>9, <1>10, <1>11, <1>12, <1>13 DEF IInv

\* A worker dies: a release it had started is not started again.
LEMMA CrashKeeps ==
    ASSUME IInv, NEW s \in Servers, Crash(s)
    PROVE  IInv'
<1> DEFINE r == worker[s].run
           cut == worker[s].kind = "release" /\ worker[s].pc = "ran" /\ launched[r] = "started"
<1>0. /\ Release(s) /\ UNCHANGED <<run, step, rollback, head, recorded, file, serving, history, merges>>
      /\ crashes < MaxCrashes /\ crashes' = crashes + 1
      /\ launched' = IF cut THEN [launched EXCEPT ![r] = "interrupted"] ELSE launched
  BY DEF Crash
<1>1. Moves(s, Idle) /\ LockFits(s, Idle) /\ JobFits(s, Idle) /\ WorkerOK(s)'
  BY <1>0, Gives
<1>2. RowsOK' /\ launched' \in [Runs -> {"no", "started", "interrupted"}]
  <2>1. launched' \in [Runs -> {"no", "started", "interrupted"}]
    BY <1>0, Types
  <2>2. crashes' \in 0 .. MaxCrashes
    BY <1>0, Types, BoundsAssumption
  <2> QED BY <1>0, <2>1, <2>2, Types DEF RowsOK
<1>3. Grows
  <2>1. \A q \in Runs, k \in Kinds : step[q][k].attempt \in Nat
    BY Types DEF StepRow
  <2> QED BY <1>0, <2>1 DEF Grows
<1>4. cut => /\ Executes(s) /\ r \in Runs /\ "release" \in Kinds
             /\ step[r]["release"].status = "running"
             /\ StepOf(s).attempt = worker[s].attempt /\ launched[r] = "started"
  <2>1. cut => Executes(s)
    BY DEF Executes, Works, StepPcs
  <2> QED BY <2>1, ExecutesKnows DEF StepOf
<1>5. ASSUME NEW q \in Runs PROVE RunOK(q)'
  <2>0. RunOK(q)
    BY DEF IInv
  <2>1. Requested(q)' /\ Honest(q)' /\ BackupsOK(q)'
    BY <1>0, <2>0 DEF RunOK, Requested, Honest, BackupsOK, Backed
  <2>2. Undoable(q)'
    <3>1. CASE cut /\ q = r
      <4>1. launched[q] # "no" /\ step[q]["release"].status = "running"
        BY <1>4, <3>1
      <4> QED BY <1>0, <2>0, <4>1 DEF RunOK, Undoable
    <3>2. CASE ~(cut /\ q = r)
      <4>1. launched'[q] = launched[q]
        BY <1>0, <3>2, Types
      <4> QED BY <1>0, <2>0, <4>1 DEF RunOK, Undoable
    <3> QED BY <3>1, <3>2
  <2> QED BY <2>1, <2>2 DEF RunOK
<1>6. ASSUME NEW q \in Runs PROVE Abandoned(q)'
  <2>1. \A t \in Servers : Works(t)' => t # s /\ Works(t) /\ worker'[t] = worker[t]
    BY <1>1, IdleRow DEF Moves, Works
  <2>2. CASE cut /\ q = r
    <3>1. ASSUME NEW t \in Servers \ {s}, Works(t), worker[t].run = q, worker[t].kind = "release"
          PROVE  FALSE
      BY <1>4, <2>2, <3>1, SoleClaim DEF Executes
    <3> QED BY <2>1, <3>1 DEF Abandoned
  <2>3. CASE ~(cut /\ q = r)
    <3>1. launched'[q] = launched[q]
      BY <1>0, <2>3, Types
    <3> QED BY <2>1, <3>1 DEF IInv, Abandoned
  <2> QED BY <2>2, <2>3
<1>7. ASSUME NEW t \in Servers \ {s} PROVE WorkerOK(t)'
  <2>1. ClaimKnown(t) /\ worker'[t] = worker[t]
    BY <1>1 DEF IInv, WorkerOK, Moves
  <2>2. Spares(t)
    BY <1>0, <2>1 DEF Spares, ClaimKnown, StepOf
  <2> QED BY <1>2, <1>3, <2>2, Spared
<1>8. TypeOK' /\ ClaimedOnce'
  BY <1>1, <1>2, LockKept, ClaimsKept DEF TypeOK, Moves
<1> QED BY <1>1, <1>5, <1>6, <1>7, <1>8 DEF IInv

------------------------------------------------------------------------------
(* The administrator's requests, and the rows of rollbacks.                *)

\* A run is requested: its steps wait, and nobody works on them yet.
LEMMA StartKeeps ==
    ASSUME IInv, NEW r \in Runs, Start(r)
    PROVE  IInv'
<1> DEFINE status(k) == IF k = "release" THEN "awaiting_confirmation" ELSE "pending"
           rows == [k \in Kinds |-> [step[r][k] EXCEPT !.status = status(k)]]
           row  == [run[r] EXCEPT !.status = "pending", !.safe = head]
<1>0. /\ run[r].status = "none" /\ run' = [run EXCEPT ![r] = row]
      /\ step' = [step EXCEPT ![r] = rows]
      /\ UNCHANGED <<rollback, worker>> /\ EnvUnchanged
  BY DEF Start
<1>1. /\ rows \in [Kinds -> StepRow]
      /\ \A k \in Kinds : rows[k].status = status(k) /\ rows[k].attempt = step[r][k].attempt
  <2>1. ASSUME NEW k \in Kinds
        PROVE  LET new == [step[r][k] EXCEPT !.status = status(k)]
               IN  new \in StepRow /\ new.status = status(k) /\ new.attempt = step[r][k].attempt
    <3>1. step[r][k] \in StepRow /\ status(k) \in StepStatus
      BY Types DEF StepStatus
    <3> QED BY <3>1, StatusRow
  <2> QED BY <2>1
<1>2. /\ row \in RunRow /\ row.status = "pending" /\ row.artifact = run[r].artifact
      /\ row.backup = run[r].backup /\ row.backupHash = run[r].backupHash
  BY Types DEF RunRow, RunStatus
<1> HIDE DEF rows, row
<1>3. /\ run' \in [Runs -> RunRow] /\ run'[r] = row
      /\ \A q \in Runs : q # r => run'[q] = run[q]
      /\ step' \in [Runs -> [Kinds -> StepRow]] /\ step'[r] = rows
      /\ \A q \in Runs : q # r => step'[q] = step[q]
  BY <1>0, <1>1, <1>2, Types
<1>4. RowsOK'
  BY <1>0, <1>3, Types DEF RowsOK, EnvUnchanged, ProjectUnchanged
<1>5. \A k \in Kinds : step[r][k].status = "none"
  BY <1>0 DEF IInv, RunOK, Requested
<1>6. Grows
  <2>1. \A q \in Runs, k \in Kinds : step[q][k].attempt \in Nat
    BY Types DEF StepRow
  <2>2. run'[r].backup = run[r].backup /\ run'[r].backupHash = run[r].backupHash
    BY <1>2, <1>3
  <2> QED BY <1>0, <1>1, <1>3, <1>5, <2>1, <2>2 DEF Grows, EnvUnchanged
<1>7. ASSUME NEW q \in Runs PROVE RunOK(q)'
  <2>0. RunOK(q) /\ UNCHANGED <<rollback, file, launched, history>>
    BY <1>0 DEF IInv, EnvUnchanged, ProjectUnchanged
  <2>1. Requested(q)' /\ Honest(q)'
    <3>1. CASE q = r
      BY <1>1, <1>2, <1>3, <3>1 DEF Requested, Honest
    <3>2. CASE q # r
      BY <1>3, <2>0, <3>2 DEF RunOK, Requested, Honest
    <3> QED BY <3>1, <3>2
  <2>2. \A p \in Runs : run'[p].backup = run[p].backup /\ run'[p].backupHash = run[p].backupHash
                        /\ run'[p].artifact = run[p].artifact
    BY <1>2, <1>3
  <2>3. \A p \in Runs, k \in Kinds : step'[p][k].status = "passed" => step[p][k].status = "passed"
    BY <1>1, <1>3
  <2>4. BackupsOK(q)'
    BY <2>0, <2>2, <2>3 DEF RunOK, BackupsOK, Backed
  <2>5. Undoable(q)'
    <3>1. CASE q = r
      <4>1. Undoable(r) /\ rollback[r].status = "none"
        BY <1>0 DEF IInv, RunOK, Requested
      <4> QED BY <1>5, <2>0, <3>1, <4>1 DEF Undoable
    <3>2. CASE q # r
      BY <1>3, <2>0, <3>2 DEF RunOK, Undoable
    <3> QED BY <3>1, <3>2
  <2> QED BY <2>1, <2>4, <2>5 DEF RunOK
<1>8. ASSUME NEW t \in Servers PROVE Spares(t)
  <2>1. /\ ClaimKnown(t) /\ worker'[t] = worker[t]
        /\ Works(t) => worker[t].run \in Runs \ {r} /\ worker[t].kind \in Kinds
    BY <1>0 DEF IInv, WorkerOK, Assigned, Works, StepPcs
  <2>2. Works(t) => step'[worker[t].run] = step[worker[t].run]
    BY <1>3, <2>1
  <2> QED BY <1>0, <2>1, <2>2 DEF Spares, ClaimKnown, StepOf, EnvUnchanged, ProjectUnchanged, Executes
<1> QED BY <1>0, <1>4, <1>6, <1>7, <1>8, RequestKeeps DEF EnvUnchanged, ProjectUnchanged

\* A release is confirmed.
LEMMA ConfirmKeeps ==
    ASSUME IInv, NEW r \in Runs, Confirm(r)
    PROVE  IInv'
<1> DEFINE row == [step[r]["release"] EXCEPT !.status = "pending"]
<1>0. /\ "release" \in Kinds /\ step[r]["release"].status = "awaiting_confirmation"
      /\ SetStep(r, "release", row) /\ UNCHANGED <<run, rollback, worker>> /\ EnvUnchanged
  BY DEF Confirm
<1>1. row \in StepRow /\ row.status = "pending" /\ row.attempt = step[r]["release"].attempt
  <2>1. step[r]["release"] \in StepRow /\ "pending" \in StepStatus
    BY <1>0, Types DEF StepStatus
  <2> QED BY <2>1, StatusRow
<1> HIDE DEF row
<1>2. launched[r] # "interrupted"
  BY <1>0 DEF IInv, RunOK, Undoable
<1>3. Undoable(r)'
  BY <1>0, <1>1, <1>2, RowUndoable DEF EnvUnchanged, ProjectUnchanged
<1>4. RowsOK' /\ Grows /\ \A q \in Runs : RunOK(q)'
  <2>1. step[r]["release"].attempt <= row.attempt
    BY <1>0, <1>1, Types DEF StepRow
  <2> QED BY <1>0, <1>1, <1>3, <2>1, RowGrows, Types
<1>5. ASSUME NEW t \in Servers PROVE Spares(t)
  <2>1. ~(worker[t].run = r /\ worker[t].kind = "release" /\ Works(t))
    BY <1>0 DEF IInv, WorkerOK, ClaimKnown, StepOf
  <2> QED BY <1>0, <1>1, <2>1, RowSpares DEF Executes
<1> QED BY <1>0, <1>4, <1>5, RequestKeeps DEF EnvUnchanged, ProjectUnchanged

\* A row of pipeline_rollbacks that is not monitoring changes, no worker moves.
LEMMA RollbackRequested ==
    ASSUME IInv, NEW r \in Runs, NEW row \in RollbackRow, rollback' = [rollback EXCEPT ![r] = row],
           UNCHANGED <<run, step, worker>>, EnvUnchanged, rollback[r].status \notin {"none", "monitoring"},
           row.status \notin {"none", "monitoring"}, row.expected = rollback[r].expected
    PROVE  IInv'
<1>1. run[r].status # "none" /\ recorded' \in Commits
  BY Types DEF IInv, RunOK, Requested, EnvUnchanged, ProjectUnchanged
<1>2. RowsOK' /\ Grows /\ \A q \in Runs : RunOK(q)'
  BY <1>1, RollbackGrows DEF EnvUnchanged, ProjectUnchanged
<1>3. \A t \in Servers : Spares(t)
  BY RollbackSpares DEF EnvUnchanged, ProjectUnchanged
<1> QED BY <1>2, <1>3, RequestKeeps DEF EnvUnchanged, ProjectUnchanged

\* ... or one worker does.
LEMMA RollbackStep ==
    ASSUME IInv, NEW r \in Runs, NEW row \in RollbackRow, rollback' = [rollback EXCEPT ![r] = row],
           UNCHANGED <<run, step, head, file, serving, launched, history, merges, crashes>>,
           recorded' \in Commits, rollback[r].status \notin {"none", "monitoring"},
           row.status \notin {"none", "monitoring"}, row.expected = rollback[r].expected,
           NEW s \in Servers, NEW w, Moves(s, w), LockFits(s, w), JobFits(s, w), WorkerOK(s)'
    PROVE  IInv'
<1>1. run[r].status # "none"
  BY DEF IInv, RunOK, Requested
<1>2. /\ RowsOK' /\ Grows /\ \A q \in Runs : RunOK(q)'
      /\ \A q \in Runs : launched'[q] = "interrupted" => launched[q] = "interrupted"
  BY <1>1, RollbackGrows
<1>3. \A t \in Servers \ {s} : Spares(t)
  BY RollbackSpares DEF Moves
<1> QED BY <1>2, <1>3, StepKeeps

\* A rollback's row that gets another status.
LEMMA RollbackRowOf ==
    ASSUME IInv, NEW r \in Runs, NEW status \in RollbackStatus, NEW overdue \in BOOLEAN
    PROVE  LET row == [rollback[r] EXCEPT !.status = status, !.overdue = overdue]
           IN  row \in RollbackRow /\ row.status = status /\ row.expected = rollback[r].expected
BY Types DEF RollbackRow

\* A rollback is confirmed, or found to be running for too long, or the lock
\* is refused to its claimant.
LEMMA RollbackRequestsKeep ==
    ASSUME IInv, NEW r \in Runs,
           \/ ConfirmRollback(r) \/ RollbackOverdue(r)
           \/ \E s \in Servers : RollbackLockRefused(s, r)
    PROVE  IInv'
<1>0. rollback[r] \in RollbackRow
  BY Types
<1>1. CASE ConfirmRollback(r) \/ \E s \in Servers : RollbackLockRefused(s, r)
  <2>1. PICK status \in {"pending", "failed"} :
           rollback' = [rollback EXCEPT ![r].status = status]
    BY <1>1 DEF ConfirmRollback, RollbackLockRefused
  <2> DEFINE row == [rollback[r] EXCEPT !.status = status]
  <2>2. row \in RollbackRow /\ row.status = status /\ row.expected = rollback[r].expected
    BY <1>0 DEF RollbackRow, RollbackStatus
  <2>3. rollback' = [rollback EXCEPT ![r] = row]
    BY <2>1
  <2> HIDE DEF row
  <2> QED BY <1>1, <2>2, <2>3, RollbackRequested DEF ConfirmRollback, RollbackLockRefused
<1>2. CASE RollbackOverdue(r)
  <2> DEFINE row == [rollback[r] EXCEPT !.overdue = TRUE]
  <2>1. row \in RollbackRow /\ row.status = rollback[r].status /\ row.expected = rollback[r].expected
    BY <1>0 DEF RollbackRow
  <2>2. /\ rollback' = [rollback EXCEPT ![r] = row] /\ rollback[r].status = "running"
        /\ UNCHANGED <<run, step, worker>> /\ EnvUnchanged
    BY <1>2 DEF RollbackOverdue
  <2> HIDE DEF row
  <2> QED BY <2>1, <2>2, RollbackRequested
<1> QED BY <1>1, <1>2

\* A confirmed rollback is claimed.
LEMMA ClaimRollbackKeeps ==
    ASSUME IInv, NEW s \in Servers, NEW r \in Runs, ClaimRollback(s, r)
    PROVE  IInv'
<1> DEFINE row == [rollback[r] EXCEPT !.status = "running", !.overdue = FALSE]
           w   == [Idle EXCEPT !.pc = "rollback_claimed", !.run = r]
<1>0. /\ rollback[r].status = "pending" /\ Become(s, w) /\ UNCHANGED <<run, step>> /\ EnvUnchanged
      /\ rollback' = [rollback EXCEPT ![r] = row]
  BY DEF ClaimRollback
<1>1. row \in RollbackRow /\ row.status = "running" /\ row.expected = rollback[r].expected
  BY RollbackRowOf DEF RollbackStatus
<1>2. w \in WorkerRow /\ w.pc = "rollback_claimed" /\ w.run = r /\ ~w.locked
  BY DEF Idle, WorkerRow, Pcs, Results, RunStatus
<1> HIDE DEF row, w
<1>3. run'[r].status # "none" /\ recorded' \in Commits
  BY <1>0, Types DEF IInv, RunOK, Requested, EnvUnchanged, ProjectUnchanged
<1>4. Moves(s, w) /\ WorkerOK(s)' /\ LockFits(s, w) /\ JobFits(s, w)
  BY <1>0, <1>2, <1>3, BecomeMoves, PickKnows
<1> QED BY <1>0, <1>1, <1>3, <1>4, RollbackStep DEF EnvUnchanged, ProjectUnchanged

\* What a worker at a rollback has.
LEMMA RollsKnows ==
    ASSUME IInv, NEW s \in Servers,
           worker[s].pc \in {"rollback_claimed", "rollback_git", "rollback_restore", "rollback_copy",
                             "rollback_restart", "rollback_ran", "rollback_recover"}
    PROVE  /\ worker[s].run \in Runs /\ run[worker[s].run].status # "none" /\ RollbackKnown(s)
           /\ worker[s].pc \notin {"rollback_claimed", "rollback_recover"} => worker[s].locked
BY DEF IInv, WorkerOK, Assigned, HoldsLock, LockedPcs

\* A rollback has ended, unless somebody else ended it.
LEMMA FinishRollbackKeeps ==
    ASSUME IInv, NEW s \in Servers, FinishRollback(s)
    PROVE  IInv'
<1> DEFINE r      == worker[s].run
           status == IF worker[s].result = "rolled_back" THEN "rolled_back" ELSE "failed"
           row    == [rollback[r] EXCEPT !.status = status, !.overdue = FALSE]
<1>0. /\ worker[s].pc = "rollback_ran" /\ Release(s)
      /\ UNCHANGED <<run, step, head, file, serving, launched, history, merges, crashes>>
      /\ IF rollback[r].status = "running"
         THEN /\ rollback' = [rollback EXCEPT ![r].overdue = FALSE, ![r].status = status]
              /\ recorded' = IF worker[s].result = "failed" THEN recorded ELSE run[r].safe
         ELSE UNCHANGED <<rollback, recorded>>
  BY DEF FinishRollback
<1>1. r \in Runs /\ run[r].status # "none"
  BY <1>0, RollsKnows
<1>2. /\ Moves(s, Idle) /\ LockFits(s, Idle) /\ JobFits(s, Idle) /\ WorkerOK(s)'
  BY <1>0, Gives
<1>3. CASE rollback[r].status = "running"
  <2>1. row \in RollbackRow /\ row.status = status /\ row.expected = rollback[r].expected
    <3>1. status \in RollbackStatus
      BY DEF RollbackStatus
    <3> HIDE DEF status
    <3> QED BY <1>1, <3>1, RollbackRowOf
  <2>2. rollback' = [rollback EXCEPT ![r] = row]
    <3>1. row = [rollback[r] EXCEPT !.overdue = FALSE, !.status = status]
      BY <1>1, Types DEF RollbackRow
    <3> QED BY <1>0, <1>3, <3>1
  <2>3. recorded' \in Commits
    BY <1>0, <1>1, <1>3, Types DEF RunRow
  <2>4. status \in {"rolled_back", "failed"}
    OBVIOUS
  <2> HIDE DEF row, status
  <2> QED BY <1>0, <1>1, <1>2, <1>3, <2>1, <2>2, <2>3, <2>4, RollbackStep
<1>4. CASE rollback[r].status # "running"
  BY <1>0, <1>4, Leaves DEF EnvUnchanged, ProjectUnchanged
<1> QED BY <1>3, <1>4

\* The recovery of a rollback fails it, unless it was started again.
LEMMA RecoverRollbackKeeps ==
    ASSUME IInv, NEW s \in Servers, RecoverRollback(s)
    PROVE  IInv'
<1> DEFINE r   == worker[s].run
           row == [rollback[r] EXCEPT !.status = "failed", !.overdue = FALSE]
<1>0. /\ worker[s].pc = "rollback_recover" /\ Release(s)
      /\ UNCHANGED <<run, step>> /\ EnvUnchanged
      /\ \/ rollback[r].status = "running" /\ rollback' = [rollback EXCEPT ![r] = row]
         \/ UNCHANGED rollback
  BY DEF RecoverRollback
<1>1. r \in Runs /\ recorded' \in Commits
  BY <1>0, RollsKnows, Types DEF EnvUnchanged, ProjectUnchanged
<1>2. Moves(s, Idle) /\ LockFits(s, Idle) /\ JobFits(s, Idle) /\ WorkerOK(s)'
  BY <1>0, Gives
<1>3. row \in RollbackRow /\ row.status = "failed" /\ row.expected = rollback[r].expected
  BY <1>1, RollbackRowOf DEF RollbackStatus
<1> HIDE DEF row
<1>4. CASE rollback[r].status = "running" /\ rollback' = [rollback EXCEPT ![r] = row]
  BY <1>0, <1>1, <1>2, <1>3, <1>4, RollbackStep DEF EnvUnchanged, ProjectUnchanged
<1>5. CASE UNCHANGED rollback
  BY <1>0, <1>5, Leaves
<1> QED BY <1>0, <1>4, <1>5

------------------------------------------------------------------------------
(* The command of a step: its backup, its guard, its end.                  *)

\* A row of pipeline_runs that a worker alone with the lock writes.
LEMMA RunRowKeeps ==
    ASSUME IInv, NEW s \in Servers, Executes(s), NEW r \in Runs, r = worker[s].run,
           NEW row \in RunRow, run' = [run EXCEPT ![r] = row],
           UNCHANGED <<step, rollback, head, recorded, serving, launched, history, merges, crashes>>,
           file' \in Contents,
           row.status = run[r].status, row.safe = run[r].safe,
           run[r].backupHash # "none" => row.backupHash # "none",
           run[r].backup # "none" => row.backup = run[r].backup,
           \A q \in Runs : BackupsOK(q)'
    PROVE  RowsOK' /\ Grows /\ \A q \in Runs : RunOK(q)'
<1>1. /\ run' \in [Runs -> RunRow] /\ run'[r] = row
      /\ \A q \in Runs : q # r => run'[q] = run[q]
  BY Types
<1>2. RowsOK'
  BY <1>1, Types DEF RowsOK
<1>3. Grows
  <2>1. \A q \in Runs, k \in Kinds : step[q][k].attempt \in Nat
    BY Types DEF StepRow
  <2> QED BY <1>1, <2>1 DEF Grows
<1>4. ASSUME NEW q \in Runs PROVE RunOK(q)'
  <2>0. RunOK(q) /\ run'[q].status = run[q].status
        /\ (run[q].backup # "none" => run'[q].backup # "none")
    BY <1>1 DEF IInv
  <2>1. Requested(q)' /\ Honest(q)'
    BY <2>0 DEF RunOK, Requested, Honest
  <2>2. Undoable(q)'
    BY <2>0 DEF RunOK, Undoable
  <2> QED BY <2>1, <2>2 DEF RunOK
<1> QED BY <1>2, <1>3, <1>4

\* A worker alone with the lock has moved with the project and its rows.
LEMMA JobKeeps ==
    ASSUME IInv, NEW s \in Servers, worker[s].locked \/ LockFree, NEW w, Moves(s, w),
           LockFits(s, w), JobFits(s, w), WorkerOK(s)', UNCHANGED step,
           RowsOK', Grows, \A q \in Runs : RunOK(q)',
           \A q \in Runs : launched'[q] = "interrupted" => launched[q] = "interrupted"
    PROVE  IInv'
<1>1. \A t \in Servers \ {s} : Spares(t)
  BY AloneSparesSteps DEF Moves
<1> QED BY <1>1, StepKeeps

\* What is deployed is none of the runs, and no artifact is called none.
LEMMA ArtifactNames ==
    /\ "none" \notin Contents
    /\ \A r \in Runs : r \notin {"none", "missing", "damaged"}
BY ArtifactAssumption DEF Contents

\* A build without a backup records what it is about to overwrite.
LEMMA RecordBackupHashKeeps ==
    ASSUME IInv, NEW s \in Servers, RecordBackupHash(s)
    PROVE  IInv'
<1> DEFINE w == worker'[s]
<1>0. /\ Executes(s) /\ worker[s].kind = "build" /\ UNCHANGED <<step, rollback, unread>>
      /\ ProjectUnchanged /\ worker[s].locked
  BY ExecutesKnows DEF RecordBackupHash, Executes, Works, StepPcs
<1>1. PICK r \in Runs : r = worker[s].run
  BY <1>0, ExecutesKnows
<1>2. CASE ~NeedsBackup(r) /\ Goto(s, "ready") /\ UNCHANGED <<run, unsaved>>
  <2>0. EnvUnchanged
    BY <1>0, <1>2 DEF EnvUnchanged
  <2>1. RowsOK' /\ Grows
    BY <1>0, <1>2, <2>0, RowsRest
  <2>2. Backed(r)'
    BY <1>2 DEF NeedsBackup, Backed
  <2>3. Moves(s, w) /\ WorkerOK(s)' /\ LockFits(s, w) /\ JobFits(s, w)
    BY <1>0, <1>1, <1>2, <2>1, <2>2, ReadyKnows DEF EnvUnchanged, ProjectUnchanged
  <2> QED BY <1>0, <1>2, <2>0, <2>3, WorkerMoves
<1>3. CASE NeedsBackup(r) /\ ~BackupAgrees(r) /\ EndWith(s, "ran", "environment_failure")
           /\ UNCHANGED <<run, unsaved>>
  <2>0. EnvUnchanged
    BY <1>0, <1>3 DEF EnvUnchanged
  <2>1. RowsOK' /\ Grows
    BY <1>0, <1>3, <2>0, RowsRest
  <2>2. Moves(s, w) /\ WorkerOK(s)' /\ LockFits(s, w) /\ JobFits(s, w)
    BY <1>0, <1>1, <1>3, <2>1, RanKnows
  <2> QED BY <1>0, <1>3, <2>0, <2>2, WorkerMoves
<1>4. CASE NeedsBackup(r) /\ BackupAgrees(r) /\ Goto(s, "copying")
           /\ run' = [run EXCEPT ![r].backupHash = file] /\ UNCHANGED unsaved
  <2> DEFINE row == [run[r] EXCEPT !.backupHash = file]
  <2>1. run[r] \in RunRow /\ file \in Contents /\ file # "none"
    BY Types, ArtifactNames
  <2>2. /\ row \in RunRow /\ row.status = run[r].status /\ row.safe = run[r].safe
        /\ row.artifact = run[r].artifact /\ row.backup = run[r].backup /\ row.backupHash = file
    BY <2>1 DEF RunRow
  <2>3. run' = [run EXCEPT ![r] = row]
    BY <1>4
  <2> HIDE DEF row
  <2>4. /\ run'[r] = row /\ \A q \in Runs : q # r => run'[q] = run[q]
    BY <2>2, <2>3, Types
  <2>5. run[r].backup = "none" /\ (r \in unsaved \/ ~Backed(r))
    BY <1>4 DEF NeedsBackup, Backed
  <2>6. ASSUME NEW q \in Runs PROVE BackupsOK(q)'
    <3>0. BackupsOK(q) /\ UNCHANGED <<step, file, unsaved>>
      BY <1>0, <1>4 DEF IInv, RunOK, EnvUnchanged, ProjectUnchanged
    <3>1. Backed(q)' <=> Backed(q)
      BY <2>2, <2>4, <3>0 DEF Backed
    <3>2. CASE q = r
      BY <2>2, <2>4, <2>5, <3>0, <3>1, <3>2 DEF BackupsOK
    <3>3. CASE q # r
      BY <2>2, <2>4, <3>0, <3>1, <3>3 DEF BackupsOK
    <3> QED BY <3>2, <3>3
  <2>7. RowsOK' /\ Grows /\ \A q \in Runs : RunOK(q)'
    BY <1>0, <1>1, <1>4, <2>1, <2>2, <2>3, <2>5, <2>6, RunRowKeeps DEF EnvUnchanged, ProjectUnchanged
  <2>8. run'[r].backupHash # "none"
    BY <2>1, <2>2, <2>4
  <2>9. Moves(s, w) /\ WorkerOK(s)' /\ LockFits(s, w) /\ JobFits(s, w)
    BY <1>0, <1>1, <1>4, <2>7, <2>8, ReadyKnows DEF EnvUnchanged, ProjectUnchanged
  <2> QED BY <1>0, <2>7, <2>9, JobKeeps DEF EnvUnchanged, ProjectUnchanged
<1>5. CASE NeedsBackup(r) /\ unsaved' = unsaved \cup {r} /\ Goto(s, "ready") /\ UNCHANGED run
  <2>1. RowsOK'
    BY <1>0, <1>5, Types DEF RowsOK, ProjectUnchanged
  <2>2. Grows
    <3>1. \A q \in Runs, k \in Kinds : step[q][k].attempt \in Nat
      BY Types DEF StepRow
    <3> QED BY <1>0, <1>5, <3>1 DEF Grows
  <2>3. ASSUME NEW q \in Runs PROVE RunOK(q)'
    BY <1>0, <1>5 DEF IInv, RunOK, Requested, Honest, BackupsOK, Backed, Undoable, ProjectUnchanged
  <2>4. Backed(r)'
    BY <1>5 DEF Backed
  <2>5. Moves(s, w) /\ WorkerOK(s)' /\ LockFits(s, w) /\ JobFits(s, w)
    BY <1>0, <1>1, <1>5, <2>1, <2>2, <2>4, ReadyKnows DEF ProjectUnchanged
  <2> QED BY <1>0, <2>1, <2>2, <2>3, <2>5, JobKeeps DEF ProjectUnchanged
<1> QED BY <1>1, <1>2, <1>3, <1>4, <1>5 DEF RecordBackupHash

\* The copy is in place and its path recorded, or not.
LEMMA CopyBackupKeeps ==
    ASSUME IInv, NEW s \in Servers, CopyBackup(s)
    PROVE  IInv'
<1> DEFINE w == worker'[s]
<1>0. /\ Executes(s) /\ UNCHANGED <<step, rollback>> /\ EnvUnchanged
      /\ worker[s].locked /\ worker[s].pc = "copying"
  BY ExecutesKnows DEF CopyBackup, Executes, Works, StepPcs
<1>1. PICK r \in Runs : r = worker[s].run
  BY <1>0, ExecutesKnows
<1>2. worker[s].kind = "build" /\ run[r].backupHash # "none"
  BY <1>0, <1>1, ExecutesKnows DEF BackupKnown
<1>3. CASE EndWith(s, "ran", "environment_failure") /\ UNCHANGED run
  <2>1. RowsOK' /\ Grows
    BY <1>0, <1>3, RowsRest
  <2>2. Moves(s, w) /\ WorkerOK(s)' /\ LockFits(s, w) /\ JobFits(s, w)
    BY <1>0, <1>1, <1>3, <2>1, RanKnows
  <2> QED BY <1>0, <1>3, <2>2, WorkerMoves
<1>4. CASE run' = [run EXCEPT ![r].backup = run[r].backupHash] /\ Goto(s, "ready")
  <2> DEFINE row == [run[r] EXCEPT !.backup = run[r].backupHash]
  <2>2. /\ row \in RunRow /\ row.status = run[r].status /\ row.safe = run[r].safe
        /\ row.artifact = run[r].artifact /\ row.backup = run[r].backupHash
        /\ row.backupHash = run[r].backupHash
    BY Types DEF RunRow
  <2>3. run' = [run EXCEPT ![r] = row]
    BY <1>4
  <2> HIDE DEF row
  <2>4. /\ run'[r] = row /\ \A q \in Runs : q # r => run'[q] = run[q]
    BY <2>2, <2>3, Types
  <2>5. run[r].backup # "none" => row.backup = run[r].backup
    BY <2>2 DEF IInv, RunOK, BackupsOK
  <2>6. ASSUME NEW q \in Runs PROVE BackupsOK(q)'
    <3>0. BackupsOK(q) /\ UNCHANGED <<step, file, unsaved>>
      BY <1>0 DEF IInv, RunOK, EnvUnchanged, ProjectUnchanged
    <3>1. Backed(q) => Backed(q)'
      BY <1>2, <2>2, <2>4, <3>0 DEF Backed
    <3>2. \A p \in Runs : run'[p].backupHash = run[p].backupHash /\ run'[p].artifact = run[p].artifact
      BY <2>2, <2>4
    <3>3. run'[q].backup \in {"none", run[q].backupHash}
      BY <2>2, <2>4, <3>0 DEF BackupsOK
    <3> QED BY <3>0, <3>1, <3>2, <3>3 DEF BackupsOK
  <2>7. RowsOK' /\ Grows /\ \A q \in Runs : RunOK(q)'
    BY <1>0, <1>1, <1>2, <2>2, <2>3, <2>5, <2>6, RunRowKeeps, Types DEF EnvUnchanged, ProjectUnchanged
  <2>8. Backed(r)'
    BY <1>2, <2>2, <2>4 DEF Backed
  <2>9. Moves(s, w) /\ WorkerOK(s)' /\ LockFits(s, w) /\ JobFits(s, w)
    BY <1>0, <1>1, <1>2, <1>4, <2>7, <2>8, ReadyKnows DEF EnvUnchanged, ProjectUnchanged
  <2> QED BY <1>0, <2>7, <2>9, JobKeeps DEF EnvUnchanged, ProjectUnchanged
<1> QED BY <1>1, <1>3, <1>4 DEF CopyBackup

\* Main and the artifact are what the run left, and the rollback is armed.
LEMMA ArmReleaseKeeps ==
    ASSUME IInv, NEW s \in Servers, ArmRelease(s)
    PROVE  IInv'
<1> DEFINE w == worker'[s]
<1>0. /\ Executes(s) /\ worker[s].kind = "release" /\ UNCHANGED <<run, step>> /\ EnvUnchanged
      /\ worker[s].locked
  BY ExecutesKnows DEF ArmRelease, Executes, Works, StepPcs
<1>1. PICK r \in Runs : r = worker[s].run
  BY <1>0, ExecutesKnows
<1>2. CASE EndWith(s, "ran", "environment_failure") /\ UNCHANGED rollback
  <2>1. RowsOK' /\ Grows
    BY <1>0, <1>2, RowsRest
  <2>2. Moves(s, w) /\ WorkerOK(s)' /\ LockFits(s, w) /\ JobFits(s, w)
    BY <1>0, <1>1, <1>2, <2>1, RanKnows
  <2> QED BY <1>0, <1>2, <2>2, WorkerMoves
<1>3. CASE /\ ReleaseValid(r)
           /\ rollback' = [rollback EXCEPT ![r] =
                 [status |-> "monitoring", expected |-> head, overdue |-> FALSE]]
           /\ Goto(s, "ready") \/ EndWith(s, "ran", "environment_failure")
  <2> DEFINE row == [status |-> "monitoring", expected |-> head, overdue |-> FALSE]
  <2>1. row \in RollbackRow /\ row.status = "monitoring" /\ row.expected = head /\ head # NoHead
    BY Types, BoundsAssumption DEF RollbackRow, RollbackStatus, NoHead, Commits
  <2>2. rollback' = [rollback EXCEPT ![r] = row]
    BY <1>3
  <2> HIDE DEF row
  <2>3. rollback'[r] = row
    BY <2>2, Types
  <2>4. step[r]["release"].status = "running" /\ run[r].status # "none"
    BY <1>0, <1>1, ExecutesKnows DEF StepOf
  <2>5. /\ RowsOK' /\ Grows /\ \A q \in Runs : RunOK(q)'
        /\ \A q \in Runs : launched'[q] = "interrupted" => launched[q] = "interrupted"
    BY <1>0, <2>1, <2>2, <2>4, RollbackGrows, Types DEF EnvUnchanged, ProjectUnchanged
  <2>6. head = run[r].safe /\ file = r
    BY <1>3, ArtifactNames DEF ReleaseValid, IInv, RunOK, BackupsOK
  <2>7. CASE Goto(s, "ready")
    <3>1. rollback'[r].status = "monitoring" /\ rollback'[r].expected = run[r].safe
      BY <2>1, <2>3, <2>6
    <3>2. Moves(s, w) /\ WorkerOK(s)' /\ LockFits(s, w) /\ JobFits(s, w)
      BY <1>0, <1>1, <2>5, <2>6, <2>7, <3>1, ReadyKnows DEF EnvUnchanged, ProjectUnchanged
    <3> QED BY <1>0, <2>5, <3>2, JobKeeps
  <2>8. CASE EndWith(s, "ran", "environment_failure")
    <3>1. Moves(s, w) /\ WorkerOK(s)' /\ LockFits(s, w) /\ JobFits(s, w)
      BY <1>0, <1>1, <2>5, <2>8, RanKnows
    <3> QED BY <1>0, <2>5, <3>1, JobKeeps
  <2> QED BY <1>3, <2>7, <2>8
<1> QED BY <1>1, <1>2, <1>3 DEF ArmRelease

\* A test.
LEMMA RunTestKeeps ==
    ASSUME IInv, NEW s \in Servers, RunTest(s)
    PROVE  IInv'
<1>0. /\ Executes(s) /\ worker[s].kind = "test"
      /\ UNCHANGED <<run, step, rollback>> /\ EnvUnchanged
  BY DEF RunTest, Executes, Works, StepPcs
<1>1. worker[s].run \in Runs /\ RowsOK' /\ Grows
  BY <1>0, ExecutesKnows, RowsRest
<1>2. LET w == worker'[s] IN Moves(s, w) /\ WorkerOK(s)' /\ LockFits(s, w) /\ JobFits(s, w)
  BY <1>0, <1>1, RanKnows DEF RunTest
<1> QED BY <1>0, <1>2, WorkerMoves

\* The project changes, and no row: what a run has built is where another
\* artifact is kept only if the run has its backup.
LEMMA ProjectMoves ==
    ASSUME IInv, UNCHANGED <<run, step, rollback, launched, history, crashes>>,
           head' \in Commits, recorded' \in Commits, file' \in Contents, serving' \in Contents,
           merges' \in 0 .. MaxMerges,
           \A r \in Runs : file' = r => Backed(r)
    PROVE  RowsOK' /\ Grows /\ \A r \in Runs : RunOK(r)'
<1>1. RowsOK'
  BY Types DEF RowsOK
<1>2. Grows
  <2>1. \A q \in Runs, k \in Kinds : step[q][k].attempt \in Nat
    BY Types DEF StepRow
  <2> QED BY <2>1 DEF Grows
<1>3. ASSUME NEW r \in Runs PROVE RunOK(r)'
  BY DEF IInv, RunOK, Requested, Honest, BackupsOK, Backed, Undoable
<1> QED BY <1>1, <1>2, <1>3

\* A build's command has ended.
LEMMA RunBuildKeeps ==
    ASSUME IInv, NEW s \in Servers, RunBuild(s)
    PROVE  IInv'
<1> DEFINE w == worker'[s]
<1>0. /\ Executes(s) /\ worker[s].kind = "build" /\ worker[s].pc = "ready" /\ worker[s].locked
      /\ UNCHANGED <<step, rollback, head, recorded, serving, launched, history, merges, crashes>>
  BY ExecutesKnows DEF RunBuild, Executes, Works, StepPcs
<1>1. PICK r \in Runs : r = worker[s].run
  BY <1>0, ExecutesKnows
<1>2. Backed(r)
  BY <1>0, <1>1, ExecutesKnows DEF BackupKnown
<1>3. r \in Contents /\ "damaged" \in Contents
  BY DEF Contents
<1>4. CASE file' = r /\ run' = [run EXCEPT ![r].artifact = r] /\ EndWith(s, "ran", "ok")
  <2> DEFINE row == [run[r] EXCEPT !.artifact = r]
  <2>1. /\ row \in RunRow /\ row.status = run[r].status /\ row.safe = run[r].safe
        /\ row.artifact = r /\ row.backup = run[r].backup
        /\ row.backupHash = run[r].backupHash
    BY Types DEF RunRow
  <2>2. run' = [run EXCEPT ![r] = row]
    BY <1>4
  <2> HIDE DEF row
  <2>3. /\ run'[r] = row /\ \A q \in Runs : q # r => run'[q] = run[q]
    BY <2>1, <2>2, Types
  <2>4. ASSUME NEW q \in Runs PROVE BackupsOK(q)' /\ (Backed(q) => Backed(q)')
    <3>0. BackupsOK(q) /\ UNCHANGED <<step, unsaved>>
      BY <1>0 DEF IInv, RunOK
    <3>1. \A p \in Runs : run'[p].backup = run[p].backup /\ run'[p].backupHash = run[p].backupHash
      BY <2>1, <2>3
    <3>2. Backed(q) => Backed(q)'
      BY <3>0, <3>1 DEF Backed
    <3>3. run'[q].artifact \in {"none", q}
      BY <2>1, <2>3, <3>0 DEF BackupsOK
    <3> QED BY <1>2, <1>4, <3>0, <3>1, <3>2, <3>3 DEF BackupsOK
  <2>5. RowsOK' /\ Grows /\ \A q \in Runs : RunOK(q)'
    <3>1. (\A q \in Runs : BackupsOK(q)') /\ file' \in Contents
      BY <1>3, <1>4, <2>4
    <3> QED BY <1>0, <1>1, <2>1, <2>2, <3>1, RunRowKeeps
  <2>6. Moves(s, w) /\ WorkerOK(s)' /\ LockFits(s, w) /\ JobFits(s, w)
    BY <1>0, <1>1, <1>2, <1>4, <2>4, <2>5, RanKnows
  <2> QED BY <1>0, <2>5, <2>6, JobKeeps
<1>5. ASSUME file' \in {file, r, "damaged"}, UNCHANGED run,
             NEW res \in {"environment_failure", "code_failure"}, EndWith(s, "ran", res)
      PROVE  IInv'
  <2>1. \A q \in Runs : file' = q => Backed(q)
    BY <1>2, <1>5, ArtifactNames DEF IInv, RunOK, BackupsOK
  <2>2. RowsOK' /\ Grows /\ \A q \in Runs : RunOK(q)'
    BY <1>0, <1>3, <1>5, <2>1, ProjectMoves, Types
  <2>3. Moves(s, w) /\ WorkerOK(s)' /\ LockFits(s, w) /\ JobFits(s, w)
    BY <1>0, <1>1, <1>5, <2>2, RanKnows
  <2> QED BY <1>0, <2>2, <2>3, JobKeeps
<1> QED BY <1>1, <1>4, <1>5 DEF RunBuild

\* The steps of a run have their order.
LEMMA BuildFirst == Rank("build") < Rank("release")
<1>1. /\ DOMAIN AllKinds = 1 .. 3 /\ AllKinds[1] = "test" /\ AllKinds[2] = "build"
      /\ AllKinds[3] = "release"
  BY DEF AllKinds
<1>2. Rank("build") = 2 /\ Rank("release") = 3
  BY <1>1 DEF Rank
<1> QED BY <1>2

\* A release's command has been started: it can be undone.
LEMMA RunReleaseKeeps ==
    ASSUME IInv, NEW s \in Servers, RunRelease(s)
    PROVE  IInv'
<1> DEFINE w == worker'[s]
<1>0. /\ Executes(s) /\ worker[s].kind = "release" /\ worker[s].pc = "ready" /\ worker[s].locked
      /\ UNCHANGED <<run, step, rollback, head, recorded, file, history, merges, crashes>>
      /\ serving' \in {serving, file}
  BY ExecutesKnows DEF RunRelease, Executes, Works, StepPcs
<1>1. PICK r \in Runs : r = worker[s].run
  BY <1>0, ExecutesKnows
<1>2. /\ "release" \in Kinds /\ step[r]["release"].status = "running"
      /\ rollback[r].status = "monitoring" /\ rollback[r].expected = run[r].safe
      /\ PriorPassed(r, "release")
  BY <1>0, <1>1, ExecutesKnows DEF StepOf, Guarded
<1>3. rollback[r].expected # NoHead
  BY <1>2, Types, BoundsAssumption DEF RunRow, Commits, NoHead
<1>4. run[r].backup # "none" \/ r \in unsaved
  <2>1. "build" \in Kinds /\ step[r]["build"].status = "passed"
    BY <1>2, BuildFirst, KindsAssumption DEF PriorPassed
  <2> QED BY <1>2, <2>1 DEF IInv, RunOK, BackupsOK, Backed
<1>5. launched' = [launched EXCEPT ![r] = "started"]
  BY <1>1 DEF RunRelease
<1>6. /\ launched' \in [Runs -> {"no", "started", "interrupted"}] /\ launched'[r] = "started"
      /\ \A q \in Runs : q # r => launched'[q] = launched[q]
  BY <1>5, Types
<1>7. RowsOK' /\ Grows
  <2>1. RowsOK'
    BY <1>0, <1>6, Types DEF RowsOK
  <2>2. \A q \in Runs, k \in Kinds : step[q][k].attempt \in Nat
    BY Types DEF StepRow
  <2> QED BY <1>0, <2>1, <2>2 DEF Grows
<1>8. ASSUME NEW q \in Runs PROVE RunOK(q)'
  <2>0. RunOK(q)
    BY DEF IInv
  <2>1. Requested(q)' /\ Honest(q)' /\ BackupsOK(q)'
    BY <1>0, <2>0 DEF RunOK, Requested, Honest, BackupsOK, Backed
  <2>2. Undoable(q)'
    BY <1>0, <1>2, <1>3, <1>4, <1>6, <2>0 DEF RunOK, Undoable
  <2> QED BY <2>1, <2>2 DEF RunOK
<1>9. PICK res \in {"ok", "environment_failure", "code_failure"} : EndWith(s, "ran", res)
  BY DEF RunRelease
<1>10. Moves(s, w) /\ WorkerOK(s)' /\ LockFits(s, w) /\ JobFits(s, w)
  BY <1>0, <1>1, <1>7, <1>9, RanKnows
<1> QED BY <1>0, <1>6, <1>7, <1>8, <1>10, JobKeeps

------------------------------------------------------------------------------
(* The work of a rollback.                                                 *)

\* A worker that rolls back goes on, with the lock.
LEMMA RollsOn ==
    ASSUME IInv, NEW s \in Servers, NEW w, Moves(s, w), worker[s].locked \/ LockFree,
           w.pc \in {"rollback_git", "rollback_restore", "rollback_copy", "rollback_restart",
                     "rollback_ran"},
           w.locked, w.run \in Runs, run'[w.run].status # "none", RollbackKnown(s)'
    PROVE  WorkerOK(s)' /\ LockFits(s, w) /\ JobFits(s, w)
BY DEF WorkerOK, Assigned, ClaimKnown, Owned, Executes, Works, BackupKnown, Guarded,
     StatusKnown, HoldsLock, LockedPcs, StepPcs, Moves, LockFits, JobFits

\* A worker at a rollback does something to the project and goes on.
LEMMA RollsKeep ==
    ASSUME IInv, NEW s \in Servers, worker[s].locked \/ LockFree, NEW w, Moves(s, w),
           w.pc \in {"rollback_git", "rollback_restore", "rollback_copy", "rollback_restart",
                     "rollback_ran"},
           w.locked, w.run \in Runs, run[w.run].status # "none", RollbackKnown(s)',
           UNCHANGED <<run, step, rollback, recorded, launched, history, merges, crashes>>,
           head' \in Commits, file' \in Contents, serving' \in Contents,
           \A r \in Runs : file' = r => Backed(r)
    PROVE  IInv'
<1>1. RowsOK' /\ Grows /\ \A r \in Runs : RunOK(r)'
  BY ProjectMoves, Types
<1>2. WorkerOK(s)' /\ LockFits(s, w) /\ JobFits(s, w)
  BY RollsOn
<1> QED BY <1>1, <1>2, JobKeeps

\* What is in place has its backup, before and after.
LEMMA FileBacked ==
    ASSUME IInv
    PROVE  \A r \in Runs : file = r => Backed(r)
BY DEF IInv, RunOK, BackupsOK

\* The lock is taken for a rollback that is still running.
LEMMA TakeRollbackLockKeeps ==
    ASSUME IInv, NEW s \in Servers, TakeRollbackLock(s)
    PROVE  IInv'
<1> DEFINE w == [worker[s] EXCEPT !.pc = "rollback_git", !.locked = TRUE]
<1>0. /\ worker[s].pc = "rollback_claimed" /\ LockFree
      /\ UNCHANGED <<run, step, rollback>> /\ EnvUnchanged
      /\ worker[s].run \in Runs /\ run[worker[s].run].status # "none"
  BY RollsKnows DEF TakeRollbackLock
<1>1. w \in WorkerRow /\ w.pc = "rollback_git" /\ w.locked /\ w.run = worker[s].run
  BY Types DEF WorkerRow, Pcs
<1> HIDE DEF w
<1>2. CASE Become(s, w)
  <2>1. Moves(s, w)
    BY <1>1, <1>2, BecomeMoves
  <2>2. RollbackKnown(s)'
    BY <1>1, <2>1 DEF RollbackKnown, Moves
  <2>3. WorkerOK(s)' /\ LockFits(s, w) /\ JobFits(s, w)
    BY <1>0, <1>1, <2>1, <2>2, RollsOn
  <2> QED BY <1>0, <2>1, <2>3, WorkerMoves
<1>3. CASE Release(s)
  BY <1>0, <1>3, Leaves
<1> QED BY <1>2, <1>3 DEF TakeRollbackLock, w

\* Main goes back to the safe commit.
LEMMA RollbackGitKeeps ==
    ASSUME IInv, NEW s \in Servers, RollbackGit(s)
    PROVE  IInv'
<1> DEFINE w == worker'[s]
<1>0. /\ worker[s].pc = "rollback_git" /\ worker[s].run \in Runs /\ worker[s].locked
      /\ run[worker[s].run].status # "none"
      /\ UNCHANGED <<run, step, rollback, recorded, file, serving, launched, history, merges, crashes>>
  BY RollsKnows DEF RollbackGit
<1>1. {"rollback_restore", "rollback_ran"} \subseteq Pcs /\ {"reset", "failed"} \subseteq Results
  BY DEF Pcs, Results
<1>2. CASE head' = run[worker[s].run].safe /\ EndWith(s, "rollback_restore", "reset")
  <2>1. /\ Moves(s, w) /\ w.pc = "rollback_restore" /\ w.run = worker[s].run /\ w.locked
    BY <1>0, <1>1, <1>2, EndWithMoves
  <2>2. RollbackKnown(s)'
    BY <1>0, <1>2, <2>1 DEF RollbackKnown
  <2>3. head' \in Commits
    BY <1>0, <1>2, Types DEF RunRow
  <2> HIDE DEF w
  <2> QED BY <1>0, <2>1, <2>2, <2>3, RollsKeep, FileBacked, Types
<1>3. CASE EndWith(s, "rollback_ran", "failed") /\ UNCHANGED head
  <2>1. /\ Moves(s, w) /\ w.pc = "rollback_ran" /\ w.run = worker[s].run /\ w.locked
        /\ w.result = "failed"
    BY <1>0, <1>1, <1>3, EndWithMoves
  <2>2. RollbackKnown(s)'
    BY <2>1 DEF RollbackKnown
  <2> HIDE DEF w
  <2> QED BY <1>0, <1>3, <2>1, <2>2, RollsKeep, FileBacked, Types
<1>4. CASE head' = run[worker[s].run].safe /\ EndWith(s, "rollback_ran", "failed")
  <2>1. /\ Moves(s, w) /\ w.pc = "rollback_ran" /\ w.run = worker[s].run /\ w.locked
        /\ w.result = "failed"
    BY <1>0, <1>1, <1>4, EndWithMoves
  <2>2. RollbackKnown(s)'
    BY <2>1 DEF RollbackKnown
  <2>3. head' \in Commits
    BY <1>0, <1>4, Types DEF RunRow
  <2> HIDE DEF w
  <2> QED BY <1>0, <2>1, <2>2, <2>3, RollsKeep, FileBacked, Types
<1> QED BY <1>2, <1>3, <1>4 DEF RollbackGit

\* The artifact is removed, if there is a backup.
LEMMA RemoveArtifactKeeps ==
    ASSUME IInv, NEW s \in Servers, RemoveArtifact(s)
    PROVE  IInv'
<1> DEFINE w == worker'[s]
<1>0. /\ worker[s].pc = "rollback_restore" /\ worker[s].run \in Runs /\ worker[s].locked
      /\ run[worker[s].run].status # "none" /\ head = run[worker[s].run].safe
      /\ UNCHANGED <<run, step, rollback, head, recorded, serving, launched, history, merges, crashes>>
  BY RollsKnows DEF RemoveArtifact, RollbackKnown
<1>1. {"rollback_copy", "rollback_ran"} \subseteq Pcs /\ "failed_after_reset" \in Results
  BY DEF Pcs, Results
<1>2. CASE run[worker[s].run].backup # "none" /\ file' = "missing" /\ Goto(s, "rollback_copy")
  <2>1. /\ Moves(s, w) /\ w.pc = "rollback_copy" /\ w.run = worker[s].run /\ w.locked
    BY <1>0, <1>1, <1>2, GotoMoves
  <2>2. RollbackKnown(s)'
    BY <1>0, <1>2, <2>1 DEF RollbackKnown
  <2>3. file' \in Contents /\ \A r \in Runs : file' # r
    BY <1>2, ArtifactNames DEF Contents
  <2> HIDE DEF w
  <2> QED BY <1>0, <2>1, <2>2, <2>3, RollsKeep, Types
<1>3. CASE EndWith(s, "rollback_ran", "failed_after_reset") /\ UNCHANGED file
  <2>1. /\ Moves(s, w) /\ w.pc = "rollback_ran" /\ w.run = worker[s].run /\ w.locked
        /\ w.result = "failed_after_reset"
    BY <1>0, <1>1, <1>3, EndWithMoves
  <2>2. RollbackKnown(s)'
    BY <2>1 DEF RollbackKnown
  <2> HIDE DEF w
  <2> QED BY <1>0, <1>3, <2>1, <2>2, RollsKeep, FileBacked, Types
<1> QED BY <1>2, <1>3 DEF RemoveArtifact

\* The backup is copied over it.
LEMMA RestoreArtifactKeeps ==
    ASSUME IInv, NEW s \in Servers, RestoreArtifact(s)
    PROVE  IInv'
<1> DEFINE w == worker'[s]
<1>0. /\ worker[s].pc = "rollback_copy" /\ worker[s].run \in Runs /\ worker[s].locked
      /\ run[worker[s].run].status # "none" /\ head = run[worker[s].run].safe
      /\ run[worker[s].run].backup # "none"
      /\ UNCHANGED <<run, step, rollback, head, recorded, serving, launched, history, merges, crashes>>
  BY RollsKnows DEF RestoreArtifact, RollbackKnown
<1>1. {"rollback_restart", "rollback_ran"} \subseteq Pcs /\ "failed_after_reset" \in Results
  BY DEF Pcs, Results
<1>2. CASE file' = run[worker[s].run].backup /\ Goto(s, "rollback_restart")
  <2>1. /\ Moves(s, w) /\ w.pc = "rollback_restart" /\ w.run = worker[s].run /\ w.locked
    BY <1>0, <1>1, <1>2, GotoMoves
  <2>2. RollbackKnown(s)'
    BY <1>0, <1>2, <2>1 DEF RollbackKnown
  <2>3. file' \in Contents
    BY <1>0, <1>2, Types DEF RunRow
  <2>4. \A r \in Runs : file' = r => Backed(r)
    BY <1>0, <1>2 DEF IInv, RunOK, BackupsOK
  <2> HIDE DEF w
  <2> QED BY <1>0, <2>1, <2>2, <2>3, <2>4, RollsKeep, Types
<1>3. CASE file' \in {"missing", "damaged"} /\ EndWith(s, "rollback_ran", "failed_after_reset")
  <2>1. /\ Moves(s, w) /\ w.pc = "rollback_ran" /\ w.run = worker[s].run /\ w.locked
        /\ w.result = "failed_after_reset"
    BY <1>0, <1>1, <1>3, EndWithMoves
  <2>2. RollbackKnown(s)'
    BY <2>1 DEF RollbackKnown
  <2>3. file' \in Contents /\ \A r \in Runs : file' # r
    BY <1>3, ArtifactNames DEF Contents
  <2> HIDE DEF w
  <2> QED BY <1>0, <2>1, <2>2, <2>3, RollsKeep, Types
<1> QED BY <1>2, <1>3 DEF RestoreArtifact

\* The application is started again from it.
LEMMA RestartKeeps ==
    ASSUME IInv, NEW s \in Servers, Restart(s)
    PROVE  IInv'
<1> DEFINE w == worker'[s]
<1>0. /\ worker[s].pc = "rollback_restart" /\ worker[s].run \in Runs /\ worker[s].locked
      /\ run[worker[s].run].status # "none" /\ head = run[worker[s].run].safe
      /\ run[worker[s].run].backup # "none" /\ file = run[worker[s].run].backup
      /\ UNCHANGED <<run, step, rollback, head, recorded, file, launched, history, merges, crashes>>
      /\ serving' \in {serving, file}
  BY RollsKnows DEF Restart, RollbackKnown
<1>1. "rollback_ran" \in Pcs /\ {"failed_after_reset", "rolled_back"} \subseteq Results
  BY DEF Pcs, Results
<1>2. PICK res \in {"failed_after_reset", "rolled_back"} :
         EndWith(s, "rollback_ran", res) /\ (res = "rolled_back" => serving' = file)
  BY DEF Restart
<1>3. /\ Moves(s, w) /\ w.pc = "rollback_ran" /\ w.run = worker[s].run /\ w.locked
      /\ w.result = res
  BY <1>0, <1>1, <1>2, EndWithMoves
<1>4. RollbackKnown(s)'
  BY <1>0, <1>2, <1>3 DEF RollbackKnown
<1>5. serving' \in Contents
  BY <1>0, Types
<1> HIDE DEF w
<1> QED BY <1>0, <1>3, <1>4, <1>5, RollsKeep, FileBacked, Types

\* A merge, while nobody works in the project.
LEMMA MergeKeeps ==
    ASSUME IInv, Merge
    PROVE  IInv'
<1>0. /\ LockFree /\ merges < MaxMerges /\ head < MaxMerges
      /\ head' = head + 1 /\ recorded' = head' /\ merges' = merges + 1
      /\ UNCHANGED <<run, step, rollback, file, serving, worker, launched, history, crashes>>
  BY DEF Merge
<1>1. head' \in Commits /\ merges' \in 0 .. MaxMerges
  BY <1>0, Types, BoundsAssumption DEF Commits
<1>2. RowsOK' /\ Grows /\ \A r \in Runs : RunOK(r)'
  BY <1>0, <1>1, ProjectMoves, FileBacked, Types
<1>3. ASSUME NEW t \in Servers PROVE Spares(t)
  <2>1. ClaimKnown(t) /\ ~worker[t].locked
    BY <1>0 DEF IInv, WorkerOK, LockFree
  <2> QED BY <1>0, <2>1 DEF Spares, ClaimKnown, StepOf
<1> QED BY <1>0, <1>2, <1>3, RequestKeeps

------------------------------------------------------------------------------
(* The invariant.                                                          *)

\* Nothing has been requested, nobody works, and Old is deployed.
LEMMA InitHolds == Init => IInv
<1> SUFFICES ASSUME Init PROVE IInv
  OBVIOUS
<1>1. TypeOK
  <2>1. [status |-> "none", safe |-> 0, artifact |-> "none", backupHash |-> "none",
         backup |-> "none"] \in RunRow
    BY BoundsAssumption DEF RunRow, RunStatus, Commits
  <2>2. [status |-> "none", attempt |-> 0] \in StepRow
    BY DEF StepRow, StepStatus
  <2>3. NoRollback \in RollbackRow
    BY DEF NoRollback, RollbackRow, RollbackStatus
  <2>4. RowsOK
    BY <2>1, <2>2, <2>3, BoundsAssumption DEF Init, RowsOK, Commits, Contents
  <2>5. worker \in [Servers -> WorkerRow] /\ LockOK
    BY IdleRow DEF Init, LockOK
  <2> QED BY <2>4, <2>5 DEF TypeOK
<1>2. ClaimedOnce /\ \A s \in Servers : WorkerOK(s)
  BY IdleRow DEF Init, ClaimedOnce, WorkerOK, Assigned, ClaimKnown, Owned, Executes, Works,
     BackupKnown, Guarded, StatusKnown, RollbackKnown, HoldsLock, LockedPcs, StepPcs
<1>3. ASSUME NEW r \in Runs PROVE RunOK(r) /\ Abandoned(r)
  <2>1. /\ run[r] = [status |-> "none", safe |-> 0, artifact |-> "none", backupHash |-> "none",
                     backup |-> "none"]
        /\ \A q \in Runs : run[q].backupHash = "none"
        /\ \A k \in Kinds : step[r][k].status = "none"
        /\ rollback[r].status = "none" /\ launched[r] = "no" /\ file \in {Old, "missing"}
    BY DEF Init, NoRollback
  <2>2. r # Old /\ r \notin {"none", "missing"}
    BY ArtifactAssumption
  <2> QED BY <2>1, <2>2 DEF RunOK, Requested, Honest, BackupsOK, Undoable, Abandoned
<1> QED BY <1>1, <1>2, <1>3 DEF IInv

\* Every step of the administrator, of a worker and of main keeps it.
LEMMA NextHolds == IInv /\ [Next]_vars => IInv'
<1> SUFFICES ASSUME IInv, [Next]_vars PROVE IInv'
  OBVIOUS
<1>1. ASSUME NEW r \in Runs, Start(r) \/ Confirm(r) \/ ConfirmRollback(r) \/ RollbackOverdue(r)
      PROVE  IInv'
  BY <1>1, StartKeeps, ConfirmKeeps, RollbackRequestsKeep
<1>2. ASSUME NEW s \in Servers, Scan(s) PROVE IInv'
  <2>1. PICK r \in Runs :
           \/ SelectInterruptedRollback(s, r) \/ ClaimRollback(s, r) \/ RollbackLockRefused(s, r)
           \/ \E k \in Kinds : SelectInterrupted(s, r, k) \/ Claim(s, r, k)
    BY <1>2 DEF Scan
  <2> QED BY <2>1, SelectInterruptedRollbackKeeps, ClaimRollbackKeeps, RollbackRequestsKeep,
             SelectInterruptedKeeps, ClaimKeeps
<1>3. ASSUME NEW s \in Servers, WaitForLock(s) PROVE IInv'
  BY <1>3, TakeStepLockKeeps, RecoverStepKeeps, RecoverReleaseKeeps, TakeRollbackLockKeeps,
     RecoverRollbackKeeps DEF WaitForLock
<1>4. ASSUME NEW s \in Servers, Work(s) PROVE IInv'
  <2>1. CASE \/ RecordBackupHash(s) \/ CopyBackup(s) \/ ArmRelease(s)
             \/ RunTest(s) \/ RunBuild(s) \/ RunRelease(s)
    BY <2>1, RecordBackupHashKeeps, CopyBackupKeeps, ArmReleaseKeeps, RunTestKeeps, RunBuildKeeps,
       RunReleaseKeeps
  <2>2. CASE FinishPassed(s) \/ FinishFailed(s) \/ RefreshRead(s) \/ RefreshWrite(s)
    BY <2>2, FinishPassedKeeps, FinishFailedKeeps, RefreshReadKeeps, RefreshWriteKeeps
  <2>3. CASE \/ RollbackGit(s) \/ RemoveArtifact(s) \/ RestoreArtifact(s) \/ Restart(s)
             \/ FinishRollback(s)
    BY <2>3, RollbackGitKeeps, RemoveArtifactKeeps, RestoreArtifactKeeps, RestartKeeps,
       FinishRollbackKeeps
  <2> QED BY <1>4, <2>1, <2>2, <2>3 DEF Work
<1>5. ASSUME NEW s \in Servers, LockRefused(s) \/ Crash(s) PROVE IInv'
  BY <1>5, LockRefusedKeeps, CrashKeeps
<1>6. CASE Merge
  BY <1>6, MergeKeeps
<1>7. CASE UNCHANGED vars
  BY <1>7 DEF IInv, TypeOK, RowsOK, LockOK, ClaimedOnce, WorkerOK, Assigned, HoldsLock, ClaimKnown,
     Owned, Executes, Works, StepOf, PriorPassed, BackupKnown, Backed, Guarded, StatusKnown,
     RollbackKnown, RunOK, Requested, Honest, BackupsOK, Undoable, Abandoned, vars
<1> QED BY <1>1, <1>2, <1>3, <1>4, <1>5, <1>6, <1>7 DEF Next

\* The invariant of the pipelines: what a worker knows of the rows and of the
\* project at each place of its job, and what the rows of a run know of each
\* other, holds in every reachable state.
THEOREM Invariance == Spec => []IInv
BY InitHolds, NextHolds, PTL DEF Spec

\* The rows, the project and the workers keep their types, and one worker at
\* most holds the project's lock.
THEOREM TypeCorrect == Spec => []TypeOK
<1>1. IInv => TypeOK
  BY DEF IInv
<1> QED BY <1>1, Invariance, PTL

\* A worker executes the attempt that the row says is running, from the lock
\* to the end of its transaction, although steps are claimed before the lock
\* is taken and recovered while a claimant waits for it.
THEOREM OwnershipHolds == Spec => []ExecutionOwnsItsAttempt
<1>1. IInv => ExecutionOwnsItsAttempt
  <2>1. ASSUME IInv, NEW s \in Servers, worker[s].pc \in {"executing", "copying", "ready", "ran"}
        PROVE  /\ StepOf(s).status = "running" /\ StepOf(s).attempt = worker[s].attempt
               /\ PriorPassed(worker[s].run, worker[s].kind)
    <3>1. Executes(s)
      BY <2>1 DEF Executes, Works, StepPcs
    <3> QED BY <2>1, <3>1, ExecutesKnows
  <2> QED BY <2>1 DEF ExecutionOwnsItsAttempt
<1> QED BY <1>1, Invariance, PTL

\* A release's command starts with main at the run's commit, the run's build
\* in place and the rollback armed, whatever other workers have done since.
THEOREM GuardHolds == Spec => []LaunchIsGuarded
<1>1. IInv => LaunchIsGuarded
  BY DEF IInv, WorkerOK, Guarded, LaunchIsGuarded
<1> QED BY <1>1, Invariance, PTL

\* A release that was started and has not passed can be undone, whatever
\* crashed since.
THEOREM UndoHolds == Spec => []LaunchedReleaseCanBeUndone
<1>1. IInv => LaunchedReleaseCanBeUndone
  BY DEF IInv, RunOK, Undoable, LaunchedReleaseCanBeUndone
<1> QED BY <1>1, Invariance, PTL

\* A run is reported passed or failed only when its steps have, although
\* refreshRun reads the steps and writes the run apart.
THEOREM StatusHolds == Spec => []RunStatusHonest
<1>1. IInv => RunStatusHonest
  BY DEF IInv, RunOK, Honest, RunStatusHonest
<1> QED BY <1>1, Invariance, PTL

\* A release whose worker died after its command had started is not started
\* again.
THEOREM NotRestarted == Spec => InterruptedReleaseNotRestarted
<1>1. ASSUME IInv, Next, NEW r \in Runs, launched[r] = "interrupted" PROVE launched'[r] = "interrupted"
  <2>1. CASE \E s \in Servers : RunRelease(s)
    <3>1. PICK s \in Servers : RunRelease(s)
      BY <2>1
    <3>2. Works(s) /\ worker[s].kind = "release"
      BY <3>1 DEF RunRelease, Works, StepPcs
    <3>3. worker[s].run # r
      BY <1>1, <3>2 DEF IInv, Abandoned
    <3> QED BY <1>1, <3>1, <3>3, Types DEF RunRelease
  <2>2. CASE \E s \in Servers : Crash(s)
    BY <1>1, <2>2, Types DEF Crash
  <2>3. CASE UNCHANGED launched
    BY <1>1, <2>3
  <2>4. ASSUME NEW s \in Servers, Scan(s) \/ WaitForLock(s) \/ LockRefused(s) PROVE UNCHANGED launched
    BY <2>4 DEF Scan, WaitForLock, LockRefused, SelectInterruptedRollback, ClaimRollback,
       RollbackLockRefused, SelectInterrupted, Claim, TakeStepLock, RecoverStep, RecoverRelease,
       TakeRollbackLock, RecoverRollback, EnvUnchanged, ProjectUnchanged
  <2>5. ASSUME NEW s \in Servers, Work(s) PROVE RunRelease(s) \/ UNCHANGED launched
    BY <2>5 DEF Work, RecordBackupHash, CopyBackup, ArmRelease, RunTest, RunBuild, FinishPassed,
       FinishFailed, RefreshRead, RefreshWrite, RollbackGit, RemoveArtifact, RestoreArtifact,
       Restart, FinishRollback, EnvUnchanged, ProjectUnchanged
  <2>6. ASSUME NEW q \in Runs, Start(q) \/ Confirm(q) \/ ConfirmRollback(q) \/ RollbackOverdue(q)
        PROVE  UNCHANGED launched
    BY <2>6 DEF Start, Confirm, ConfirmRollback, RollbackOverdue, EnvUnchanged, ProjectUnchanged
  <2>7. CASE Merge
    BY <2>3, <2>7 DEF Merge
  <2> QED BY <1>1, <2>1, <2>2, <2>3, <2>4, <2>5, <2>6, <2>7 DEF Next
<1>2. IInv /\ [Next]_vars => [\A r \in Runs : launched[r] = "interrupted" => launched'[r] = "interrupted"]_vars
  BY <1>1
<1> QED BY <1>2, Invariance, PTL DEF Spec, InterruptedReleaseNotRestarted

\* A rollback that is reported rolled back has the run's backup in place and
\* in service, a backup that is not the run's own build, and main and the
\* recorded commit are at the run's safe commit.
THEOREM RestoreHolds == Spec => RolledBackIsRestored
<1> DEFINE Ends(r) == rollback[r].status # "rolled_back" /\ rollback'[r].status = "rolled_back"
           Restored(r) == /\ file = run[r].backup /\ serving = run[r].backup
                          /\ file # r \/ r \in unsaved
                          /\ head = run[r].safe /\ recorded' = run[r].safe
<1>1. ASSUME IInv, NEW s \in Servers, FinishRollback(s), NEW r \in Runs, Ends(r) PROVE Restored(r)
  <2>1. /\ worker[s].pc = "rollback_ran" /\ worker[s].run \in Runs /\ RollbackKnown(s)
    BY <1>1, RollsKnows DEF FinishRollback
  <2>2. /\ r = worker[s].run /\ worker[s].result = "rolled_back" /\ recorded' = run[r].safe
    <3> DEFINE q == worker[s].run
               status == IF worker[s].result = "rolled_back" THEN "rolled_back" ELSE "failed"
               row == [rollback[q] EXCEPT !.overdue = FALSE, !.status = status]
    <3>1. rollback[q].status = "running" /\ rollback' = [rollback EXCEPT ![q] = row]
      BY <1>1 DEF FinishRollback
    <3>2. row.status = status
      BY <2>1, Types DEF RollbackRow
    <3> HIDE DEF row
    <3>3. r = q /\ status = "rolled_back"
      BY <1>1, <2>1, <3>1, <3>2, Types
    <3>4. recorded' = IF worker[s].result = "failed" THEN recorded ELSE run[q].safe
      BY <1>1, <3>1 DEF FinishRollback
    <3> QED BY <3>3, <3>4
  <2>3. /\ head = run[r].safe /\ run[r].backup # "none" /\ file = run[r].backup
        /\ serving = run[r].backup
    BY <2>1, <2>2 DEF RollbackKnown
  <2>4. run[r].backup # r \/ r \in unsaved
    BY <1>1, <2>3 DEF IInv, RunOK, BackupsOK
  <2> QED BY <2>2, <2>3, <2>4
<1>2. ASSUME IInv, NEW q \in Runs,
             OfferRollback(q) \/ (\E s \in Servers : ClaimRollback(s, q) \/ RollbackLockRefused(s, q))
             \/ ConfirmRollback(q) \/ RollbackOverdue(q),
             NEW r \in Runs
      PROVE  ~Ends(r)
  <2>1. CASE r # q
    BY <1>2, <2>1, Types DEF OfferRollback, ClaimRollback, RollbackLockRefused, ConfirmRollback,
       RollbackOverdue
  <2>2. CASE r = q
    BY <1>2, <2>2, Types DEF OfferRollback, ClaimRollback, RollbackLockRefused, ConfirmRollback,
       RollbackOverdue, RollbackRow
  <2> QED BY <2>1, <2>2
<1>3. ASSUME IInv, NEW s \in Servers, Scan(s), NEW r \in Runs PROVE ~Ends(r)
  <2>1. PICK q \in Runs :
           \/ SelectInterruptedRollback(s, q) \/ ClaimRollback(s, q) \/ RollbackLockRefused(s, q)
           \/ \E k \in Kinds : SelectInterrupted(s, q, k) \/ Claim(s, q, k)
    BY <1>3 DEF Scan
  <2>2. CASE UNCHANGED rollback
    BY <2>2
  <2> QED BY <1>2, <1>3, <2>1, <2>2 DEF SelectInterruptedRollback, SelectInterrupted, Claim
<1>4. ASSUME IInv, NEW s \in Servers, WaitForLock(s) \/ LockRefused(s), NEW r \in Runs PROVE ~Ends(r)
  <2>1. CASE UNCHANGED rollback
    BY <2>1
  <2>2. CASE RecoverRelease(s)
    <3>1. worker[s].run \in Runs
      BY <1>4, <2>2, WorksKnows DEF RecoverRelease
    <3> QED BY <1>2, <1>4, <2>1, <2>2, <3>1 DEF RecoverRelease
  <2>3. CASE RecoverRollback(s)
    <3>1. worker[s].run \in Runs
      BY <1>4, <2>3, RollsKnows DEF RecoverRollback
    <3> QED BY <1>4, <2>3, <3>1, Types DEF RecoverRollback, RollbackRow
  <2>4. CASE LockRefused(s)
    <3>1. worker[s].run \in Runs
      BY <1>4, <2>4, WorksKnows DEF LockRefused, Works, StepPcs
    <3>2. OfferRollback(worker[s].run) \/ UNCHANGED rollback
      BY <2>4 DEF LockRefused, RecordFailure
    <3> QED BY <1>2, <1>4, <2>1, <3>1, <3>2
  <2> QED BY <1>4, <2>1, <2>2, <2>3, <2>4 DEF WaitForLock, TakeStepLock, RecoverStep, TakeRollbackLock
<1>5. ASSUME IInv, NEW s \in Servers, Work(s), ~FinishRollback(s), NEW r \in Runs PROVE ~Ends(r)
  <2>1. CASE UNCHANGED rollback
    BY <2>1
  <2>2. CASE ArmRelease(s) \/ FinishPassed(s)
    <3>1. worker[s].run \in Runs
      BY <1>5, <2>2, WorksKnows DEF ArmRelease, FinishPassed, Works, StepPcs
    <3>2. PICK row \in RollbackRow :
             /\ row.status # "rolled_back"
             /\ UNCHANGED rollback \/ rollback' = [rollback EXCEPT ![worker[s].run] = row]
      <4>1. /\ NoRollback \in RollbackRow /\ NoRollback.status # "rolled_back"
            /\ [status |-> "monitoring", expected |-> head, overdue |-> FALSE] \in RollbackRow
        BY <1>5, Types DEF NoRollback, RollbackRow, RollbackStatus
      <4> QED BY <2>2, <4>1 DEF ArmRelease, FinishPassed
    <3> QED BY <1>5, <3>1, <3>2, Types
  <2>3. CASE FinishFailed(s)
    <3>1. worker[s].run \in Runs
      BY <1>5, <2>3, WorksKnows DEF FinishFailed, Works, StepPcs
    <3>2. OfferRollback(worker[s].run) \/ UNCHANGED rollback
      BY <2>3 DEF FinishFailed, RecordFailure
    <3> QED BY <1>2, <1>5, <2>1, <3>1, <3>2
  <2> QED BY <1>5, <2>1, <2>2, <2>3 DEF Work, RecordBackupHash, CopyBackup, RunTest, RunBuild,
         RunRelease, RefreshRead, RefreshWrite, RollbackGit, RemoveArtifact, RestoreArtifact, Restart
<1>6. ASSUME IInv, Next, NEW r \in Runs, Ends(r) PROVE Restored(r)
  <2>1. ASSUME UNCHANGED rollback PROVE FALSE
    BY <1>6, <2>1
  <2>2. ASSUME NEW q \in Runs, Start(q) \/ Confirm(q) \/ ConfirmRollback(q) \/ RollbackOverdue(q)
        PROVE  FALSE
    BY <1>2, <1>6, <2>1, <2>2 DEF Start, Confirm
  <2>3. ASSUME NEW s \in Servers, Crash(s) PROVE FALSE
    BY <2>1, <2>3 DEF Crash
  <2>4. CASE Merge
    BY <2>1, <2>4 DEF Merge
  <2> QED BY <1>1, <1>3, <1>4, <1>5, <1>6, <2>2, <2>3, <2>4 DEF Next
<1>7. IInv /\ [Next]_vars => [\A r \in Runs : Ends(r) => Restored(r)]_vars
  BY <1>6
<1> QED BY <1>7, Invariance, PTL DEF Spec, RolledBackIsRestored
=============================================================================
