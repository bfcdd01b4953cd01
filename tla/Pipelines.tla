------------------------------ MODULE Pipelines ------------------------------
(***************************************************************************)
(* The pipelines of one project (server/internal/pipelines): runs of       *)
(* test, build and release steps, the workers that execute them, the       *)
(* recovery of what an interrupted worker left running, and the confirmed  *)
(* rollback of a release.                                                  *)
(*                                                                         *)
(* Every server process has one worker goroutine, so a worker does one     *)
(* thing at a time; two processes interleave between their SQL statements  *)
(* and exclude each other only while they hold the project's file lock.    *)
(* A step is claimed BEFORE the lock is taken.                             *)
(*                                                                         *)
(* Time is a choice: a step may have been running for its timeout and 30 s *)
(* whenever it is running, a rollback becomes overdue an hour after it was *)
(* claimed, and the retry delay of a second is the scan's freedom to come  *)
(* late.  An artifact is known by the run that built it.                   *)
(***************************************************************************)
EXTENDS Naturals, FiniteSets

CONSTANTS Servers,      \* the processes, each with one pipeline worker
          Runs,         \* the identities of pipeline_runs
          Kinds,        \* the steps of a run, one of a kind
          Reversible,   \* the steps whose definition says reversible
          MaxAttempts,  \* max_attempts of each step
          Old,          \* the artifact deployed before the first run
          MaxMerges,    \* bound: merges into main
          MaxCrashes,   \* bound: crashes of a server
          MaxUnsaved,   \* bound: runs a build of which skips the backup
          MaxUnread     \* bound: runs whose status is written after a failed read

AllKinds == <<"test", "build", "release">>

Rank(k) == CHOOSE i \in DOMAIN AllKinds : AllKinds[i] = k

ASSUME KindsAssumption ==
    /\ Kinds \subseteq {"test", "build", "release"}
    /\ "release" \in Kinds => "build" \in Kinds
    /\ Reversible \subseteq Kinds
    /\ "release" \in Kinds => "release" \in Reversible
ASSUME BoundsAssumption ==
    /\ MaxAttempts \in [Kinds -> Nat \ {0}]
    /\ MaxMerges \in Nat
    /\ MaxCrashes \in Nat
    /\ MaxUnsaved \in Nat
    /\ MaxUnread \in Nat
ASSUME ArtifactAssumption ==
    {Old, "missing", "damaged", "none"} \cap Runs = {} /\ Old \notin {"missing", "damaged", "none"}

VARIABLES run,       \* pipeline_runs: status and what the run recorded
          step,      \* pipeline_steps of every run, by kind
          rollback,  \* pipeline_rollbacks, at most one row of a run
          head,      \* the commit main is at, counted along its history
          recorded,  \* projects.main_commit
          file,      \* the artifact in the project's directory
          serving,   \* the artifact the process manager last started
          worker,    \* what each server's worker is doing
          launched,  \* history: was the release's command started, did it end
          unsaved,   \* history: runs a build of which skipped the backup
          unread,    \* history: runs whose status was written after a failed read
          merges, crashes

history == <<unsaved, unread>>
vars == <<run, step, rollback, head, recorded, file, serving, worker,
          launched, history, merges, crashes>>

Contents == Runs \cup {Old, "missing", "damaged"}
NoHead   == MaxMerges + 1    \* expected_head = ''
Commits  == 0 .. MaxMerges

\* Mutant of Unfinished: a step that waits for its confirmation is forgotten.
UnfinishedUnlessWaiting == {"pending", "running"}
Unfinished == {"pending", "running", "awaiting_confirmation"}
Idle == [pc |-> "idle", run |-> "none", kind |-> "none", attempt |-> 0,
         result |-> "none", locked |-> FALSE]

NoRollback == [status |-> "none", expected |-> NoHead, overdue |-> FALSE]

LockedPcs == {"executing", "copying", "ready", "ran", "refresh", "write", "rollback_git",
              "rollback_restore", "rollback_copy", "rollback_restart", "rollback_ran"}
LockFree == \A s \in Servers : ~worker[s].locked

StepOf(s)    == step[worker[s].run][worker[s].kind]
PriorPassed(r, k) ==
    \A j \in Kinds : Rank(j) < Rank(k) => step[r][j].status = "passed"

------------------------------------------------------------------------------
(* Helpers that update one row or one worker.                              *)

SetStep(r, k, row)  == step' = [step EXCEPT ![r][k] = row]
Become(s, w)        == worker' = [worker EXCEPT ![s] = w]
\* Mutant of Release: the worker goes on without giving the lock back.
ReleaseButLock(s)   == Become(s, [Idle EXCEPT !.locked = worker[s].locked])
Release(s)          == Become(s, Idle)
Goto(s, pc)         == Become(s, [worker[s] EXCEPT !.pc = pc])
EndWith(s, pc, res) == Become(s, [worker[s] EXCEPT !.pc = pc, !.result = res])

\* Mutant of OfferRollback: the insert leaves an existing row alone.
OfferNewRollback(r) ==
    rollback' = [rollback EXCEPT ![r].status =
        IF @ = "none" THEN "awaiting_confirmation" ELSE @]

\* The upsert of a release that ends without success: a new row has no
\* expected head, a monitoring row keeps the head it was armed with, and a
\* row in another status is left alone.
OfferRollback(r) ==
    rollback' = IF rollback[r].status \in {"none", "monitoring"}
                THEN [rollback EXCEPT ![r].status = "awaiting_confirmation"]
                ELSE rollback

ProjectUnchanged == UNCHANGED <<head, recorded, file, serving, launched, merges, crashes>>
EnvUnchanged == ProjectUnchanged /\ UNCHANGED history

------------------------------------------------------------------------------
(* The administrator's requests.                                           *)

\* Service.Start behind its handler: main must be at the recorded commit,
\* which becomes the run's safe commit.
Start(r) ==
    /\ run[r].status = "none"
    /\ head = recorded
    /\ run' = [run EXCEPT ![r].status = "pending", ![r].safe = head]
    /\ step' = [step EXCEPT ![r] = [k \in Kinds |->
          [step[r][k] EXCEPT !.status =
              IF k = "release" THEN "awaiting_confirmation" ELSE "pending"]]]
    /\ UNCHANGED <<rollback, worker>> /\ EnvUnchanged

Confirm(r) ==
    /\ "release" \in Kinds
    /\ step[r]["release"].status = "awaiting_confirmation"
    /\ SetStep(r, "release", [step[r]["release"] EXCEPT !.status = "pending"])
    /\ UNCHANGED <<run, rollback, worker>> /\ EnvUnchanged

ConfirmRollback(r) ==
    /\ rollback[r].status \in {"awaiting_confirmation", "failed"}
    /\ rollback[r].expected # NoHead
    /\ rollback' = [rollback EXCEPT ![r].status = "pending"]
    /\ UNCHANGED <<run, step, worker>> /\ EnvUnchanged

------------------------------------------------------------------------------
(* Steps: claim, lock, execute, finish.                                    *)

\* A pending step whose predecessors have passed is claimed: running, one
\* attempt more, started now.
Claim(s, r, k) ==
    /\ worker[s].pc = "idle"
    /\ step[r][k].status = "pending"
    /\ PriorPassed(r, k)
    /\ LET n == step[r][k].attempt + 1
       IN  /\ SetStep(r, k, [status |-> "running", attempt |-> n])
           /\ Become(s, [Idle EXCEPT !.pc = "claimed", !.run = r, !.kind = k, !.attempt = n])
    /\ UNCHANGED <<run, rollback>> /\ EnvUnchanged

\* Mutant of SameClaim: the attempt is not compared.
SameStatus(s) == StepOf(s).status = "running"

\* Does the row still say what the worker claimed or picked?
SameClaim(s) == StepOf(s).status = "running" /\ StepOf(s).attempt = worker[s].attempt

\* With the lock the claim is read again: a row that is no longer running
\* this attempt is failed (failPipelineClaimChanged) instead of executed.
TakeStepLock(s) ==
    /\ worker[s].pc = "claimed"
    /\ LockFree
    /\ LET w == [worker[s] EXCEPT !.locked = TRUE]
       IN  \/ /\ SameClaim(s)
              /\ Become(s, [w EXCEPT !.pc = "executing"])
              /\ UNCHANGED step
           \/ /\ ~SameClaim(s) /\ StepOf(s).status = "running"
              /\ SetStep(w.run, w.kind, [StepOf(s) EXCEPT !.status = "failed"])
              /\ Become(s, [w EXCEPT !.pc = "refresh"])
           \/ /\ StepOf(s).status # "running"
              /\ Release(s)
              /\ UNCHANGED step
    /\ UNCHANGED <<run, rollback>> /\ EnvUnchanged

\* ensureBackup, first half: before a build overwrites the artifact its hash
\* is recorded; a retry finds the hash of an earlier attempt and must agree.
NeedsBackup(r) == "release" \in Kinds /\ run[r].backup = "none"
BackupAgrees(r) == file # "missing" /\ run[r].backupHash \in {"none", file}

\* runHasRelease drops the error of its query: when it fails, the run counts
\* as one without a release and the build goes ahead without a backup.
RecordBackupHash(s) ==
    LET r == worker[s].run IN
    /\ worker[s].pc = "executing" /\ worker[s].kind = "build"
    /\ \/ /\ ~NeedsBackup(r)
          /\ Goto(s, "ready")
          /\ UNCHANGED <<run, unsaved>>
       \/ /\ NeedsBackup(r) /\ Cardinality(unsaved) < MaxUnsaved
          /\ unsaved' = unsaved \cup {r}
          /\ Goto(s, "ready")
          /\ UNCHANGED run
       \/ /\ NeedsBackup(r) /\ BackupAgrees(r)
          /\ run' = [run EXCEPT ![r].backupHash = file]
          /\ Goto(s, "copying")
          /\ UNCHANGED unsaved
       \/ /\ NeedsBackup(r) /\ ~BackupAgrees(r)
          /\ EndWith(s, "ran", "environment_failure")
          /\ UNCHANGED <<run, unsaved>>
    /\ UNCHANGED <<step, rollback, unread>> /\ ProjectUnchanged

\* ensureBackup, second half: the verified copy is put in place and its path
\* recorded.
CopyBackup(s) ==
    LET r == worker[s].run IN
    /\ worker[s].pc = "copying"
    /\ \/ run' = [run EXCEPT ![r].backup = run[r].backupHash] /\ Goto(s, "ready")
       \/ EndWith(s, "ran", "environment_failure") /\ UNCHANGED run
    /\ UNCHANGED <<step, rollback>> /\ EnvUnchanged

\* validateRelease and armReleaseRollback: main is at the safe commit, the
\* artifact is the one this run built, and the rollback's row is written in
\* `monitoring' with the head it expects; then the process manager's path is
\* compared with the artifact's.  A dirty worktree, another branch or a
\* changed definition fail it as well.
\* Mutant of ReleaseValid: the artifact's hash is not compared.
ReleaseAtSafe(r) == head = run[r].safe /\ run[r].artifact # "none"

ReleaseValid(r) ==
    /\ head = run[r].safe
    /\ run[r].artifact # "none" /\ file = run[r].artifact
ArmAllowed(r) ==
    \/ rollback[r].status = "none"
    \/ rollback[r].status = "monitoring" /\ rollback[r].expected \in {NoHead, head}

ArmRelease(s) ==
    LET r == worker[s].run IN
    /\ worker[s].pc = "executing" /\ worker[s].kind = "release"
    /\ \/ /\ ReleaseValid(r) /\ ArmAllowed(r)
          /\ rollback' = [rollback EXCEPT ![r] =
                [status |-> "monitoring", expected |-> head, overdue |-> FALSE]]
          /\ \/ Goto(s, "ready")
             \/ EndWith(s, "ran", "environment_failure")
       \/ EndWith(s, "ran", "environment_failure") /\ UNCHANGED rollback
    /\ UNCHANGED <<run, step>> /\ EnvUnchanged

\* The step's command; a test has nothing to prepare.  A build that fails may have replaced or damaged the
\* artifact; the hash of a successful one is recorded.
RunTest(s) ==
    /\ worker[s].pc = "executing" /\ worker[s].kind = "test"
    /\ \E res \in {"ok", "environment_failure", "code_failure"} : EndWith(s, "ran", res)
    /\ UNCHANGED <<run, step, rollback>> /\ EnvUnchanged

RunBuild(s) ==
    LET r == worker[s].run IN
    /\ worker[s].pc = "ready" /\ worker[s].kind = "build"
    /\ \/ /\ file' = r
          /\ run' = [run EXCEPT ![r].artifact = r]
          /\ EndWith(s, "ran", "ok")
       \/ /\ file' \in {file, r, "damaged"}
          /\ \E res \in {"environment_failure", "code_failure"} : EndWith(s, "ran", res)
          /\ UNCHANGED run
    /\ UNCHANGED <<step, rollback, head, recorded, serving, launched, history, merges, crashes>>

\* The release's command restarts the application; a failed health check is
\* an environment failure.
RunRelease(s) ==
    LET r == worker[s].run IN
    /\ worker[s].pc = "ready" /\ worker[s].kind = "release"
    /\ launched' = [launched EXCEPT ![r] = "started"]
    /\ \/ serving' = file /\ EndWith(s, "ran", "ok")
       \/ /\ serving' \in {serving, file}
          /\ \E res \in {"environment_failure", "code_failure"} : EndWith(s, "ran", res)
    /\ UNCHANGED <<run, step, rollback, head, recorded, file, history, merges, crashes>>

\* finish after success.  A release that passed takes its monitoring row
\* away; without that row, or when the step is not running any more, the
\* transaction is abandoned.
FinishPassed(s) ==
    LET w == worker[s]
        isRelease == w.kind = "release"
    IN
    /\ w.pc = "ran" /\ w.result = "ok"
    /\ IF StepOf(s).status = "running" /\ (isRelease => rollback[w.run].status = "monitoring")
       THEN /\ SetStep(w.run, w.kind, [StepOf(s) EXCEPT !.status = "passed"])
            /\ rollback' = IF isRelease THEN [rollback EXCEPT ![w.run] = NoRollback]
                           ELSE rollback
            /\ Goto(s, "refresh")
       ELSE Release(s) /\ UNCHANGED <<step, rollback>>
    /\ UNCHANGED run /\ EnvUnchanged

\* finish after a failure: another attempt if the failure is not the code's,
\* the step is reversible and the claim's attempt was not the last.
Retries(w) == /\ w.result = "environment_failure"
              /\ w.kind \in Reversible
              /\ w.attempt < MaxAttempts[w.kind]

RecordFailure(s, w) ==
    /\ Become(s, [w EXCEPT !.pc = "refresh"])
    /\ \/ /\ Retries(w)
          /\ SetStep(w.run, w.kind, [StepOf(s) EXCEPT !.status = "pending"])
          /\ UNCHANGED rollback
       \/ /\ ~Retries(w)
          /\ SetStep(w.run, w.kind, [StepOf(s) EXCEPT !.status = "failed"])
          /\ IF w.kind = "release" THEN OfferRollback(w.run) ELSE UNCHANGED rollback

FinishFailed(s) ==
    LET w == worker[s] IN
    /\ w.pc = "ran" /\ w.result # "ok"
    /\ IF StepOf(s).status = "running" THEN RecordFailure(s, w)
       ELSE Release(s) /\ UNCHANGED <<step, rollback>>
    /\ UNCHANGED run /\ EnvUnchanged

\* The lock's directory or file is refused, which shows right after the
\* claim: the attempt fails without the lock.
LockRefused(s) ==
    LET w == [worker[s] EXCEPT !.result = "environment_failure"] IN
    /\ w.pc = "claimed"
    /\ StepOf(s).status = "running" /\ StepOf(s).attempt = w.attempt
    /\ RecordFailure(s, w)
    /\ UNCHANGED run /\ EnvUnchanged

\* refreshRun: the steps are read, then the status computed from them is
\* written without a condition.  The error of the read is dropped: its counts
\* stay zero, and what has nothing unfinished and nothing failed has passed.
ComputedStatus(r) ==
    IF \E k \in Kinds : step[r][k].status = "failed" THEN "failed"
    ELSE IF \E k \in Kinds : step[r][k].status \in Unfinished THEN "running"
    ELSE "passed"

RefreshRead(s) ==
    /\ worker[s].pc = "refresh"
    /\ \/ EndWith(s, "write", ComputedStatus(worker[s].run))
       \/ Cardinality(unread) < MaxUnread /\ EndWith(s, "write", "unread")
    /\ UNCHANGED <<run, step, rollback>> /\ EnvUnchanged

RefreshWrite(s) ==
    LET r == worker[s].run IN
    /\ worker[s].pc = "write"
    /\ \/ /\ worker[s].result = "unread"
          /\ run' = [run EXCEPT ![r].status = "passed"]
          /\ unread' = unread \cup {r}
       \/ /\ worker[s].result # "unread"
          /\ run' = [run EXCEPT ![r].status = worker[s].result]
          /\ unread' = unread \ {r}
    /\ Release(s)
    /\ UNCHANGED <<step, rollback, unsaved>> /\ ProjectUnchanged

------------------------------------------------------------------------------
(* Recovery of interrupted steps.                                          *)

\* The scan picks a step that has been running for its timeout and 30 s,
\* then waits for the lock.
\* Mutant of SelectInterrupted: builds are not looked for.
SelectUnlessBuild(s, r, k) ==
    /\ worker[s].pc = "idle"
    /\ step[r][k].status = "running" /\ k # "build"
    /\ Become(s, [Idle EXCEPT !.pc = "recover", !.run = r, !.kind = k,
                              !.attempt = step[r][k].attempt])
    /\ UNCHANGED <<run, step, rollback>> /\ EnvUnchanged

SelectInterrupted(s, r, k) ==
    /\ worker[s].pc = "idle"
    /\ step[r][k].status = "running"
    /\ Become(s, [Idle EXCEPT !.pc = "recover", !.run = r, !.kind = k,
                              !.attempt = step[r][k].attempt])
    /\ UNCHANGED <<run, step, rollback>> /\ EnvUnchanged

\* A test or build must still be the attempt that was picked: it is retried
\* while its budget lasts, whatever its reversibility, and failed otherwise.
RecoverStep(s) ==
    LET w == worker[s] IN
    /\ w.pc = "recover" /\ w.kind # "release"
    /\ LockFree
    /\ \/ /\ SameClaim(s) /\ w.attempt < MaxAttempts[w.kind]
          /\ SetStep(w.run, w.kind, [StepOf(s) EXCEPT !.status = "pending"])
          /\ Release(s)
       \/ /\ SameClaim(s) /\ w.attempt >= MaxAttempts[w.kind]
          /\ SetStep(w.run, w.kind, [StepOf(s) EXCEPT !.status = "failed"])
          /\ Become(s, [w EXCEPT !.pc = "refresh", !.locked = TRUE])
       \/ /\ ~SameClaim(s)
          /\ Release(s)
          /\ UNCHANGED step
    /\ UNCHANGED <<run, rollback>> /\ EnvUnchanged

\* A release is not retried: it fails and its rollback is offered.  Neither
\* the attempt nor the start is compared with what was picked.
\* Mutant of RecoverRelease: it is retried like any other step.
RetryRelease(s) ==
    LET w == worker[s] IN
    /\ w.pc = "recover" /\ w.kind = "release"
    /\ LockFree
    /\ IF SameClaim(s)
       THEN SetStep(w.run, w.kind, [StepOf(s) EXCEPT !.status = "pending"])
       ELSE UNCHANGED step
    /\ Release(s)
    /\ UNCHANGED <<run, rollback>> /\ EnvUnchanged

RecoverRelease(s) ==
    LET w == worker[s] IN
    /\ w.pc = "recover" /\ w.kind = "release"
    /\ LockFree
    /\ \/ /\ StepOf(s).status = "running"
          /\ SetStep(w.run, w.kind, [StepOf(s) EXCEPT !.status = "failed"])
          /\ OfferRollback(w.run)
          /\ Become(s, [w EXCEPT !.pc = "refresh", !.locked = TRUE])
       \/ /\ StepOf(s).status # "running"
          /\ Release(s)
          /\ UNCHANGED <<step, rollback>>
    /\ UNCHANGED run /\ EnvUnchanged

------------------------------------------------------------------------------
(* Rollbacks.                                                              *)

ClaimRollback(s, r) ==
    /\ worker[s].pc = "idle"
    /\ rollback[r].status = "pending"
    /\ rollback' = [rollback EXCEPT ![r].status = "running", ![r].overdue = FALSE]
    /\ Become(s, [Idle EXCEPT !.pc = "rollback_claimed", !.run = r])
    /\ UNCHANGED <<run, step>> /\ EnvUnchanged

\* The lock is refused right after the claim.
RollbackLockRefused(s, r) ==
    /\ worker[s].pc = "idle"
    /\ rollback[r].status = "pending"
    /\ rollback' = [rollback EXCEPT ![r].status = "failed"]
    /\ UNCHANGED <<run, step, worker>> /\ EnvUnchanged

\* With the lock the row is read again: one that is not running any more has
\* been ended by somebody else.  The other fields that are compared never
\* change while a rollback runs.
TakeRollbackLock(s) ==
    LET w == worker[s] IN
    /\ w.pc = "rollback_claimed"
    /\ LockFree
    /\ \/ /\ rollback[w.run].status = "running"
          /\ Become(s, [w EXCEPT !.pc = "rollback_git", !.locked = TRUE])
       \/ /\ rollback[w.run].status # "running"
          /\ Release(s)
    /\ UNCHANGED <<run, step, rollback>> /\ EnvUnchanged

\* rollbackGit: main goes back to the safe commit only from the expected
\* head, and stays where it is when it is there already.  A failure after the
\* reset, of the verification of the head or of the worktree, counts as none.
ResetAllowed(r) ==
    /\ rollback[r].expected # NoHead
    /\ head \in {rollback[r].expected, run[r].safe}
    /\ run[r].safe <= rollback[r].expected

RollbackGit(s) ==
    LET w == worker[s] IN
    /\ w.pc = "rollback_git"
    /\ \/ /\ ResetAllowed(w.run)
          /\ head' = run[w.run].safe
          /\ EndWith(s, "rollback_restore", "reset") \/ EndWith(s, "rollback_ran", "failed")
       \/ /\ EndWith(s, "rollback_ran", "failed")
          /\ UNCHANGED head
    /\ UNCHANGED <<run, step, rollback, recorded, file, serving, launched, history, merges, crashes>>

\* restoreBackup: the artifact is removed, then the backup copied over it.  It
\* is left alone when there is no backup or its hash is not the recorded one.
RemoveArtifact(s) ==
    LET w == worker[s] IN
    /\ w.pc = "rollback_restore"
    /\ \/ /\ run[w.run].backup # "none"
          /\ file' = "missing"
          /\ Goto(s, "rollback_copy")
       \/ /\ EndWith(s, "rollback_ran", "failed_after_reset")
          /\ UNCHANGED file
    /\ UNCHANGED <<run, step, rollback, head, recorded, serving, launched, history, merges, crashes>>

\* Mutant of RestoreArtifact: the copy is not verified.
RestoreUnverified(s) ==
    /\ worker[s].pc = "rollback_copy"
    /\ file' \in {run[worker[s].run].backup, "damaged"}
    /\ Goto(s, "rollback_restart")
    /\ UNCHANGED <<run, step, rollback, head, recorded, serving, launched, history, merges, crashes>>

RestoreArtifact(s) ==
    LET w == worker[s] IN
    /\ w.pc = "rollback_copy"
    /\ \/ file' = run[w.run].backup /\ Goto(s, "rollback_restart")
       \/ file' \in {"missing", "damaged"} /\ EndWith(s, "rollback_ran", "failed_after_reset")
    /\ UNCHANGED <<run, step, rollback, head, recorded, serving, launched, history, merges, crashes>>

\* The application is restarted and its health checked.
Restart(s) ==
    /\ worker[s].pc = "rollback_restart"
    /\ \/ serving' = file /\ EndWith(s, "rollback_ran", "rolled_back")
       \/ serving' \in {serving, file} /\ EndWith(s, "rollback_ran", "failed_after_reset")
    /\ UNCHANGED <<run, step, rollback, head, recorded, file, launched, history, merges, crashes>>

\* finishClaimedRollback: one transaction that also records main's commit
\* when Git was reset; it is abandoned when the row is not running any more.
FinishRollback(s) ==
    LET w == worker[s]
        r == w.run
    IN
    /\ w.pc = "rollback_ran"
    /\ Release(s)
    /\ IF rollback[r].status = "running"
       THEN /\ rollback' = [rollback EXCEPT ![r].overdue = FALSE, ![r].status =
                  IF w.result = "rolled_back" THEN "rolled_back" ELSE "failed"]
            /\ recorded' = IF w.result = "failed" THEN recorded ELSE run[r].safe
       ELSE UNCHANGED <<rollback, recorded>>
    /\ UNCHANGED <<run, step, head, file, serving, launched, history, merges, crashes>>

SelectInterruptedRollback(s, r) ==
    /\ worker[s].pc = "idle"
    /\ rollback[r].status = "running" /\ rollback[r].overdue
    /\ Become(s, [Idle EXCEPT !.pc = "rollback_recover", !.run = r])
    /\ UNCHANGED <<run, step, rollback>> /\ EnvUnchanged

\* The row fails and needs another confirmation; one that was started again
\* less than an hour ago is left to its worker.
RecoverRollback(s) ==
    LET w == worker[s] IN
    /\ w.pc = "rollback_recover"
    /\ LockFree
    /\ Release(s)
    /\ rollback' = IF rollback[w.run].status = "running" /\ rollback[w.run].overdue
                   THEN [rollback EXCEPT ![w.run].status = "failed", ![w.run].overdue = FALSE]
                   ELSE rollback
    /\ UNCHANGED <<run, step>> /\ EnvUnchanged

------------------------------------------------------------------------------
(* What happens around the workers.                                        *)

RollbackOverdue(r) ==
    /\ rollback[r].status = "running" /\ ~rollback[r].overdue
    /\ rollback' = [rollback EXCEPT ![r].overdue = TRUE]
    /\ UNCHANGED <<run, step, worker>> /\ EnvUnchanged

\* A merge request is merged into main under the same lock.
Merge ==
    /\ merges < MaxMerges
    /\ LockFree
    /\ head < MaxMerges
    /\ head' = head + 1
    /\ recorded' = head'
    /\ merges' = merges + 1
    /\ UNCHANGED <<run, step, rollback, file, serving, worker, launched, history, crashes>>

\* The process dies or is closed: its transaction in progress never commits,
\* its lock is free, its rows stay as they are.  It starts again at once.
Crash(s) ==
    /\ crashes < MaxCrashes
    /\ worker[s].pc # "idle"
    /\ crashes' = crashes + 1
    /\ launched' = IF worker[s].kind = "release" /\ worker[s].pc = "ran"
                      /\ launched[worker[s].run] = "started"
                   THEN [launched EXCEPT ![worker[s].run] = "interrupted"]
                   ELSE launched
    /\ Release(s)
    /\ UNCHANGED <<run, step, rollback, head, recorded, file, serving, history, merges>>

------------------------------------------------------------------------------
Init ==
    /\ run = [r \in Runs |-> [status |-> "none", safe |-> 0, artifact |-> "none",
                              backupHash |-> "none", backup |-> "none"]]
    /\ step = [r \in Runs |-> [k \in Kinds |->
                              [status |-> "none", attempt |-> 0]]]
    /\ rollback = [r \in Runs |-> NoRollback]
    /\ head = 0 /\ recorded = 0
    /\ file \in {Old, "missing"}
    /\ serving = Old
    /\ worker = [s \in Servers |-> Idle]
    /\ launched = [r \in Runs |-> "no"]
    /\ unsaved = {} /\ unread = {}
    /\ merges = 0 /\ crashes = 0

WaitForLock(s) == TakeStepLock(s) \/ RecoverStep(s) \/ RecoverRelease(s)
                  \/ TakeRollbackLock(s) \/ RecoverRollback(s)

Work(s) ==
    \/ RecordBackupHash(s) \/ CopyBackup(s) \/ ArmRelease(s)
    \/ RunTest(s) \/ RunBuild(s) \/ RunRelease(s)
    \/ FinishPassed(s) \/ FinishFailed(s) \/ RefreshRead(s) \/ RefreshWrite(s)
    \/ RollbackGit(s) \/ RemoveArtifact(s) \/ RestoreArtifact(s) \/ Restart(s)
    \/ FinishRollback(s)

Scan(s) ==
    \E r \in Runs :
        \/ SelectInterruptedRollback(s, r)
        \/ ClaimRollback(s, r) \/ RollbackLockRefused(s, r)
        \/ \E k \in Kinds : SelectInterrupted(s, r, k) \/ Claim(s, r, k)

Next ==
    \/ \E r \in Runs :
          Start(r) \/ Confirm(r) \/ ConfirmRollback(r) \/ RollbackOverdue(r)
    \/ \E s \in Servers :
          Scan(s) \/ WaitForLock(s) \/ LockRefused(s)
          \/ Work(s) \/ Crash(s)
    \/ Merge

Spec == Init /\ [][Next]_vars

\* A worker goes on with what it holds, commands and Git end by their
\* timeouts, and a worker that waits for the lock asks every 25 ms.  Every
\* scan begins with the recoveries, so what is overdue again and again is
\* picked.  Requests, merges, claims and crashes need never happen.
Recovering == \E s \in Servers, r \in Runs : \E k \in Kinds : SelectInterrupted(s, r, k)
RecoveringRollback == \E s \in Servers, r \in Runs : SelectInterruptedRollback(s, r)

Fairness ==
    /\ \A s \in Servers : WF_vars(Work(s)) /\ SF_vars(WaitForLock(s))
    /\ SF_vars(Recovering)
    /\ SF_vars(RecoveringRollback)
    /\ \A r \in Runs : WF_vars(RollbackOverdue(r))

FairSpec == Spec /\ Fairness

------------------------------------------------------------------------------
StepStatus == {"none", "awaiting_confirmation", "pending", "running", "passed", "failed"}
RollbackStatus == {"none", "monitoring", "awaiting_confirmation", "pending", "running",
                   "rolled_back", "failed"}
RunStatus == {"none", "pending", "running", "passed", "failed"}
Pcs == {"idle", "claimed", "executing", "copying", "ready", "ran", "refresh", "write",
        "recover", "rollback_claimed", "rollback_git", "rollback_restore", "rollback_copy",
        "rollback_restart", "rollback_ran", "rollback_recover"}

Results == {"none", "ok", "environment_failure", "code_failure", "failed",
            "failed_after_reset", "rolled_back", "reset", "unread"} \cup RunStatus

RunRow      == [status : RunStatus, safe : Commits, artifact : Runs \cup {"none"},
                backupHash : Contents \cup {"none"}, backup : Contents \cup {"none"}]
StepRow     == [status : StepStatus, attempt : Nat]
RollbackRow == [status : RollbackStatus, expected : Commits \cup {NoHead}, overdue : BOOLEAN]
WorkerRow   == [pc : Pcs, run : Runs \cup {"none"}, kind : Kinds \cup {"none"}, attempt : Nat,
                result : Results, locked : BOOLEAN]

\* The rows and the project have their types.
RowsOK ==
    /\ run \in [Runs -> RunRow]
    /\ step \in [Runs -> [Kinds -> StepRow]]
    /\ rollback \in [Runs -> RollbackRow]
    /\ head \in Commits /\ recorded \in Commits
    /\ file \in Contents /\ serving \in Contents
    /\ launched \in [Runs -> {"no", "started", "interrupted"}]
    /\ unsaved \subseteq Runs /\ unread \subseteq Runs
    /\ merges \in 0 .. MaxMerges /\ crashes \in 0 .. MaxCrashes

\* The lock has one holder, who does what needs it.
LockOK ==
    \A s \in Servers : worker[s].locked =>
        /\ worker[s].pc \in LockedPcs
        /\ \A t \in Servers : worker[t].locked => t = s

\* Type invariant: the rows, the project and the workers have their types,
\* and one worker at most holds the lock, only while it does what needs it.
TypeOK == RowsOK /\ worker \in [Servers -> WorkerRow] /\ LockOK

\* The worker that executes a step, from the lock to the end of its
\* transaction, executes the attempt the row says is running: neither a late
\* claimant nor a recovery takes the row away from under it
\* (samePipelineClaim, the re-reads of the recoveries).
ExecutionOwnsItsAttempt ==
    \A s \in Servers :
        LET w == worker[s] IN
        w.locked /\ w.pc \in {"executing", "copying", "ready", "ran"} =>
            /\ StepOf(s).status = "running"
            /\ StepOf(s).attempt = w.attempt
            /\ PriorPassed(w.run, w.kind)

\* When a release's command is about to start, main is at the commit the run
\* was started from, the file is what this run built, and the rollback that
\* can undo it is armed with that commit (validateRelease and
\* armReleaseRollback, under one lock with the command).
LaunchIsGuarded ==
    \A s \in Servers :
        LET w == worker[s] IN
        w.pc = "ready" /\ w.kind = "release" =>
            /\ head = run[w.run].safe
            /\ file = w.run
            /\ rollback[w.run].status = "monitoring"
            /\ rollback[w.run].expected = run[w.run].safe

\* A release that was started and has not passed can be undone, whatever
\* crashed since: its rollback's row knows the head, and once the step has
\* failed the row is out of `monitoring', where it could not be confirmed.  It
\* has a backup unless runHasRelease could not read the steps before a build,
\* the one failure that lets a build overwrite the artifact without saving it.
LaunchedReleaseCanBeUndone ==
    \A r \in Runs :
        launched[r] # "no" /\ step[r]["release"].status # "passed" =>
            /\ rollback[r].status # "none"
            /\ rollback[r].expected # NoHead
            /\ run[r].backup # "none" \/ r \in unsaved
            /\ step[r]["release"].status = "failed" => rollback[r].status # "monitoring"

\* A run is reported failed only when one of its steps has failed, and passed
\* only when all of them have passed, although refreshRun reads and writes
\* apart -- or when its last reading of the steps has failed, which it reports
\* as passed until the next one.
RunStatusHonest ==
    \A r \in Runs :
        /\ run[r].status = "passed" =>
              r \in unread \/ \A k \in Kinds : step[r][k].status = "passed"
        /\ run[r].status = "failed" => \E k \in Kinds : step[r][k].status = "failed"

\* A release whose worker died after its command had started is not started
\* again: it waits for the confirmation of its rollback.
InterruptedReleaseNotRestarted ==
    [][\A r \in Runs : launched[r] = "interrupted" => launched'[r] = "interrupted"]_vars

\* A rollback that is reported rolled back has put the run's backup in place
\* and in service, and main and the recorded commit at the run's safe commit.
\* That backup is never the run's own build, in whatever attempt and after
\* whatever crash it was taken, unless a first build went ahead without one.
RolledBackIsRestored ==
    [][\A r \in Runs :
          rollback[r].status # "rolled_back" /\ rollback'[r].status = "rolled_back" =>
              /\ file = run[r].backup /\ serving = run[r].backup
              /\ file # r \/ r \in unsaved
              /\ head = run[r].safe /\ recorded' = run[r].safe]_vars

\* A step or a rollback that is running does not stay so: its worker finishes
\* it, or the recovery of a later scan does, whatever crashed meanwhile.
NothingRunning(r) ==
    rollback[r].status # "running" /\ \A k \in Kinds : step[r][k].status # "running"
RunningWorkSettles == \A r \in Runs : []<>NothingRunning(r)
==============================================================================
