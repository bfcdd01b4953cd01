------------------------------- MODULE Executor -------------------------------
(***************************************************************************)
(* Launching the agents' worker processes                                  *)
(* (src/server/internal/executor: supervisor.go, claims.go, runner.go).    *)
(*                                                                         *)
(* A supervisor scans for steps that wait for a worker, claims the         *)
(* executor_runs row of the step's lease with a fresh token, validates and *)
(* revives the lease, starts a process and confirms it by writing its pid  *)
(* into the row.  The process waits for that confirmation before it works. *)
(* Supervisors of several server processes share one database.             *)
(*                                                                         *)
(* A claim is one attempt to run a lease: its number stands for the random *)
(* claim token, for the claim_owner who alone knows it, and for the pid of *)
(* the only process it starts.  The lease of a step is what StepOwnership  *)
(* leaves of it, which the lease tables implement (StepLease).             *)
(*                                                                         *)
(* The process of a claim is visible as one process to every supervisor,   *)
(* because they run on one host.  A definition marked "Mutant" is the one  *)
(* after it with a plausible bug; the specification does not use it.       *)
(***************************************************************************)
EXTENDS Naturals, FiniteSets

CONSTANTS
  Supervisors,
  Steps,             \* steps whose dependencies are completed
  AgentOf,           \* the agent each step is assigned to
  NoOne,             \* "no supervisor", "no step"
  GlobalLimit,       \* SupervisorOptions.GlobalLimit
  AgentLimit,        \* max_concurrency of an agent's definition
  MaxContinuations,  \* maxLeaseContinuations
  MaxVersion,        \* bound on the leases of a step
  MaxAttempts        \* bound on the claims

ASSUME ExecutorAssumption ==
  /\ NoOne \notin Supervisors \cup Steps /\ IsFiniteSet(Steps)
  /\ GlobalLimit \in Nat \ {0} /\ AgentLimit \in Nat \ {0}
  /\ MaxContinuations \in Nat /\ MaxVersion \in Nat /\ MaxAttempts \in Nat

Attempts == 1..MaxAttempts
Versions == 1..MaxVersion
LeaseIds == Steps \X Versions

VARIABLES
  lease,    \* by step: its newest lease and what that one came to
  run,      \* executor_runs, by lease; begun is history: workers that started
  attempt,  \* what became of each claim and of its process; late is history:
            \* the launch was confirmed after the claim had expired
  scan      \* by supervisor: the candidate it read and has not yet claimed

vars == <<lease, run, attempt, scan>>

LeaseStatus == {"none", "active", "interrupted", "frozen", "review"}
\* "stopped" is every status a run can end with: nothing reads which one it is.
RunStatus == {"absent", "starting", "running", "stopped"}
Phases == {"unused", "claimed", "prepared", "launched", "confirmed", "done"}

NewestLease == [version : 0..MaxVersion, status : LeaseStatus]
RunRow == [status : RunStatus, token : 0..MaxAttempts, fresh : BOOLEAN, pid : BOOLEAN,
           launches : 0..(MaxContinuations + 1),
           continuations : 0..MaxContinuations, begun : Nat]
Attempt == [phase : Phases, sup : Supervisors \cup {NoOne}, step : Steps \cup {NoOne},
            version : 0..MaxVersion, proc : {"none", "polling", "working", "dead"},
            late : BOOLEAN]
Item == [stage : {"idle", "read", "ready"}, step : Steps \cup {NoOne},
         version : 0..MaxVersion]

NoRun == [status |-> "absent", token |-> 0, fresh |-> FALSE, pid |-> FALSE,
          launches |-> 0, continuations |-> 0, begun |-> 0]
NoAttempt == [phase |-> "unused", sup |-> NoOne, step |-> NoOne, version |-> 0,
              proc |-> "none", late |-> FALSE]
NoItem == [stage |-> "idle", step |-> NoOne, version |-> 0]

Init ==
  /\ lease = [s \in Steps |-> [version |-> 0, status |-> "none"]]
  /\ run = [l \in LeaseIds |-> NoRun]
  /\ attempt = [t \in Attempts |-> NoAttempt]
  /\ scan = [p \in Supervisors |-> NoItem]

-----------------------------------------------------------------------------
(* The lease of a step *)

Moved(s, status) == [lease EXCEPT ![s].status = status]

Granted(s) == [lease EXCEPT ![s] = [version |-> @.version + 1, status |-> "active"]]

\* FreezeStep names the step, so it takes whatever lease the step has by now;
\* its error, when there is nothing to freeze, is dropped by every caller.
Frozen(s) == IF lease[s].status \in {"active", "interrupted"}
             THEN Moved(s, "frozen") ELSE lease

\* The rows a scan selects.
Candidate(s) == lease[s].status \in {"none", "active", "interrupted"}

\* What agents, the lease scan, administrators and reviewers do to a step.
Interrupt(s) ==
  /\ lease[s].status = "active"
  /\ lease' = Moved(s, "interrupted")
  /\ UNCHANGED <<run, attempt, scan>>

AdminFreeze(s) ==
  /\ lease[s].status \in {"active", "interrupted"}
  /\ lease' = Frozen(s)
  /\ UNCHANGED <<run, attempt, scan>>

\* UnfreezeStep, or Reassign of an interrupted lease.
Regrant(s) ==
  /\ lease[s].status \in {"frozen", "interrupted"}
  /\ lease[s].version < MaxVersion
  /\ lease' = Granted(s)
  /\ UNCHANGED <<run, attempt, scan>>

RequestChanges(s) ==
  /\ lease[s].status = "review"
  /\ lease' = Moved(s, "none")
  /\ UNCHANGED <<run, attempt, scan>>

-----------------------------------------------------------------------------
(* Claims *)

LeaseOf(t) == <<attempt[t].step, attempt[t].version>>

ProcessAlive(t) == attempt[t].proc \in {"polling", "working"}

\* Mutant: a claim lasts as long as its expiry, running or not.
OwnedUntilExpiry(row) == row.token # 0 /\ row.fresh

\* claimStillOwned: by its process once there is a pid, by its expiry before.
StillOwned(row) ==
  /\ row.token # 0
  /\ IF row.pid THEN ProcessAlive(row.token) ELSE row.fresh

\* Mutant: only confirmed workers take up capacity.
ConfirmedCapacity(l) ==
  LET others == {k \in LeaseIds \ {l} : run[k].pid /\ StillOwned(run[k])} IN
  /\ Cardinality(others) < GlobalLimit
  /\ Cardinality({k \in others : AgentOf[k[1]] = AgentOf[l[1]]}) < AgentLimit

\* executionCapacityAvailable, which leaves out the lease to be claimed.
CapacityAvailable(l) ==
  LET others == {k \in LeaseIds \ {l} : StillOwned(run[k])} IN
  /\ Cardinality(others) < GlobalLimit
  /\ Cardinality({k \in others : AgentOf[k[1]] = AgentOf[l[1]]}) < AgentLimit

\* Mutant: one continuation too many.
ExhaustedLate(row) == row.launches > 0 /\ row.continuations > MaxContinuations

\* Mutant: continuations are not limited when a row is claimed.
NeverExhausted(row) == FALSE

Exhausted(row) == row.launches > 0 /\ row.continuations >= MaxContinuations

\* The attempts in a supervisor's map of active workers, and the one it is
\* taking through its scan.
Active(p) == {t \in Attempts : attempt[t].sup = p /\ attempt[t].phase = "confirmed"}
InScan(p) == {t \in Attempts :
                attempt[t].sup = p /\ attempt[t].phase \in {"claimed", "prepared", "launched"}}

AlreadyActive(p, s) == \E t \in Active(p) : attempt[t].step = s

AgentHasRoom(p, s) ==
  Cardinality({t \in Active(p) : AgentOf[attempt[t].step] = AgentOf[s]}) < AgentLimit

\* The select of a scan.  What it read may be old when its turn comes: a scan
\* takes its candidates one at a time.
ReadCandidate(p, s) ==
  /\ scan[p] = NoItem /\ InScan(p) = {}
  /\ Candidate(s) /\ Cardinality(Active(p)) < GlobalLimit
  /\ scan' = [scan EXCEPT ![p] =
       [stage |-> "read", step |-> s,
        version |-> IF lease[s].status = "none" THEN 0 ELSE lease[s].version]]
  /\ UNCHANGED <<lease, run, attempt>>

Skip(p) == scan' = [scan EXCEPT ![p] = NoItem]

SkipCandidate(p) ==
  /\ scan[p].stage = "read"
  /\ AlreadyActive(p, scan[p].step) \/ ~AgentHasRoom(p, scan[p].step)
  /\ Skip(p) /\ UNCHANGED <<lease, run, attempt>>

\* The agent's definition or env file is missing: a step with a lease is frozen.
ConfigMissing(p) ==
  /\ scan[p].stage = "read"
  /\ ~AlreadyActive(p, scan[p].step)
  /\ lease' = IF scan[p].version # 0 THEN Frozen(scan[p].step) ELSE lease
  /\ Skip(p) /\ UNCHANGED <<run, attempt>>

\* A candidate without a lease gets one, unless its step has moved on.
TakeCandidate(p) ==
  LET s == scan[p].step IN
  /\ scan[p].stage = "read"
  /\ ~AlreadyActive(p, s) /\ AgentHasRoom(p, s)
  /\ \/ /\ scan[p].version # 0
        /\ scan' = [scan EXCEPT ![p].stage = "ready"]
        /\ UNCHANGED lease
     \/ /\ scan[p].version = 0 /\ lease[s].status = "none"
        /\ lease[s].version < MaxVersion
        /\ lease' = Granted(s)
        /\ scan' = [scan EXCEPT ![p] = [@ EXCEPT !.stage = "ready",
                                                 !.version = lease[s].version + 1]]
     \/ /\ scan[p].version = 0 /\ lease[s].status # "none"
        /\ Skip(p) /\ UNCHANGED lease
  /\ UNCHANGED <<run, attempt>>

ItemLease(p) == <<scan[p].step, scan[p].version>>

\* One immediate transaction: the row must be free, the lease must have
\* continuations left and the capacity must suffice.
ClaimExecution(p, t) ==
  LET l == ItemLease(p) IN
  /\ scan[p].stage = "ready"
  /\ attempt[t] = NoAttempt /\ \A u \in 1..(t - 1) : attempt[u] # NoAttempt
  /\ ~StillOwned(run[l]) /\ ~Exhausted(run[l]) /\ CapacityAvailable(l)
  /\ run' = [run EXCEPT ![l] = [@ EXCEPT !.status = "starting", !.token = t,
                                         !.fresh = TRUE, !.pid = FALSE]]
  /\ attempt' = [attempt EXCEPT ![t] =
       [NoAttempt EXCEPT !.phase = "claimed", !.sup = p, !.step = l[1], !.version = l[2]]]
  /\ Skip(p) /\ UNCHANGED lease

\* The claim is held, or there is no capacity: the next candidate.
ClaimRefused(p) ==
  LET row == run[ItemLease(p)] IN
  /\ scan[p].stage = "ready"
  /\ StillOwned(row) \/ (~Exhausted(row) /\ ~CapacityAvailable(ItemLease(p)))
  /\ Skip(p) /\ UNCHANGED <<lease, run, attempt>>

RetryExhausted(p) ==
  LET row == run[ItemLease(p)] IN
  /\ scan[p].stage = "ready"
  /\ ~StillOwned(row) /\ Exhausted(row)
  /\ lease' = Frozen(scan[p].step)
  /\ Skip(p) /\ UNCHANGED <<run, attempt>>

\* executionClaimTTL passes; the expiry is read only while the row has no pid.
ClaimExpires(l) ==
  /\ run[l].fresh
  /\ run' = [run EXCEPT ![l].fresh = FALSE]
  /\ UNCHANGED <<lease, attempt, scan>>

\* The row as the holder of claim t leaves it; another claim's row is kept.
Cleared(t) == [run[LeaseOf(t)] EXCEPT !.token = 0, !.fresh = FALSE, !.pid = FALSE]

IfOwner(t, row) ==
  IF run[LeaseOf(t)].token = t THEN [run EXCEPT ![LeaseOf(t)] = row] ELSE run

Released(t) == IfOwner(t, [Cleared(t) EXCEPT !.status = "stopped"])

\* Nothing of an attempt matters once its supervisor is done with it and its
\* process is gone.
Settled(a) == IF a.phase = "done" /\ a.proc \in {"none", "dead"}
              THEN [NoAttempt EXCEPT !.phase = "done"] ELSE a

Becomes(t, phase, proc) ==
  [attempt EXCEPT ![t] = Settled([@ EXCEPT !.phase = phase, !.proc = proc])]

Done(t) == Becomes(t, "done", attempt[t].proc)
Dies(t) == Becomes(t, attempt[t].phase, "dead")

-----------------------------------------------------------------------------
(* From a claim to a running worker *)

\* Mutant: a frozen lease is taken for an interrupted one.
PrepareFrozenLease(t) ==
  LET s == attempt[t].step IN
  /\ attempt[t].phase = "claimed"
  /\ lease[s].version = attempt[t].version
  /\ lease[s].status \in {"active", "interrupted", "frozen"}
  /\ lease' = Moved(s, "active")
  /\ attempt' = Becomes(t, "prepared", "none")
  /\ UNCHANGED <<run, scan>>

\* The lease of the claim is renewed, or resumed when it was interrupted.
PrepareLease(t) ==
  LET s == attempt[t].step IN
  /\ attempt[t].phase = "claimed"
  /\ lease[s].version = attempt[t].version
  /\ lease[s].status \in {"active", "interrupted"}
  /\ lease' = Moved(s, "active")
  /\ attempt' = Becomes(t, "prepared", "none")
  /\ UNCHANGED <<run, scan>>

\* The worktree does not match the recovery point, or the resume is refused.
PrepareFreezes(t) ==
  /\ attempt[t].phase = "claimed"
  /\ lease' = Frozen(attempt[t].step)
  /\ run' = Released(t)
  /\ attempt' = Done(t)
  /\ UNCHANGED scan

\* The lease was ended, or superseded, since the scan read it, or an error
\* stops the scan.
PrepareFails(t) ==
  /\ attempt[t].phase = "claimed"
  /\ run' = Released(t)
  /\ attempt' = Done(t)
  /\ UNCHANGED <<lease, scan>>

Launch(t) ==
  /\ attempt[t].phase = "prepared"
  /\ attempt' = Becomes(t, "launched", "polling")
  /\ UNCHANGED <<lease, run, scan>>

LaunchFails(t) ==
  /\ attempt[t].phase = "prepared"
  /\ run' = Released(t)
  /\ attempt' = Done(t)
  /\ UNCHANGED <<lease, scan>>

\* The claim must still be the row's; whether it has expired is not asked.  The
\* continuations are counted again, but the claim has seen to them: the freeze
\* that would follow has no occasion.
ConfirmLaunch(t) ==
  LET row == run[LeaseOf(t)]
      again == IF row.launches > 0 THEN 1 ELSE 0
  IN
  /\ attempt[t].phase = "launched"
  /\ row.token = t /\ row.status = "starting" /\ ~Exhausted(row)
  /\ run' = [run EXCEPT ![LeaseOf(t)] = [row EXCEPT
       !.status = "running", !.pid = TRUE, !.fresh = FALSE,
       !.launches = row.launches + 1, !.continuations = row.continuations + again]]
  /\ attempt' = [attempt EXCEPT ![t] = [@ EXCEPT !.phase = "confirmed",
                                                 !.late = ~row.fresh]]
  /\ UNCHANGED <<lease, scan>>

\* The claim was lost, or the transaction fails: the process is killed first.
ConfirmFails(t) ==
  /\ attempt[t].phase = "launched"
  /\ run' = Released(t)
  /\ attempt' = Becomes(t, "done", "dead")
  /\ UNCHANGED <<lease, scan>>

\* Supervisor.wait: the process has exited.
Wait(t) ==
  /\ attempt[t].phase = "confirmed" /\ attempt[t].proc = "dead"
  /\ run' = IfOwner(t, Cleared(t))
  /\ attempt' = Done(t)
  /\ UNCHANGED <<lease, scan>>

\* The server process dies: its map and its scan are lost, its claims stay in
\* the rows and its workers live on until they see the signal.
SupervisorCrash(p) ==
  /\ attempt' = [t \in Attempts |->
       IF attempt[t].sup = p /\ attempt[t].phase # "done"
       THEN Settled([attempt[t] EXCEPT !.phase = "done"]) ELSE attempt[t]]
  /\ scan' = [scan EXCEPT ![p] = NoItem]
  /\ UNCHANGED <<lease, run>>

-----------------------------------------------------------------------------
(* The worker process *)

\* startRun: work begins only once the row shows this claim, confirmed.
StartRun(t) ==
  /\ attempt[t].proc = "polling"
  /\ run[LeaseOf(t)].token = t
  /\ run[LeaseOf(t)].status = "running" /\ run[LeaseOf(t)].pid
  /\ attempt' = Becomes(t, attempt[t].phase, "working")
  /\ run' = [run EXCEPT ![LeaseOf(t)].begun = @ + 1]
  /\ UNCHANGED <<lease, scan>>

\* The confirmation does not come in time, or the process is killed.
WorkerDies(t) ==
  /\ ProcessAlive(t)
  /\ attempt' = Dies(t)
  /\ UNCHANGED <<lease, run, scan>>

\* Runner.finish and the exit of the process.
Exit(t) ==
  /\ attempt[t].proc = "working"
  /\ run' = IfOwner(t, [run[LeaseOf(t)] EXCEPT !.status = "stopped"])
  /\ attempt' = Dies(t)
  /\ UNCHANGED scan

\* The report is accepted under the worker's own lease.
WorkerCompletes(t) ==
  LET s == attempt[t].step IN
  /\ attempt[t].proc = "working"
  /\ lease[s] = [version |-> attempt[t].version, status |-> "active"]
  /\ lease' = Moved(s, "review")
  /\ Exit(t)

\* A checkpoint at the end of the budget, a lost claim or a lost heartbeat.
WorkerStops(t) == Exit(t) /\ UNCHANGED lease

\* Runner.fail freezes the step the worker was started for.
WorkerFails(t) ==
  /\ attempt[t].proc = "working"
  /\ lease' = Frozen(attempt[t].step)
  /\ Exit(t)

-----------------------------------------------------------------------------

ScanStep(p) ==
  \/ \E s \in Steps : ReadCandidate(p, s)
  \/ SkipCandidate(p) \/ ConfigMissing(p) \/ TakeCandidate(p)
  \/ \E t \in Attempts : ClaimExecution(p, t)
  \/ ClaimRefused(p) \/ RetryExhausted(p)

AttemptStep(t) ==
  \/ PrepareLease(t) \/ PrepareFreezes(t) \/ PrepareFails(t)
  \/ Launch(t) \/ LaunchFails(t) \/ ConfirmLaunch(t) \/ ConfirmFails(t) \/ Wait(t)

WorkerStep(t) ==
  \/ StartRun(t) \/ WorkerDies(t)
  \/ WorkerCompletes(t) \/ WorkerStops(t) \/ WorkerFails(t)

StepEvent(s) == Interrupt(s) \/ AdminFreeze(s) \/ Regrant(s) \/ RequestChanges(s)

Next ==
  \/ \E p \in Supervisors : ScanStep(p) \/ SupervisorCrash(p)
  \/ \E t \in Attempts : AttemptStep(t) \/ WorkerStep(t)
  \/ \E l \in LeaseIds : ClaimExpires(l)
  \/ \E s \in Steps : StepEvent(s)

Spec == Init /\ [][Next]_vars

-----------------------------------------------------------------------------

TypeOK ==
  /\ lease \in [Steps -> NewestLease]
  /\ run \in [LeaseIds -> RunRow]
  /\ attempt \in [Attempts -> Attempt]
  /\ scan \in [Supervisors -> Item]

Working == {t \in Attempts : attempt[t].proc = "working"}

\* A worker that works owns the run row of its lease, so no lease is ever
\* worked on by two processes: not after a crash of a supervisor, an expired
\* claim, a late confirmation or a late exit.
WorkerOwnsItsRun ==
  \A t \in Working : run[LeaseOf(t)].token = t /\ run[LeaseOf(t)].pid

\* A lease is worked on once and continued at most MaxContinuations times,
\* however its claims, launches and supervisors end.
StartsAreBounded == \A l \in LeaseIds : run[l].begun <= 1 + MaxContinuations

\* A supervisor's map has one place for a step, which the exit of any worker of
\* that step empties: no two workers ever share it.
OneActivePerStep ==
  \A p \in Supervisors : \A t, u \in Active(p) :
    attempt[t].step = attempt[u].step => t = u

\* No more workers work than the limits allow, across all supervisors, except
\* for those whose launch was confirmed after their claim had expired.
WorkersWithinLimits ==
  LET prompt == {t \in Working : ~attempt[t].late} IN
  /\ Cardinality(prompt) <= GlobalLimit
  /\ \A s \in Steps :
       Cardinality({t \in prompt : AgentOf[attempt[t].step] = AgentOf[s]}) <= AgentLimit

-----------------------------------------------------------------------------
(* The lease of a step as its owner sees it *)

Phase(s) ==
  CASE lease[s].status = "none"        -> "idle"
    [] lease[s].status = "active"      -> "writing"
    [] lease[s].status = "interrupted" -> "paused"
    [] lease[s].status = "review"      -> "reviewing"
    [] OTHER                           -> "frozen"

Ownership(s) == INSTANCE StepOwnership WITH
                  Owners <- {AgentOf[s]}, epoch <- lease[s].version,
                  phase <- Phase(s), owner <- AgentOf[s]

\* Supervisors that act on what a scan read earlier, and workers of any age,
\* use a step's lease only in the ways the lease tables offer: they never
\* revive a lease that was ended or followed by another one.
KeepsOwnership ==
  /\ \A s \in Steps : Ownership(s)!Init
  /\ [][\A s \in Steps : [Ownership(s)!Next]_(Ownership(s)!vars)]_vars

=============================================================================
