----------------------------- MODULE ReviewJobs -----------------------------
(***************************************************************************)
(* The automatic review and merge of merge requests                        *)
(* (server/internal/mr/review_worker.go): one row of mr_review_jobs for a  *)
(* merge request, scanned by one worker in every server process.           *)
(*                                                                         *)
(* A job is claimed by its status alone: there is no fencing token, so a   *)
(* job that has been in processing for five minutes is claimed again while *)
(* the first worker may still wait for the lead's answer or for the        *)
(* project lock.  Each SQL statement or transaction is one step; what is   *)
(* read before the provider call is what is acted on after it.             *)
(*                                                                         *)
(* Time is a choice: a delay has passed, or a claim has become stale, when *)
(* Elapse says so.  The step, the lease and the branch a merge request     *)
(* names are reduced to whether the branch still is where the report left  *)
(* it: a lease in review stays so until the merge request is decided       *)
(* (module StepLease has them in full).                                    *)
(***************************************************************************)
EXTENDS Naturals, FiniteSets

CONSTANTS Workers,      \* one review worker in every server process
          MRs,          \* the ids of merge_requests, in the order of the jobs
          Reports,      \* what the completion report of each may contain
          ScanLimit,    \* the jobs one Scan processes (10 in the code)
          Threshold,    \* attempts after which an invalid answer is escalated
          MaxFaults     \* bound: what people do besides resolving issues, transient
                        \* failures, stale claims and crashes, all together

ASSUME MRsAssumption == MRs \subseteq Nat \ {0}
ASSUME ReportsAssumption == Reports \in [MRs -> SUBSET {"sound", "thin", "risky", "unsafe"}]
ASSUME ReviewBounds ==
    /\ ScanLimit \in Nat \ {0}
    /\ Threshold \in Nat \ {0}
    /\ MaxFaults \in Nat

VARIABLES mr,       \* merge_requests.status
          report,   \* what the completion report says
          moved,    \* the source branch is no longer at the reported commit
          lead,     \* the project lead: agent_registry and team_decisions
          depsDone, \* the steps its step depends on are completed and merged
          issue,    \* the issues of the merge request
          onMain,   \* main has a merge commit of the source commit
          job,      \* mr_review_jobs
          worker,   \* what each worker is doing
          overtaken,\* how often a job fell due while a worker still had it
          acts, failures, crashes

vars == <<mr, report, moved, lead, depsDone, issue, onMain, job, worker,
          overtaken, acts, failures, crashes>>

Open        == {"pending_review", "approved"}
Decided     == {"merged", "changes_requested"}
ReviewWaits == {"pending", "retry_review", "waiting_review"}
MergeWaits  == {"merge_pending", "retry_merge", "waiting_merge"}
Processing  == {"reviewing", "merging"}
MergeCodes  == {"merge_identity_invalid", "merge_source_invalid", "merge_abort_failed",
                "merge_conflict_review_failed"}
ReviewCodes == {"review_state_invalid", "human_decision_required", "review_diff_invalid",
                "invalid_review_response"}

NoJob  == [status |-> "none", code |-> "none", due |-> FALSE, reviews |-> 0]
Idle   == [pc |-> "idle", mr |-> 0, phase |-> "none", next |-> "none", left |-> 0]

Enter(j, status) == [j EXCEPT !.status = status, !.due = (status \in {"pending", "merge_pending"})]

------------------------------------------------------------------------------
(* Steps of a worker w.                                                    *)

Become(w, r)     == worker' = [worker EXCEPT ![w] = r]
Goto(w, pc)      == Become(w, [worker[w] EXCEPT !.pc = pc])
GotoWith(w, pc, next) == Become(w, [worker[w] EXCEPT !.pc = pc, !.next = next])
NextJob(w)       == Become(w, IF worker[w].left = 0 THEN Idle
                              ELSE [Idle EXCEPT !.pc = "claim", !.left = worker[w].left])
Calm             == acts + failures + overtaken + crashes < MaxFaults
Fail             == Calm /\ failures' = failures + 1

World == <<report, moved, lead, depsDone, overtaken, acts, crashes>>

\* enqueueAndReconcile, one transaction: a job for every merge request with
\* a report, 'completed' for what is decided, and 'merge_pending' for what
\* somebody approved while the job was in review or blocked in review.
Reconciled(j, status) ==
    LET new == IF j.status = "none" /\ status \in Open
               THEN Enter(j, IF status = "approved" THEN "merge_pending" ELSE "pending")
               ELSE j
        inReview == \/ new.status \in ReviewWaits \cup {"reviewing"}
                    \/ new.status = "blocked" /\ new.code \notin MergeCodes
    IN  IF status \in Decided /\ new.status # "none" THEN Enter(new, "completed")
        ELSE IF status = "approved" /\ inReview
             THEN [Enter(new, "merge_pending") EXCEPT !.code = "none"]
        ELSE new

ReconcileJobs == job' = [m \in MRs |-> Reconciled(job[m], mr[m])]
MRUnchanged   == UNCHANGED <<mr, issue, onMain>>

\* Scan begins: the first statement is enqueueAndReconcile.
Scan(w) ==
    /\ worker[w].pc = "idle"
    /\ ReconcileJobs
    /\ Become(w, [Idle EXCEPT !.pc = "claim", !.left = ScanLimit])
    /\ UNCHANGED failures /\ MRUnchanged /\ UNCHANGED World

\* Mutant of Claimable: a job left in processing is nobody's.
ClaimableUnlessProcessing == {m \in MRs : job[m].due /\ job[m].status \in ReviewWaits \cup MergeWaits}
Claimable == {m \in MRs : job[m].due /\ job[m].status \in ReviewWaits \cup MergeWaits \cup Processing}

\* claimNext: the first job that is due or stale; the phase follows the
\* status of the merge request, and a decided one completes the job and
\* ends the scan.
ClaimNext(w) ==
    \E m \in Claimable :
        LET phase == IF mr[m] = "approved" THEN "merging" ELSE "reviewing"
        IN  /\ worker[w].pc = "claim"
            /\ \A n \in Claimable : m <= n
            /\ IF mr[m] \in Decided
               THEN /\ job' = [job EXCEPT ![m] = Enter(job[m], "completed")]
                    /\ Become(w, Idle)
               ELSE /\ job' = [job EXCEPT ![m] = Enter(job[m], phase)]
                    /\ Become(w, [pc |-> IF phase = "merging" THEN "reconcile" ELSE "load",
                                  mr |-> m, phase |-> phase, next |-> "none",
                                  left |-> worker[w].left - 1])
            /\ UNCHANGED failures /\ MRUnchanged /\ UNCHANGED World

EndScan(w) ==
    /\ worker[w].pc = "claim"
    /\ Claimable = {}
    /\ Become(w, Idle)
    /\ UNCHANGED <<job, failures>> /\ MRUnchanged /\ UNCHANGED World

(* -- what ends the processing of a job --------------------------------   *)

\* wait and retry: only from the phase the job was claimed for.
Wait(w) ==
    LET m == worker[w].mr
    IN  /\ worker[w].pc = "wait"
        /\ job' = IF job[m].status # worker[w].phase THEN job
                  ELSE [job EXCEPT ![m] = Enter(job[m], IF worker[w].phase = "merging"
                                                   THEN "waiting_merge" ELSE "waiting_review")]
        /\ NextJob(w)
        /\ UNCHANGED failures /\ MRUnchanged /\ UNCHANGED World

\* retry counts the attempt; after an invalid answer the third one goes on
\* to blockFromRetry, in a transaction of its own.
Retry(w) ==
    LET m == worker[w].mr
        reviewing == worker[w].phase = "reviewing"
    IN  /\ worker[w].pc = "retry"
        /\ IF job[m].status # worker[w].phase
           THEN job' = job /\ NextJob(w)
           ELSE /\ job' = [job EXCEPT ![m] =
                    [Enter(job[m], IF reviewing THEN "retry_review" ELSE "retry_merge")
                        EXCEPT !.reviews = job[m].reviews + (IF reviewing THEN 1 ELSE 0)]]
                /\ IF worker[w].next = "invalid" /\ job[m].reviews + 1 >= Threshold
                   THEN Become(w, [worker[w] EXCEPT !.pc = "block", !.phase = "retry_review",
                                                    !.next = "invalid_review_response"])
                   ELSE NextJob(w)
        /\ UNCHANGED failures /\ MRUnchanged /\ UNCHANGED World

\* block: the job, the blocking issue and the event in one transaction; a
\* job that was blocked before keeps its code and is not blocked again.
Block(w) ==
    LET m == worker[w].mr
        ok == job[m].status = worker[w].phase /\ job[m].code = "none"
    IN  /\ worker[w].pc = "block"
        /\ job' = IF ok THEN [job EXCEPT ![m] = [Enter(job[m], "blocked") EXCEPT !.code = worker[w].next]] ELSE job
        /\ issue' = IF ok THEN [issue EXCEPT ![m] = "open"] ELSE issue
        /\ NextJob(w)
        /\ UNCHANGED <<mr, onMain, failures>> /\ UNCHANGED World

\* Both kinds of ErrStateConflict: reconcile and leave the job to its claim.
Conflict(w) ==
    /\ worker[w].pc = "conflict"
    /\ ReconcileJobs
    /\ NextJob(w)
    /\ UNCHANGED failures /\ MRUnchanged /\ UNCHANGED World

\* complete: by the job's id, whatever its status.
Complete(w) ==
    /\ worker[w].pc = "complete"
    /\ job' = [job EXCEPT ![worker[w].mr] = Enter(job[worker[w].mr], "completed")]
    /\ NextJob(w)
    /\ UNCHANGED failures /\ MRUnchanged /\ UNCHANGED World

------------------------------------------------------------------------------
(* Service.Review, in one transaction: a pending merge request is decided, *)
(* an approved one may still be returned.                                  *)

\* Mutant of CanReview: only what is there already is refused.
CanReviewAgain(m, d) == mr[m] \notin {"none", d}
CanReview(m, d) == mr[m] = "pending_review" \/ (mr[m] = "approved" /\ d = "changes_requested")

Review(m, d) == mr' = [mr EXCEPT ![m] = d]

(* -- processReview -----------------------------------------------------  *)

\* loadReviewCandidate and evaluateGates, in the order of the code: the
\* consistency of the state, the risks, who is there to review, the
\* evidence, the dependencies, the diff.
GateOf(m) ==
    IF mr[m] # "pending_review" \/ lead = "replaced"
    THEN [pc |-> "block", next |-> "review_state_invalid"]
    ELSE IF report[m] = "risky" THEN [pc |-> "block", next |-> "human_decision_required"]
    ELSE IF lead = "offline" \/ issue[m] = "open" THEN [pc |-> "wait", next |-> "none"]
    ELSE IF report[m] = "thin" THEN [pc |-> "apply", next |-> "changes_requested"]
    ELSE IF ~depsDone[m] THEN [pc |-> "wait", next |-> "none"]
    ELSE IF report[m] = "unsafe" \/ moved[m] THEN [pc |-> "block", next |-> "review_diff_invalid"]
    ELSE [pc |-> "chat", next |-> "none"]

LoadCandidate(w) ==
    /\ worker[w].pc = "load"
    /\ \/ LET g == GateOf(worker[w].mr) IN GotoWith(w, g.pc, g.next) /\ UNCHANGED failures
       \/ GotoWith(w, "retry", "none") /\ Fail   \* the query fails
    /\ UNCHANGED job /\ MRUnchanged /\ UNCHANGED World

\* ChatAgent and parseAgentReviewDecision.
Chat(w) ==
    /\ worker[w].pc = "chat"
    /\ \/ \E d \in {"approved", "changes_requested"} :
             GotoWith(w, "apply", d) /\ UNCHANGED failures
       \/ GotoWith(w, "retry", "invalid") /\ UNCHANGED failures
       \/ GotoWith(w, "retry", "none") /\ Fail
    /\ UNCHANGED job /\ MRUnchanged /\ UNCHANGED World

\* applyReview: the decision taken on what was loaded.
ApplyReview(w) ==
    LET m == worker[w].mr
        d == worker[w].next
    IN  /\ worker[w].pc = "apply"
        /\ \/ /\ CanReview(m, d)
              /\ Review(m, d)
              /\ Goto(w, "record") /\ UNCHANGED failures
           \/ /\ ~CanReview(m, d)
              /\ Goto(w, "conflict") /\ UNCHANGED <<mr, failures>>
           \/ GotoWith(w, "retry", "none") /\ Fail /\ UNCHANGED mr
        /\ UNCHANGED <<issue, onMain, job>> /\ UNCHANGED World

\* Mutant of RecordDecision: an approval completes the job.
RecordCompleted(w) ==
    LET m == worker[w].mr
    IN  /\ worker[w].pc = "record"
        /\ job' = IF job[m].status # "reviewing" THEN job
                  ELSE [job EXCEPT ![m] = Enter(job[m], "completed")]
        /\ NextJob(w)
        /\ UNCHANGED failures /\ MRUnchanged /\ UNCHANGED World

\* ... and the job's next status, in a statement of its own.
RecordDecision(w) ==
    LET m == worker[w].mr
    IN  /\ worker[w].pc = "record"
        /\ job' = IF job[m].status # "reviewing" THEN job
                  ELSE [job EXCEPT ![m] = Enter(job[m], IF worker[w].next = "approved"
                                                   THEN "merge_pending" ELSE "completed")]
        /\ NextJob(w)
        /\ UNCHANGED failures /\ MRUnchanged /\ UNCHANGED World

(* -- processMerge ------------------------------------------------------  *)

\* The project lock is held from the checks of a merge to its record.
LockFree == \A w \in Workers : worker[w].pc \notin {"git", "persist"}

Merged(m) == mr' = [mr EXCEPT ![m] = "merged"]

\* loadLeadPrincipal, and ReconcileMerge for a merge commit that an earlier
\* attempt left on main.
ReconcileMerge(w) ==
    LET m == worker[w].mr
    IN  /\ worker[w].pc = "reconcile" /\ LockFree
        /\ IF lead = "replaced"
           THEN GotoWith(w, "block", "merge_identity_invalid") /\ UNCHANGED mr
           ELSE IF mr[m] = "approved" /\ onMain[m]
                THEN Merged(m) /\ Goto(w, "complete")
                ELSE Goto(w, "merge") /\ UNCHANGED mr
        /\ UNCHANGED <<issue, onMain, job, failures>> /\ UNCHANGED World

\* What Service.Merge checks under the lock, in the code's order; what is on
\* main already is only recorded.
MergeRefusal(m) ==
    IF mr[m] # "approved" THEN [pc |-> "conflict", next |-> "none"]
    ELSE IF issue[m] = "open" \/ ~depsDone[m] THEN [pc |-> "wait", next |-> "none"]
    ELSE IF moved[m] THEN [pc |-> "block", next |-> "merge_source_invalid"]
    ELSE [pc |-> IF onMain[m] THEN "persist" ELSE "git", next |-> "none"]

CheckMerge(w) ==
    LET refusal == MergeRefusal(worker[w].mr)
    IN  /\ worker[w].pc = "merge" /\ LockFree
        /\ GotoWith(w, refusal.pc, refusal.next)
        /\ UNCHANGED <<job, failures>> /\ MRUnchanged /\ UNCHANGED World

\* git merge names the branch, not the commit, and asks nothing again: done,
\* of another commit than the reported one, a conflict that was aborted or
\* could not be, a dirty main, or an error of another kind.
GitMerge(w) ==
    LET m == worker[w].mr
    IN  /\ worker[w].pc = "git"
        /\ \/ /\ ~moved[m]
              /\ onMain' = [onMain EXCEPT ![m] = TRUE]
              /\ Goto(w, "persist") /\ UNCHANGED failures
           \/ /\ \/ moved[m] /\ Goto(w, "retry") /\ UNCHANGED failures
                 \/ Goto(w, "return") /\ UNCHANGED failures
                 \/ GotoWith(w, "block", "merge_abort_failed") /\ Fail
                 \/ Goto(w, "wait") /\ Fail
                 \/ Goto(w, "retry") /\ Fail
              /\ UNCHANGED onMain
        /\ UNCHANGED <<mr, issue, job>> /\ UNCHANGED World

\* persistMerged.
PersistMerged(w) ==
    LET m == worker[w].mr
    IN  /\ worker[w].pc = "persist"
        /\ IF mr[m] = "approved" THEN Merged(m) /\ Goto(w, "complete")
           ELSE Goto(w, "conflict") /\ UNCHANGED mr
        /\ UNCHANGED <<issue, onMain, job, failures>> /\ UNCHANGED World

\* A conflict with main returns the merge request to its agent.
ReturnConflict(w) ==
    LET m == worker[w].mr
    IN  /\ worker[w].pc = "return"
        /\ \/ /\ CanReview(m, "changes_requested")
              /\ Review(m, "changes_requested")
              /\ Goto(w, "complete") /\ UNCHANGED failures
           \/ /\ ~CanReview(m, "changes_requested")
              /\ Goto(w, "retry") /\ UNCHANGED <<mr, failures>>
           \/ /\ GotoWith(w, "block", "merge_conflict_review_failed") /\ Fail
              /\ UNCHANGED mr
        /\ UNCHANGED <<issue, onMain, job>> /\ UNCHANGED World

------------------------------------------------------------------------------
(* What the worker does not do itself.                                     *)

WorkersIdle == UNCHANGED <<worker, overtaken, failures, crashes>>
Act         == Calm /\ acts' = acts + 1

\* SubmitReport: an agent's merge request, with what its report contains.
Submit(m) ==
    /\ mr[m] = "none"
    /\ mr' = [mr EXCEPT ![m] = "pending_review"]
    /\ report' \in {[report EXCEPT ![m] = r] : r \in Reports[m]}
    /\ depsDone' \in {[depsDone EXCEPT ![m] = b] : b \in BOOLEAN}
    /\ UNCHANGED <<moved, lead, issue, onMain, job, acts>> /\ WorkersIdle

\* The last dependency of m's step is merged.
DepsMerge(m) ==
    /\ mr[m] \in Open /\ ~depsDone[m]
    /\ depsDone' = [depsDone EXCEPT ![m] = TRUE]
    /\ UNCHANGED <<mr, report, moved, lead, issue, onMain, job, acts>> /\ WorkersIdle

\* The manager takes a review over (an authorisation is on record).
TakeOver(m) ==
    /\ Act
    /\ \E d \in {"approved", "changes_requested"} : CanReview(m, d) /\ Review(m, d)
    /\ UNCHANGED <<report, moved, lead, depsDone, issue, onMain, job>> /\ WorkersIdle

\* A blocking issue of somebody else, and the end of any.
RaiseIssue(m) ==
    /\ Act
    /\ mr[m] \in Open
    /\ issue' = [issue EXCEPT ![m] = "open"]
    /\ UNCHANGED <<mr, report, moved, lead, depsDone, onMain, job>> /\ WorkersIdle

ResolveIssue(m) ==
    /\ issue[m] = "open"
    /\ issue' = [issue EXCEPT ![m] = "resolved"]
    /\ UNCHANGED <<mr, report, moved, lead, depsDone, onMain, job, acts>> /\ WorkersIdle

\* The lead's process stops or starts; another agent becomes the lead.
LeadChanges ==
    /\ \/ lead = "online" /\ lead' \in {"offline", "replaced"} /\ Act
       \/ lead = "offline" /\ lead' = "online" /\ UNCHANGED acts
    /\ UNCHANGED <<mr, report, moved, depsDone, issue, onMain, job>> /\ WorkersIdle

\* A commit on the source branch by hand.
BranchMoves(m) ==
    /\ Act
    /\ mr[m] \in Open /\ ~moved[m]
    /\ moved' = [moved EXCEPT ![m] = TRUE]
    /\ UNCHANGED <<mr, report, lead, depsDone, issue, onMain, job>> /\ WorkersIdle

\* A retry's delay or the five minutes of a claim have passed, most often
\* after the worker is gone from the job.
Elapse(m) ==
    /\ job[m].status \in ReviewWaits \cup MergeWaits \cup Processing
    /\ ~job[m].due
    /\ job' = [job EXCEPT ![m].due = TRUE]
    /\ IF \E w \in Workers : worker[w].mr = m
       THEN Calm /\ overtaken' = overtaken + 1
       ELSE UNCHANGED overtaken
    /\ UNCHANGED <<mr, report, moved, lead, depsDone, issue, onMain, acts, worker,
                   failures, crashes>>

\* The process dies and starts again; what it held in memory is lost, the
\* project lock is given back by the operating system.
Crash(w) ==
    /\ Calm /\ crashes' = crashes + 1
    /\ worker[w] # Idle
    /\ Become(w, Idle)
    /\ UNCHANGED <<mr, report, moved, lead, depsDone, issue, onMain, job, overtaken,
                   acts, failures>>

------------------------------------------------------------------------------
Init ==
    /\ mr = [m \in MRs |-> "none"] /\ report = [m \in MRs |-> "none"]
    /\ moved = [m \in MRs |-> FALSE] /\ lead = "online"
    /\ issue = [m \in MRs |-> "none"] /\ onMain = [m \in MRs |-> FALSE]
    /\ depsDone = [m \in MRs |-> FALSE]
    /\ job = [m \in MRs |-> NoJob] /\ worker = [w \in Workers |-> Idle]
    /\ overtaken = 0
    /\ acts = 0 /\ failures = 0 /\ crashes = 0

Work(w) ==
    \/ Scan(w) \/ ClaimNext(w) \/ EndScan(w)
    \/ LoadCandidate(w) \/ Chat(w) \/ ApplyReview(w) \/ RecordDecision(w)
    \/ ReconcileMerge(w) \/ CheckMerge(w) \/ GitMerge(w) \/ PersistMerged(w) \/ ReturnConflict(w)
    \/ Wait(w) \/ Retry(w) \/ Block(w) \/ Conflict(w) \/ Complete(w)

Next ==
    \/ \E w \in Workers : Work(w) \/ Crash(w)
    \/ \E m \in MRs : \/ Submit(m) \/ DepsMerge(m) \/ TakeOver(m) \/ RaiseIssue(m) \/ ResolveIssue(m)
                       \/ BranchMoves(m) \/ Elapse(m)
    \/ LeadChanges

Spec == Init /\ [][Next]_vars

\* A worker goes on while its process runs (Scan has a ticker, every call a
\* timeout), and time passes.  People need do nothing.
Fairness ==
    /\ \A w \in Workers : WF_vars(Work(w))
    /\ \A m \in MRs : WF_vars(Elapse(m))

FairSpec == Spec /\ Fairness

------------------------------------------------------------------------------
(* Properties.                                                             *)

JobStatus == {"none", "blocked", "completed"} \cup ReviewWaits \cup MergeWaits \cup Processing
Codes     == MergeCodes \cup ReviewCodes
JobRow    == [status : JobStatus, code : {"none"} \cup Codes, due : BOOLEAN, reviews : Nat]
WorkerRow == [pc : {"idle", "claim", "load", "chat", "apply", "record", "reconcile", "merge", "git",
                    "persist", "return", "wait", "retry", "block", "conflict", "complete"},
              mr : {0} \cup MRs, phase : {"none", "retry_review"} \cup Processing,
              next : {"none", "invalid", "approved", "changes_requested"} \cup Codes,
              left : 0 .. ScanLimit]

\* Every row and every worker stays in its domain; a status names a phase.
TypeOK ==
    /\ mr \in [MRs -> {"none"} \cup Open \cup Decided]
    /\ report \in [MRs -> {"none", "sound", "thin", "risky", "unsafe"}]
    /\ moved \in [MRs -> BOOLEAN] /\ onMain \in [MRs -> BOOLEAN] /\ depsDone \in [MRs -> BOOLEAN]
    /\ lead \in {"online", "offline", "replaced"}
    /\ issue \in [MRs -> {"none", "open", "resolved"}]
    /\ job \in [MRs -> JobRow]
    /\ {acts, failures, crashes, overtaken} \subseteq Nat
    /\ worker \in [Workers -> WorkerRow]

\* A job is completed only when its merge request is merged or returned,
\* although complete() matches the job by its id alone and a decision and
\* the job's next status are two statements: nothing approved is forgotten.
CompletedIsDecided ==
    \A m \in MRs : job[m].status = "completed" => mr[m] \in Decided

Decision(m) == INSTANCE MergeDecision WITH status <- mr[m], landed <- onMain[m]

\* Workers that act on a claim somebody else has taken over, on an approval
\* that was withdrawn, or after a crash between git merge and its record,
\* decide a merge request once, and report merged only what is on main.
KeepsDecisions ==
    /\ \A m \in MRs : Decision(m)!Init
    /\ [][\A m \in MRs : [Decision(m)!Next]_(Decision(m)!vars)]_vars

\* What the worker can do for m is done: it is decided, a person has to act,
\* the lead is away, or other steps have to be merged first.
Settled(m) ==
    \/ mr[m] \in Decided \cup {"none"}
    \/ issue[m] = "open"
    \/ job[m].status = "blocked" /\ (mr[m] = "approved" => job[m].code \in MergeCodes)
    \/ lead = "offline"
    \/ ~depsDone[m]

\* No merge request is forgotten: despite crashes, stale claims, retries and
\* a lead that comes and goes, each is settled again and again, hence for
\* good once people have done their part.
NoneForgotten == \A m \in MRs : []<>Settled(m)

=============================================================================
