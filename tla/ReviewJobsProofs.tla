-------------------------- MODULE ReviewJobsProofs --------------------------
(***************************************************************************)
(* For any number of workers and merge requests and whatever the bounds: a *)
(* review job is completed only when its merge request is decided, and     *)
(* every merge request is a MergeDecision.                                 *)
(***************************************************************************)
EXTENDS ReviewJobs, TLAPS

MRStatus == {"none"} \cup Open \cup Decided

\* What a worker at a place of its job knows, when the merge requests stand
\* as in st: the job it has, and that what it is about to record is decided.
Knows(r, st) ==
    /\ r.pc = "claim" => r.left # 0
    /\ r.pc \notin {"idle", "claim"} => r.mr \in MRs
    /\ r.pc = "block" => r.next \in Codes
    /\ r.pc = "apply" => r.next \in {"approved", "changes_requested"}
    /\ r.pc = "record" => r.next = "approved" \/ st[r.mr] \in Decided
    /\ r.pc = "complete" => st[r.mr] \in Decided

WorkersKnow == \A w \in Workers : Knows(worker[w], mr)

\* The inductive invariant.
IInv == TypeOK /\ WorkersKnow /\ CompletedIsDecided

\* A decision is never taken back.
DecisionsStand ==
    /\ mr' \in [MRs -> MRStatus]
    /\ \A m \in MRs : mr[m] \in Decided => mr'[m] \in Decided

\* What a step does to the rows of the jobs and to the workers.
JobsFit    == job' \in [MRs -> JobRow] /\ CompletedIsDecided'
WorkersFit == worker' \in [Workers -> WorkerRow] /\ WorkersKnow'

\* The rest of the types.
WorldFits ==
    /\ report' \in [MRs -> {"none", "sound", "thin", "risky", "unsafe"}]
    /\ moved' \in [MRs -> BOOLEAN] /\ onMain' \in [MRs -> BOOLEAN] /\ depsDone' \in [MRs -> BOOLEAN]
    /\ lead' \in {"online", "offline", "replaced"}
    /\ issue' \in [MRs -> {"none", "open", "resolved"}]
    /\ {acts', failures', crashes', overtaken'} \subseteq Nat

\* The four of them are the invariant after the step.
LEMMA StepFits ==
    ASSUME DecisionsStand, JobsFit, WorkersFit, WorldFits
    PROVE  IInv'
BY DEF DecisionsStand, JobsFit, WorkersFit, WorldFits, IInv, TypeOK, MRStatus

\* A row that enters a status keeps its type.
LEMMA EnterType ==
    ASSUME NEW j \in JobRow, NEW status \in JobStatus
    PROVE  Enter(j, status) \in JobRow /\ Enter(j, status).status = status
           /\ Enter(j, status).reviews = j.reviews /\ Enter(j, status).code = j.code
<1> DEFINE k == [j EXCEPT !.status = status]
           b == status \in {"pending", "merge_pending"}
<1>1. k \in JobRow /\ k.status = status /\ k.reviews = j.reviews /\ k.code = j.code
  BY DEF JobRow
<1>2. b \in BOOLEAN
  OBVIOUS
<1>3. Enter(j, status) = [k EXCEPT !.due = b]
  BY DEF Enter, JobRow
<1> HIDE DEF k, b
<1> QED BY <1>1, <1>2, <1>3 DEF JobRow

\* A worker keeps what it knows when decisions stand.
LEMMA KnowsStays ==
    ASSUME IInv, DecisionsStand, NEW w \in Workers
    PROVE  Knows(worker[w], mr')
BY DEF IInv, WorkersKnow, Knows, DecisionsStand

\* A worker becomes one of the right type that knows what it must.
LEMMA BecomeFits ==
    ASSUME IInv, DecisionsStand, NEW w \in Workers, NEW r \in WorkerRow,
           Knows(r, mr'), Become(w, r)
    PROVE  WorkersFit
<1>1. worker \in [Workers -> WorkerRow]
  BY DEF IInv, TypeOK
<1>2. worker' = [worker EXCEPT ![w] = r]
  BY DEF Become
<1>3. worker' \in [Workers -> WorkerRow]
  BY <1>1, <1>2
<1>4. ASSUME NEW v \in Workers PROVE Knows(worker'[v], mr')
  <2>1. CASE v = w
    BY <1>1, <1>2, <2>1
  <2>2. CASE v # w
    BY <1>1, <1>2, <2>2, KnowsStays
  <2> QED BY <2>1, <2>2
<1> QED BY <1>3, <1>4 DEF WorkersFit, WorkersKnow

\* No worker moves.
LEMMA WorkersRest ==
    ASSUME IInv, DecisionsStand, UNCHANGED worker
    PROVE  WorkersFit
<1>1. \A w \in Workers : Knows(worker[w], mr')
  BY KnowsStays
<1> QED BY <1>1 DEF WorkersFit, WorkersKnow, IInv, TypeOK

\* One job changes; it is completed only if its merge request is decided.
LEMMA JobFits ==
    ASSUME IInv, DecisionsStand, NEW m \in MRs, NEW j \in JobRow,
           job' = [job EXCEPT ![m] = j],
           j.status = "completed" => mr'[m] \in Decided
    PROVE  JobsFit
<1>1. job \in [MRs -> JobRow]
  BY DEF IInv, TypeOK
<1>2. job' \in [MRs -> JobRow]
  BY <1>1
<1>3. ASSUME NEW n \in MRs, job'[n].status = "completed" PROVE mr'[n] \in Decided
  <2>1. CASE n = m
    BY <1>1, <1>3, <2>1
  <2>2. CASE n # m
    BY <1>1, <1>3, <2>2 DEF IInv, CompletedIsDecided, DecisionsStand
  <2> QED BY <2>1, <2>2
<1> QED BY <1>2, <1>3 DEF JobsFit, CompletedIsDecided

\* No job changes.
LEMMA JobsRest ==
    ASSUME IInv, DecisionsStand, UNCHANGED job
    PROVE  JobsFit
BY DEF IInv, TypeOK, JobsFit, CompletedIsDecided, DecisionsStand

\* enqueueAndReconcile completes what is decided and nothing else.
LEMMA ReconcileFits ==
    ASSUME IInv, DecisionsStand, UNCHANGED mr, ReconcileJobs
    PROVE  JobsFit
<1> DEFINE New(m) == Reconciled(job[m], mr[m])
<1>1. ASSUME NEW m \in MRs
      PROVE  New(m) \in JobRow /\ (New(m).status = "completed" => mr[m] \in Decided)
  <2>1. job[m] \in JobRow /\ mr[m] \in MRStatus
    BY DEF IInv, TypeOK, MRStatus
  <2>2. job[m].status = "completed" => mr[m] \in Decided
    BY DEF IInv, CompletedIsDecided
  <2> DEFINE j   == job[m]
             st  == mr[m]
             new == IF j.status = "none" /\ st \in Open
                    THEN Enter(j, IF st = "approved" THEN "merge_pending" ELSE "pending") ELSE j
             inReview == \/ new.status \in ReviewWaits \cup {"reviewing"}
                         \/ new.status = "blocked" /\ new.code \notin MergeCodes
  <2>3. {"completed", "merge_pending", "pending"} \subseteq JobStatus
    BY DEF JobStatus, ReviewWaits, MergeWaits
  <2>4. new \in JobRow /\ (new.status = "completed" => st \in Decided)
    BY <2>1, <2>2, <2>3, EnterType
  <2>5. New(m) = IF st \in Decided /\ new.status # "none" THEN Enter(new, "completed")
                 ELSE IF st = "approved" /\ inReview
                      THEN [Enter(new, "merge_pending") EXCEPT !.code = "none"]
                 ELSE new
    BY DEF Reconciled
  <2> HIDE DEF new, inReview, New
  <2>6. CASE st \in Decided /\ new.status # "none"
    BY <2>3, <2>4, <2>5, <2>6, EnterType
  <2>7. CASE ~(st \in Decided /\ new.status # "none") /\ st = "approved" /\ inReview
    <3>1. Enter(new, "merge_pending") \in JobRow /\ Enter(new, "merge_pending").status = "merge_pending"
      BY <2>3, <2>4, EnterType
    <3>2. New(m) = [Enter(new, "merge_pending") EXCEPT !.code = "none"]
      BY <2>5, <2>7
    <3> QED BY <3>1, <3>2 DEF JobRow
  <2>8. CASE ~(st \in Decided /\ new.status # "none") /\ ~(st = "approved" /\ inReview)
    BY <2>4, <2>5, <2>8
  <2> QED BY <2>6, <2>7, <2>8
<1>2. job' = [m \in MRs |-> New(m)]
  BY DEF ReconcileJobs
<1> QED BY <1>1, <1>2 DEF JobsFit, CompletedIsDecided

------------------------------------------------------------------------------
(* What the steps have in common.                                          *)

\* No merge request is decided.
LEMMA NobodyDecides ==
    ASSUME IInv, UNCHANGED mr
    PROVE  DecisionsStand
BY DEF IInv, TypeOK, DecisionsStand, MRStatus

\* One merge request is decided that was not.
LEMMA OneDecided ==
    ASSUME IInv, NEW m \in MRs, NEW d \in MRStatus, mr[m] \notin Decided,
           mr' = [mr EXCEPT ![m] = d]
    PROVE  DecisionsStand /\ mr'[m] = d
BY DEF IInv, TypeOK, DecisionsStand, MRStatus

\* Whoever may be reviewed was not decided.
LEMMA Reviewed ==
    ASSUME IInv, NEW m \in MRs, NEW d \in {"approved", "changes_requested"},
           CanReview(m, d), Review(m, d)
    PROVE  DecisionsStand /\ mr'[m] = d
<1>1. mr[m] \notin Decided
  BY DEF CanReview, Decided
<1>2. d \in MRStatus /\ mr' = [mr EXCEPT ![m] = d]
  BY DEF MRStatus, Open, Decided, Review
<1> QED BY <1>1, <1>2, OneDecided

\* An approved merge request is merged.
LEMMA MergedDecides ==
    ASSUME IInv, NEW m \in MRs, mr[m] = "approved", Merged(m)
    PROVE  DecisionsStand /\ mr'[m] \in Decided
<1>1. "merged" \in MRStatus /\ "merged" \in Decided /\ mr[m] \notin Decided
  BY DEF MRStatus, Decided
<1>2. mr' = [mr EXCEPT ![m] = "merged"]
  BY DEF Merged
<1> QED BY <1>1, <1>2, OneDecided

\* A step of a worker leaves the world alone.
LEMMA WorldRests ==
    ASSUME IInv, UNCHANGED World, failures' \in Nat,
           issue' \in [MRs -> {"none", "open", "resolved"}], onMain' \in [MRs -> BOOLEAN]
    PROVE  WorldFits
BY DEF IInv, TypeOK, World, WorldFits

\* A step of a worker that decides nothing leaves issues and main alone too.
LEMMA MRRests ==
    ASSUME IInv, MRUnchanged, UNCHANGED World, failures' \in Nat
    PROVE  DecisionsStand /\ WorldFits
<1>1. UNCHANGED mr /\ issue' \in [MRs -> {"none", "open", "resolved"}] /\ onMain' \in [MRs -> BOOLEAN]
  BY DEF MRUnchanged, IInv, TypeOK
<1> QED BY <1>1, WorldRests, NobodyDecides

\* The counter of failures is a number.
LEMMA FailuresCount ==
    ASSUME IInv, Fail \/ UNCHANGED failures
    PROVE  failures' \in Nat
BY DEF IInv, TypeOK, Fail

\* A worker that has a job.
LEMMA HasJob ==
    ASSUME IInv, NEW w \in Workers
    PROVE  /\ worker[w] \in WorkerRow /\ Knows(worker[w], mr)
           /\ worker[w].pc \notin {"idle", "claim"} =>
                 worker[w].mr \in MRs /\ job[worker[w].mr] \in JobRow
BY DEF IInv, TypeOK, WorkersKnow, Knows

\* The scan goes on with its next job or ends.
LEMMA NextJobFits ==
    ASSUME IInv, DecisionsStand, NEW w \in Workers, NextJob(w)
    PROVE  WorkersFit
<1> DEFINE r == IF worker[w].left = 0 THEN Idle
                ELSE [Idle EXCEPT !.pc = "claim", !.left = worker[w].left]
<1>1. worker[w].left \in 0 .. ScanLimit
  BY HasJob DEF WorkerRow
<1>2. r \in WorkerRow
  BY <1>1, ReviewBounds DEF Idle, WorkerRow
<1>3. Knows(r, mr')
  BY <1>1 DEF Idle, Knows
<1>4. Become(w, r)
  BY DEF NextJob
<1> HIDE DEF r
<1> QED BY <1>2, <1>3, <1>4, BecomeFits

Places == {"load", "chat", "apply", "record", "reconcile", "merge", "git", "persist",
           "return", "wait", "retry", "block", "conflict", "complete"}
Outcomes == {"none", "invalid", "approved", "changes_requested"} \cup Codes

\* A worker goes on with its job, to a place where it knows what it must.
LEMMA GoesOn ==
    ASSUME IInv, DecisionsStand, NEW w \in Workers, worker[w].mr \in MRs,
           NEW pc \in Places, NEW next \in Outcomes, GotoWith(w, pc, next),
           pc = "block" => next \in Codes,
           pc = "apply" => next \in {"approved", "changes_requested"},
           pc = "record" => next = "approved" \/ mr'[worker[w].mr] \in Decided,
           pc = "complete" => mr'[worker[w].mr] \in Decided
    PROVE  WorkersFit
<1> DEFINE r == [worker[w] EXCEPT !.pc = pc, !.next = next]
<1>1. worker[w] \in WorkerRow
  BY HasJob
<1>2. r \in WorkerRow /\ r.pc = pc /\ r.next = next /\ r.mr = worker[w].mr
  BY <1>1 DEF WorkerRow, Places, Outcomes
<1>3. Become(w, r)
  BY DEF GotoWith
<1> HIDE DEF r
<1>4. Knows(r, mr')
  BY <1>2 DEF Knows, Places
<1> QED BY <1>2, <1>3, <1>4, BecomeFits

\* Goto keeps what was decided.
LEMMA GotoKeeps ==
    ASSUME IInv, NEW w \in Workers, NEW pc \in Places, Goto(w, pc)
    PROVE  GotoWith(w, pc, worker[w].next) /\ worker[w].next \in Outcomes
<1>1. worker[w] \in WorkerRow
  BY HasJob
<1>2. [worker[w] EXCEPT !.pc = pc] = [worker[w] EXCEPT !.pc = pc, !.next = worker[w].next]
  BY <1>1 DEF WorkerRow
<1> QED BY <1>1, <1>2 DEF Goto, GotoWith, WorkerRow, Outcomes

------------------------------------------------------------------------------
(* The steps of a worker.                                                  *)

\* Names of statuses and places are in their sets.
LEMMA Names ==
    /\ {"completed", "merge_pending", "pending", "blocked", "retry_review", "retry_merge",
        "waiting_merge", "waiting_review", "merging", "reviewing"} \subseteq JobStatus
    /\ {"none", "invalid", "approved", "changes_requested", "merge_identity_invalid",
        "merge_source_invalid", "merge_abort_failed", "merge_conflict_review_failed",
        "review_state_invalid", "human_decision_required", "review_diff_invalid",
        "invalid_review_response"} \subseteq Outcomes
    /\ {"merge_identity_invalid", "merge_source_invalid", "merge_abort_failed",
        "merge_conflict_review_failed", "review_state_invalid", "human_decision_required",
        "review_diff_invalid", "invalid_review_response"} \subseteq Codes
BY DEF JobStatus, ReviewWaits, MergeWaits, Processing, Outcomes, Codes, MergeCodes, ReviewCodes

\* A scan begins: it completes what is decided, and there is a job to claim.
LEMMA ScanFits ==
    ASSUME IInv, NEW w \in Workers, Scan(w)
    PROVE  IInv'
<1>1. DecisionsStand /\ WorldFits
  BY MRRests, FailuresCount DEF Scan
<1>2. JobsFit
  BY <1>1, ReconcileFits DEF Scan, MRUnchanged
<1> DEFINE r == [Idle EXCEPT !.pc = "claim", !.left = ScanLimit]
<1>3. Become(w, r)
  BY DEF Scan
<1>4. ScanLimit \in 0 .. ScanLimit /\ ScanLimit # 0
  BY ReviewBounds
<1>5. r \in WorkerRow /\ Knows(r, mr')
  <2>1. Idle \in WorkerRow /\ Idle.mr = 0
    BY ReviewBounds DEF Idle, WorkerRow
  <2>2. r \in WorkerRow /\ r.pc = "claim" /\ r.left = ScanLimit
    BY <1>4, <2>1 DEF WorkerRow
  <2> HIDE DEF r
  <2> QED BY <1>4, <2>2 DEF Knows
<1> HIDE DEF r
<1>6. WorkersFit
  BY <1>1, <1>3, <1>5, BecomeFits
<1> QED BY <1>1, <1>2, <1>6, StepFits

\* claimNext completes the job of a merge request that is decided.
LEMMA ClaimNextFits ==
    ASSUME IInv, NEW w \in Workers, ClaimNext(w)
    PROVE  IInv'
<1>0. PICK m \in Claimable :
         LET phase == IF mr[m] = "approved" THEN "merging" ELSE "reviewing"
         IN  /\ worker[w].pc = "claim"
             /\ IF mr[m] \in Decided
                THEN /\ job' = [job EXCEPT ![m] = Enter(job[m], "completed")]
                     /\ Become(w, Idle)
                ELSE /\ job' = [job EXCEPT ![m] = Enter(job[m], phase)]
                     /\ Become(w, [pc |-> IF phase = "merging" THEN "reconcile" ELSE "load",
                                   mr |-> m, phase |-> phase, next |-> "none",
                                   left |-> worker[w].left - 1])
             /\ UNCHANGED failures /\ MRUnchanged /\ UNCHANGED World
  BY DEF ClaimNext
<1>1. DecisionsStand /\ WorldFits /\ UNCHANGED mr
  BY <1>0, MRRests, FailuresCount DEF MRUnchanged
<1>2. m \in MRs /\ job[m] \in JobRow
  BY DEF Claimable, IInv, TypeOK
<1>3. CASE mr[m] \in Decided
  <2>1. Enter(job[m], "completed") \in JobRow
    BY <1>2, EnterType, Names
  <2>2. job' = [job EXCEPT ![m] = Enter(job[m], "completed")] /\ mr'[m] \in Decided
    BY <1>0, <1>1, <1>3
  <2>3. JobsFit
    BY <1>1, <1>2, <2>1, <2>2, JobFits
  <2>4. Idle \in WorkerRow /\ Knows(Idle, mr')
    BY ReviewBounds DEF Idle, WorkerRow, Knows
  <2>5. Become(w, Idle)
    BY <1>0, <1>3
  <2>6. WorkersFit
    BY <1>1, <2>4, <2>5, BecomeFits
  <2> QED BY <1>1, <2>3, <2>6, StepFits
<1>4. CASE mr[m] \notin Decided
  <2> DEFINE phase == IF mr[m] = "approved" THEN "merging" ELSE "reviewing"
             r == [pc |-> IF phase = "merging" THEN "reconcile" ELSE "load",
                   mr |-> m, phase |-> phase, next |-> "none", left |-> worker[w].left - 1]
  <2>1. /\ job' = [job EXCEPT ![m] = Enter(job[m], phase)]
        /\ Become(w, r)
        /\ worker[w].pc = "claim"
    BY <1>0, <1>4
  <2>2. Enter(job[m], phase) \in JobRow /\ Enter(job[m], phase).status # "completed"
    BY <1>2, EnterType, Names
  <2>3. JobsFit
    BY <1>1, <1>2, <2>1, <2>2, JobFits
  <2>4. worker[w].left \in 0 .. ScanLimit /\ worker[w].left # 0
    BY <2>1, HasJob DEF WorkerRow, Knows
  <2>5. r \in WorkerRow /\ Knows(r, mr')
    BY <1>2, <2>4, ReviewBounds DEF WorkerRow, Processing, Knows
  <2> HIDE DEF r
  <2>6. WorkersFit
    BY <1>1, <2>1, <2>5, BecomeFits
  <2> QED BY <1>1, <2>3, <2>6, StepFits
<1> QED BY <1>3, <1>4

\* A scan that finds nothing to claim ends.
LEMMA EndScanFits ==
    ASSUME IInv, NEW w \in Workers, EndScan(w)
    PROVE  IInv'
<1>1. DecisionsStand /\ WorldFits
  BY MRRests, FailuresCount DEF EndScan
<1>2. JobsFit
  BY <1>1, JobsRest DEF EndScan
<1>3. Idle \in WorkerRow /\ Knows(Idle, mr')
  BY ReviewBounds DEF Idle, WorkerRow, Knows
<1>4. WorkersFit
  BY <1>1, <1>3, BecomeFits DEF EndScan
<1> QED BY <1>1, <1>2, <1>4, StepFits

\* The steps that end the processing of a job write its row, then take the
\* next one.
LEMMA EndsJob ==
    ASSUME IInv, NEW w \in Workers, worker[w].pc \notin {"idle", "claim"},
           DecisionsStand, WorldFits, NextJob(w), NEW j \in JobRow,
           job' = [job EXCEPT ![worker[w].mr] = j],
           j.status = "completed" => mr'[worker[w].mr] \in Decided
    PROVE  IInv'
<1>1. worker[w].mr \in MRs
  BY HasJob
<1>2. JobsFit
  BY <1>1, JobFits
<1>3. WorkersFit
  BY NextJobFits
<1> QED BY <1>2, <1>3, StepFits

\* A step that finds its job taken by another claim goes to the next one.
LEMMA LeavesJob ==
    ASSUME IInv, NEW w \in Workers, DecisionsStand, WorldFits, NextJob(w), UNCHANGED job
    PROVE  IInv'
BY NextJobFits, JobsRest, StepFits

\* wait puts a job back, never among the completed.
LEMMA WaitFits ==
    ASSUME IInv, NEW w \in Workers, Wait(w)
    PROVE  IInv'
<1>1. DecisionsStand /\ WorldFits /\ NextJob(w) /\ worker[w].pc = "wait"
  BY MRRests, FailuresCount DEF Wait
<1>2. CASE UNCHANGED job
  BY <1>1, <1>2, LeavesJob
<1>3. CASE ~UNCHANGED job
  <2> DEFINE m == worker[w].mr
             j == Enter(job[m], IF worker[w].phase = "merging" THEN "waiting_merge"
                                                               ELSE "waiting_review")
  <2>1. job' = [job EXCEPT ![m] = j]
    BY <1>3 DEF Wait
  <2>2. job[m] \in JobRow
    BY <1>1, HasJob
  <2>3. j \in JobRow /\ j.status # "completed"
    BY <2>2, EnterType, Names
  <2> HIDE DEF j
  <2> QED BY <1>1, <2>1, <2>3, EndsJob
<1> QED BY <1>2, <1>3

\* retry counts the attempt and may go on to block.
LEMMA RetryFits ==
    ASSUME IInv, NEW w \in Workers, Retry(w)
    PROVE  IInv'
<1>1. DecisionsStand /\ WorldFits /\ worker[w].pc = "retry"
  BY MRRests, FailuresCount DEF Retry
<1>2. CASE job[worker[w].mr].status # worker[w].phase
  BY <1>1, <1>2, LeavesJob DEF Retry
<1>3. CASE job[worker[w].mr].status = worker[w].phase
  <2> DEFINE m == worker[w].mr
             e == Enter(job[m], IF worker[w].phase = "reviewing" THEN "retry_review" ELSE "retry_merge")
             j == [e EXCEPT !.reviews = job[m].reviews
                                        + (IF worker[w].phase = "reviewing" THEN 1 ELSE 0)]
             r == [worker[w] EXCEPT !.pc = "block", !.phase = "retry_review",
                                    !.next = "invalid_review_response"]
  <2>1. /\ job' = [job EXCEPT ![m] = j]
        /\ NextJob(w) \/ Become(w, r)
    BY <1>3 DEF Retry
  <2>2. job[m] \in JobRow /\ worker[w] \in WorkerRow /\ m \in MRs
    BY <1>1, HasJob
  <2>3. e \in JobRow /\ e.status # "completed"
    BY <2>2, EnterType, Names
  <2>4. job[m].reviews + (IF worker[w].phase = "reviewing" THEN 1 ELSE 0) \in Nat
    BY <2>2 DEF JobRow
  <2> HIDE DEF e
  <2>5. j \in JobRow /\ j.status # "completed"
    BY <2>3, <2>4 DEF JobRow
  <2> HIDE DEF j
  <2>6. JobsFit
    BY <1>1, <2>1, <2>2, <2>5, JobFits
  <2>7. CASE NextJob(w)
    BY <1>1, <2>6, <2>7, NextJobFits, StepFits
  <2>8. CASE Become(w, r)
    <3>1. "invalid_review_response" \in Codes
      BY Names
    <3>2. r \in WorkerRow /\ Knows(r, mr')
      BY <2>2, <3>1 DEF WorkerRow, Knows
    <3> HIDE DEF r
    <3> QED BY <1>1, <2>6, <2>8, <3>2, BecomeFits, StepFits
  <2> QED BY <2>1, <2>7, <2>8
<1> QED BY <1>2, <1>3

\* block stops the job with a code, and opens an issue.
LEMMA BlockFits ==
    ASSUME IInv, NEW w \in Workers, Block(w)
    PROVE  IInv'
<1> DEFINE m == worker[w].mr
           ok == job[m].status = worker[w].phase /\ job[m].code = "none"
<1>1. worker[w].pc = "block" /\ UNCHANGED <<mr, onMain, failures>> /\ UNCHANGED World /\ NextJob(w)
  BY DEF Block
<1>2. m \in MRs /\ job[m] \in JobRow /\ worker[w].next \in Codes
  BY <1>1, HasJob DEF Knows
<1>3. issue' = IF ok THEN [issue EXCEPT ![m] = "open"] ELSE issue
  BY DEF Block
<1>4. DecisionsStand /\ WorldFits
  <2>1. issue' \in [MRs -> {"none", "open", "resolved"}]
    BY <1>2, <1>3 DEF IInv, TypeOK
  <2>2. onMain' \in [MRs -> BOOLEAN] /\ failures' \in Nat
    BY <1>1 DEF IInv, TypeOK
  <2> QED BY <1>1, <2>1, <2>2, WorldRests, NobodyDecides
<1>5. CASE ~ok
  <2>1. UNCHANGED job
    BY <1>5 DEF Block
  <2> QED BY <1>1, <1>4, <2>1, LeavesJob
<1>6. CASE ok
  <2> DEFINE e == Enter(job[m], "blocked")
             j == [e EXCEPT !.code = worker[w].next]
  <2>1. job' = [job EXCEPT ![m] = j]
    BY <1>6 DEF Block
  <2>2. e \in JobRow /\ e.status = "blocked"
    BY <1>2, EnterType, Names
  <2> HIDE DEF e
  <2>3. j \in JobRow /\ j.status # "completed"
    BY <1>2, <2>2 DEF JobRow
  <2> HIDE DEF j
  <2> QED BY <1>1, <1>4, <2>1, <2>3, EndsJob
<1> QED BY <1>5, <1>6

\* After a conflict of states only what is decided is completed.
LEMMA ConflictFits ==
    ASSUME IInv, NEW w \in Workers, Conflict(w)
    PROVE  IInv'
<1>1. DecisionsStand /\ WorldFits
  BY MRRests, FailuresCount DEF Conflict
<1>2. JobsFit
  BY <1>1, ReconcileFits DEF Conflict, MRUnchanged
<1>3. WorkersFit
  BY <1>1, NextJobFits DEF Conflict
<1> QED BY <1>1, <1>2, <1>3, StepFits

\* What is completed here was decided before.
LEMMA CompleteFits ==
    ASSUME IInv, NEW w \in Workers, Complete(w)
    PROVE  IInv'
<1> DEFINE m == worker[w].mr
           j == Enter(job[m], "completed")
<1>1. /\ DecisionsStand /\ WorldFits /\ NextJob(w) /\ worker[w].pc = "complete"
      /\ job' = [job EXCEPT ![m] = j]
  BY MRRests, FailuresCount DEF Complete
<1>2. m \in MRs /\ job[m] \in JobRow /\ mr[m] \in Decided
  BY <1>1, HasJob DEF Knows
<1>3. j \in JobRow /\ mr'[m] \in Decided
  BY <1>1, <1>2, EnterType, Names DEF DecisionsStand
<1> HIDE DEF j
<1> QED BY <1>1, <1>3, EndsJob

\* What the worker records completed, the review before it returned.
LEMMA RecordDecisionFits ==
    ASSUME IInv, NEW w \in Workers, RecordDecision(w)
    PROVE  IInv'
<1>1. DecisionsStand /\ WorldFits /\ NextJob(w) /\ worker[w].pc = "record"
  BY MRRests, FailuresCount DEF RecordDecision
<1>2. CASE UNCHANGED job
  BY <1>1, <1>2, LeavesJob
<1>3. CASE ~UNCHANGED job
  <2> DEFINE m == worker[w].mr
             j == Enter(job[m], IF worker[w].next = "approved" THEN "merge_pending" ELSE "completed")
  <2>1. job' = [job EXCEPT ![m] = j]
    BY <1>3 DEF RecordDecision
  <2>2. m \in MRs /\ job[m] \in JobRow /\ (worker[w].next = "approved" \/ mr[m] \in Decided)
    BY <1>1, HasJob DEF Knows
  <2>3. j \in JobRow /\ (j.status = "completed" => mr'[m] \in Decided)
    BY <1>1, <2>2, EnterType, Names DEF DecisionsStand
  <2> HIDE DEF j
  <2> QED BY <1>1, <2>1, <2>3, EndsJob
<1> QED BY <1>2, <1>3

\* A step of a job that writes no row of a job.
LEMMA JobGoesOn ==
    ASSUME IInv, UNCHANGED job, DecisionsStand, WorldFits, WorkersFit
    PROVE  IInv'
BY JobsRest, StepFits

\* The gates send a worker on, or stop it with a code.
LEMMA LoadCandidateFits ==
    ASSUME IInv, NEW w \in Workers, LoadCandidate(w)
    PROVE  IInv'
<1>1. /\ DecisionsStand /\ WorldFits /\ UNCHANGED job
      /\ worker[w].pc = "load" /\ worker[w].mr \in MRs
  <2>1. Fail \/ UNCHANGED failures
    BY DEF LoadCandidate
  <2> QED BY <2>1, MRRests, FailuresCount, HasJob DEF LoadCandidate
<1> DEFINE g == GateOf(worker[w].mr)
<1>2. \/ GotoWith(w, g.pc, g.next) \/ GotoWith(w, "retry", "none")
  BY DEF LoadCandidate
<1>3. /\ g.pc \in {"block", "wait", "apply", "chat"}
      /\ g.pc = "block" => g.next \in {"review_state_invalid", "human_decision_required",
                                       "review_diff_invalid"}
      /\ g.pc = "apply" => g.next = "changes_requested"
      /\ g.pc \in {"wait", "chat"} => g.next = "none"
  BY DEF GateOf
<1> HIDE DEF g
<1>4. CASE GotoWith(w, g.pc, g.next)
  <2>1. g.pc \in Places /\ g.next \in Outcomes /\ (g.pc = "block" => g.next \in Codes)
    BY <1>3, Names DEF Places
  <2> QED BY <1>1, <1>3, <1>4, <2>1, GoesOn, JobGoesOn
<1>5. CASE GotoWith(w, "retry", "none")
  BY <1>1, <1>5, GoesOn, JobGoesOn, Names DEF Places
<1> QED BY <1>2, <1>4, <1>5

\* The lead's answer is a decision, or the attempt is repeated.
LEMMA ChatFits ==
    ASSUME IInv, NEW w \in Workers, Chat(w)
    PROVE  IInv'
<1>1. /\ DecisionsStand /\ WorldFits /\ UNCHANGED job
      /\ worker[w].pc = "chat" /\ worker[w].mr \in MRs
  <2>1. Fail \/ UNCHANGED failures
    BY DEF Chat
  <2> QED BY <2>1, MRRests, FailuresCount, HasJob DEF Chat
<1>2. \/ \E d \in {"approved", "changes_requested"} : GotoWith(w, "apply", d)
      \/ \E d \in {"invalid", "none"} : GotoWith(w, "retry", d)
  BY DEF Chat
<1>3. WorkersFit
  BY <1>1, <1>2, GoesOn, Names DEF Places
<1> QED BY <1>1, <1>3, JobGoesOn

\* A decision is recorded as what was decided.
LEMMA ApplyReviewFits ==
    ASSUME IInv, NEW w \in Workers, ApplyReview(w)
    PROVE  IInv'
<1> DEFINE m == worker[w].mr
           d == worker[w].next
<1>1. /\ worker[w].pc = "apply" /\ UNCHANGED <<issue, onMain, job>> /\ UNCHANGED World
      /\ failures' \in Nat
  <2>1. Fail \/ UNCHANGED failures
    BY DEF ApplyReview
  <2> QED BY <2>1, FailuresCount DEF ApplyReview
<1>2. m \in MRs /\ d \in {"approved", "changes_requested"} /\ d \in Outcomes
  BY <1>1, HasJob, Names DEF Knows
<1>3. WorldFits
  <2>1. issue' \in [MRs -> {"none", "open", "resolved"}] /\ onMain' \in [MRs -> BOOLEAN]
    BY <1>1 DEF IInv, TypeOK
  <2> QED BY <1>1, <2>1, WorldRests
<1>4. CASE CanReview(m, d) /\ Review(m, d) /\ Goto(w, "record")
  <2>1. DecisionsStand /\ mr'[m] = d
    BY <1>2, <1>4, Reviewed
  <2>2. GotoWith(w, "record", d)
    BY <1>4, GotoKeeps DEF Places
  <2>3. d = "approved" \/ mr'[m] \in Decided
    BY <1>2, <2>1 DEF Decided
  <2>4. WorkersFit
    BY <1>2, <2>1, <2>2, <2>3, GoesOn DEF Places
  <2> QED BY <1>1, <1>3, <2>1, <2>4, JobGoesOn
<1>5. CASE UNCHANGED mr /\ Goto(w, "conflict")
  <2>1. GotoWith(w, "conflict", d)
    BY <1>5, GotoKeeps DEF Places
  <2>2. DecisionsStand
    BY <1>5, NobodyDecides
  <2>3. WorkersFit
    BY <1>2, <2>1, <2>2, GoesOn DEF Places
  <2> QED BY <1>1, <1>3, <2>2, <2>3, JobGoesOn
<1>6. CASE UNCHANGED mr /\ GotoWith(w, "retry", "none")
  <2>1. DecisionsStand
    BY <1>6, NobodyDecides
  <2>2. WorkersFit
    BY <1>2, <1>6, <2>1, GoesOn, Names DEF Places
  <2> QED BY <1>1, <1>3, <2>1, <2>2, JobGoesOn
<1> QED BY <1>4, <1>5, <1>6 DEF ApplyReview

\* A merge that is on main already is only recorded.
LEMMA ReconcileMergeFits ==
    ASSUME IInv, NEW w \in Workers, ReconcileMerge(w)
    PROVE  IInv'
<1> DEFINE m == worker[w].mr
<1>1. worker[w].pc = "reconcile" /\ UNCHANGED <<issue, onMain, job, failures>> /\ UNCHANGED World
  BY DEF ReconcileMerge
<1>2. m \in MRs /\ worker[w].next \in Outcomes
  BY <1>1, HasJob DEF WorkerRow, Outcomes
<1>3. WorldFits
  BY <1>1, WorldRests DEF IInv, TypeOK
<1>4. CASE mr[m] = "approved" /\ Merged(m) /\ Goto(w, "complete")
  <2>1. DecisionsStand /\ mr'[m] \in Decided
    BY <1>2, <1>4, MergedDecides
  <2>2. GotoWith(w, "complete", worker[w].next)
    BY <1>4, GotoKeeps DEF Places
  <2>3. WorkersFit
    BY <1>2, <2>1, <2>2, GoesOn DEF Places
  <2> QED BY <1>1, <1>3, <2>1, <2>3, JobGoesOn
<1>5. CASE UNCHANGED mr /\ GotoWith(w, "block", "merge_identity_invalid")
  BY <1>1, <1>2, <1>3, <1>5, NobodyDecides, GoesOn, JobGoesOn, Names DEF Places
<1>6. CASE UNCHANGED mr /\ Goto(w, "merge")
  <2>1. GotoWith(w, "merge", worker[w].next)
    BY <1>6, GotoKeeps DEF Places
  <2> QED BY <1>1, <1>2, <1>3, <1>6, <2>1, NobodyDecides, GoesOn, JobGoesOn DEF Places
<1> QED BY <1>4, <1>5, <1>6 DEF ReconcileMerge

\* A merge that is checked goes on to git or its record, or is refused.
LEMMA CheckMergeFits ==
    ASSUME IInv, NEW w \in Workers, CheckMerge(w)
    PROVE  IInv'
<1> DEFINE g == MergeRefusal(worker[w].mr)
<1>1. /\ worker[w].pc = "merge" /\ UNCHANGED job /\ GotoWith(w, g.pc, g.next)
      /\ DecisionsStand /\ WorldFits
  BY MRRests, FailuresCount DEF CheckMerge
<1>2. worker[w].mr \in MRs
  BY <1>1, HasJob
<1>3. /\ g.pc \in {"conflict", "wait", "block", "persist", "git"}
      /\ g.pc = "block" => g.next = "merge_source_invalid"
      /\ g.pc # "block" => g.next = "none"
  BY DEF MergeRefusal
<1> HIDE DEF g
<1>4. g.pc \in Places /\ g.next \in Outcomes /\ (g.pc = "block" => g.next \in Codes)
  BY <1>3, Names DEF Places
<1> QED BY <1>1, <1>2, <1>3, <1>4, GoesOn, JobGoesOn

\* git merge is done, of whatever the branch has, or fails.
LEMMA GitMergeFits ==
    ASSUME IInv, NEW w \in Workers, GitMerge(w)
    PROVE  IInv'
<1>1. worker[w].pc = "git" /\ UNCHANGED <<mr, issue, job>> /\ UNCHANGED World
  BY DEF GitMerge
<1>2. worker[w].mr \in MRs /\ DecisionsStand
  BY <1>1, HasJob, NobodyDecides
<1>3. WorldFits
  <2>1. Fail \/ UNCHANGED failures
    BY DEF GitMerge
  <2>2. onMain' \in [MRs -> BOOLEAN]
    BY <1>2 DEF GitMerge, IInv, TypeOK
  <2>3. issue' \in [MRs -> {"none", "open", "resolved"}]
    BY <1>1 DEF IInv, TypeOK
  <2> QED BY <1>1, <2>1, <2>2, <2>3, FailuresCount, WorldRests
<1>4. \/ GotoWith(w, "block", "merge_abort_failed")
      \/ \E pc \in {"persist", "return", "wait", "retry"} : Goto(w, pc)
  BY DEF GitMerge
<1>5. CASE GotoWith(w, "block", "merge_abort_failed")
  BY <1>1, <1>2, <1>3, <1>5, GoesOn, JobGoesOn, Names DEF Places
<1>6. ASSUME NEW pc \in {"persist", "return", "wait", "retry"}, Goto(w, pc) PROVE IInv'
  <2>1. GotoWith(w, pc, worker[w].next) /\ worker[w].next \in Outcomes /\ pc \in Places
    BY <1>6, GotoKeeps DEF Places
  <2> QED BY <1>1, <1>2, <1>3, <2>1, GoesOn, JobGoesOn
<1> QED BY <1>4, <1>5, <1>6

\* The job is completed after its merge request is merged.
LEMMA PersistMergedFits ==
    ASSUME IInv, NEW w \in Workers, PersistMerged(w)
    PROVE  IInv'
<1> DEFINE m == worker[w].mr
<1>1. worker[w].pc = "persist" /\ UNCHANGED <<issue, onMain, job, failures>> /\ UNCHANGED World
  BY DEF PersistMerged
<1>2. m \in MRs /\ worker[w].next \in Outcomes
  BY <1>1, HasJob DEF WorkerRow, Outcomes
<1>3. WorldFits
  BY <1>1, WorldRests DEF IInv, TypeOK
<1>4. CASE mr[m] = "approved" /\ Merged(m) /\ Goto(w, "complete")
  <2>1. DecisionsStand /\ mr'[m] \in Decided
    BY <1>2, <1>4, MergedDecides
  <2>2. GotoWith(w, "complete", worker[w].next)
    BY <1>4, GotoKeeps DEF Places
  <2>3. WorkersFit
    BY <1>2, <2>1, <2>2, GoesOn DEF Places
  <2> QED BY <1>1, <1>3, <2>1, <2>3, JobGoesOn
<1>5. CASE UNCHANGED mr /\ Goto(w, "conflict")
  <2>1. GotoWith(w, "conflict", worker[w].next)
    BY <1>5, GotoKeeps DEF Places
  <2> QED BY <1>1, <1>2, <1>3, <1>5, <2>1, NobodyDecides, GoesOn, JobGoesOn DEF Places
<1> QED BY <1>4, <1>5 DEF PersistMerged

\* The job is completed after its merge request is returned.
LEMMA ReturnConflictFits ==
    ASSUME IInv, NEW w \in Workers, ReturnConflict(w)
    PROVE  IInv'
<1> DEFINE m == worker[w].mr
<1>1. /\ worker[w].pc = "return" /\ UNCHANGED <<issue, onMain, job>> /\ UNCHANGED World
      /\ failures' \in Nat
  <2>1. Fail \/ UNCHANGED failures
    BY DEF ReturnConflict
  <2> QED BY <2>1, FailuresCount DEF ReturnConflict
<1>2. m \in MRs /\ worker[w].next \in Outcomes
  BY <1>1, HasJob DEF WorkerRow, Outcomes
<1>3. WorldFits
  BY <1>1, WorldRests DEF IInv, TypeOK
<1>4. CASE CanReview(m, "changes_requested") /\ Review(m, "changes_requested") /\ Goto(w, "complete")
  <2>1. DecisionsStand /\ mr'[m] = "changes_requested"
    BY <1>2, <1>4, Reviewed
  <2>2. GotoWith(w, "complete", worker[w].next)
    BY <1>4, GotoKeeps DEF Places
  <2>3. mr'[m] \in Decided
    BY <2>1 DEF Decided
  <2>4. WorkersFit
    BY <1>2, <2>1, <2>2, <2>3, GoesOn DEF Places
  <2> QED BY <1>1, <1>3, <2>1, <2>4, JobGoesOn
<1>5. CASE UNCHANGED mr /\ Goto(w, "retry")
  <2>1. GotoWith(w, "retry", worker[w].next)
    BY <1>5, GotoKeeps DEF Places
  <2> QED BY <1>1, <1>2, <1>3, <1>5, <2>1, NobodyDecides, GoesOn, JobGoesOn DEF Places
<1>6. CASE UNCHANGED mr /\ GotoWith(w, "block", "merge_conflict_review_failed")
  BY <1>1, <1>2, <1>3, <1>6, NobodyDecides, GoesOn, JobGoesOn, Names DEF Places
<1> QED BY <1>4, <1>5, <1>6 DEF ReturnConflict

\* Every step of a worker.
LEMMA WorkFits ==
    ASSUME IInv, NEW w \in Workers, Work(w)
    PROVE  IInv'
<1>1. CASE Scan(w) \/ ClaimNext(w) \/ EndScan(w)
  BY <1>1, ScanFits, ClaimNextFits, EndScanFits
<1>2. CASE LoadCandidate(w) \/ Chat(w) \/ ApplyReview(w) \/ RecordDecision(w)
  BY <1>2, LoadCandidateFits, ChatFits, ApplyReviewFits, RecordDecisionFits
<1>3. CASE ReconcileMerge(w) \/ CheckMerge(w) \/ GitMerge(w) \/ PersistMerged(w) \/ ReturnConflict(w)
  BY <1>3, ReconcileMergeFits, CheckMergeFits, GitMergeFits, PersistMergedFits, ReturnConflictFits
<1>4. CASE Wait(w) \/ Retry(w) \/ Block(w) \/ Conflict(w) \/ Complete(w)
  BY <1>4, WaitFits, RetryFits, BlockFits, ConflictFits, CompleteFits
<1> QED BY <1>1, <1>2, <1>3, <1>4 DEF Work

------------------------------------------------------------------------------
(* The steps of people, of time and of a crash.                            *)

\* A process that dies has nothing to know.
LEMMA CrashFits ==
    ASSUME IInv, NEW w \in Workers, Crash(w)
    PROVE  IInv'
<1>1. DecisionsStand
  BY NobodyDecides DEF Crash
<1>2. WorldFits
  BY DEF Crash, WorldFits, IInv, TypeOK
<1>3. Idle \in WorkerRow /\ Knows(Idle, mr')
  BY ReviewBounds DEF Idle, WorkerRow, Knows
<1>4. WorkersFit
  BY <1>1, <1>3, BecomeFits DEF Crash
<1> QED BY <1>1, <1>2, <1>4, JobGoesOn DEF Crash

\* Time changes one job, and completes none.
LEMMA ElapseFits ==
    ASSUME IInv, NEW m \in MRs, Elapse(m)
    PROVE  IInv'
<1> DEFINE j == [job[m] EXCEPT !.due = TRUE]
<1>1. job[m] \in JobRow /\ job \in [MRs -> JobRow]
  BY DEF IInv, TypeOK
<1>2. job' = [job EXCEPT ![m] = j]
  BY <1>1 DEF Elapse
<1>3. j \in JobRow /\ j.status # "completed"
  BY <1>1 DEF JobRow, Elapse, ReviewWaits, MergeWaits, Processing
<1>4. DecisionsStand
  BY NobodyDecides DEF Elapse
<1>5. WorldFits
  BY DEF Elapse, WorldFits, IInv, TypeOK
<1> HIDE DEF j
<1>6. JobsFit
  BY <1>2, <1>3, <1>4, JobFits
<1>7. WorkersFit
  BY <1>4, WorkersRest DEF Elapse
<1> QED BY <1>4, <1>5, <1>6, <1>7, StepFits

\* Of what people do, only a report and a review touch a merge request, and
\* neither one that is decided.
LEMMA PeopleFit ==
    ASSUME IInv, NEW m \in MRs,
           \/ Submit(m) \/ DepsMerge(m) \/ TakeOver(m) \/ RaiseIssue(m) \/ ResolveIssue(m)
           \/ BranchMoves(m)
    PROVE  IInv'
<1>1. UNCHANGED <<worker, overtaken, failures, crashes, job>>
  BY DEF Submit, DepsMerge, TakeOver, RaiseIssue, ResolveIssue, BranchMoves, WorkersIdle
<1>2. WorldFits
  <2>1. CASE Submit(m)
    <3>1. \A r \in Reports[m] : r \in {"none", "sound", "thin", "risky", "unsafe"}
      BY ReportsAssumption
    <3>2. report' \in [MRs -> {"none", "sound", "thin", "risky", "unsafe"}]
      BY <2>1, <3>1 DEF Submit, IInv, TypeOK
    <3>3. depsDone' \in [MRs -> BOOLEAN]
      BY <2>1 DEF Submit, IInv, TypeOK
    <3> QED BY <2>1, <3>2, <3>3, <1>1 DEF Submit, WorldFits, IInv, TypeOK
  <2>2. CASE DepsMerge(m)
    BY <2>2, <1>1 DEF DepsMerge, WorldFits, IInv, TypeOK
  <2>3. CASE TakeOver(m)
    BY <2>3, <1>1 DEF TakeOver, Act, WorldFits, IInv, TypeOK
  <2>4. CASE RaiseIssue(m)
    BY <2>4, <1>1 DEF RaiseIssue, Act, WorldFits, IInv, TypeOK
  <2>5. CASE ResolveIssue(m)
    BY <2>5, <1>1 DEF ResolveIssue, WorldFits, IInv, TypeOK
  <2>6. CASE BranchMoves(m)
    BY <2>6, <1>1 DEF BranchMoves, Act, WorldFits, IInv, TypeOK
  <2> QED BY <2>1, <2>2, <2>3, <2>4, <2>5, <2>6
<1>3. DecisionsStand
  <2>1. CASE Submit(m)
    <3>1. "pending_review" \in MRStatus /\ "none" \notin Decided
      BY DEF MRStatus, Open, Decided
    <3> QED BY <2>1, <3>1, OneDecided DEF Submit
  <2>2. CASE TakeOver(m)
    BY <2>2, Reviewed DEF TakeOver
  <2>3. CASE UNCHANGED mr
    BY <2>3, NobodyDecides
  <2> QED BY <2>1, <2>2, <2>3 DEF DepsMerge, RaiseIssue, ResolveIssue, BranchMoves
<1> QED BY <1>1, <1>2, <1>3, WorkersRest, JobGoesOn

\* The lead may change when there is no merge request at all.
LEMMA LeadFits ==
    ASSUME IInv, LeadChanges
    PROVE  IInv'
<1>1. UNCHANGED <<worker, overtaken, failures, crashes, job, mr>>
  BY DEF LeadChanges, WorkersIdle
<1>2. WorldFits
  BY <1>1 DEF LeadChanges, Act, WorldFits, IInv, TypeOK
<1> QED BY <1>1, <1>2, NobodyDecides, WorkersRest, JobGoesOn

------------------------------------------------------------------------------
(* The theorems.                                                           *)

\* The invariant holds when nothing has been reported.
LEMMA InitFits == Init => IInv
<1> SUFFICES ASSUME Init PROVE IInv
  OBVIOUS
<1>1. NoJob \in JobRow /\ NoJob.status # "completed"
  BY DEF NoJob, JobRow, JobStatus
<1>2. Idle \in WorkerRow /\ Knows(Idle, mr)
  BY ReviewBounds DEF Idle, WorkerRow, Knows
<1>3. TypeOK
  BY <1>1, <1>2 DEF Init, TypeOK
<1>4. CompletedIsDecided
  BY <1>1 DEF Init, CompletedIsDecided
<1>5. WorkersKnow
  BY <1>2 DEF Init, WorkersKnow
<1> QED BY <1>3, <1>4, <1>5 DEF IInv

\* Every step keeps it.
LEMMA NextFits == IInv /\ [Next]_vars => IInv'
<1> SUFFICES ASSUME IInv, [Next]_vars PROVE IInv'
  OBVIOUS
<1>1. ASSUME NEW w \in Workers, Work(w) \/ Crash(w) PROVE IInv'
  BY <1>1, WorkFits, CrashFits
<1>2. ASSUME NEW m \in MRs, \/ Submit(m) \/ DepsMerge(m) \/ TakeOver(m) \/ RaiseIssue(m)
                             \/ ResolveIssue(m) \/ BranchMoves(m) \/ Elapse(m)
      PROVE  IInv'
  BY <1>2, PeopleFit, ElapseFits
<1>3. CASE LeadChanges
  BY <1>3, LeadFits
<1>4. CASE UNCHANGED vars
  BY <1>4 DEF vars, IInv, TypeOK, WorkersKnow, Knows, CompletedIsDecided
<1> QED BY <1>1, <1>2, <1>3, <1>4 DEF Next

\* The invariant of the review jobs: the types, what a worker knows at each
\* place of its job (the decision it is about to record has been taken, by
\* it or by somebody else), and that a completed job is decided.
THEOREM Invariance == Spec => []IInv
BY InitFits, NextFits, PTL DEF Spec

\* Every row of mr_review_jobs, and every worker, stays in its domain.
THEOREM TypeCorrect == Spec => []TypeOK
<1>1. IInv => TypeOK
  BY DEF IInv
<1> QED BY <1>1, Invariance, PTL

\* A job is completed only when its merge request is merged or returned,
\* although complete() looks at neither and a stale worker may still be at
\* work on the job.
THEOREM CompletedIsDecidedAlways == Spec => []CompletedIsDecided
<1>1. IInv => CompletedIsDecided
  BY DEF IInv
<1> QED BY <1>1, Invariance, PTL

------------------------------------------------------------------------------
(* Every merge request is a MergeDecision.  For that a second invariant is *)
(* needed, about the project lock: one worker at most is between the       *)
(* checks of a merge and its record.  What it merges has been approved and *)
(* is not merged by another; what it records is on main.                   *)

Held == {"git", "persist"}

Alone(w) == \A v \in Workers : worker[v].pc \in Held => v = w

Locked ==
    \A w \in Workers :
        /\ worker[w].pc \in Held => Alone(w)
        /\ worker[w].pc = "git" => mr[worker[w].mr] \in {"approved", "changes_requested"}
        /\ worker[w].pc = "persist" => onMain[worker[w].mr]

\* What a step may do to a merge request: a report or a review, the record
\* of a merge, or git merge.
Reviews(m) ==
    /\ \/ mr[m] = "none" /\ mr' = [mr EXCEPT ![m] = "pending_review"]
       \/ \E d \in {"approved", "changes_requested"} : CanReview(m, d) /\ Review(m, d)
    /\ UNCHANGED onMain

Records(m) == mr[m] = "approved" /\ onMain[m] /\ Merged(m) /\ UNCHANGED onMain

Lands(m) ==
    /\ mr[m] \in {"approved", "changes_requested"}
    /\ onMain' = [onMain EXCEPT ![m] = TRUE]
    /\ UNCHANGED mr

Decides ==
    \/ UNCHANGED <<mr, onMain>>
    \/ \E m \in MRs : Reviews(m) \/ Records(m) \/ Lands(m)

\* After the step the worker does not hold the lock.
LetsGo(w) == \E r : r.pc \notin Held /\ Become(w, r)

LEMMA MovesOn ==
    ASSUME IInv, NEW w \in Workers, NEW pc, pc \notin Held,
           Goto(w, pc) \/ \E next : GotoWith(w, pc, next)
    PROVE  LetsGo(w)
<1>1. worker[w] \in WorkerRow
  BY HasJob
<1>2. CASE Goto(w, pc)
  <2> DEFINE r == [worker[w] EXCEPT !.pc = pc]
  <2>1. r.pc = pc
    BY <1>1 DEF WorkerRow
  <2> QED BY <1>2, <2>1 DEF Goto, LetsGo
<1>3. ASSUME NEW next, GotoWith(w, pc, next) PROVE LetsGo(w)
  <2> DEFINE r == [worker[w] EXCEPT !.pc = pc, !.next = next]
  <2>1. r.pc = pc
    BY <1>1 DEF WorkerRow
  <2> QED BY <1>3, <2>1 DEF GotoWith, LetsGo
<1> QED BY <1>2, <1>3

LEMMA JobEnds ==
    ASSUME IInv, NEW w \in Workers, NextJob(w) \/ Become(w, Idle)
    PROVE  LetsGo(w)
<1>1. Idle.pc = "idle" /\ [Idle EXCEPT !.pc = "claim", !.left = worker[w].left].pc = "claim"
  BY DEF Idle
<1> QED BY <1>1 DEF NextJob, LetsGo, Held

\* Who does not get the lock disturbs nobody who has it, unless it records a
\* merge; and that it does only when it had the lock or nobody had.
LEMMA LockStays ==
    ASSUME IInv, Locked, UNCHANGED worker \/ \E w \in Workers : LetsGo(w),
           UNCHANGED <<mr, onMain>> \/ \E m \in MRs : Reviews(m)
    PROVE  Locked' /\ Decides
<1>1. ASSUME NEW v \in Workers, worker'[v].pc \in Held PROVE worker'[v] = worker[v]
  BY <1>1 DEF LetsGo, Become, IInv, TypeOK
<1>2. \A m \in MRs : mr[m] \in {"approved", "changes_requested"}
                        => mr'[m] \in {"approved", "changes_requested"}
  BY DEF Reviews, CanReview, Review, IInv, TypeOK
<1>3. UNCHANGED onMain
  BY DEF Reviews
<1>4. \A v \in Workers : worker[v].pc \in Held => worker[v].mr \in MRs
  BY HasJob DEF Held
<1>5. ASSUME NEW w \in Workers
      PROVE  /\ worker'[w].pc \in Held => Alone(w)'
             /\ worker'[w].pc = "git" => mr'[worker'[w].mr] \in {"approved", "changes_requested"}
             /\ worker'[w].pc = "persist" => onMain'[worker'[w].mr]
  <2>1. CASE worker'[w].pc \notin Held
    BY <2>1 DEF Held
  <2>2. CASE worker'[w].pc \in Held
    <3>1. worker'[w] = worker[w] /\ worker[w].mr \in MRs /\ worker[w].pc \in Held
      BY <1>1, <1>4, <2>2
    <3>2. Alone(w)'
      BY <1>1, <3>1 DEF Locked, Alone
    <3> QED BY <1>2, <1>3, <3>1, <3>2 DEF Locked
  <2> QED BY <2>1, <2>2
<1> QED BY <1>5 DEF Locked, Decides

LEMMA RecordStays ==
    ASSUME IInv, Locked, NEW w \in Workers, LetsGo(w), LockFree \/ worker[w].pc \in Held,
           NEW m \in MRs, Records(m)
    PROVE  Locked' /\ Decides
<1>1. ASSUME NEW v \in Workers PROVE worker'[v].pc \notin Held
  BY DEF LetsGo, Become, IInv, TypeOK, Locked, Alone, LockFree, Held
<1> QED BY <1>1 DEF Locked, Decides, Held

\* The steps of a job that neither decide nor merge.
LEMMA PlainSteps ==
    ASSUME IInv, Locked, NEW w \in Workers,
           \/ Scan(w) \/ ClaimNext(w) \/ EndScan(w) \/ LoadCandidate(w) \/ Chat(w)
           \/ RecordDecision(w) \/ Wait(w) \/ Retry(w) \/ Block(w) \/ Conflict(w)
           \/ Complete(w) \/ Crash(w)
    PROVE  Locked' /\ Decides
<1>1. UNCHANGED <<mr, onMain>>
  BY DEF Scan, ClaimNext, EndScan, LoadCandidate, Chat, RecordDecision, Wait, Retry, Block,
         Conflict, Complete, Crash, MRUnchanged
<1>2. LetsGo(w)
  <2>1. CASE Scan(w)
    <3>1. [Idle EXCEPT !.pc = "claim", !.left = ScanLimit].pc = "claim"
      BY DEF Idle
    <3> QED BY <2>1, <3>1 DEF Scan, LetsGo, Held
  <2>2. CASE ClaimNext(w)
    <3>1. PICK m \in Claimable, phase \in {"merging", "reviewing"} :
             \/ Become(w, Idle)
             \/ Become(w, [pc |-> IF phase = "merging" THEN "reconcile" ELSE "load",
                           mr |-> m, phase |-> phase, next |-> "none",
                           left |-> worker[w].left - 1])
      BY <2>2 DEF ClaimNext
    <3> DEFINE r == [pc |-> IF phase = "merging" THEN "reconcile" ELSE "load",
                     mr |-> m, phase |-> phase, next |-> "none", left |-> worker[w].left - 1]
    <3>2. r.pc \notin Held
      BY DEF Held
    <3> QED BY <3>1, <3>2, JobEnds DEF LetsGo
  <2>3. CASE LoadCandidate(w)
    <3>1. GateOf(worker[w].mr).pc \notin Held /\ "retry" \notin Held
      BY DEF GateOf, Held
    <3> QED BY <2>3, <3>1, MovesOn DEF LoadCandidate
  <2>4. CASE Chat(w)
    BY <2>4, MovesOn DEF Chat, Held
  <2>5. CASE Retry(w)
    <3>1. worker[w] \in WorkerRow
      BY HasJob
    <3> DEFINE r == [worker[w] EXCEPT !.pc = "block", !.phase = "retry_review",
                                      !.next = "invalid_review_response"]
    <3>2. r.pc = "block"
      BY <3>1 DEF WorkerRow
    <3>3. NextJob(w) \/ Become(w, r)
      BY <2>5 DEF Retry
    <3> HIDE DEF r
    <3> QED BY <3>2, <3>3, JobEnds DEF LetsGo, Held
  <2>6. CASE EndScan(w) \/ RecordDecision(w) \/ Wait(w) \/ Block(w) \/ Conflict(w) \/ Complete(w)
             \/ Crash(w)
    BY <2>6, JobEnds DEF EndScan, RecordDecision, Wait, Block, Conflict, Complete, Crash
  <2> QED BY <2>1, <2>2, <2>3, <2>4, <2>5, <2>6
<1> QED BY <1>1, <1>2, LockStays

\* The worker reviews, or returns what conflicts with main.
LEMMA ReviewSteps ==
    ASSUME IInv, Locked, NEW w \in Workers, ApplyReview(w) \/ ReturnConflict(w)
    PROVE  Locked' /\ Decides
<1>1. worker[w].mr \in MRs /\ (worker[w].pc = "apply" => worker[w].next \in {"approved", "changes_requested"})
  BY HasJob DEF ApplyReview, ReturnConflict, Knows
<1>2. UNCHANGED <<mr, onMain>> \/ Reviews(worker[w].mr)
  BY <1>1 DEF ApplyReview, ReturnConflict, Reviews
<1>3. LetsGo(w)
  BY MovesOn DEF ApplyReview, ReturnConflict, Held
<1> QED BY <1>1, <1>2, <1>3, LockStays

\* The worker records a merge.
LEMMA MergeRecords ==
    ASSUME IInv, Locked, NEW w \in Workers, ReconcileMerge(w) \/ PersistMerged(w)
    PROVE  Locked' /\ Decides
<1>1. worker[w].mr \in MRs
  BY HasJob DEF ReconcileMerge, PersistMerged
<1>2. UNCHANGED <<mr, onMain>> \/ Records(worker[w].mr)
  BY DEF ReconcileMerge, PersistMerged, Records, Locked
<1>3. LetsGo(w)
  BY MovesOn DEF ReconcileMerge, PersistMerged, Held
<1>4. LockFree \/ worker[w].pc \in Held
  BY DEF ReconcileMerge, PersistMerged, Held
<1> QED BY <1>1, <1>2, <1>3, <1>4, LockStays, RecordStays

\* The lock is taken for an approved merge request when nobody has it.
LEMMA LockTaken ==
    ASSUME IInv, Locked, NEW w \in Workers, CheckMerge(w)
    PROVE  Locked' /\ Decides
<1> DEFINE m == worker[w].mr
           g == MergeRefusal(m)
           r == [worker[w] EXCEPT !.pc = g.pc, !.next = g.next]
<1>1. UNCHANGED <<mr, onMain>> /\ GotoWith(w, g.pc, g.next) /\ LockFree
  BY DEF CheckMerge, MRUnchanged
<1>2. /\ g.pc = "git" => mr[m] = "approved"
      /\ g.pc = "persist" => onMain[m]
  BY DEF MergeRefusal
<1> HIDE DEF g
<1>3. worker' = [worker EXCEPT ![w] = r] /\ worker \in [Workers -> WorkerRow]
  BY <1>1 DEF GotoWith, Become, IInv, TypeOK
<1>4. r.pc = g.pc /\ r.mr = m
  BY <1>3 DEF WorkerRow
<1> HIDE DEF r
<1>5. \A v \in Workers : worker'[v].pc \in Held => v = w
  BY <1>1, <1>3 DEF LockFree, Held
<1>6. Alone(w)'
  BY <1>5 DEF Alone
<1>7. \A v \in Workers : worker'[v].pc \in Held => v = w /\ worker'[v] = r
  BY <1>3, <1>5
<1> QED BY <1>1, <1>2, <1>4, <1>6, <1>7 DEF Locked, Held, Decides

\* Who has the lock merges, or lets it go.
LEMMA MergeLands ==
    ASSUME IInv, Locked, NEW w \in Workers, GitMerge(w)
    PROVE  Locked' /\ Decides
<1> DEFINE m == worker[w].mr
           r == [worker[w] EXCEPT !.pc = "persist"]
<1>1. worker[w].pc = "git" /\ UNCHANGED mr /\ m \in MRs
  BY HasJob DEF GitMerge
<1>2. mr[m] \in {"approved", "changes_requested"} /\ Alone(w)
  BY <1>1 DEF Locked, Held
<1>3. CASE onMain' = [onMain EXCEPT ![m] = TRUE] /\ Goto(w, "persist")
  <2>1. worker' = [worker EXCEPT ![w] = r] /\ worker \in [Workers -> WorkerRow]
    BY <1>3 DEF Goto, Become, IInv, TypeOK
  <2>2. r.pc = "persist" /\ r.mr = m
    BY <2>1 DEF WorkerRow
  <2> HIDE DEF r
  <2>3. onMain'[m]
    BY <1>1, <1>3 DEF IInv, TypeOK
  <2>4. \A v \in Workers : worker'[v].pc \in Held => v = w /\ worker'[v] = r
    BY <1>2, <2>1 DEF Alone
  <2>5. Alone(w)'
    BY <2>4 DEF Alone
  <2>6. Locked'
    BY <2>2, <2>3, <2>4, <2>5 DEF Locked, Held
  <2> QED BY <1>1, <1>2, <1>3, <2>6 DEF Decides, Lands
<1>4. CASE UNCHANGED onMain /\ \/ GotoWith(w, "block", "merge_abort_failed")
                               \/ \E pc \in {"return", "wait", "retry"} : Goto(w, pc)
  <2>1. LetsGo(w)
    BY <1>4, MovesOn DEF Held
  <2> QED BY <1>1, <1>4, <2>1, LockStays
<1> QED BY <1>3, <1>4 DEF GitMerge

\* People and time take no lock.
LEMMA OthersDecide ==
    ASSUME IInv, Locked,
           \/ LeadChanges
           \/ \E m \in MRs : \/ Submit(m) \/ DepsMerge(m) \/ TakeOver(m) \/ RaiseIssue(m)
                              \/ ResolveIssue(m) \/ BranchMoves(m) \/ Elapse(m)
    PROVE  Locked' /\ Decides
<1>1. UNCHANGED worker
  BY DEF LeadChanges, Submit, DepsMerge, TakeOver, RaiseIssue, ResolveIssue, BranchMoves, Elapse,
         WorkersIdle
<1>2. UNCHANGED <<mr, onMain>> \/ \E m \in MRs : Reviews(m)
  BY DEF LeadChanges, Submit, DepsMerge, TakeOver, RaiseIssue, ResolveIssue, BranchMoves, Elapse,
         Reviews
<1> QED BY <1>1, <1>2, LockStays

\* Every step.
LEMMA StepDecides == IInv /\ Locked /\ [Next]_vars => Locked' /\ Decides
<1> SUFFICES ASSUME IInv, Locked, [Next]_vars PROVE Locked' /\ Decides
  OBVIOUS
<1>1. ASSUME NEW w \in Workers, Work(w) \/ Crash(w) PROVE Locked' /\ Decides
  BY <1>1, PlainSteps, ReviewSteps, MergeRecords, LockTaken, MergeLands DEF Work
<1>2. CASE UNCHANGED vars
  BY <1>2, LockStays DEF vars
<1> QED BY <1>1, <1>2, OthersDecide DEF Next

\* The decisions of one merge request.
LEMMA DecidesOne ==
    ASSUME IInv, Decides, NEW n \in MRs
    PROVE  [Decision(n)!Next]_(Decision(n)!vars)
<1>1. mr \in [MRs -> MRStatus] /\ onMain \in [MRs -> BOOLEAN]
  BY DEF IInv, TypeOK, MRStatus
<1>2. ASSUME NEW m \in MRs, Reviews(m) \/ Records(m) \/ Lands(m), n # m
      PROVE  mr'[n] = mr[n] /\ onMain'[n] = onMain[n]
  BY <1>1, <1>2 DEF Reviews, Records, Lands, Review, Merged
<1>3. CASE Reviews(n)
  <2>1. UNCHANGED onMain
    BY <1>3 DEF Reviews
  <2>2. CASE mr[n] = "none" /\ mr' = [mr EXCEPT ![n] = "pending_review"]
    BY <1>1, <2>1, <2>2 DEF Decision!Next, Decision!Submit, Decision!Become
  <2>3. ASSUME CanReview(n, "approved"), Review(n, "approved")
        PROVE  Decision(n)!Next
    BY <1>1, <2>1, <2>3 DEF CanReview, Review, Decision!Next, Decision!Approve, Decision!Become
  <2>4. ASSUME CanReview(n, "changes_requested"), Review(n, "changes_requested")
        PROVE  Decision(n)!Next
    BY <1>1, <2>1, <2>4 DEF CanReview, Review, Decision!Next, Decision!Return, Decision!Become
  <2> QED BY <1>3, <2>2, <2>3, <2>4 DEF Reviews
<1>4. CASE Records(n)
  BY <1>1, <1>4 DEF Records, Merged, Decision!Next, Decision!Record, Decision!Become
<1>5. CASE Lands(n)
  BY <1>1, <1>5 DEF Lands, Decision!Next, Decision!Land
<1>6. CASE UNCHANGED <<mr, onMain>>
  BY <1>6 DEF Decision!vars
<1> QED BY <1>2, <1>3, <1>4, <1>5, <1>6 DEF Decides, Decision!vars

\* What a worker holds with the project's lock: an approval that was checked,
\* and for the record of a merge, its commit on main.
THEOREM LockHolds == Spec => []Locked
<1>1. Init => Locked
  BY DEF Init, Locked, Idle, Held
<1>2. IInv /\ Locked /\ [Next]_vars => Locked'
  BY StepDecides
<1> QED BY <1>1, <1>2, Invariance, PTL DEF Spec

\* Every merge request keeps what MergeDecision promises: it is decided once,
\* and merged only when it was approved and is on main, whatever claims are
\* taken over, approvals withdrawn and workers killed.
THEOREM DecisionsKept == Spec => KeepsDecisions
<1>1. Init => \A m \in MRs : Decision(m)!Init
  BY DEF Init, Decision!Init
<1>2. IInv /\ Locked /\ [Next]_vars => \A m \in MRs : [Decision(m)!Next]_(Decision(m)!vars)
  BY StepDecides, DecidesOne
<1> QED BY <1>1, <1>2, Invariance, LockHolds, PTL DEF Spec, KeepsDecisions
=============================================================================
