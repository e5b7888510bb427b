--------------------------- MODULE ExecutionQueue ---------------------------
(***************************************************************************)
(* The durable Java execution queue of the Projex server and the worker    *)
(* processes that drain it (src/server/src/infrastructure/job-queue/       *)
(* execution-queue.ts and src/server/src/worker.ts), with the instructor   *)
(* operations on a submission whose assessment the queue runs.             *)
(*                                                                         *)
(* A job has one target: an official submission (GRADED or COMPLETION), a  *)
(* student's practice run or an instructor's review run.  Workers share    *)
(* nothing but the database: claimNext takes a job under a lease, complete *)
(* and failInfrastructure give it back.  The last two read the job without *)
(* a lock and write later in the same READ COMMITTED transaction, so each  *)
(* is two steps here; every other transaction locks what it reads and is   *)
(* one step.  Lease expiry and retry backoff are booleans: the model has   *)
(* no clock, a lease may expire at any time.                               *)
(***************************************************************************)
EXTENDS Integers, FiniteSets

CONSTANTS
    Jobs,             \* execution_jobs rows that may ever be created
    Workers,          \* worker incarnations: each start draws a new randomUUID()
    NoWorker, NoJob,  \* the nulls of worker_id and of a worker's claim
    Kind,             \* Kind[j]: what the job runs
    InitialMax,       \* default of execution_jobs.max_claim_attempts
    RetryCap,         \* ceiling retryAssessment puts on max_claim_attempts
    SlowTransactions  \* may a lease be taken over between the read and the
                      \* write of the transaction that ends the claim?

Kinds == {"GRADED", "COMPLETION", "PRACTICE", "REVIEW"}

ASSUME KindAssumption == Kind \in [Jobs -> Kinds]
ASSUME LimitAssumption == /\ InitialMax \in Nat \ {0}
                          /\ RetryCap \in Nat
                          /\ InitialMax <= RetryCap
ASSUME SwitchAssumption == SlowTransactions \in BOOLEAN
ASSUME NullAssumption == NoWorker \notin Workers /\ NoJob \notin Jobs

VARIABLES
    status,    \* execution_jobs.status, or "ABSENT" before creation and after deletion
    attempt,   \* claim_attempt
    maxAttempt,\* max_claim_attempts
    owner,     \* worker_id
    expired,   \* lease_expires_at <= now, for a RUNNING job
    available, \* available_at <= now, for a QUEUED job
    target,    \* status of the submission, practice run or review run
    evidence,  \* compile_status of the target's execution record
    author,    \* the worker whose run produced the recorded result
    resolved,  \* a submission_failure_resolutions row exists
    pc,        \* where each worker is in its loop
    claim,     \* the job a worker holds in memory
    retrying   \* failInfrastructure's local `retry`, once computed

jobVars == <<status, attempt, maxAttempt, owner, expired, available>>
targetVars == <<target, evidence, author, resolved>>
workerVars == <<pc, claim, retrying>>
vars == <<status, attempt, maxAttempt, owner, expired, available,
          target, evidence, author, resolved, pc, claim, retrying>>

JobStatus == {"ABSENT", "QUEUED", "RUNNING", "SUCCEEDED", "FAILED"}
TargetStatus ==
    {"ABSENT", "QUEUED", "ASSESSING", "ASSESSED", "ASSESSMENT_FAILED",
     "FAILED_RESOLVED", "REVIEWED", "RELEASED",
     "RUNNING", "SUCCEEDED", "FAILED", "TIMEOUT"}
Evidence == {"PENDING", "RESULT", "INFRASTRUCTURE_ERROR"}
WorkerState == {"idle", "running", "completing", "erring", "failing", "dead"}

(* The official targets are submissions; the other two are diagnostic runs. *)
Official(j) == Kind[j] \in {"GRADED", "COMPLETION"}

(* What each target's status column is set to by the queue. *)
StartedStatus(j) == IF Official(j) THEN "ASSESSING" ELSE "RUNNING"
FailedStatus(j) == IF Official(j) THEN "ASSESSMENT_FAILED" ELSE "FAILED"
FinishedStatuses(j) ==
    IF Official(j) THEN {"ASSESSED"} ELSE {"SUCCEEDED", "TIMEOUT"}

Init ==
    /\ status = [j \in Jobs |-> "ABSENT"]
    /\ attempt = [j \in Jobs |-> 0]
    /\ maxAttempt = [j \in Jobs |-> InitialMax]
    /\ owner = [j \in Jobs |-> NoWorker]
    /\ expired = [j \in Jobs |-> FALSE]
    /\ available = [j \in Jobs |-> TRUE]
    /\ target = [j \in Jobs |-> "ABSENT"]
    /\ evidence = [j \in Jobs |-> "PENDING"]
    /\ author = [j \in Jobs |-> NoWorker]
    /\ resolved = [j \in Jobs |-> FALSE]
    /\ pc = [w \in Workers |-> "idle"]
    /\ claim = [w \in Workers |-> NoJob]
    /\ retrying = [w \in Workers |-> FALSE]

-----------------------------------------------------------------------------
(* createSubmission, createPractice, createCodeRun and createReviewRun      *)
(* insert the target and its QUEUED job in one transaction.  The second     *)
(* conjunct keeps an identifier from being used again after a deletion.     *)
CreateJob(j) ==
    /\ status[j] = "ABSENT"
    /\ attempt[j] = 0
    /\ status' = [status EXCEPT ![j] = "QUEUED"]
    /\ target' = [target EXCEPT ![j] = "QUEUED"]
    /\ UNCHANGED <<attempt, maxAttempt, owner, expired, available,
                   evidence, author, resolved, workerVars>>

(* The owner is inside complete or failInfrastructure, past its read. *)
EndingClaim(j) ==
    \E w \in Workers : claim[w] = j /\ owner[j] = w
                       /\ pc[w] \in {"completing", "failing"}

(* A lease another worker may act on. *)
TakeOver(j) ==
    /\ status[j] = "RUNNING"
    /\ expired[j]
    /\ SlowTransactions \/ ~EndingClaim(j)

(* Mutant: the sweep is off by one. *)
ExhaustedOffByOne == {j \in Jobs : TakeOver(j) /\ attempt[j] > maxAttempt[j]}
Exhausted == {j \in Jobs : TakeOver(j) /\ attempt[j] >= maxAttempt[j]}

Claimable(j) ==
    /\ (status[j] = "QUEUED" /\ available[j]) \/ TakeOver(j)
    /\ attempt[j] < maxAttempt[j]

(* markExpiredExhausted, over the set S of jobs it finds. *)
StatusAfterSweep(S) == [j \in Jobs |-> IF j \in S THEN "FAILED" ELSE status[j]]
(* Mutant: the sweep fails the job and forgets its target. *)
TargetNotSwept(S) == target
TargetAfterSweep(S) ==
    [j \in Jobs |-> IF j \in S THEN FailedStatus(j) ELSE target[j]]
EvidenceAfterSweep(S) ==
    [j \in Jobs |-> IF j \in S THEN "INFRASTRUCTURE_ERROR" ELSE evidence[j]]
ExpiredAfterSweep(S) == [j \in Jobs |-> expired[j] /\ j \notin S]

(* claimNext when a candidate exists: the sweep, then the claim. *)
ClaimNext(w, j) ==
    /\ pc[w] = "idle"
    /\ Claimable(j)
    /\ status' = [StatusAfterSweep(Exhausted) EXCEPT ![j] = "RUNNING"]
    /\ attempt' = [attempt EXCEPT ![j] = @ + 1]
    /\ owner' = [owner EXCEPT ![j] = w]
    /\ expired' = [ExpiredAfterSweep(Exhausted) EXCEPT ![j] = FALSE]
    /\ target' = [TargetAfterSweep(Exhausted) EXCEPT ![j] = StartedStatus(j)]
    /\ evidence' = EvidenceAfterSweep(Exhausted)
    /\ pc' = [pc EXCEPT ![w] = "running"]
    /\ claim' = [claim EXCEPT ![w] = j]
    /\ UNCHANGED <<maxAttempt, available, author, resolved, retrying>>

(* claimNext when no candidate is left after the sweep. *)
SweepOnly(w) ==
    /\ pc[w] = "idle"
    /\ Exhausted # {}
    /\ \A j \in Jobs : ~Claimable(j)
    /\ status' = StatusAfterSweep(Exhausted)
    /\ expired' = ExpiredAfterSweep(Exhausted)
    /\ target' = TargetAfterSweep(Exhausted)
    /\ evidence' = EvidenceAfterSweep(Exhausted)
    /\ UNCHANGED <<attempt, maxAttempt, owner, available, author, resolved,
                   workerVars>>

(* The check both ending transactions make on their unlocked read. *)
(* Mutant: the worker is not compared with worker_id. *)
StillRunning(w) == status[claim[w]] = "RUNNING"
StillOwns(w) == status[claim[w]] = "RUNNING" /\ owner[claim[w]] = w

(* Back to polling. *)
DropClaim(w) ==
    /\ pc' = [pc EXCEPT ![w] = "idle"]
    /\ claim' = [claim EXCEPT ![w] = NoJob]
    /\ retrying' = [retrying EXCEPT ![w] = FALSE]

(* The runner returned a result: complete() reads the job. *)
CompleteRead(w) ==
    /\ pc[w] = "running"
    /\ IF StillOwns(w)
       THEN /\ pc' = [pc EXCEPT ![w] = "completing"]
            /\ UNCHANGED <<claim, retrying>>
       ELSE DropClaim(w)
    /\ UNCHANGED <<jobVars, targetVars>>

(* The rows complete() updates exist and activity_submissions_release_state_check
   accepts the update: a RELEASED submission cannot change status. *)
TargetAccepts(j) == target[j] \notin {"ABSENT", "RELEASED"}

(* complete() writes the result and commits. *)
CompleteWrite(w) ==
    LET j == claim[w] IN
    /\ pc[w] = "completing"
    /\ TargetAccepts(j)
    /\ status' = [status EXCEPT ![j] = "SUCCEEDED"]
    /\ expired' = [expired EXCEPT ![j] = FALSE]
    /\ \E finished \in FinishedStatuses(j) :
           target' = [target EXCEPT ![j] = finished]
    /\ evidence' = [evidence EXCEPT ![j] = "RESULT"]
    /\ author' = [author EXCEPT ![j] = w]
    /\ DropClaim(w)
    /\ UNCHANGED <<attempt, maxAttempt, owner, available, resolved>>

(* complete() throws (a constraint, a deadlock, a lost connection): its
   transaction rolls back and the worker's catch block runs. *)
CompleteAborts(w) ==
    /\ pc[w] = "completing"
    /\ pc' = [pc EXCEPT ![w] = "erring"]
    /\ UNCHANGED <<claim, retrying, jobVars, targetVars>>

(* Mutant: one attempt too many. *)
FailReadOffByOne(w) ==
    /\ pc[w] \in {"running", "erring"}
    /\ IF StillOwns(w)
       THEN /\ pc' = [pc EXCEPT ![w] = "failing"]
            /\ retrying' = [retrying EXCEPT
                   ![w] = attempt[claim[w]] <= maxAttempt[claim[w]]]
            /\ UNCHANGED claim
       ELSE DropClaim(w)
    /\ UNCHANGED <<jobVars, targetVars>>

(* The runner or complete() threw: failInfrastructure reads the job and
   decides whether to retry. *)
FailRead(w) ==
    /\ pc[w] \in {"running", "erring"}
    /\ IF StillOwns(w)
       THEN /\ pc' = [pc EXCEPT ![w] = "failing"]
            /\ retrying' = [retrying EXCEPT
                   ![w] = attempt[claim[w]] < maxAttempt[claim[w]]]
            /\ UNCHANGED claim
       ELSE DropClaim(w)
    /\ UNCHANGED <<jobVars, targetVars>>

(* failInfrastructure requeues the job, by its decision at the read. *)
FailWriteRetry(w) ==
    LET j == claim[w] IN
    /\ pc[w] = "failing" /\ retrying[w]
    /\ TargetAccepts(j)
    /\ status' = [status EXCEPT ![j] = "QUEUED"]
    /\ owner' = [owner EXCEPT ![j] = NoWorker]
    /\ expired' = [expired EXCEPT ![j] = FALSE]
    /\ available' = [available EXCEPT ![j] = FALSE]
    /\ target' = [target EXCEPT ![j] = "QUEUED"]
    /\ evidence' = [evidence EXCEPT ![j] = "PENDING"]
    /\ DropClaim(w)
    /\ UNCHANGED <<attempt, maxAttempt, author, resolved>>

(* failInfrastructure gives the job up, by its decision at the read. *)
FailWriteFinal(w) ==
    LET j == claim[w] IN
    /\ pc[w] = "failing" /\ ~retrying[w]
    /\ TargetAccepts(j)
    /\ status' = [status EXCEPT ![j] = "FAILED"]
    /\ expired' = [expired EXCEPT ![j] = FALSE]
    /\ target' = [target EXCEPT ![j] = FailedStatus(j)]
    /\ evidence' = [evidence EXCEPT ![j] = "INFRASTRUCTURE_ERROR"]
    /\ DropClaim(w)
    /\ UNCHANGED <<attempt, maxAttempt, owner, available, author, resolved>>

(* The process ends: killed, stopped, or by an error thrown by claimNext or
   failInfrastructure, which nothing in the loop catches.  Any open
   transaction rolls back.  The service manager restarts it under a new id,
   so another incarnation is left to run. *)
WorkerDies(w) ==
    /\ pc[w] # "dead"
    /\ \E v \in Workers \ {w} : pc[v] # "dead"
    /\ pc' = [pc EXCEPT ![w] = "dead"]
    /\ claim' = [claim EXCEPT ![w] = NoJob]
    /\ retrying' = [retrying EXCEPT ![w] = FALSE]
    /\ UNCHANGED <<jobVars, targetVars>>

(* Time passes lease_expires_at. *)
LeaseExpires(j) ==
    /\ status[j] = "RUNNING" /\ ~expired[j]
    /\ expired' = [expired EXCEPT ![j] = TRUE]
    /\ UNCHANGED <<status, attempt, maxAttempt, owner, available,
                   targetVars, workerVars>>

(* Time passes available_at of a requeued job. *)
BackoffElapses(j) ==
    /\ status[j] = "QUEUED" /\ ~available[j]
    /\ available' = [available EXCEPT ![j] = TRUE]
    /\ UNCHANGED <<status, attempt, maxAttempt, owner, expired,
                   targetVars, workerVars>>

(* cleanupExpiredPractice deletes a finished practice run past its TTL, and
   the job with it (ON DELETE CASCADE). *)
CleanupExpiredPractice(j) ==
    /\ Kind[j] = "PRACTICE"
    /\ target[j] \in {"SUCCEEDED", "FAILED", "TIMEOUT"}
    /\ status' = [status EXCEPT ![j] = "ABSENT"]
    /\ target' = [target EXCEPT ![j] = "ABSENT"]
    /\ UNCHANGED <<attempt, maxAttempt, owner, expired, available,
                   evidence, author, resolved, workerVars>>

-----------------------------------------------------------------------------
(* The failed assessment an instructor may act on. *)
AwaitsInstructor(j) ==
    /\ Official(j)
    /\ target[j] = "ASSESSMENT_FAILED"
    /\ ~resolved[j]
    /\ status[j] = "FAILED"

(* test_case_results_grading_check: a case result carries points exactly
   when the submission it belongs to is GRADED. *)
CasePointsAccepted(j, hasPoints) == Kind[j] = "GRADED" <=> hasPoints

(* retryAssessment.  It writes 0 points into every case result, so the update
   of a COMPLETION submission's results aborts the transaction.  It does not
   look at the attempts: at the ceiling max_claim_attempts stays where it is
   and the job is queued all the same. *)
RetryAssessment(j) ==
    /\ AwaitsInstructor(j)
    /\ CasePointsAccepted(j, TRUE)
    /\ status' = [status EXCEPT ![j] = "QUEUED"]
    /\ maxAttempt' = [maxAttempt EXCEPT
           ![j] = IF @ + 1 <= RetryCap THEN @ + 1 ELSE RetryCap]
    /\ available' = [available EXCEPT ![j] = TRUE]
    /\ expired' = [expired EXCEPT ![j] = FALSE]
    /\ owner' = [owner EXCEPT ![j] = NoWorker]
    /\ target' = [target EXCEPT ![j] = "QUEUED"]
    /\ evidence' = [evidence EXCEPT ![j] = "PENDING"]
    /\ UNCHANGED <<attempt, author, resolved, workerVars>>

(* resolveFailure, with or without a replacement grant. *)
ResolveFailure(j) ==
    /\ AwaitsInstructor(j)
    /\ resolved' = [resolved EXCEPT ![j] = TRUE]
    /\ target' = [target EXCEPT ![j] = "FAILED_RESOLVED"]
    /\ UNCHANGED <<jobVars, evidence, author, workerVars>>

(* saveReview: an assessed submission, or a resolved one that is only marked
   for completion. *)
SaveReview(j) ==
    /\ Official(j)
    /\ \/ target[j] \in {"ASSESSED", "REVIEWED"}
       \/ Kind[j] = "COMPLETION" /\ target[j] = "FAILED_RESOLVED"
    /\ target' = [target EXCEPT ![j] = "REVIEWED"]
    /\ UNCHANGED <<jobVars, evidence, author, resolved, workerVars>>

(* Mutant: an assessed submission is released without a review. *)
ReleaseUnreviewed(j) ==
    /\ Official(j)
    /\ target[j] \in {"ASSESSED", "REVIEWED"}
    /\ Kind[j] = "GRADED" => author[j] # NoWorker
    /\ target' = [target EXCEPT ![j] = "RELEASED"]
    /\ UNCHANGED <<jobVars, evidence, author, resolved, workerVars>>

(* release: a graded submission needs an automated score. *)
Release(j) ==
    /\ Official(j)
    /\ target[j] = "REVIEWED"
    /\ Kind[j] = "GRADED" => author[j] # NoWorker
    /\ target' = [target EXCEPT ![j] = "RELEASED"]
    /\ UNCHANGED <<jobVars, evidence, author, resolved, workerVars>>

-----------------------------------------------------------------------------
WorkerStep(w) ==
    \/ \E j \in Jobs : ClaimNext(w, j)
    \/ SweepOnly(w)
    \/ CompleteRead(w)
    \/ CompleteWrite(w)
    \/ CompleteAborts(w)
    \/ FailRead(w)
    \/ FailWriteRetry(w)
    \/ FailWriteFinal(w)

Clock(j) == LeaseExpires(j) \/ BackoffElapses(j)

Instructor(j) ==
    RetryAssessment(j) \/ ResolveFailure(j) \/ SaveReview(j) \/ Release(j)

Next ==
    \/ \E w \in Workers : WorkerStep(w) \/ WorkerDies(w)
    \/ \E j \in Jobs : \/ CreateJob(j)
                       \/ Clock(j)
                       \/ CleanupExpiredPractice(j)
                       \/ Instructor(j)

Spec == Init /\ [][Next]_vars

(* The worker loop keeps running while the process lives (and WorkerDies
   leaves one alive); a lease and a backoff elapse with the clock.  Nothing
   makes a user create, review or retry anything. *)
Fairness ==
    /\ \A w \in Workers : WF_vars(WorkerStep(w))
    /\ \A j \in Jobs : WF_vars(Clock(j))

FairSpec == Spec /\ Fairness

-----------------------------------------------------------------------------
(* Every column and every worker variable holds a value of its type. *)
TypeOK ==
    /\ status \in [Jobs -> JobStatus]
    /\ attempt \in [Jobs -> Nat]
    /\ maxAttempt \in [Jobs -> Nat]
    /\ owner \in [Jobs -> Workers \union {NoWorker}]
    /\ expired \in [Jobs -> BOOLEAN]
    /\ available \in [Jobs -> BOOLEAN]
    /\ target \in [Jobs -> TargetStatus]
    /\ evidence \in [Jobs -> Evidence]
    /\ author \in [Jobs -> Workers \union {NoWorker}]
    /\ resolved \in [Jobs -> BOOLEAN]
    /\ pc \in [Workers -> WorkerState]
    /\ claim \in [Workers -> Jobs \union {NoJob}]
    /\ retrying \in [Workers -> BOOLEAN]

(* A RUNNING job is in the hands of the worker its row names, or that worker
   is dead and the lease will free the job: the worker loop never goes back
   to polling while a row still names it (worker.ts). *)
OwnerHoldsClaim ==
    \A j \in Jobs : status[j] = "RUNNING" =>
        \E w \in Workers : owner[j] = w /\ (claim[w] = j \/ pc[w] = "dead")

(* execution_jobs_claim_check, which every write of claim_attempt and
   max_claim_attempts must satisfy, whatever the interleaving. *)
ClaimCheck ==
    \A j \in Jobs : /\ attempt[j] <= maxAttempt[j]
                    /\ maxAttempt[j] \in 1..RetryCap

(* A submission retried after its last attempt: its job is QUEUED and claimNext
   will never take it, nor will anything else end it. *)
RetriedAtCap(j) ==
    Kind[j] = "GRADED" /\ status[j] = "QUEUED" /\ attempt[j] = RetryCap

(* A QUEUED job can still be claimed, unless an instructor retried it at the
   ceiling of max_claim_attempts: claimNext only takes jobs with attempts left,
   and nothing else ends a QUEUED job, so neither a worker that gives a job
   back, on a read that may be stale, nor a retry below the ceiling may queue
   one without. *)
QueuedIsClaimable ==
    \A j \in Jobs : status[j] = "QUEUED" => attempt[j] < maxAttempt[j] \/ RetriedAtCap(j)

(* The target's status and evidence always tell the same story as its job's:
   what a student or instructor is shown is what the queue will do.  The
   claim, complete, failInfrastructure, the sweep, retryAssessment and
   resolveFailure each write both rows, and no interleaving of them may
   separate the two. *)
JobTargetAgreement ==
    \A j \in Jobs :
        CASE status[j] = "ABSENT" -> target[j] = "ABSENT"
          [] status[j] = "QUEUED" -> target[j] = "QUEUED" /\ evidence[j] = "PENDING"
          [] status[j] = "RUNNING" ->
                target[j] = StartedStatus(j) /\ evidence[j] = "PENDING"
          [] status[j] = "SUCCEEDED" ->
                /\ evidence[j] = "RESULT"
                /\ \/ target[j] \in FinishedStatuses(j)
                   \/ Official(j) /\ target[j] \in {"REVIEWED", "RELEASED"}
          [] status[j] = "FAILED" ->
                /\ evidence[j] = "INFRASTRUCTURE_ERROR"
                /\ \/ target[j] = FailedStatus(j)
                   \/ Official(j) /\ target[j] = "FAILED_RESOLVED"
                   \/ Kind[j] = "COMPLETION" /\ target[j] \in {"REVIEWED", "RELEASED"}

(* A job is given up only when every attempt it was allowed has been claimed
   (failInfrastructure and markExpiredExhausted): a crash or a lost lease
   never costs a student an attempt the queue still had. *)
FailedMeansExhausted ==
    \A j \in Jobs : status[j] = "FAILED" => attempt[j] = maxAttempt[j]

(* The recorded result is the one of the worker the job row names: a worker
   whose lease was taken over cannot record its own (complete's ownership
   check). *)
ResultOfOwner ==
    \A j \in Jobs : status[j] = "SUCCEEDED" => author[j] = owner[j]

(* An automated result is written once: no later completion, failure or retry
   replaces or unmarks it (complete, failInfrastructure, retryAssessment). *)
KeepsResults ==
    \A j \in Jobs : author[j] # NoWorker => author'[j] = author[j] /\ evidence'[j] = "RESULT"

ResultImmutable == [][KeepsResults]_vars

(* Once an instructor has resolved a failed assessment nothing the queue does
   touches it again; only a COMPLETION submission may still be reviewed and
   released (resolveFailure, saveReview). *)
KeepsResolutions ==
    \A j \in Jobs : resolved[j] =>
        /\ resolved'[j]
        /\ status'[j] = status[j]
        /\ evidence'[j] = evidence[j]
        /\ target'[j] # target[j] =>
               Kind[j] = "COMPLETION" /\ target'[j] \in {"REVIEWED", "RELEASED"}

ResolutionFinal == [][KeepsResolutions]_vars

(* A released submission keeps its status whatever late transaction commits:
   activity_submissions_release_state_check refuses it. *)
KeepsReleased == \A j \in Jobs : target[j] = "RELEASED" => target'[j] = "RELEASED"

ReleasedFinal == [][KeepsReleased]_vars

(* What a job and its target say agrees, and is what the workers do, whatever
   stale reads the transactions of the queue act on. *)
RowsAgree == OwnerHoldsClaim /\ ClaimCheck /\ JobTargetAgreement

(* While no transaction is overtaken, no attempt of an accepted job is lost and
   none is credited to a worker that lost it. *)
AttemptsAccounted == QueuedIsClaimable /\ FailedMeansExhausted /\ ResultOfOwner

(* What has been decided about a submission stands: its automated result, an
   instructor's resolution, its release. *)
OutcomesFinal == ResultImmutable /\ ResolutionFinal /\ ReleasedFinal

(* The queue implements the lifecycle it promises: see AssessmentLifecycle.
   The progress part says that every accepted job ends, in a result or, once
   its attempts are spent, in a failure an instructor can act on, however
   workers crash and leases expire; the one exception, which the safety part
   says is for good, is a job that was retried at the ceiling of
   max_claim_attempts. *)
Lifecycle == INSTANCE AssessmentLifecycle WITH
    Targets <- Jobs, Mode <- Kind, Authors <- Workers, NoAuthor <- NoWorker,
    life <- target, result <- author, spent <- {j \in Jobs : attempt[j] = RetryCap}

LifecycleSafety == Lifecycle!Safety
LifecycleProgress == Lifecycle!Progress
=============================================================================
