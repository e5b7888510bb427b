------------------------- MODULE Execution_proofs ---------------------------
(***************************************************************************)
(* Theorems about the runs of students' programs: ExecutionQueue, for      *)
(* every set of jobs and workers and every attempt limit, and below        *)
(* InteractiveConsole.                                                     *)
(*                                                                         *)
(* The queue's first part assumes nothing about timing; the second is      *)
(* about instances in which no lease is taken over between the read and    *)
(* the write of an ending transaction.                                     *)
(***************************************************************************)
EXTENDS ExecutionQueue, ConsolePromises, TLAPS

CONSTANTS Lines, MaxRuns, MaxInputs
VARIABLES eligible, worker, intent, call, stray, pending

\* The console keeps its runs apart from the jobs of the queue.
C == INSTANCE InteractiveConsole

USE DEF Kinds, JobStatus, TargetStatus, Evidence, WorkerState

(***************************************************************************)
(* Types.                                                                  *)
(***************************************************************************)

(* The helper status operators return values of the status columns. *)
LEMMA StatusTypes ==
    ASSUME NEW j \in Jobs
    PROVE  /\ StartedStatus(j) \in {"ASSESSING", "RUNNING"}
           /\ FailedStatus(j) \in {"ASSESSMENT_FAILED", "FAILED"}
           /\ FinishedStatuses(j) \subseteq {"ASSESSED", "SUCCEEDED", "TIMEOUT"}
  BY DEF StartedStatus, FailedStatus, FinishedStatuses

(* A worker holds a job exactly while it is busy with it. *)
WorkerClaim ==
    \A w \in Workers : claim[w] = NoJob <=> pc[w] \in {"idle", "dead"}

Typed == TypeOK /\ WorkerClaim

LEMMA BusyHoldsJob ==
    ASSUME Typed, NEW w \in Workers, pc[w] \notin {"idle", "dead"}
    PROVE  claim[w] \in Jobs
  BY DEF Typed, TypeOK, WorkerClaim

(* What a sweep leaves in the columns it writes. *)
LEMMA SweepTypes ==
    ASSUME TypeOK, NEW S
    PROVE  /\ StatusAfterSweep(S) \in [Jobs -> JobStatus]
           /\ TargetAfterSweep(S) \in [Jobs -> TargetStatus]
           /\ EvidenceAfterSweep(S) \in [Jobs -> Evidence]
           /\ ExpiredAfterSweep(S) \in [Jobs -> BOOLEAN]
<1>1. StatusAfterSweep(S) \in [Jobs -> JobStatus]
  BY DEF StatusAfterSweep, TypeOK
<1>2. TargetAfterSweep(S) \in [Jobs -> TargetStatus]
  BY StatusTypes DEF TargetAfterSweep, TypeOK
<1>3. EvidenceAfterSweep(S) \in [Jobs -> Evidence]
  BY DEF EvidenceAfterSweep, TypeOK
<1>4. ExpiredAfterSweep(S) \in [Jobs -> BOOLEAN]
  BY DEF ExpiredAfterSweep, TypeOK
<1> QED
  BY <1>1, <1>2, <1>3, <1>4

(* Every step of every action keeps the columns and the worker variables in
   their types. *)
LEMMA TypeStep == Typed /\ [Next]_vars => Typed'
<1> SUFFICES ASSUME Typed, [Next]_vars PROVE Typed'
  OBVIOUS
<1>0. TypeOK /\ WorkerClaim
  BY DEF Typed
<1> USE <1>0, LimitAssumption, NullAssumption DEF Typed, TypeOK, WorkerClaim
<1>1. CASE UNCHANGED vars
  BY <1>1 DEF vars
<1>2. ASSUME NEW w \in Workers, WorkerStep(w) PROVE Typed'
  <2>1. ASSUME NEW j \in Jobs, ClaimNext(w, j) PROVE Typed'
    <3>1. /\ StatusAfterSweep(Exhausted) \in [Jobs -> JobStatus]
          /\ TargetAfterSweep(Exhausted) \in [Jobs -> TargetStatus]
          /\ EvidenceAfterSweep(Exhausted) \in [Jobs -> Evidence]
          /\ ExpiredAfterSweep(Exhausted) \in [Jobs -> BOOLEAN]
      BY SweepTypes
    <3> QED
      BY <2>1, <3>1, StatusTypes DEF ClaimNext
  <2>2. CASE SweepOnly(w)
    <3>1. /\ StatusAfterSweep(Exhausted) \in [Jobs -> JobStatus]
          /\ TargetAfterSweep(Exhausted) \in [Jobs -> TargetStatus]
          /\ EvidenceAfterSweep(Exhausted) \in [Jobs -> Evidence]
          /\ ExpiredAfterSweep(Exhausted) \in [Jobs -> BOOLEAN]
      BY SweepTypes
    <3> QED
      BY <2>2, <3>1 DEF SweepOnly, workerVars
  <2>3. CASE CompleteRead(w)
    <3>1. CASE StillOwns(w)
      BY <2>3, <3>1 DEF CompleteRead, jobVars, targetVars
    <3>2. CASE ~StillOwns(w)
      <4>1. /\ pc' = [pc EXCEPT ![w] = "idle"]
            /\ claim' = [claim EXCEPT ![w] = NoJob]
            /\ retrying' = [retrying EXCEPT ![w] = FALSE]
            /\ UNCHANGED <<jobVars, targetVars>>
        BY <2>3, <3>2 DEF CompleteRead, DropClaim
      <4>2. WorkerClaim'
        BY <4>1 DEF WorkerState
      <4>3. TypeOK'
        BY <4>1 DEF jobVars, targetVars, WorkerState
      <4> QED
        BY <4>2, <4>3 DEF Typed
    <3> QED
      BY <3>1, <3>2
  <2>4. CASE CompleteWrite(w)
    <3>1. claim[w] \in Jobs
      BY <2>4, BusyHoldsJob DEF CompleteWrite
    <3> QED
      BY <2>4, <3>1, StatusTypes DEF CompleteWrite, DropClaim
  <2>5. CASE CompleteAborts(w)
    BY <2>5 DEF CompleteAborts, jobVars, targetVars
  <2>6. CASE FailRead(w)
    <3>1. claim[w] \in Jobs
      BY <2>6, BusyHoldsJob DEF FailRead
    <3>2. CASE StillOwns(w)
      <4>1. retrying' \in [Workers -> BOOLEAN]
        <5> DEFINE again == attempt[claim[w]] < maxAttempt[claim[w]]
        <5>1. again \in BOOLEAN
          BY <3>1
        <5>2. retrying' = [retrying EXCEPT ![w] = again]
          BY <2>6, <3>2 DEF FailRead
        <5> HIDE DEF again
        <5> QED
          BY <5>1, <5>2, Zenon
      <4>2. /\ pc' = [pc EXCEPT ![w] = "failing"]
            /\ UNCHANGED <<claim, jobVars, targetVars>>
        BY <2>6, <3>2 DEF FailRead
      <4> QED
        BY <2>6, <3>1, <4>1, <4>2 DEF FailRead, jobVars, targetVars
    <3>3. CASE ~StillOwns(w)
      BY <2>6, <3>3 DEF FailRead, DropClaim, jobVars, targetVars
    <3> QED
      BY <3>2, <3>3
  <2>7. CASE FailWriteRetry(w)
    BY <2>7 DEF FailWriteRetry, DropClaim
  <2>8. CASE FailWriteFinal(w)
    <3>1. claim[w] \in Jobs
      BY <2>8, BusyHoldsJob DEF FailWriteFinal
    <3> QED
      BY <2>8, <3>1, StatusTypes DEF FailWriteFinal, DropClaim
  <2> QED
    BY <1>2, <2>1, <2>2, <2>3, <2>4, <2>5, <2>6, <2>7, <2>8 DEF WorkerStep
<1>3. ASSUME NEW w \in Workers, WorkerDies(w) PROVE Typed'
  BY <1>3 DEF WorkerDies, jobVars, targetVars
<1>4. ASSUME NEW j \in Jobs, CreateJob(j) PROVE Typed'
  BY <1>4 DEF CreateJob, workerVars
<1>5. ASSUME NEW j \in Jobs, Clock(j) PROVE Typed'
  BY <1>5 DEF Clock, LeaseExpires, BackoffElapses, targetVars, workerVars
<1>6. ASSUME NEW j \in Jobs, CleanupExpiredPractice(j) PROVE Typed'
  BY <1>6 DEF CleanupExpiredPractice, workerVars
<1>7. ASSUME NEW j \in Jobs, Instructor(j) PROVE Typed'
  <2>1. CASE RetryAssessment(j)
    BY <2>1 DEF RetryAssessment, workerVars
  <2>2. CASE ResolveFailure(j)
    BY <2>2 DEF ResolveFailure, jobVars, workerVars
  <2>3. CASE SaveReview(j)
    BY <2>3 DEF SaveReview, jobVars, workerVars
  <2>4. CASE Release(j)
    BY <2>4 DEF Release, jobVars, workerVars
  <2> QED
    BY <1>7, <2>1, <2>2, <2>3, <2>4 DEF Instructor
<1> QED
  BY <1>1, <1>2, <1>3, <1>4, <1>5, <1>6, <1>7 DEF Next

(* Types hold in every reachable state, under any timing. *)
LEMMA TypedAlways == Spec => []Typed
<1>1. Init => Typed
  BY LimitAssumption, NullAssumption DEF Init, TypeOK, Typed, WorkerClaim
<1> QED
  BY <1>1, TypeStep, PTL DEF Spec

THEOREM TypeCorrect == Spec => []TypeOK
<1>1. Typed => TypeOK
  BY DEF Typed
<1> QED
  BY <1>1, TypedAlways, PTL

(***************************************************************************)
(* What holds whatever the timing.                                         *)
(***************************************************************************)

(* A row that was never claimed carries no trace of a run, and a job in a
   worker's hands has been claimed. *)
Freshness ==
    /\ \A j \in Jobs : attempt[j] = 0 =>
           /\ status[j] \in {"ABSENT", "QUEUED"}
           /\ evidence[j] = "PENDING"
           /\ author[j] = NoWorker
           /\ ~resolved[j]
    /\ \A w \in Workers : claim[w] \in Jobs => attempt[claim[w]] # 0

AnyTiming == Typed /\ OwnerHoldsClaim /\ ClaimCheck /\ Freshness /\ JobTargetAgreement

LEMMA OwnerStep == Typed /\ OwnerHoldsClaim /\ [Next]_vars => OwnerHoldsClaim'
<1> SUFFICES ASSUME Typed, OwnerHoldsClaim, [Next]_vars PROVE OwnerHoldsClaim'
  OBVIOUS
<1>0. TypeOK /\ WorkerClaim
  BY DEF Typed
<1> USE <1>0, NullAssumption DEF OwnerHoldsClaim
<1>1. CASE UNCHANGED vars
  BY <1>1 DEF vars
<1>2. ASSUME NEW w \in Workers, WorkerStep(w) PROVE OwnerHoldsClaim'
  <2>1. ASSUME NEW j \in Jobs, ClaimNext(w, j) PROVE OwnerHoldsClaim'
    <3> SUFFICES ASSUME NEW k \in Jobs, status'[k] = "RUNNING"
                 PROVE  \E v \in Workers :
                            owner'[k] = v /\ (claim'[v] = k \/ pc'[v] = "dead")
      OBVIOUS
    <3>1. CASE k = j
      BY <2>1, <3>1 DEF ClaimNext, TypeOK
    <3>2. CASE k # j
      <4>1. status[k] = "RUNNING"
        BY <2>1, <3>2 DEF ClaimNext, TypeOK, StatusAfterSweep
      <4>2. PICK v \in Workers : owner[k] = v /\ (claim[v] = k \/ pc[v] = "dead")
        BY <4>1
      <4>3. v # w
        BY <2>1, <4>2 DEF ClaimNext, TypeOK, WorkerClaim
      <4> QED
        BY <2>1, <3>2, <4>2, <4>3 DEF ClaimNext, TypeOK
    <3> QED
      BY <3>1, <3>2
  <2>2. CASE SweepOnly(w)
    BY <2>2 DEF SweepOnly, StatusAfterSweep, workerVars, TypeOK
  <2>3. CASE CompleteRead(w)
    <3>1. CASE StillOwns(w)
      BY <2>3, <3>1 DEF CompleteRead, jobVars, TypeOK
    <3>2. CASE ~StillOwns(w)
      BY <2>3, <3>2 DEF CompleteRead, DropClaim, StillOwns, jobVars, TypeOK
    <3> QED
      BY <3>1, <3>2
  <2>4. CASE CompleteWrite(w)
    <3>1. claim[w] \in Jobs
      BY <2>4, BusyHoldsJob DEF CompleteWrite
    <3> QED
      BY <2>4, <3>1 DEF CompleteWrite, DropClaim, TypeOK
  <2>5. CASE CompleteAborts(w)
    BY <2>5 DEF CompleteAborts, jobVars, TypeOK
  <2>6. CASE FailRead(w)
    <3>1. CASE StillOwns(w)
      BY <2>6, <3>1 DEF FailRead, jobVars, TypeOK
    <3>2. CASE ~StillOwns(w)
      BY <2>6, <3>2 DEF FailRead, DropClaim, StillOwns, jobVars, TypeOK
    <3> QED
      BY <3>1, <3>2
  <2>7. CASE FailWriteRetry(w)
    <3>1. claim[w] \in Jobs
      BY <2>7, BusyHoldsJob DEF FailWriteRetry
    <3> QED
      BY <2>7, <3>1 DEF FailWriteRetry, DropClaim, TypeOK
  <2>8. CASE FailWriteFinal(w)
    <3>1. claim[w] \in Jobs
      BY <2>8, BusyHoldsJob DEF FailWriteFinal
    <3> QED
      BY <2>8, <3>1 DEF FailWriteFinal, DropClaim, TypeOK
  <2> QED
    BY <1>2, <2>1, <2>2, <2>3, <2>4, <2>5, <2>6, <2>7, <2>8 DEF WorkerStep
<1>3. ASSUME NEW w \in Workers, WorkerDies(w) PROVE OwnerHoldsClaim'
  BY <1>3 DEF WorkerDies, jobVars, TypeOK
<1>4. ASSUME NEW j \in Jobs, CreateJob(j) PROVE OwnerHoldsClaim'
  BY <1>4 DEF CreateJob, workerVars, TypeOK
<1>5. ASSUME NEW j \in Jobs, Clock(j) PROVE OwnerHoldsClaim'
  BY <1>5 DEF Clock, LeaseExpires, BackoffElapses, workerVars
<1>6. ASSUME NEW j \in Jobs, CleanupExpiredPractice(j) PROVE OwnerHoldsClaim'
  BY <1>6 DEF CleanupExpiredPractice, workerVars, TypeOK
<1>7. ASSUME NEW j \in Jobs, Instructor(j) PROVE OwnerHoldsClaim'
  <2>1. CASE RetryAssessment(j)
    BY <2>1 DEF RetryAssessment, workerVars, TypeOK
  <2>2. CASE ResolveFailure(j) \/ SaveReview(j) \/ Release(j)
    BY <2>2 DEF ResolveFailure, SaveReview, Release, jobVars, workerVars, TypeOK
  <2> QED
    BY <1>7, <2>1, <2>2 DEF Instructor
<1> QED
  BY <1>1, <1>2, <1>3, <1>4, <1>5, <1>6, <1>7 DEF Next

LEMMA ClaimCheckStep == Typed /\ ClaimCheck /\ [Next]_vars => ClaimCheck'
<1> SUFFICES ASSUME Typed, ClaimCheck, [Next]_vars PROVE ClaimCheck'
  OBVIOUS
<1>0. TypeOK
  BY DEF Typed
<1> USE <1>0, LimitAssumption DEF ClaimCheck, TypeOK
<1>1. ASSUME UNCHANGED <<attempt, maxAttempt>> PROVE ClaimCheck'
  BY <1>1
<1>2. ASSUME NEW w \in Workers, NEW j \in Jobs, ClaimNext(w, j) PROVE ClaimCheck'
  BY <1>2 DEF ClaimNext, Claimable
<1>3. ASSUME NEW j \in Jobs, RetryAssessment(j) PROVE ClaimCheck'
  BY <1>3 DEF RetryAssessment
<1> QED
  BY <1>1, <1>2, <1>3
     DEF Next, vars, WorkerStep, SweepOnly, CompleteRead, CompleteWrite, CompleteAborts,
         FailRead, FailWriteRetry, FailWriteFinal, WorkerDies, CreateJob, Clock,
         LeaseExpires, BackoffElapses, CleanupExpiredPractice, Instructor,
         ResolveFailure, SaveReview, Release, jobVars

(* What the sweep finds is RUNNING with every attempt claimed. *)
LEMMA SweepFinds ==
    ASSUME TypeOK, NEW k \in Exhausted
    PROVE  k \in Jobs /\ status[k] = "RUNNING" /\ attempt[k] >= maxAttempt[k]
  BY DEF Exhausted, TakeOver

(* A job that can be claimed is live and is not one the sweep ends. *)
LEMMA ClaimFinds ==
    ASSUME TypeOK, NEW j \in Jobs, Claimable(j)
    PROVE  /\ status[j] \in {"QUEUED", "RUNNING"}
           /\ attempt[j] < maxAttempt[j]
           /\ j \notin Exhausted
  BY DEF Claimable, Exhausted, TakeOver, TypeOK

LEMMA FreshnessStep == Typed /\ ClaimCheck /\ Freshness /\ [Next]_vars => Freshness'
<1> SUFFICES ASSUME Typed, ClaimCheck, Freshness, [Next]_vars PROVE Freshness'
  OBVIOUS
<1>0. TypeOK /\ WorkerClaim
  BY DEF Typed
<1>a. \A k \in Exhausted : k \in Jobs /\ attempt[k] # 0
  BY <1>0, SweepFinds DEF ClaimCheck, TypeOK
<1> USE <1>0, NullAssumption DEF Freshness, TypeOK
<1>1. CASE UNCHANGED vars
  BY <1>1 DEF vars
<1>2. ASSUME NEW w \in Workers, WorkerStep(w) PROVE Freshness'
  <2>1. ASSUME NEW j \in Jobs, ClaimNext(w, j) PROVE Freshness'
    BY <2>1, <1>a DEF ClaimNext, StatusAfterSweep, EvidenceAfterSweep
  <2>2. CASE SweepOnly(w)
    BY <2>2, <1>a DEF SweepOnly, StatusAfterSweep, EvidenceAfterSweep, workerVars
  <2>3. CASE CompleteRead(w)
    BY <2>3 DEF CompleteRead, DropClaim, jobVars, targetVars
  <2>4. CASE CompleteWrite(w)
    <3>1. claim[w] \in Jobs
      BY <2>4, BusyHoldsJob DEF CompleteWrite
    <3> QED
      BY <2>4, <3>1 DEF CompleteWrite, DropClaim
  <2>5. CASE CompleteAborts(w)
    BY <2>5 DEF CompleteAborts, jobVars, targetVars
  <2>6. CASE FailRead(w)
    BY <2>6 DEF FailRead, DropClaim, jobVars, targetVars
  <2>7. CASE FailWriteRetry(w)
    <3>1. claim[w] \in Jobs
      BY <2>7, BusyHoldsJob DEF FailWriteRetry
    <3> QED
      BY <2>7, <3>1 DEF FailWriteRetry, DropClaim
  <2>8. CASE FailWriteFinal(w)
    <3>1. claim[w] \in Jobs
      BY <2>8, BusyHoldsJob DEF FailWriteFinal
    <3> QED
      BY <2>8, <3>1 DEF FailWriteFinal, DropClaim
  <2> QED
    BY <1>2, <2>1, <2>2, <2>3, <2>4, <2>5, <2>6, <2>7, <2>8 DEF WorkerStep
<1>3. ASSUME NEW w \in Workers, WorkerDies(w) PROVE Freshness'
  BY <1>3 DEF WorkerDies, jobVars, targetVars
<1>4. ASSUME NEW j \in Jobs, CreateJob(j) PROVE Freshness'
  BY <1>4 DEF CreateJob, workerVars
<1>5. ASSUME NEW j \in Jobs, Clock(j) PROVE Freshness'
  BY <1>5 DEF Clock, LeaseExpires, BackoffElapses, targetVars, workerVars
<1>6. ASSUME NEW j \in Jobs, CleanupExpiredPractice(j) PROVE Freshness'
  BY <1>6 DEF CleanupExpiredPractice, workerVars
<1>7. ASSUME NEW j \in Jobs, Instructor(j) PROVE Freshness'
  <2>1. CASE RetryAssessment(j)
    BY <2>1 DEF RetryAssessment, AwaitsInstructor, workerVars
  <2>2. CASE ResolveFailure(j)
    BY <2>2 DEF ResolveFailure, AwaitsInstructor, jobVars, workerVars
  <2>3. CASE SaveReview(j) \/ Release(j)
    BY <2>3 DEF SaveReview, Release, jobVars, workerVars
  <2> QED
    BY <1>7, <2>1, <2>2, <2>3 DEF Instructor
<1> QED
  BY <1>1, <1>2, <1>3, <1>4, <1>5, <1>6, <1>7 DEF Next

(* The agreement of one job and its target. *)
Agrees(j) ==
    /\ status[j] = "ABSENT" => target[j] = "ABSENT"
    /\ status[j] = "QUEUED" => target[j] = "QUEUED" /\ evidence[j] = "PENDING"
    /\ status[j] = "RUNNING" =>
           target[j] = StartedStatus(j) /\ evidence[j] = "PENDING"
    /\ status[j] = "SUCCEEDED" =>
           /\ evidence[j] = "RESULT"
           /\ \/ target[j] \in FinishedStatuses(j)
              \/ Official(j) /\ target[j] \in {"REVIEWED", "RELEASED"}
    /\ status[j] = "FAILED" =>
           /\ evidence[j] = "INFRASTRUCTURE_ERROR"
           /\ \/ target[j] = FailedStatus(j)
              \/ Official(j) /\ target[j] = "FAILED_RESOLVED"
              \/ Kind[j] = "COMPLETION" /\ target[j] \in {"REVIEWED", "RELEASED"}

LEMMA AgreementSplit == TypeOK => (JobTargetAgreement <=> \A j \in Jobs : Agrees(j))
<1> SUFFICES ASSUME TypeOK PROVE JobTargetAgreement <=> \A j \in Jobs : Agrees(j)
  OBVIOUS
<1>1. \A j \in Jobs : status[j] \in JobStatus
  BY DEF TypeOK
<1> QED
  BY <1>1 DEF JobTargetAgreement, Agrees

LEMMA AgreementStep ==
    Typed /\ ClaimCheck /\ Freshness /\ JobTargetAgreement /\ [Next]_vars
        => JobTargetAgreement'
<1> SUFFICES ASSUME Typed, ClaimCheck, Freshness, JobTargetAgreement, [Next]_vars
             PROVE  JobTargetAgreement'
  OBVIOUS
<1>t. TypeOK'
  <2>1. Typed'
    BY TypeStep
  <2> QED
    BY <2>1 DEF Typed
<1>s. (\A j \in Jobs : Agrees(j))' => JobTargetAgreement'
  BY <1>t, AgreementSplit, PTL
<1> SUFFICES ASSUME NEW k \in Jobs PROVE Agrees(k)'
  BY <1>s
<1>0. TypeOK /\ WorkerClaim /\ Agrees(k)
  BY AgreementSplit DEF Typed
<1>a. /\ StartedStatus(k)' = StartedStatus(k)
      /\ FailedStatus(k)' = FailedStatus(k)
      /\ FinishedStatuses(k)' = FinishedStatuses(k)
      /\ Official(k)' = Official(k)
  BY DEF StartedStatus, FailedStatus, FinishedStatuses, Official
<1>1. CASE UNCHANGED vars
  BY <1>0, <1>1, <1>a DEF vars, Agrees
<1> USE <1>0 DEF TypeOK
<1>2. ASSUME NEW w \in Workers, WorkerStep(w) PROVE Agrees(k)'
  <2>1. ASSUME NEW j \in Jobs, ClaimNext(w, j) PROVE Agrees(k)'
    <3>1. CASE k = j
      <4>1. /\ status'[k] = "RUNNING" /\ target'[k] = StartedStatus(k)
            /\ evidence'[k] = evidence[k]
        BY <2>1, <3>1, ClaimFinds
           DEF ClaimNext, StatusAfterSweep, TargetAfterSweep, EvidenceAfterSweep
      <4>2. evidence[k] = "PENDING"
        BY <2>1, <3>1, ClaimFinds DEF ClaimNext, Agrees
      <4> QED
        BY <4>1, <4>2, <1>a DEF Agrees
    <3>2. CASE k # j /\ k \in Exhausted
      BY <2>1, <3>2, <1>a
         DEF ClaimNext, StatusAfterSweep, TargetAfterSweep, EvidenceAfterSweep, Agrees
    <3>3. CASE k # j /\ k \notin Exhausted
      BY <2>1, <3>3, <1>a
         DEF ClaimNext, StatusAfterSweep, TargetAfterSweep, EvidenceAfterSweep, Agrees
    <3> QED
      BY <3>1, <3>2, <3>3
  <2>2. CASE SweepOnly(w)
    BY <2>2, <1>a
       DEF SweepOnly, StatusAfterSweep, TargetAfterSweep, EvidenceAfterSweep, Agrees
  <2>3. CASE CompleteRead(w) \/ CompleteAborts(w) \/ FailRead(w)
    BY <2>3, <1>a DEF CompleteRead, CompleteAborts, FailRead, jobVars, targetVars, Agrees
  <2>4. CASE CompleteWrite(w)
    <3>1. claim[w] \in Jobs
      BY <2>4, BusyHoldsJob DEF CompleteWrite, Typed
    <3>2. CASE k = claim[w]
      <4>1. /\ status'[k] = "SUCCEEDED" /\ evidence'[k] = "RESULT"
            /\ target'[k] \in FinishedStatuses(k)
        BY <2>4, <3>2 DEF CompleteWrite
      <4> QED
        BY <4>1, <1>a DEF Agrees
    <3>3. CASE k # claim[w]
      BY <2>4, <3>1, <3>3, <1>a DEF CompleteWrite, Agrees
    <3> QED
      BY <3>2, <3>3
  <2>5. CASE FailWriteRetry(w)
    <3>1. claim[w] \in Jobs
      BY <2>5, BusyHoldsJob DEF FailWriteRetry, Typed
    <3> QED
      BY <2>5, <3>1, <1>a DEF FailWriteRetry, Agrees
  <2>6. CASE FailWriteFinal(w)
    <3>1. claim[w] \in Jobs
      BY <2>6, BusyHoldsJob DEF FailWriteFinal, Typed
    <3> QED
      BY <2>6, <3>1, <1>a DEF FailWriteFinal, Agrees
  <2> QED
    BY <1>2, <2>1, <2>2, <2>3, <2>4, <2>5, <2>6 DEF WorkerStep
<1>3. ASSUME NEW w \in Workers, WorkerDies(w) PROVE Agrees(k)'
  BY <1>3, <1>a DEF WorkerDies, jobVars, targetVars, Agrees
<1>4. ASSUME NEW j \in Jobs, CreateJob(j) PROVE Agrees(k)'
  BY <1>4, <1>a DEF CreateJob, Freshness, Agrees
<1>5. ASSUME NEW j \in Jobs, Clock(j) PROVE Agrees(k)'
  BY <1>5, <1>a DEF Clock, LeaseExpires, BackoffElapses, targetVars, Agrees
<1>6. ASSUME NEW j \in Jobs, CleanupExpiredPractice(j) PROVE Agrees(k)'
  BY <1>6, <1>a DEF CleanupExpiredPractice, Agrees
<1>7. ASSUME NEW j \in Jobs, Instructor(j) PROVE Agrees(k)'
  <2>1. CASE RetryAssessment(j)
    BY <1>7, <2>1, <1>a DEF RetryAssessment, Agrees
  <2>2. CASE ResolveFailure(j)
    BY <1>7, <2>2, <1>a DEF ResolveFailure, AwaitsInstructor, jobVars, Agrees
  <2>3. CASE SaveReview(j)
    BY <1>7, <2>3, <1>a, KindAssumption
       DEF SaveReview, jobVars, Agrees, Official, StartedStatus, FailedStatus, FinishedStatuses
  <2>4. CASE Release(j)
    BY <1>7, <2>4, <1>a, KindAssumption
       DEF Release, jobVars, Agrees, Official, StartedStatus, FailedStatus, FinishedStatuses
  <2> QED
    BY <1>7, <2>1, <2>2, <2>3, <2>4 DEF Instructor
<1> QED
  BY <1>1, <1>2, <1>3, <1>4, <1>5, <1>6, <1>7 DEF Next

LEMMA AnyTimingAlways == Spec => []AnyTiming
<1>1. Init => AnyTiming
  BY LimitAssumption, NullAssumption, AgreementSplit
     DEF Init, AnyTiming, Typed, TypeOK, WorkerClaim, OwnerHoldsClaim, ClaimCheck,
         Freshness, JobTargetAgreement
<1>2. AnyTiming /\ [Next]_vars => AnyTiming'
  BY TypeStep, OwnerStep, ClaimCheckStep, FreshnessStep, AgreementStep DEF AnyTiming
<1> QED
  BY <1>1, <1>2, PTL DEF Spec

(* Under any timing a RUNNING job is in the hands of the worker its row names or
   of nobody who lives, no write breaks execution_jobs_claim_check, and a target
   tells the same story as its job. *)
THEOREM RowsAgreeAlways == Spec => []RowsAgree
<1>1. AnyTiming => RowsAgree
  BY DEF AnyTiming, RowsAgree
<1> QED
  BY <1>1, AnyTimingAlways, PTL

(* Under any timing a released submission keeps its status. *)
THEOREM ReleasedFinalAlways == Spec => ReleasedFinal
<1>1. ASSUME AnyTiming, [Next]_vars, NEW k \in Jobs, target[k] = "RELEASED"
      PROVE  target'[k] = "RELEASED"
  <2>0. TypeOK /\ Typed /\ Agrees(k)
    BY <1>1, AgreementSplit DEF AnyTiming, Typed
  <2>a. status[k] \in {"SUCCEEDED", "FAILED"}
    BY <1>1, <2>0 DEF Agrees, TypeOK, StartedStatus
  <2>b. k \notin Exhausted
    BY <2>0, <2>a, SweepFinds
  <2> USE <2>0, <2>a, <2>b DEF TypeOK
  <2>1. CASE UNCHANGED target
    BY <1>1, <2>1
  <2>2. ASSUME NEW w \in Workers, NEW j \in Jobs, ClaimNext(w, j)
        PROVE  target'[k] = "RELEASED"
    BY <1>1, <2>2, ClaimFinds DEF ClaimNext, TargetAfterSweep
  <2>3. ASSUME NEW w \in Workers, SweepOnly(w) PROVE target'[k] = "RELEASED"
    BY <1>1, <2>3 DEF SweepOnly, TargetAfterSweep
  <2>4. ASSUME NEW w \in Workers,
               CompleteWrite(w) \/ FailWriteRetry(w) \/ FailWriteFinal(w)
        PROVE  target'[k] = "RELEASED"
    BY <1>1, <2>4 DEF CompleteWrite, FailWriteRetry, FailWriteFinal, TargetAccepts
  <2>5. ASSUME NEW j \in Jobs, CreateJob(j) PROVE target'[k] = "RELEASED"
    BY <1>1, <2>5 DEF CreateJob
  <2>6. ASSUME NEW j \in Jobs, CleanupExpiredPractice(j) PROVE target'[k] = "RELEASED"
    BY <1>1, <2>6 DEF CleanupExpiredPractice
  <2>7. ASSUME NEW j \in Jobs, Instructor(j) PROVE target'[k] = "RELEASED"
    BY <1>1, <2>7 DEF Instructor, AwaitsInstructor, RetryAssessment, ResolveFailure,
                      SaveReview, Release
  <2> QED
    BY <1>1, <2>1, <2>2, <2>3, <2>4, <2>5, <2>6, <2>7
       DEF Next, vars, WorkerStep, CompleteRead, CompleteAborts, FailRead, WorkerDies,
           Clock, LeaseExpires, BackoffElapses, targetVars
<1>2. AnyTiming /\ [Next]_vars => KeepsReleased
  BY <1>1 DEF KeepsReleased
<1> QED
  BY <1>2, AnyTimingAlways, PTL DEF Spec, ReleasedFinal

(***************************************************************************)
(* What holds when no lease is taken over between the read and the write   *)
(* of an ending transaction.                                               *)
(***************************************************************************)

Prompt == ~SlowTransactions

(* A worker past the read of an ending transaction still owns its job, and
   what failInfrastructure decided at the read is still the right decision. *)
FirmHold(w) ==
    pc[w] \in {"completing", "failing"} =>
        /\ StillOwns(w)
        /\ pc[w] = "failing" =>
               (retrying[w] <=> attempt[claim[w]] < maxAttempt[claim[w]])

Handover == \A w \in Workers : FirmHold(w)

(* What a step does to one job and its target, when holds are firm. *)
Untouched(k) ==
    UNCHANGED <<status[k], attempt[k], maxAttempt[k], owner[k], target[k], evidence[k],
                author[k], resolved[k]>>

Claimed(w, k) ==
    /\ status[k] \in {"QUEUED", "RUNNING"}
    /\ attempt[k] < maxAttempt[k]
    /\ status'[k] = "RUNNING" /\ attempt'[k] = attempt[k] + 1 /\ owner'[k] = w
    /\ target'[k] = StartedStatus(k)
    /\ UNCHANGED <<maxAttempt[k], evidence[k], author[k], resolved[k]>>

Completed(w, k) ==
    /\ status[k] = "RUNNING" /\ owner[k] = w
    /\ status'[k] = "SUCCEEDED"
    /\ target'[k] \in FinishedStatuses(k)
    /\ evidence'[k] = "RESULT" /\ author'[k] = w
    /\ UNCHANGED <<attempt[k], maxAttempt[k], owner[k], resolved[k]>>

Requeued(k) ==
    /\ status[k] = "RUNNING" /\ attempt[k] < maxAttempt[k]
    /\ status'[k] = "QUEUED" /\ target'[k] = "QUEUED" /\ evidence'[k] = "PENDING"
    /\ UNCHANGED <<attempt[k], maxAttempt[k], author[k], resolved[k]>>

GivenUp(k) ==
    /\ status[k] = "RUNNING" /\ attempt[k] >= maxAttempt[k]
    /\ status'[k] = "FAILED" /\ target'[k] = FailedStatus(k)
    /\ evidence'[k] = "INFRASTRUCTURE_ERROR"
    /\ UNCHANGED <<attempt[k], maxAttempt[k], owner[k], author[k], resolved[k]>>

QueueMoves(k) ==
    \/ Untouched(k)
    \/ \E w \in Workers : Claimed(w, k) \/ Completed(w, k)
    \/ Requeued(k)
    \/ GivenUp(k)

UserMoves(k) == CreateJob(k) \/ CleanupExpiredPractice(k) \/ Instructor(k)

LEMMA JobStep ==
    ASSUME Typed, Handover, [Next]_vars, NEW k \in Jobs
    PROVE  QueueMoves(k) \/ UserMoves(k)
<1>0. TypeOK
  BY DEF Typed
<1> USE <1>0 DEF TypeOK
<1>1. CASE UNCHANGED <<jobVars, targetVars>>
  BY <1>1 DEF jobVars, targetVars, QueueMoves, Untouched
<1>2. ASSUME NEW w \in Workers, NEW j \in Jobs, ClaimNext(w, j) PROVE QueueMoves(k)
  <2>1. CASE k = j
    <3>1. /\ status[k] \in {"QUEUED", "RUNNING"}
          /\ attempt[k] < maxAttempt[k]
          /\ k \notin Exhausted
      BY <1>2, <2>1, ClaimFinds DEF ClaimNext
    <3>2. /\ status'[k] = "RUNNING" /\ attempt'[k] = attempt[k] + 1 /\ owner'[k] = w
          /\ target'[k] = StartedStatus(k)
      BY <1>2, <2>1 DEF ClaimNext, StatusAfterSweep, TargetAfterSweep
    <3>3. UNCHANGED <<maxAttempt[k], evidence[k], author[k], resolved[k]>>
      BY <1>2, <3>1 DEF ClaimNext, EvidenceAfterSweep
    <3>4. Claimed(w, k)
      BY <3>1, <3>2, <3>3 DEF Claimed
    <3> QED
      BY <3>4 DEF QueueMoves
  <2>2. CASE k # j /\ k \in Exhausted
    <3>1. GivenUp(k)
      BY <1>2, <2>2, SweepFinds
         DEF ClaimNext, StatusAfterSweep, TargetAfterSweep, EvidenceAfterSweep, GivenUp
    <3> QED
      BY <3>1 DEF QueueMoves
  <2>3. CASE k # j /\ k \notin Exhausted
    BY <1>2, <2>3
       DEF ClaimNext, StatusAfterSweep, TargetAfterSweep, EvidenceAfterSweep, QueueMoves,
           Untouched
  <2> QED
    BY <2>1, <2>2, <2>3
<1>3. ASSUME NEW w \in Workers, SweepOnly(w) PROVE QueueMoves(k)
  <2>1. CASE k \in Exhausted
    <3>1. GivenUp(k)
      BY <1>3, <2>1, SweepFinds
         DEF SweepOnly, StatusAfterSweep, TargetAfterSweep, EvidenceAfterSweep, GivenUp
    <3> QED
      BY <3>1 DEF QueueMoves
  <2>2. CASE k \notin Exhausted
    BY <1>3, <2>2
       DEF SweepOnly, StatusAfterSweep, TargetAfterSweep, EvidenceAfterSweep, QueueMoves,
           Untouched
  <2> QED
    BY <2>1, <2>2
<1>4. ASSUME NEW w \in Workers,
             CompleteWrite(w) \/ FailWriteRetry(w) \/ FailWriteFinal(w)
      PROVE  QueueMoves(k)
  <2>1. claim[w] \in Jobs
    BY <1>4, BusyHoldsJob DEF CompleteWrite, FailWriteRetry, FailWriteFinal
  <2>2. CASE k # claim[w]
    BY <1>4, <2>2 DEF CompleteWrite, FailWriteRetry, FailWriteFinal, QueueMoves, Untouched
  <2>3. CASE k = claim[w]
    <3>1. FirmHold(w)
      BY DEF Handover
    <3>2. CASE CompleteWrite(w)
      BY <2>3, <3>1, <3>2
         DEF CompleteWrite, FirmHold, StillOwns, QueueMoves, Completed
    <3>3. CASE FailWriteRetry(w)
      BY <2>3, <3>1, <3>3
         DEF FailWriteRetry, FirmHold, StillOwns, QueueMoves, Requeued
    <3>4. CASE FailWriteFinal(w)
      BY <2>3, <3>1, <3>4
         DEF FailWriteFinal, FirmHold, StillOwns, QueueMoves, GivenUp
    <3> QED
      BY <1>4, <3>2, <3>3, <3>4
  <2> QED
    BY <2>2, <2>3
<1>5. ASSUME NEW j \in Jobs, CreateJob(j) \/ CleanupExpiredPractice(j) \/ Instructor(j)
      PROVE  QueueMoves(k) \/ UserMoves(k)
  <2>1. CASE k = j
    BY <1>5, <2>1 DEF UserMoves
  <2>2. CASE k # j
    BY <1>5, <2>2
       DEF CreateJob, CleanupExpiredPractice, Instructor, RetryAssessment, ResolveFailure,
           SaveReview, Release, jobVars, QueueMoves, Untouched
  <2> QED
    BY <2>1, <2>2
<1>6. ASSUME NEW j \in Jobs, Clock(j) PROVE QueueMoves(k)
  BY <1>6 DEF Clock, LeaseExpires, BackoffElapses, targetVars, QueueMoves, Untouched
<1> QED
  BY <1>1, <1>2, <1>3, <1>4, <1>5, <1>6
     DEF Next, vars, WorkerStep, CompleteRead, CompleteAborts, FailRead, WorkerDies, jobVars,
         targetVars

(* Nobody but its owner ends or takes over a job whose ending transaction is
   under way, when no lease is taken over inside one. *)
LEMMA HandoverStep ==
    ASSUME Prompt, Typed, JobTargetAgreement, Handover, [Next]_vars
    PROVE  Handover'
<1> SUFFICES ASSUME NEW v \in Workers, pc'[v] \in {"completing", "failing"}
             PROVE  /\ status'[claim'[v]] = "RUNNING"
                    /\ owner'[claim'[v]] = v
                    /\ pc'[v] = "failing" =>
                          (retrying'[v] <=> attempt'[claim'[v]] < maxAttempt'[claim'[v]])
  BY DEF Handover, FirmHold, StillOwns
<1> DEFINE Firm == /\ status'[claim'[v]] = "RUNNING"
                   /\ owner'[claim'[v]] = v
                   /\ pc'[v] = "failing" =>
                         (retrying'[v] <=> attempt'[claim'[v]] < maxAttempt'[claim'[v]])
<1> SUFFICES Firm
  OBVIOUS
<1>0. TypeOK /\ FirmHold(v) /\ ~SlowTransactions
  BY DEF Typed, Handover, Prompt
<1> USE <1>0 DEF TypeOK
(* A worker that was already past its read: its job must be left alone. *)
<1>a. ASSUME pc[v] \in {"completing", "failing"}
      PROVE  /\ claim[v] \in Jobs /\ StillOwns(v)
             /\ ~TakeOver(claim[v]) /\ ~Claimable(claim[v]) /\ claim[v] \notin Exhausted
  <2>1. claim[v] \in Jobs /\ StillOwns(v)
    BY <1>a, BusyHoldsJob DEF FirmHold
  <2>2. ~TakeOver(claim[v])
    BY <1>a, <2>1 DEF TakeOver, EndingClaim, StillOwns
  <2> QED
    BY <2>1, <2>2 DEF Claimable, StillOwns, Exhausted
<1>b. ASSUME UNCHANGED <<pc[v], claim[v], retrying[v]>>,
             UNCHANGED <<status[claim[v]], owner[claim[v]], attempt[claim[v]],
                         maxAttempt[claim[v]]>>
      PROVE  Firm
  BY <1>b DEF FirmHold, StillOwns
<1>c. ASSUME NEW j \in Jobs, pc[v] \in {"completing", "failing"},
             status[j] # "RUNNING",
             UNCHANGED workerVars,
             \A i \in Jobs \ {j} :
                 UNCHANGED <<status[i], owner[i], attempt[i], maxAttempt[i]>>
      PROVE  Firm
  <2>1. claim[v] \in Jobs \ {j}
    BY <1>a, <1>c DEF StillOwns
  <2> QED
    BY <1>b, <1>c, <2>1 DEF workerVars
<1>1. CASE UNCHANGED vars
  BY <1>1, <1>b DEF vars
<1>2. ASSUME NEW w \in Workers, NEW j \in Jobs, ClaimNext(w, j) PROVE Firm
  <2>1. w # v /\ pc[v] \in {"completing", "failing"}
    BY <1>2 DEF ClaimNext
  <2>2. claim[v] # j /\ claim[v] \in Jobs /\ claim[v] \notin Exhausted
    BY <1>2, <1>a, <2>1 DEF ClaimNext
  <2> QED
    BY <1>2, <1>b, <2>1, <2>2 DEF ClaimNext, StatusAfterSweep
<1>3. ASSUME NEW w \in Workers, SweepOnly(w) PROVE Firm
  <2>1. pc[v] \in {"completing", "failing"}
    BY <1>3 DEF SweepOnly, workerVars
  <2> QED
    BY <1>3, <1>a, <1>b, <2>1 DEF SweepOnly, StatusAfterSweep, workerVars
<1>4. ASSUME NEW w \in Workers, CompleteRead(w) PROVE Firm
  BY <1>4, <1>b DEF CompleteRead, DropClaim, StillOwns, jobVars
<1>5. ASSUME NEW w \in Workers,
             CompleteWrite(w) \/ FailWriteRetry(w) \/ FailWriteFinal(w)
      PROVE  Firm
  <2>1. w # v /\ pc[v] \in {"completing", "failing"}
    BY <1>5 DEF CompleteWrite, FailWriteRetry, FailWriteFinal, DropClaim
  <2>2. claim[w] \in Jobs /\ StillOwns(w)
    BY <1>5, BusyHoldsJob
       DEF CompleteWrite, FailWriteRetry, FailWriteFinal, Handover, FirmHold
  <2>3. claim[v] # claim[w]
    BY <1>a, <2>1, <2>2 DEF StillOwns
  <2> QED
    BY <1>5, <1>a, <1>b, <2>1, <2>2, <2>3
       DEF CompleteWrite, FailWriteRetry, FailWriteFinal, DropClaim
<1>6. ASSUME NEW w \in Workers, CompleteAborts(w) PROVE Firm
  BY <1>6, <1>b DEF CompleteAborts, jobVars
<1>7. ASSUME NEW w \in Workers, FailRead(w) PROVE Firm
  <2>1. CASE w = v
    <3>1. claim[v] \in Jobs
      BY <1>7, <2>1, BusyHoldsJob DEF FailRead
    <3>2. StillOwns(v) /\ UNCHANGED <<claim, jobVars>>
      BY <1>7, <2>1 DEF FailRead, DropClaim
    <3>3. retrying' = [retrying EXCEPT ![v] = attempt[claim[v]] < maxAttempt[claim[v]]]
      BY <1>7, <2>1, <3>2 DEF FailRead
    <3>4. retrying'[v] = (attempt[claim[v]] < maxAttempt[claim[v]])
      BY <3>3
    <3>5. retrying'[v] <=> (attempt[claim[v]] < maxAttempt[claim[v]])
      BY <3>4
    <3> QED
      BY <3>2, <3>5 DEF StillOwns, jobVars
  <2>2. CASE w # v
    <3>1. UNCHANGED <<pc[v], claim[v], retrying[v]>> /\ UNCHANGED jobVars
      BY <1>7, <2>2 DEF FailRead, DropClaim
    <3> QED
      BY <3>1, <1>b DEF jobVars
  <2> QED
    BY <2>1, <2>2
<1>8. ASSUME NEW w \in Workers, WorkerDies(w) PROVE Firm
  BY <1>8, <1>b DEF WorkerDies, jobVars
<1>9. ASSUME NEW j \in Jobs, CreateJob(j) PROVE Firm
  BY <1>9, <1>c DEF CreateJob, workerVars
<1>10. ASSUME NEW j \in Jobs, Clock(j) PROVE Firm
  BY <1>10, <1>b DEF Clock, LeaseExpires, BackoffElapses, workerVars
<1>11. ASSUME NEW j \in Jobs, CleanupExpiredPractice(j) PROVE Firm
  <2>1. status[j] # "RUNNING"
    BY <1>11, AgreementSplit
       DEF CleanupExpiredPractice, Agrees, StartedStatus, Official
  <2> QED
    BY <1>11, <1>c, <2>1 DEF CleanupExpiredPractice, workerVars
<1>12. ASSUME NEW j \in Jobs, RetryAssessment(j) PROVE Firm
  BY <1>12, <1>c DEF RetryAssessment, AwaitsInstructor, workerVars
<1>13. ASSUME NEW j \in Jobs, ResolveFailure(j) \/ SaveReview(j) \/ Release(j)
       PROVE  Firm
  BY <1>13, <1>b DEF ResolveFailure, SaveReview, Release, jobVars, workerVars
<1> QED
  BY <1>1, <1>2, <1>3, <1>4, <1>5, <1>6, <1>7, <1>8, <1>9, <1>10, <1>11, <1>12, <1>13
     DEF Next, WorkerStep, Instructor

(* The inductive invariant of one job: the invariants a run checks, and what
   ties the record of a result and of a resolution to the job's status. *)
JobInv(j) ==
    /\ status[j] = "QUEUED" => attempt[j] < maxAttempt[j] \/ RetriedAtCap(j)
    /\ status[j] = "FAILED" => attempt[j] = maxAttempt[j]
    /\ status[j] = "SUCCEEDED" => author[j] = owner[j]
    /\ author[j] # NoWorker <=> evidence[j] = "RESULT"
    /\ resolved[j] => /\ status[j] = "FAILED"
                      /\ Official(j)
                      /\ target[j] # "ASSESSMENT_FAILED"

Strict == AnyTiming /\ Handover /\ \A j \in Jobs : JobInv(j)

(* The facts about one job that the steps below start from. *)
LEMMA JobFacts ==
    ASSUME Strict, NEW k \in Jobs
    PROVE  /\ TypeOK /\ Agrees(k) /\ JobInv(k)
           /\ attempt[k] <= maxAttempt[k] /\ maxAttempt[k] \in 1..RetryCap
           /\ attempt[k] = 0 => /\ status[k] \in {"ABSENT", "QUEUED"}
                                /\ evidence[k] = "PENDING"
                                /\ author[k] = NoWorker
                                /\ ~resolved[k]
  BY AgreementSplit DEF Strict, AnyTiming, Typed, ClaimCheck, Freshness

LEMMA JobInvStep ==
    ASSUME Prompt, Strict, [Next]_vars, NEW k \in Jobs
    PROVE  JobInv(k)'
<1>1. /\ TypeOK /\ Agrees(k) /\ JobInv(k)
      /\ attempt[k] <= maxAttempt[k] /\ maxAttempt[k] \in 1..RetryCap
      /\ attempt[k] = 0 => /\ status[k] \in {"ABSENT", "QUEUED"}
                           /\ evidence[k] = "PENDING"
                           /\ author[k] = NoWorker
                           /\ ~resolved[k]
  BY JobFacts
<1>2. QueueMoves(k) \/ UserMoves(k)
  BY JobStep DEF Strict, AnyTiming
<1> USE <1>1, LimitAssumption, NullAssumption DEF TypeOK, JobInv, RetriedAtCap
<1>3. Official(k)' = Official(k)
  BY DEF Official
<1>4. CASE Untouched(k)
  BY <1>3, <1>4 DEF Untouched
<1>5. ASSUME NEW w \in Workers, Claimed(w, k) PROVE JobInv(k)'
  BY <1>3, <1>5 DEF Claimed
<1>6. ASSUME NEW w \in Workers, Completed(w, k) PROVE JobInv(k)'
  BY <1>3, <1>6 DEF Completed
<1>7. CASE Requeued(k)
  BY <1>3, <1>7 DEF Requeued, Agrees
<1>8. CASE GivenUp(k)
  BY <1>3, <1>8 DEF GivenUp, Agrees
<1>9. CASE CreateJob(k)
  BY <1>3, <1>9 DEF CreateJob
<1>10. CASE CleanupExpiredPractice(k)
  BY <1>3, <1>10 DEF CleanupExpiredPractice, Official
<1>11. CASE RetryAssessment(k)
  <2>1. status[k] = "FAILED" /\ evidence[k] = "INFRASTRUCTURE_ERROR" /\ ~resolved[k]
    BY <1>11 DEF RetryAssessment, AwaitsInstructor, Agrees
  <2>2. attempt'[k] < maxAttempt'[k] \/ RetriedAtCap(k)'
    <3>1. /\ attempt'[k] = attempt[k] /\ status'[k] = "QUEUED" /\ Kind[k] = "GRADED"
          /\ maxAttempt'[k] = IF maxAttempt[k] + 1 <= RetryCap THEN maxAttempt[k] + 1
                              ELSE RetryCap
      BY <1>11 DEF RetryAssessment, CasePointsAccepted
    <3>2. attempt[k] = maxAttempt[k]
      BY <2>1
    <3> QED
      BY <3>1, <3>2
  <2>3. /\ status'[k] = "QUEUED" /\ evidence'[k] = "PENDING"
        /\ author'[k] = author[k] /\ resolved'[k] = resolved[k]
    BY <1>11 DEF RetryAssessment
  <2> QED
    BY <2>1, <2>2, <2>3
<1>12. CASE ResolveFailure(k)
  BY <1>3, <1>12 DEF ResolveFailure, AwaitsInstructor, jobVars
<1>13. CASE SaveReview(k)
  BY <1>3, <1>13 DEF SaveReview, jobVars
<1>14. CASE Release(k)
  BY <1>3, <1>14 DEF Release, jobVars
<1> QED
  BY <1>2, <1>4, <1>5, <1>6, <1>7, <1>8, <1>9, <1>10, <1>11, <1>12, <1>13, <1>14
     DEF QueueMoves, UserMoves, Instructor

LEMMA StrictAlways == Prompt /\ Spec => []Strict
<1>1. Init => Strict
  <2>1. Init => AnyTiming
    BY LimitAssumption, NullAssumption, AgreementSplit
       DEF Init, AnyTiming, Typed, TypeOK, WorkerClaim, OwnerHoldsClaim, ClaimCheck,
           Freshness, JobTargetAgreement
  <2>2. Init => Handover /\ \A j \in Jobs : JobInv(j)
    BY DEF Init, Handover, FirmHold, JobInv
  <2> QED
    BY <2>1, <2>2 DEF Strict
<1>2. Prompt /\ Strict /\ [Next]_vars => Strict'
  <2> SUFFICES ASSUME Prompt, Strict, [Next]_vars PROVE Strict'
    OBVIOUS
  <2>1. AnyTiming'
    BY TypeStep, OwnerStep, ClaimCheckStep, FreshnessStep, AgreementStep
       DEF Strict, AnyTiming
  <2>2. Handover'
    BY HandoverStep DEF Strict, AnyTiming
  <2>3. (\A j \in Jobs : JobInv(j))'
    BY JobInvStep
  <2> QED
    BY <2>1, <2>2, <2>3 DEF Strict
<1>3. Prompt' <=> Prompt
  BY DEF Prompt
<1> QED
  BY <1>1, <1>2, <1>3, PTL DEF Spec

(* When timing is as the configuration intends, a QUEUED job can be claimed,
   unless it was retried at the ceiling, a FAILED one has used every attempt,
   and a result is its owner's. *)
THEOREM AttemptsAccountedAlways == Prompt /\ Spec => []AttemptsAccounted
<1>1. Strict => AttemptsAccounted
  BY DEF Strict, JobInv, AttemptsAccounted, QueuedIsClaimable, RetriedAtCap, FailedMeansExhausted,
         ResultOfOwner
<1> QED
  BY <1>1, StrictAlways, PTL

(* Then also no step replaces a recorded result. *)
THEOREM ResultImmutableAlways == Prompt /\ Spec => ResultImmutable
<1>1. ASSUME Strict, [Next]_vars, NEW k \in Jobs, author[k] # NoWorker
      PROVE  author'[k] = author[k] /\ evidence'[k] = "RESULT"
  <2>1. /\ TypeOK /\ Agrees(k) /\ JobInv(k)
        /\ attempt[k] = 0 => author[k] = NoWorker
    BY <1>1, JobFacts
  <2>2. evidence[k] = "RESULT" /\ status[k] \in {"ABSENT", "SUCCEEDED"} /\ attempt[k] # 0
    BY <1>1, <2>1 DEF JobInv, Agrees, TypeOK
  <2>3. QueueMoves(k) \/ UserMoves(k)
    BY <1>1, JobStep DEF Strict, AnyTiming
  <2>4. CASE QueueMoves(k)
    BY <2>2, <2>4 DEF QueueMoves, Untouched, Claimed, Completed, Requeued, GivenUp
  <2>5. CASE UserMoves(k)
    BY <2>2, <2>5
       DEF UserMoves, CreateJob, CleanupExpiredPractice, Instructor, AwaitsInstructor,
           RetryAssessment, ResolveFailure, SaveReview, Release
  <2> QED
    BY <2>3, <2>4, <2>5
<1>2. Strict /\ [Next]_vars => KeepsResults
  BY <1>1 DEF KeepsResults
<1> QED
  BY <1>2, StrictAlways, PTL DEF Spec, ResultImmutable

(* Nor does the queue touch a failure an instructor has resolved. *)
THEOREM ResolutionFinalAlways == Prompt /\ Spec => ResolutionFinal
<1>1. ASSUME Strict, [Next]_vars, NEW k \in Jobs, resolved[k]
      PROVE  /\ resolved'[k]
             /\ status'[k] = status[k]
             /\ evidence'[k] = evidence[k]
             /\ target'[k] # target[k] =>
                    Kind[k] = "COMPLETION" /\ target'[k] \in {"REVIEWED", "RELEASED"}
  <2>1. TypeOK /\ Agrees(k) /\ JobInv(k)
    BY <1>1, JobFacts
  <2>2. /\ status[k] = "FAILED" /\ Official(k)
        /\ target[k] \in {"FAILED_RESOLVED", "REVIEWED", "RELEASED"}
        /\ target[k] # "FAILED_RESOLVED" => Kind[k] = "COMPLETION"
    BY <1>1, <2>1 DEF JobInv, Agrees, FailedStatus
  <2>3. QueueMoves(k) \/ UserMoves(k)
    BY <1>1, JobStep DEF Strict, AnyTiming
  <2>4. CASE QueueMoves(k)
    BY <1>1, <2>2, <2>4 DEF QueueMoves, Untouched, Claimed, Completed, Requeued, GivenUp
  <2>5. CASE UserMoves(k)
    BY <1>1, <2>1, <2>2, <2>5
       DEF UserMoves, CreateJob, CleanupExpiredPractice, Instructor, AwaitsInstructor,
           RetryAssessment, ResolveFailure, SaveReview, Release, jobVars, TypeOK
  <2> QED
    BY <2>3, <2>4, <2>5
<1>2. Strict /\ [Next]_vars => KeepsResolutions
  BY <1>1 DEF KeepsResolutions
<1> QED
  BY <1>2, StrictAlways, PTL DEF Spec, ResolutionFinal

(* So what has been decided about a submission, by the queue or by a person,
   stands. *)
THEOREM OutcomesFinalAlways == Prompt /\ Spec => OutcomesFinal
  BY ResultImmutableAlways, ResolutionFinalAlways, ReleasedFinalAlways DEF OutcomesFinal

(***************************************************************************)
(* The queue implements the safety part of AssessmentLifecycle.             *)
(***************************************************************************)

(* Every step moves one target along its lifecycle, and records a result
   exactly when the target finishes. *)
LEMMA LifecycleMove ==
    ASSUME Strict, [Next]_vars, NEW k \in Jobs
    PROVE  /\ target'[k] = target[k] \/ <<target[k], target'[k]>> \in Lifecycle!Moves(k)
           /\ IF Lifecycle!Finishes(k)
              THEN author[k] = NoWorker /\ author'[k] \in Workers
              ELSE author'[k] = author[k]
           /\ attempt[k] = RetryCap =>
                  /\ attempt'[k] = RetryCap
                  /\ target[k] = "QUEUED" => target'[k] = "QUEUED"
<1>1. /\ TypeOK /\ Agrees(k) /\ JobInv(k) /\ Kind[k] \in Kinds
      /\ attempt[k] <= maxAttempt[k] /\ maxAttempt[k] \in 1..RetryCap /\ RetryCap \in Nat
  BY JobFacts, KindAssumption, LimitAssumption
<1>2. QueueMoves(k) \/ UserMoves(k)
  BY JobStep DEF Strict, AnyTiming
<1> DEFINE Moved ==
        /\ target'[k] = target[k] \/ <<target[k], target'[k]>> \in Lifecycle!Moves(k)
        /\ IF Lifecycle!Finishes(k)
           THEN author[k] = NoWorker /\ author'[k] \in Workers
           ELSE author'[k] = author[k]
        /\ attempt[k] = RetryCap =>
               /\ attempt'[k] = RetryCap
               /\ target[k] = "QUEUED" => target'[k] = "QUEUED"
<1> USE <1>1
    DEF TypeOK, Lifecycle!Moves, Lifecycle!AssessmentMoves, Lifecycle!ReviewMoves,
        Lifecycle!Finishes, Lifecycle!InProgress, Lifecycle!WithResult
<1>3. CASE Untouched(k)
  BY <1>3 DEF Untouched
<1>4. ASSUME NEW w \in Workers, Claimed(w, k) PROVE Moved
  BY <1>4 DEF Claimed, Agrees, StartedStatus, Official
<1>5. ASSUME NEW w \in Workers, Completed(w, k) PROVE Moved
  BY <1>5 DEF Completed, Agrees, JobInv, StartedStatus, FinishedStatuses, Official
<1>6. CASE Requeued(k)
  BY <1>6 DEF Requeued, Agrees, StartedStatus, Official
<1>7. CASE GivenUp(k)
  BY <1>7 DEF GivenUp, Agrees, StartedStatus, FailedStatus, Official
<1>8. CASE CreateJob(k)
  BY <1>8 DEF CreateJob, Agrees
<1>9. CASE CleanupExpiredPractice(k)
  BY <1>9 DEF CleanupExpiredPractice
<1>10. CASE RetryAssessment(k)
  BY <1>10 DEF RetryAssessment, AwaitsInstructor, CasePointsAccepted
<1>11. CASE ResolveFailure(k)
  BY <1>11 DEF ResolveFailure, AwaitsInstructor, Official, jobVars
<1>12. CASE SaveReview(k)
  BY <1>12 DEF SaveReview, Official, jobVars
<1>13. CASE Release(k)
  BY <1>13 DEF Release, Official, jobVars
<1> QED
  BY <1>2, <1>3, <1>4, <1>5, <1>6, <1>7, <1>8, <1>9, <1>10, <1>11, <1>12, <1>13
     DEF QueueMoves, UserMoves, Instructor

Starts(k) == target'[k] \in Lifecycle!InProgress /\ target'[k] # target[k]

(* A step starts at most one target and finishes at most one. *)
LEMMA OneAtATime ==
    ASSUME Strict, [Next]_vars, NEW s \in Jobs, NEW t \in Jobs, s # t
    PROVE  /\ ~(Starts(s) /\ Starts(t))
           /\ ~(Lifecycle!Finishes(s) /\ Lifecycle!Finishes(t))
<1>0. Typed /\ TypeOK
  BY DEF Strict, AnyTiming, Typed
<1> DEFINE Single == /\ ~(Starts(s) /\ Starts(t))
                     /\ ~(Lifecycle!Finishes(s) /\ Lifecycle!Finishes(t))
<1> USE <1>0
    DEF TypeOK, Starts, Lifecycle!Finishes, Lifecycle!InProgress, Lifecycle!WithResult
<1>1. ASSUME NEW j \in Jobs, \A k \in Jobs \ {j} :
                 target'[k] \in {target[k], "ASSESSMENT_FAILED", "FAILED"}
      PROVE  Single
  BY <1>1
<1>2. CASE UNCHANGED target
  BY <1>2
<1>3. ASSUME NEW w \in Workers, NEW j \in Jobs, ClaimNext(w, j) PROVE Single
  BY <1>3, <1>1, StatusTypes DEF ClaimNext, TargetAfterSweep
<1>4. ASSUME NEW w \in Workers, SweepOnly(w) PROVE Single
  BY <1>4, <1>1, StatusTypes DEF SweepOnly, TargetAfterSweep
<1>5. ASSUME NEW w \in Workers,
             CompleteWrite(w) \/ FailWriteRetry(w) \/ FailWriteFinal(w)
      PROVE  Single
  <2>1. claim[w] \in Jobs
    BY <1>5, BusyHoldsJob DEF CompleteWrite, FailWriteRetry, FailWriteFinal
  <2> QED
    BY <1>5, <1>1, <2>1 DEF CompleteWrite, FailWriteRetry, FailWriteFinal
<1>6. ASSUME NEW j \in Jobs, CreateJob(j) \/ CleanupExpiredPractice(j) \/ Instructor(j)
      PROVE  Single
  BY <1>6, <1>1 DEF CreateJob, CleanupExpiredPractice, Instructor, RetryAssessment,
                    ResolveFailure, SaveReview, Release
<1> QED
  BY <1>2, <1>3, <1>4, <1>5, <1>6
     DEF Next, vars, WorkerStep, CompleteRead, CompleteAborts, FailRead, WorkerDies, Clock,
         LeaseExpires, BackoffElapses, targetVars

(* The queue implements AssessmentLifecycle!Safety under the mapping
   life <- target, result <- author and spent the jobs whose attempts are at
   RetryCap. *)
THEOREM ImplementsLifecycle == Prompt /\ Spec => LifecycleSafety
<1>1. Init => Lifecycle!Init
  BY LimitAssumption DEF Init, Lifecycle!Init
<1>2. Strict /\ Strict' /\ [Next]_vars => [Lifecycle!Next]_(Lifecycle!lifeVars)
  <2> SUFFICES ASSUME Strict, Strict', [Next]_vars PROVE Lifecycle!Next
    OBVIOUS
  <2>1. /\ target' \in [Jobs -> Lifecycle!Statuses]
        /\ author' \in [Jobs -> Workers \union {NoWorker}]
    BY DEF Strict, AnyTiming, Typed, TypeOK, Lifecycle!Statuses
  <2>2. \A s, t \in Jobs :
           \/ s = t
           \/ target'[s] \notin Lifecycle!InProgress \/ target'[s] = target[s]
           \/ target'[t] \notin Lifecycle!InProgress \/ target'[t] = target[t]
    BY OneAtATime DEF Starts
  <2>3. \A s, t \in Jobs : Lifecycle!Finishes(s) /\ Lifecycle!Finishes(t) => s = t
    BY OneAtATime
  <2> DEFINE Spent == {j \in Jobs : attempt[j] = RetryCap}
  <2>4. Spent \subseteq Spent' /\ Spent' \subseteq Jobs
    BY LifecycleMove
  <2>5. \A k \in Spent : target[k] = "QUEUED" => target'[k] = "QUEUED"
    BY LifecycleMove
  <2>6. \A k \in Jobs :
           /\ target'[k] = target[k] \/ <<target[k], target'[k]>> \in Lifecycle!Moves(k)
           /\ IF Lifecycle!Finishes(k)
              THEN author[k] = NoWorker /\ author'[k] \in Workers
              ELSE author'[k] = author[k]
    BY LifecycleMove
  <2> QED
    BY <2>1, <2>2, <2>3, <2>4, <2>5, <2>6 DEF Lifecycle!Next
<1> QED
  BY <1>1, <1>2, StrictAlways, PTL DEF Spec, LifecycleSafety, Lifecycle!Safety

-----------------------------------------------------------------------------
(***************************************************************************)
(* The interactive console, for any number of runs, inputs and lines, any  *)
(* number of lost calls and every fault of the worker.                     *)
(*                                                                         *)
(* A request or an answer that still matters is one about a live run, and  *)
(* the browser never shows another run, nor starts one, while the run it   *)
(* typed into lives.  So the number and the text of every input under way  *)
(* are those of the list that was typed, the last one of it when the       *)
(* browser waits for the answer, and the worker, which holds a run that    *)
(* has not come to its end by itself, has written what it has counted.     *)
(***************************************************************************)

CallKinds == {"start", "control", "read"}
Phases == {"QUEUED", "COMPILING", "RUNNING", "COMPLETED", "FAILED", "CANCELLED"}
Statuses == {"QUEUED", "RUNNING", "SUCCEEDED", "FAILED"}
Runs == [key : Nat, phase : Phases, status : Statuses, cancel : BOOLEAN,
         inputs : Seq(C!Inputs), given : Seq(C!Inputs)]
Records == [run : Nat, phase : Phases \cup {"NONE"}, next : Nat \ {0},
            closed : BOOLEAN, cancel : BOOLEAN]
Numbered == [seq : Nat, line : C!Inputs]
StartRequests == [op : {"start"}, key : Nat]
LookRequests == [op : {"stop", "read"}, run : Nat]
InputRequests == [op : {"input"}, run : Nat, input : Numbered]
Requests == StartRequests \cup LookRequests \cup InputRequests
Sent == [state : {"sent"}, req : Requests]
Answered == [state : {"answered"}, req : Requests, body : Records]
Calls == {C!NoCall} \cup Sent \cup Answered
WorkerStates ==
    [run : Nat, pc : {"idle", "claimed", "compiling", "running", "exited"},
     monitor : {"idle", "due", "renew"}, seen : Nat, delivered : Nat,
     stdin : BOOLEAN, reason : {"none", "COMPLETED", "FAILED", "CANCELLED"}]

ConsoleTypes ==
    /\ run \in Seq(Runs) /\ Len(run) <= MaxRuns
    /\ worker \in WorkerStates
    /\ shown \in Records
    /\ call \in [CallKinds -> Calls]
    /\ stray \subseteq Requests
    /\ pending \in Numbered
    /\ typed \in [1..MaxRuns -> Seq(C!Inputs)] /\ intent \in Nat

Live == {"QUEUED", "RUNNING"}
Moving == {"QUEUED", "COMPILING", "RUNNING"}

(* The parts of the invariant, of a list r of runs and the typed inputs t. *)
Begins(s, t) == Len(s) <= Len(t) /\ \A i \in 1..Len(s) : s[i] = t[i]
Over(r, n) == n \in DOMAIN r /\ r[n].status \notin Live
Grows(r, r2) == DOMAIN r \subseteq DOMAIN r2 /\ \A n \in DOMAIN r : Over(r, n) => Over(r2, n)

\* An inactive phase comes with a final status, and a queued run is untouched.
RunFits(e) ==
    /\ e.phase \notin Moving => e.status \notin Live
    /\ e.status = "QUEUED" => e.given = <<>>
    /\ Begins(e.given, e.inputs)

\* The worker has a claimed run and has written what it has counted.
WorkerHas(w, e) ==
    /\ e.status # "QUEUED" /\ e.phase \in Moving
    /\ Len(e.given) = w.delivered
    /\ w.delivered <= w.seen /\ w.seen <= Len(e.inputs)
    /\ w.pc = "exited" => w.reason # "none"

RunsFit(r) == \A n \in DOMAIN r : RunFits(r[n])
WorkerFits(w, r) == w # C!Off => w.run \in DOMAIN r /\ WorkerHas(w, r[w.run])
Stored(r, t) == \A n \in DOMAIN r : Begins(r[n].inputs, t[n])

\* A request is about a run there is; its input is among those typed.
Good(q, r, t) ==
    /\ q.op # "start" => q.run \in DOMAIN r
    /\ q.op = "input" /\ ~Over(r, q.run) =>
          q.input.seq \in 1..Len(t[q.run]) /\ t[q.run][q.input.seq] = q.input.line

\* So is an answer; it tells an end only of a run that has come to it.
GoodBody(b, r, t) ==
    /\ b.run \in DOMAIN r
    /\ b.phase \notin Moving => Over(r, b.run)
    /\ ~Over(r, b.run) => b.next <= Len(t[b.run]) + 1

Underway(c, r, t) ==
    \A k \in CallKinds : /\ c[k] # C!NoCall => Good(c[k].req, r, t)
                         /\ c[k].state = "answered" => GoodBody(c[k].body, r, t)

\* The record shown, and the input that waits for its acknowledgement.
Shows(s, p, r, t) ==
    /\ s.run = 0 => s = C!NoRecord
    /\ s.run # 0 =>
          /\ s.run \in DOMAIN r
          /\ s.phase \notin Moving => Over(r, s.run)
          /\ ~Over(r, s.run) =>
                /\ s.next <= Len(t[s.run]) + 1
                /\ p = C!NoInput => s.next = Len(t[s.run]) + 1
                /\ p # C!NoInput => /\ p.seq = Len(t[s.run]) /\ p.seq # 0
                                    /\ t[s.run][p.seq] = p.line

\* Only the run shown was typed into, of those that live.
OnlyShownTyped(s, r, t) ==
    \A n \in 1..MaxRuns : ~Over(r, n) /\ s.run # n => t[n] = <<>>

\* While a start is under way, the run shown is over.
Starting(c, s, r) == c["start"] # C!NoCall /\ s.run # 0 => Over(r, s.run)

\* A control under way is about the run shown, or about one that is over, and
\* then nothing was typed since; its input is the last one.
Controls(c, s, r, t) ==
    c["control"] # C!NoCall =>
        LET q == c["control"].req
            b == c["control"].body
        IN  /\ q.op # "start"
            /\ c["control"].state = "answered" => b.run = q.run
            /\ s.run # q.run => /\ Over(r, q.run)
                                /\ s.run # 0 /\ ~Over(r, s.run) => t[s.run] = <<>>
            /\ q.op = "input" /\ ~Over(r, q.run) =>
                  /\ q.input.seq = Len(t[q.run])
                  /\ c["control"].state = "answered" => b.next = Len(t[q.run]) + 1

\* What the browser has under way and shows, of the runs r.
Browsing(r, t, s, p, c, lost) ==
    /\ \A q \in lost : Good(q, r, t)
    /\ Underway(c, r, t) /\ Shows(s, p, r, t) /\ OnlyShownTyped(s, r, t)
    /\ Starting(c, s, r) /\ Controls(c, s, r, t)

ConsoleInv ==
    /\ RunsFit(run) /\ WorkerFits(worker, run) /\ Stored(run, typed)
    /\ Browsing(run, typed, shown, pending, call, stray)

(***************************************************************************)
(* Sequences: what was written and the next piece of what is stored.       *)
(***************************************************************************)
LEMMA Cut ==
    ASSUME NEW S, NEW s \in Seq(S), NEW a \in Nat, NEW b \in Nat, a <= b, b <= Len(s)
    PROVE  /\ SubSeq(s, a + 1, b) \in Seq(S) /\ Len(SubSeq(s, a + 1, b)) = b - a
           /\ \A i \in 1..(b - a) : SubSeq(s, a + 1, b)[i] = s[a + i]
  OBVIOUS

LEMMA Join ==
    ASSUME NEW S, NEW s \in Seq(S), NEW t \in Seq(S), NEW w, w = s \o t
    PROVE  /\ w \in Seq(S) /\ Len(w) = Len(s) + Len(t)
           /\ \A i \in 1..Len(s) : w[i] = s[i]
           /\ \A i \in 1..Len(t) : w[Len(s) + i] = t[i]
  OBVIOUS

LEMMA Continue ==
    ASSUME NEW S, NEW g \in Seq(S), NEW s \in Seq(S), NEW a \in Nat, NEW b \in Nat,
           Begins(g, s), Len(g) = a, a <= b, b <= Len(s)
    PROVE  LET w == g \o SubSeq(s, a + 1, b)
           IN  w \in Seq(S) /\ Len(w) = b /\ Begins(w, s)
<1> DEFINE t == SubSeq(s, a + 1, b)
           w == g \o t
<1>1. t \in Seq(S) /\ Len(t) = b - a /\ \A i \in 1..(b - a) : t[i] = s[a + i]
  BY Cut
<1> HIDE DEF t
<1>2. /\ w \in Seq(S) /\ Len(w) = a + (b - a)
      /\ \A i \in 1..a : w[i] = g[i]
      /\ \A i \in 1..(b - a) : w[a + i] = t[i]
  <2>1. /\ w \in Seq(S) /\ Len(w) = Len(g) + Len(t)
        /\ \A i \in 1..Len(g) : w[i] = g[i]
        /\ \A i \in 1..Len(t) : w[Len(g) + i] = t[i]
    <3>1. g \in Seq(S) /\ t \in Seq(S)
      BY <1>1
    <3> QED
      BY ONLY <3>1, Join DEF w
  <2> HIDE DEF w
  <2> QED
    BY <1>1, <2>1
<1> HIDE DEF w
<1>3. ASSUME NEW i \in 1..b PROVE w[i] = s[i]
  <2>1. CASE i <= a
    <3>1. i \in 1..a /\ g[i] = s[i]
      BY <2>1 DEF Begins
    <3> QED
      BY <3>1, <1>2
  <2>2. CASE i > a
    <3>1. i - a \in 1..(b - a) /\ a + (i - a) = i
      BY <2>2
    <3> QED
      BY <3>1, <1>1, <1>2
  <2> QED
    BY <2>1, <2>2
<1>4. Len(w) = b
  BY <1>2
<1>5. Begins(w, s)
  BY <1>3, <1>4 DEF Begins
<1> QED
  BY <1>2, <1>4, <1>5 DEF w, t

(***************************************************************************)
(* One run changes, or one is added: what has to be seen of it.            *)
(***************************************************************************)
LEMMA Change ==
    ASSUME NEW r \in Seq(Runs), NEW n \in DOMAIN r, NEW e \in Runs, NEW t,
           RunsFit(r), Stored(r, t), RunFits(e), Begins(e.inputs, t[n]),
           r[n].status \notin Live => e.status \notin Live
    PROVE  LET r2 == [r EXCEPT ![n] = e]
           IN  /\ r2 \in Seq(Runs) /\ Len(r2) = Len(r) /\ DOMAIN r2 = DOMAIN r
               /\ RunsFit(r2) /\ Stored(r2, t) /\ Grows(r, r2)
               /\ r2[n] = e /\ \A m \in DOMAIN r \ {n} : r2[m] = r[m]
<1> DEFINE r2 == [r EXCEPT ![n] = e]
<1>1. r2 \in Seq(Runs) /\ Len(r2) = Len(r) /\ DOMAIN r2 = DOMAIN r
  OBVIOUS
<1>2. r2[n] = e /\ \A m \in DOMAIN r \ {n} : r2[m] = r[m]
  OBVIOUS
<1> HIDE DEF r2
<1>3. RunsFit(r2)
  BY <1>1, <1>2 DEF RunsFit
<1>4. Stored(r2, t)
  BY <1>1, <1>2 DEF Stored
<1>5. Grows(r, r2)
  BY <1>1, <1>2 DEF Grows, Over
<1> QED
  BY <1>1, <1>2, <1>3, <1>4, <1>5 DEF r2

LEMMA Added ==
    ASSUME NEW r \in Seq(Runs), NEW e \in Runs, NEW t,
           RunsFit(r), Stored(r, t), RunFits(e), Begins(e.inputs, t[Len(r) + 1])
    PROVE  LET r2 == Append(r, e)
           IN  /\ r2 \in Seq(Runs) /\ Len(r2) = Len(r) + 1
               /\ RunsFit(r2) /\ Stored(r2, t) /\ Grows(r, r2)
               /\ r2[Len(r2)] = e /\ \A m \in DOMAIN r : r2[m] = r[m]
<1> DEFINE r2 == Append(r, e)
<1>1. r2 \in Seq(Runs) /\ Len(r2) = Len(r) + 1 /\ DOMAIN r2 = 1..(Len(r) + 1)
  OBVIOUS
<1>2. r2[Len(r2)] = e /\ \A m \in DOMAIN r : r2[m] = r[m]
  OBVIOUS
<1>0. DOMAIN r = 1..Len(r) /\ Len(r) \in Nat
  OBVIOUS
<1> HIDE DEF r2
<1>3. RunsFit(r2)
  BY <1>0, <1>1, <1>2 DEF RunsFit
<1>4. Stored(r2, t)
  BY <1>0, <1>1, <1>2 DEF Stored
<1>5. Grows(r, r2)
  BY <1>0, <1>1, <1>2 DEF Grows, Over
<1> QED
  BY <1>1, <1>2, <1>3, <1>4, <1>5 DEF r2

LEMMA WorkerKeeps ==
    ASSUME NEW r, NEW r2, NEW w, WorkerFits(w, r), DOMAIN r \subseteq DOMAIN r2,
           w.run \in DOMAIN r /\ WorkerHas(w, r[w.run]) => WorkerHas(w, r2[w.run])
    PROVE  WorkerFits(w, r2)
  BY DEF WorkerFits

\* What the browser has stays in order when runs are added and come to an end.
LEMMA BrowserKeeps ==
    ASSUME NEW r, NEW r2, NEW t, NEW s, NEW p, NEW c, NEW lost,
           Grows(r, r2), Browsing(r, t, s, p, c, lost)
    PROVE  Browsing(r2, t, s, p, c, lost)
<1>0. \A n : Over(r, n) => Over(r2, n)
  BY DEF Grows, Over
<1>1. \A q : Good(q, r, t) => Good(q, r2, t)
  BY <1>0 DEF Grows, Good
<1>2. \A b : GoodBody(b, r, t) => GoodBody(b, r2, t)
  BY <1>0 DEF Grows, GoodBody
<1>3. Underway(c, r2, t)
  BY <1>1, <1>2 DEF Browsing, Underway
<1>4. Shows(s, p, r2, t)
  BY <1>0 DEF Browsing, Shows, Grows
<1>5. OnlyShownTyped(s, r2, t) /\ Starting(c, s, r2)
  BY <1>0 DEF Browsing, OnlyShownTyped, Starting
<1>6. Controls(c, s, r2, t)
  BY <1>0 DEF Browsing, Controls
<1> QED
  BY <1>1, <1>3, <1>4, <1>5, <1>6 DEF Browsing


(***************************************************************************)
(* The API: a call adds to the run it is about, and to nothing else.       *)
(***************************************************************************)
LEMMA HandleEffect ==
    ASSUME C!ConsoleAssumption,
           ConsoleTypes, ConsoleInv, NEW q \in Requests, Good(q, run, typed),
           NEW n \in 1..MaxRuns, C!Handle(q, n)
    PROVE  /\ run' \in Seq(Runs) /\ Len(run') <= MaxRuns
           /\ RunsFit(run') /\ WorkerFits(worker, run') /\ Stored(run', typed)
           /\ Grows(run, run') /\ n \in DOMAIN run'
           /\ \A m \in DOMAIN run : /\ run'[m].phase = run[m].phase
                                    /\ run'[m].status = run[m].status
           /\ q.op # "start" => n = q.run
           /\ q.op = "input" /\ ~Over(run', n) /\ q.input.seq = Len(typed[n]) =>
                 Len(run'[n].inputs) = Len(typed[n])
<1>0. /\ run \in Seq(Runs) /\ Len(run) <= MaxRuns /\ DOMAIN run = 1..Len(run)
      /\ RunsFit(run) /\ WorkerFits(worker, run) /\ Stored(run, typed)
      /\ typed \in [1..MaxRuns -> Seq(C!Inputs)] /\ worker \in WorkerStates
  BY DEF ConsoleTypes, ConsoleInv
<1>q. /\ q.op = "start" => q.key \in Nat
      /\ q.op # "start" => q.run \in DOMAIN run
      /\ q.op = "input" => q.input \in Numbered
  BY DEF Requests, StartRequests, LookRequests, InputRequests, Good
<1>1. CASE q.op = "start" /\ C!Create(q.key) /\ n = Len(run) + 1
  <2> DEFINE e == [key |-> q.key, phase |-> "QUEUED", status |-> "QUEUED",
                   cancel |-> FALSE, inputs |-> <<>>, given |-> <<>>]
  <2>1. e \in Runs
    BY <1>q, <1>1 DEF Runs, Phases, Statuses
  <2>2. RunFits(e) /\ Begins(e.inputs, typed[Len(run) + 1])
    <3>1. typed[n] \in Seq(C!Inputs)
      BY <1>0
    <3> QED
      BY <1>1, <3>1 DEF RunFits, Begins, Moving, Live
  <2>3. run' = Append(run, e)
    BY <1>1 DEF C!Create
  <2> HIDE DEF e
  <2>4. /\ run' \in Seq(Runs) /\ Len(run') = Len(run) + 1
        /\ RunsFit(run') /\ Stored(run', typed) /\ Grows(run, run')
        /\ \A m \in DOMAIN run : run'[m] = run[m]
    BY <1>0, <2>1, <2>2, <2>3, Added
  <2>5. WorkerFits(worker, run')
    BY <1>0, <2>4, WorkerKeeps DEF Grows
  <2>6. Len(run') <= MaxRuns /\ n \in DOMAIN run'
    BY <1>0, <1>1, <2>4
  <2> QED
    BY <1>1, <2>4, <2>5, <2>6
<1>2. CASE UNCHANGED run /\ n \in DOMAIN run /\ (q.op # "start" => n = q.run)
           /\ (q.op = "input" => C!Replay(n, q.input))
  <2>1. Grows(run, run)
    BY DEF Grows
  <2>2. q.op = "input" /\ q.input.seq = Len(typed[n]) => Len(run[n].inputs) = Len(typed[n])
    <3> SUFFICES ASSUME q.op = "input", q.input.seq = Len(typed[n])
                 PROVE  Len(run[n].inputs) = Len(typed[n])
      OBVIOUS
    <3>1. Len(run[n].inputs) <= Len(typed[n]) /\ q.input.seq <= Len(run[n].inputs)
      BY <1>0, <1>2 DEF Stored, Begins, C!Replay
    <3>2. Len(run[n].inputs) \in Nat /\ Len(typed[n]) \in Nat
      BY <1>0, <1>2 DEF Runs
    <3> QED
      BY <3>1, <3>2
  <2> QED
    BY <1>0, <1>2, <2>1, <2>2
<1>3. CASE q.op = "stop" /\ n = q.run /\ run' = [run EXCEPT ![n].cancel = TRUE]
  <2> DEFINE e == [run[n] EXCEPT !.cancel = TRUE]
  <2>1. n \in DOMAIN run /\ run[n] \in Runs
    BY <1>0, <1>q, <1>3
  <2>2. /\ e \in Runs /\ e.phase = run[n].phase /\ e.status = run[n].status
        /\ e.inputs = run[n].inputs /\ e.given = run[n].given
    BY <2>1 DEF Runs
  <2>3. run' = [run EXCEPT ![n] = e]
    BY <1>3
  <2> HIDE DEF e
  <2>4. RunFits(e) /\ Begins(e.inputs, typed[n])
    BY <1>0, <2>1, <2>2 DEF RunsFit, RunFits, Stored
  <2>5. /\ run' \in Seq(Runs) /\ Len(run') = Len(run) /\ DOMAIN run' = DOMAIN run
        /\ RunsFit(run') /\ Stored(run', typed) /\ Grows(run, run')
        /\ run'[n] = e /\ \A m \in DOMAIN run \ {n} : run'[m] = run[m]
    BY <1>0, <2>1, <2>2, <2>3, <2>4, Change
  <2>6. WorkerFits(worker, run')
    BY <1>0, <2>2, <2>5, WorkerKeeps DEF WorkerHas
  <2> QED
    BY <1>0, <1>3, <2>1, <2>2, <2>5, <2>6
<1>4. CASE q.op = "input" /\ n = q.run /\ C!AppendInput(n, q.input)
  <2> DEFINE e == [run[n] EXCEPT !.inputs = Append(@, q.input.line)]
  <2>1. n \in DOMAIN run /\ run[n] \in Runs /\ q.input.line \in C!Inputs
    BY <1>0, <1>q, <1>4 DEF Numbered
  <2>2. /\ e \in Runs /\ e.phase = run[n].phase /\ e.status = run[n].status
        /\ e.inputs = Append(run[n].inputs, q.input.line) /\ e.given = run[n].given
    <3>1. Append(run[n].inputs, q.input.line) \in Seq(C!Inputs)
      BY <2>1 DEF Runs
    <3>2. \A i \in Seq(C!Inputs) : [run[n] EXCEPT !.inputs = i] \in Runs
      BY <2>1 DEF Runs
    <3>3. e \in Runs
      BY <3>1, <3>2
    <3> QED
      BY <2>1, <3>3 DEF Runs
  <2>3. run' = [run EXCEPT ![n] = e]
    BY <1>4 DEF C!AppendInput
  <2> HIDE DEF e
  <2>a. /\ run[n].inputs \in Seq(C!Inputs) /\ run[n].given \in Seq(C!Inputs)
        /\ typed[n] \in Seq(C!Inputs)
    BY <1>0, <2>1 DEF Runs
  <2>b. Begins(run[n].given, run[n].inputs) /\ Begins(run[n].inputs, typed[n])
    BY <1>0, <2>1 DEF RunsFit, RunFits, Stored
  <2>c. ~Over(run, n) /\ q.input.seq = Len(run[n].inputs) + 1
    BY <1>4 DEF C!AppendInput, C!Terminal, Over, Live
  <2>d. q.input.seq \in 1..Len(typed[n]) /\ typed[n][q.input.seq] = q.input.line
    BY <1>4, <2>c DEF Good
  <2>e. Begins(e.given, e.inputs)
    BY <2>2, <2>a, <2>b DEF Begins
  <2>f. Begins(e.inputs, typed[n])
    BY <2>2, <2>a, <2>b, <2>c, <2>d DEF Begins
  <2>4. RunFits(e)
    BY <1>0, <2>1, <2>2, <2>e DEF RunsFit, RunFits
  <2>5. /\ run' \in Seq(Runs) /\ Len(run') = Len(run) /\ DOMAIN run' = DOMAIN run
        /\ RunsFit(run') /\ Stored(run', typed) /\ Grows(run, run')
        /\ run'[n] = e /\ \A m \in DOMAIN run \ {n} : run'[m] = run[m]
    BY <1>0, <2>1, <2>2, <2>3, <2>4, <2>f, Change
  <2>6. WorkerFits(worker, run')
    <3>1. worker.run \in DOMAIN run /\ WorkerHas(worker, run[worker.run]) =>
             WorkerHas(worker, run'[worker.run])
      <4>1. WorkerHas(worker, run[n]) => WorkerHas(worker, e)
        <5>1. Len(e.inputs) = Len(run[n].inputs) + 1 /\ Len(run[n].inputs) \in Nat
          BY <2>2, <2>a, <2>1
        <5>2. worker.seen \in Nat
          BY <1>0 DEF WorkerStates
        <5> QED
          BY <2>2, <5>1, <5>2 DEF WorkerHas
      <4> QED
        BY <2>5, <4>1
    <3> QED
      BY <1>0, <2>5, <3>1, WorkerKeeps
  <2>7. q.input.seq = Len(typed[n]) => Len(run'[n].inputs) = Len(typed[n])
    BY <2>1, <2>2, <2>5, <2>a, <2>c
  <2> QED
    BY <1>0, <1>4, <2>1, <2>2, <2>5, <2>6, <2>7
<1> QED
  BY <1>1, <1>2, <1>3, <1>4, <1>q DEF C!Handle, C!Existing


(***************************************************************************)
(* The worker, and the leases: they end runs and write what is stored.     *)
(***************************************************************************)

\* The phase the API tells of a run.
Told(e) == IF e.status = "FAILED" /\ e.phase \in Moving THEN "FAILED" ELSE e.phase

Advances ==
    /\ run' \in Seq(Runs) /\ Len(run') = Len(run) /\ worker' \in WorkerStates
    /\ RunsFit(run') /\ WorkerFits(worker', run') /\ Stored(run', typed)
    /\ Grows(run, run')
    /\ \A m \in DOMAIN run : Told(run[m]) \notin Moving => Told(run'[m]) = Told(run[m])

LEMMA WorkerChange ==
    ASSUME ConsoleTypes, ConsoleInv, NEW n \in DOMAIN run, NEW e \in Runs,
           run' = [run EXCEPT ![n] = e],
           worker' \in WorkerStates, RunFits(e), e.inputs = run[n].inputs,
           run[n].status \notin Live => e.status \notin Live,
           Told(run[n]) \notin Moving => Told(e) = Told(run[n]),
           \/ worker' = C!Off
           \/ worker'.run = n /\ WorkerHas(worker', e)
           \/ worker' = worker /\ (WorkerHas(worker, run[n]) => WorkerHas(worker, e))
    PROVE  Advances
<1>1. Begins(e.inputs, typed[n])
  BY DEF ConsoleInv, Stored
<1>2. /\ run' \in Seq(Runs) /\ Len(run') = Len(run) /\ DOMAIN run' = DOMAIN run
      /\ RunsFit(run') /\ Stored(run', typed) /\ Grows(run, run')
      /\ run'[n] = e /\ \A m \in DOMAIN run \ {n} : run'[m] = run[m]
  <2>1. run \in Seq(Runs) /\ RunsFit(run) /\ Stored(run, typed)
    BY DEF ConsoleInv, ConsoleTypes
  <2> QED
    BY <1>1, <2>1, Change
<1>3. WorkerFits(worker', run')
  <2>1. WorkerFits(worker, run)
    BY DEF ConsoleInv
  <2> QED
    BY <2>1, <1>2 DEF WorkerFits
<1>4. \A m \in DOMAIN run : Told(run[m]) \notin Moving => Told(run'[m]) = Told(run[m])
  BY <1>2
<1> QED
  BY <1>2, <1>3, <1>4 DEF Advances

LEMMA WorkerOnly ==
    ASSUME ConsoleTypes, ConsoleInv, run' = run, worker' \in WorkerStates,
           \/ worker' = C!Off
           \/ /\ worker # C!Off /\ worker'.run = worker.run
              /\ WorkerHas(worker, run[worker.run]) => WorkerHas(worker', run[worker.run])
    PROVE  Advances
<1>1. Grows(run, run)
  BY DEF Grows
<1>2. WorkerFits(worker', run)
  BY DEF ConsoleInv, WorkerFits
<1> QED
  BY <1>1, <1>2 DEF Advances, ConsoleInv, ConsoleTypes

\* The worker at work: the run it has.
LEMMA AtWork ==
    ASSUME ConsoleTypes, ConsoleInv, worker.pc # "idle" \/ worker.monitor # "idle"
    PROVE  /\ worker # C!Off /\ worker \in WorkerStates /\ worker.run \in DOMAIN run
           /\ run[worker.run] \in Runs /\ RunFits(run[worker.run])
           /\ WorkerHas(worker, run[worker.run])
<1>1. worker # C!Off
  BY DEF C!Off
<1> QED
  BY <1>1 DEF ConsoleInv, ConsoleTypes, WorkerFits, RunsFit

LEMMA OffWorks == C!Off \in WorkerStates
  BY DEF C!Off, WorkerStates

LEMMA ClaimAdvances ==
    ASSUME ConsoleTypes, ConsoleInv, NEW n \in DOMAIN run, C!Claim(n)
    PROVE  Advances
<1> DEFINE e == [run[n] EXCEPT !.status = "RUNNING"]
<1>1. run[n] \in Runs /\ RunFits(run[n]) /\ run[n].status = "QUEUED"
  BY DEF ConsoleTypes, ConsoleInv, RunsFit, C!Claim
<1>2. /\ e \in Runs /\ e.status = "RUNNING" /\ e.phase = run[n].phase
      /\ e.inputs = run[n].inputs /\ e.given = run[n].given
  BY <1>1 DEF Runs, Statuses
<1>3. run' = [run EXCEPT ![n] = e]
  BY DEF C!Claim
<1> HIDE DEF e
<1>4. /\ worker' \in WorkerStates /\ worker'.run = n /\ worker'.delivered = 0
      /\ worker'.seen = 0 /\ worker'.pc = "claimed"
  <2>1. n \in Nat
    BY DEF ConsoleTypes
  <2>2. worker' = [run |-> n, pc |-> "claimed", monitor |-> "due", seen |-> 0,
                   delivered |-> 0, stdin |-> FALSE, reason |-> "none"]
    BY DEF C!Claim, C!Off
  <2> QED
    BY <2>1, <2>2 DEF WorkerStates
<1>5. RunFits(e) /\ e.phase \in Moving /\ e.given = <<>>
  BY <1>1, <1>2 DEF RunFits, Live
<1>6. WorkerHas(worker', e)
  <2>1. Len(e.given) = 0 /\ Len(e.inputs) \in Nat
    BY <1>2, <1>5 DEF Runs
  <2> QED
    BY <1>2, <1>4, <1>5, <2>1 DEF WorkerHas
<1>7. Told(run[n]) \notin Moving => Told(e) = Told(run[n])
  BY <1>1, <1>2, <1>5 DEF Told
<1> QED
  BY <1>1, <1>2, <1>3, <1>4, <1>5, <1>6, <1>7, WorkerChange DEF Live

\* A run that is under way fails: its lease has lapsed, or the worker gives it up.
LEMMA FailAdvances ==
    ASSUME ConsoleTypes, ConsoleInv, NEW n \in DOMAIN run, run[n].status = "RUNNING",
           run' = [run EXCEPT ![n].status = "FAILED"],
           worker' = worker \/ worker' = C!Off
    PROVE  Advances
<1> DEFINE e == [run[n] EXCEPT !.status = "FAILED"]
<1>1. run[n] \in Runs /\ RunFits(run[n])
  BY DEF ConsoleTypes, ConsoleInv, RunsFit
<1>2. /\ e \in Runs /\ e.status = "FAILED" /\ e.phase = run[n].phase
      /\ e.inputs = run[n].inputs /\ e.given = run[n].given
  BY <1>1 DEF Runs, Statuses
<1>3. run' = [run EXCEPT ![n] = e]
  OBVIOUS
<1> HIDE DEF e
<1>4. RunFits(e) /\ run[n].phase \in Moving
  BY <1>1, <1>2 DEF RunFits, Live
<1>5. WorkerHas(worker, run[n]) => WorkerHas(worker, e)
  BY <1>2 DEF WorkerHas
<1>6. Told(run[n]) \notin Moving => Told(e) = Told(run[n])
  BY <1>4 DEF Told
<1>7. worker' \in WorkerStates
  BY OffWorks DEF ConsoleTypes
<1> QED
  BY <1>2, <1>3, <1>4, <1>5, <1>6, <1>7, WorkerChange DEF Live

\* The phase is written, whatever became of the job.
LEMMA PhaseAdvances ==
    ASSUME ConsoleTypes, ConsoleInv, worker.pc # "idle", NEW phase \in {"COMPILING", "RUNNING"},
           run' = [run EXCEPT ![worker.run].phase = phase],
           worker' \in WorkerStates, worker'.run = worker.run, worker'.pc # "exited",
           worker'.delivered = worker.delivered, worker'.seen = worker.seen
    PROVE  Advances
<1> DEFINE n == worker.run
           e == [run[n] EXCEPT !.phase = phase]
<1>1. n \in DOMAIN run /\ run[n] \in Runs /\ RunFits(run[n]) /\ WorkerHas(worker, run[n])
  BY AtWork
<1>2. /\ e \in Runs /\ e.status = run[n].status /\ e.phase \in Moving
      /\ e.inputs = run[n].inputs /\ e.given = run[n].given
  BY <1>1 DEF Runs, Phases, Moving
<1>3. run' = [run EXCEPT ![n] = e]
  OBVIOUS
<1> HIDE DEF e
<1>4. RunFits(e) /\ run[n].phase \in Moving
  BY <1>1, <1>2 DEF RunFits, WorkerHas
<1>5. WorkerHas(worker', e)
  BY <1>1, <1>2 DEF WorkerHas
<1>6. Told(run[n]) \notin Moving => Told(e) = Told(run[n])
  BY <1>2, <1>4 DEF Told
<1> QED
  BY <1>1, <1>2, <1>3, <1>4, <1>5, <1>6, WorkerChange

LEMMA DeliverAdvances ==
    ASSUME ConsoleTypes, ConsoleInv, worker.monitor = "renew", run[worker.run].status = "RUNNING",
           C!Deliver(worker.run)
    PROVE  Advances
<1> DEFINE n == worker.run
           new == SubSeq(run[n].inputs, worker.delivered + 1, worker.seen)
           e == [run[n] EXCEPT !.given = @ \o new]
<1>1. n \in DOMAIN run /\ run[n] \in Runs /\ RunFits(run[n]) /\ WorkerHas(worker, run[n])
  BY AtWork
<1>2. /\ run[n].inputs \in Seq(C!Inputs) /\ run[n].given \in Seq(C!Inputs)
      /\ worker.delivered \in Nat /\ worker.seen \in Nat /\ worker \in WorkerStates
  BY <1>1 DEF Runs, WorkerStates, ConsoleTypes
<1>3. /\ run[n].given \o new \in Seq(C!Inputs) /\ Len(run[n].given \o new) = worker.seen
      /\ Begins(run[n].given \o new, run[n].inputs)
  <2>1. /\ Len(run[n].given) = worker.delivered /\ worker.delivered <= worker.seen
        /\ worker.seen <= Len(run[n].inputs) /\ Begins(run[n].given, run[n].inputs)
    BY <1>1 DEF WorkerHas, RunFits
  <2> QED
    BY <1>2, <2>1, Continue
<1> HIDE DEF new
<1>4. run' = [run EXCEPT ![n] = e]
  BY DEF C!Deliver, new
<1>5. /\ e \in Runs /\ e.status = run[n].status /\ e.phase = run[n].phase
      /\ e.inputs = run[n].inputs /\ e.given = run[n].given \o new
  <2>2. \A g \in Seq(C!Inputs) : [run[n] EXCEPT !.given = g] \in Runs
    BY <1>1 DEF Runs
  <2>3. e \in Runs
    BY <1>3, <2>2
  <2> QED
    BY <1>1, <2>3 DEF Runs
<1> HIDE DEF e
<1>6. Len(e.given) = worker.seen /\ Begins(e.given, e.inputs)
  BY <1>3, <1>5
<1>7. /\ worker' \in WorkerStates /\ worker'.run = n /\ worker'.pc = worker.pc
      /\ worker'.seen = worker.seen /\ worker'.delivered = worker.seen
      /\ worker'.reason = worker.reason
  <2>1. PICK b : worker' = [worker EXCEPT !.monitor = "idle", !.delivered = worker.seen, !.stdin = b]
                 /\ b \in BOOLEAN
    <3>1. (C!EOF \notin ToSet(new)) \in BOOLEAN
      OBVIOUS
    <3> QED
      BY <3>1 DEF C!Deliver, new
  <2> QED
    BY <1>2, <2>1 DEF WorkerStates
<1>8. RunFits(e)
  BY <1>1, <1>5, <1>6 DEF RunFits
<1>9. WorkerHas(worker', e)
  BY <1>1, <1>2, <1>5, <1>6, <1>7 DEF WorkerHas
<1>10. Told(run[n]) \notin Moving => Told(e) = Told(run[n])
  BY <1>5 DEF Told
<1> QED
  BY <1>1, <1>4, <1>5, <1>7, <1>8, <1>9, <1>10, WorkerChange


LEMMA RenewAdvances == ConsoleTypes /\ ConsoleInv /\ C!Renew => Advances
<1> SUFFICES ASSUME ConsoleTypes, ConsoleInv, C!Renew PROVE Advances
  OBVIOUS
<1>1. worker.monitor = "renew" /\ worker # C!Off /\ worker \in WorkerStates
  BY AtWork DEF C!Renew
<1>2. CASE run[worker.run].status = "RUNNING" /\ C!Deliver(worker.run)
  BY <1>1, <1>2, DeliverAdvances
<1>3. CASE /\ worker' = [worker EXCEPT !.monitor = "idle",
                 !.reason = IF @ = "none" /\ ~(run[worker.run].status = "RUNNING")
                              THEN "FAILED" ELSE @]
           /\ UNCHANGED run
  <2>1. /\ worker' \in WorkerStates /\ worker'.run = worker.run /\ worker'.seen = worker.seen
        /\ worker'.delivered = worker.delivered /\ worker'.pc = worker.pc
        /\ worker.reason # "none" => worker'.reason # "none"
    BY <1>1, <1>3 DEF WorkerStates
  <2>2. WorkerHas(worker, run[worker.run]) => WorkerHas(worker', run[worker.run])
    BY <2>1 DEF WorkerHas
  <2> QED
    BY <1>1, <1>3, <2>1, <2>2, WorkerOnly
<1> QED
  BY <1>2, <1>3 DEF C!Renew

LEMMA ControlAdvances ==
    ASSUME ConsoleTypes, ConsoleInv, NEW reason \in {"none", "CANCELLED", "FAILED"},
           C!Control(reason)
    PROVE  Advances
<1>1. /\ worker.pc \in {"claimed", "compiling", "running"} /\ worker # C!Off
      /\ worker \in WorkerStates /\ worker.run \in DOMAIN run
      /\ run[worker.run] \in Runs /\ WorkerHas(worker, run[worker.run])
  BY AtWork DEF C!Control, C!Watching
<1>2. Len(run[worker.run].inputs) \in Nat
  BY <1>1 DEF Runs
<1>3. worker' = [worker EXCEPT !.monitor = "renew", !.seen = Len(run[worker.run].inputs),
                               !.reason = reason] /\ run' = run
  BY DEF C!Control, C!server
<1>4. /\ worker' \in WorkerStates /\ worker'.run = worker.run /\ worker'.pc = worker.pc
      /\ worker'.seen = Len(run[worker.run].inputs)
      /\ worker'.delivered = worker.delivered
  BY <1>1, <1>2, <1>3 DEF WorkerStates
<1>5. WorkerHas(worker', run[worker.run])
  <2>1. worker.delivered \in Nat /\ worker.seen \in Nat
    BY <1>1 DEF WorkerStates
  <2> QED
    BY <1>1, <1>2, <1>4, <2>1 DEF WorkerHas
<1> QED
  BY <1>1, <1>3, <1>4, <1>5, WorkerOnly

LEMMA ExitAdvances ==
    ASSUME ConsoleTypes, ConsoleInv, NEW reason \in {"COMPLETED", "FAILED"}, C!Exit(reason)
    PROVE  Advances
<1>1. worker # C!Off /\ worker \in WorkerStates
  BY AtWork DEF C!Exit
<1>2. worker' = [worker EXCEPT !.pc = "exited", !.stdin = FALSE,
                               !.reason = IF @ = "none" THEN reason ELSE @] /\ run' = run
  BY DEF C!Exit, C!server
<1>3. /\ worker' \in WorkerStates /\ worker'.run = worker.run /\ worker'.reason # "none"
      /\ worker'.seen = worker.seen /\ worker'.delivered = worker.delivered
  BY <1>1, <1>2 DEF WorkerStates
<1>4. WorkerHas(worker, run[worker.run]) => WorkerHas(worker', run[worker.run])
  BY <1>3 DEF WorkerHas
<1> QED
  BY <1>1, <1>2, <1>3, <1>4, WorkerOnly

LEMMA CompleteAdvances == ConsoleTypes /\ ConsoleInv /\ C!Complete => Advances
<1> SUFFICES ASSUME ConsoleTypes, ConsoleInv, C!Complete PROVE Advances
  OBVIOUS
<1>0. worker' = C!Off /\ worker' \in WorkerStates
  BY OffWorks DEF C!Complete
<1> DEFINE n == worker.run
           final == IF worker.reason = "COMPLETED" THEN "SUCCEEDED" ELSE "FAILED"
           e == [run[n] EXCEPT !.phase = worker.reason, !.status = final]
<1>1. /\ n \in DOMAIN run /\ run[n] \in Runs /\ RunFits(run[n])
      /\ worker.reason \in Phases \ Moving
  <2>1. worker.pc = "exited" /\ worker \in WorkerStates /\ WorkerHas(worker, run[n])
    BY AtWork DEF C!Complete
  <2> QED
    BY <2>1, AtWork DEF WorkerHas, WorkerStates, Phases, Moving
<1>2. CASE run' = run
  BY <1>0, <1>2, WorkerOnly
<1>3. CASE run[n].status = "RUNNING" /\ run' = [run EXCEPT ![n] = e]
  <2>0. final \in Statuses \ Live
    BY DEF Statuses, Live
  <2> HIDE DEF final
  <2>1. /\ e \in Runs /\ e.status \notin Live /\ e.status # "QUEUED"
        /\ e.inputs = run[n].inputs /\ e.given = run[n].given
    <3>1. \A p \in Phases, s \in Statuses : [run[n] EXCEPT !.phase = p, !.status = s] \in Runs
      BY <1>1 DEF Runs
    <3>2. e \in Runs
      BY <1>1, <2>0, <3>1
    <3> QED
      BY <1>1, <2>0, <3>2 DEF Runs, Live
  <2> HIDE DEF e
  <2>2. RunFits(e) /\ run[n].phase \in Moving
    BY <1>1, <1>3, <2>1 DEF RunFits, Live
  <2>3. Told(run[n]) \notin Moving => Told(e) = Told(run[n])
    BY <1>3, <2>2 DEF Told
  <2> QED
    BY <1>0, <1>1, <1>3, <2>1, <2>2, <2>3, WorkerChange
<1> QED
  BY <1>2, <1>3 DEF C!Complete

LEMMA WorkerAdvances == ConsoleTypes /\ ConsoleInv /\ C!Worker => Advances /\ UNCHANGED C!browser
<1> SUFFICES ASSUME ConsoleTypes, ConsoleInv, C!Worker PROVE Advances /\ UNCHANGED C!browser
  OBVIOUS
<1>1. CASE \E n \in DOMAIN run : C!Claim(n)
  <2>1. Advances
    BY <1>1, ClaimAdvances
  <2> QED
    BY <1>1, <2>1 DEF C!Claim
<1>2. CASE \E n \in DOMAIN run : C!ExpireLease(n)
  <2>1. Advances
    BY <1>2, FailAdvances DEF C!ExpireLease
  <2> QED
    BY <1>2, <2>1 DEF C!ExpireLease
<1>3. CASE \E reason \in {"none", "CANCELLED", "FAILED"} : C!Control(reason)
  <2>1. Advances
    BY <1>3, ControlAdvances
  <2> QED
    BY <1>3, <2>1 DEF C!Control
<1>4. CASE \E reason \in {"COMPLETED", "FAILED"} : C!Exit(reason)
  <2>1. Advances
    BY <1>4, ExitAdvances
  <2> QED
    BY <1>4, <2>1 DEF C!Exit
<1>5. CASE C!Renew
  BY <1>5, RenewAdvances DEF C!Renew
<1>6. CASE C!Compile
  <2>1. worker' = [worker EXCEPT !.pc = "compiling"] /\ worker \in WorkerStates
    BY <1>6 DEF C!Compile, ConsoleTypes
  <2>2. /\ worker' \in WorkerStates /\ worker'.run = worker.run /\ worker'.pc # "exited"
        /\ worker'.delivered = worker.delivered /\ worker'.seen = worker.seen
    BY <2>1 DEF WorkerStates
  <2>3. Advances
    BY <1>6, <2>2, PhaseAdvances DEF C!Compile
  <2> QED
    BY <1>6, <2>3 DEF C!Compile
<1>7. CASE C!Execute
  <2>1. worker' = [worker EXCEPT !.pc = "running", !.stdin = TRUE] /\ worker \in WorkerStates
    BY <1>7 DEF C!Execute, ConsoleTypes
  <2>2. /\ worker' \in WorkerStates /\ worker'.run = worker.run /\ worker'.pc # "exited"
        /\ worker'.delivered = worker.delivered /\ worker'.seen = worker.seen
    BY <2>1 DEF WorkerStates
  <2>3. Advances
    BY <1>7, <2>2, PhaseAdvances DEF C!Execute
  <2> QED
    BY <1>7, <2>3 DEF C!Execute
<1>8. CASE C!Complete
  BY <1>8, CompleteAdvances DEF C!Complete
<1>9. CASE C!Abandon
  <2>1. worker' = C!Off /\ worker.run \in DOMAIN run /\ run[worker.run] \in Runs
    BY <1>9, AtWork DEF C!Abandon
  <2>2. CASE run[worker.run].status = "RUNNING"
    <3>1. run' = [run EXCEPT ![worker.run].status = "FAILED"]
      BY <1>9, <2>2 DEF C!Abandon
    <3> QED
      BY <1>9, <2>1, <2>2, <3>1, FailAdvances DEF C!Abandon
  <2>3. CASE run[worker.run].status # "RUNNING"
    <3>1. run' = run
      <4>1. run' = [run EXCEPT ![worker.run] = [run[worker.run] EXCEPT !.status = @]]
        BY <1>9, <2>3 DEF C!Abandon
      <4>2. [run[worker.run] EXCEPT !.status = @] = run[worker.run]
        BY <2>1 DEF Runs
      <4>3. run \in Seq(Runs)
        BY DEF ConsoleTypes
      <4> QED
        BY <2>1, <4>1, <4>2, <4>3
    <3> QED
      BY <1>9, <2>1, <3>1, WorkerOnly, OffWorks DEF C!Abandon
  <2> QED
    BY <2>2, <2>3
<1>10. CASE C!Crash
  BY <1>10, WorkerOnly, OffWorks DEF C!Crash, C!server
<1> QED
  BY <1>1, <1>2, <1>3, <1>4, <1>5, <1>6, <1>7, <1>8, <1>9, <1>10 DEF C!Worker


(***************************************************************************)
(* The calls that reach the API.                                           *)
(***************************************************************************)
LEMMA CallTypes ==
    ASSUME ConsoleTypes, NEW k \in CallKinds
    PROVE  /\ DOMAIN call = CallKinds
           /\ call[k].state = "sent" => call[k].req \in Requests /\ call[k] # C!NoCall
           /\ call[k].state = "answered" => /\ call[k].req \in Requests /\ call[k] # C!NoCall
                                            /\ call[k].body \in Records
           /\ call[k] # C!NoCall => /\ call[k].req \in Requests
                                    /\ call[k].state \in {"sent", "answered"}
<1>1. call[k] \in Calls /\ DOMAIN call = CallKinds
  BY DEF ConsoleTypes
<1>2. C!NoCall.state = "idle"
  BY DEF C!NoCall
<1> QED
  BY <1>1, <1>2 DEF Calls, Sent, Answered

LEMMA ArriveKeeps ==
    ASSUME C!ConsoleAssumption,
           ConsoleTypes, ConsoleInv, NEW q \in stray, NEW n \in 1..MaxRuns, C!Arrive(q, n)
    PROVE  ConsoleTypes' /\ ConsoleInv'
<1>1. q \in Requests /\ Good(q, run, typed) /\ C!Handle(q, n)
  BY DEF ConsoleTypes, ConsoleInv, Browsing, C!Arrive
<1>2. /\ run' \in Seq(Runs) /\ Len(run') <= MaxRuns /\ Grows(run, run')
      /\ RunsFit(run') /\ WorkerFits(worker, run') /\ Stored(run', typed)
  BY <1>1, HandleEffect
<1>3. Browsing(run', typed, shown, pending, call, stray)
  BY <1>2, BrowserKeeps DEF ConsoleInv
<1>4. /\ UNCHANGED <<worker, shown, intent, call, pending, typed>> /\ stray' \subseteq stray
  BY DEF C!Arrive
<1>5. ConsoleTypes'
  BY <1>2, <1>4 DEF ConsoleTypes
<1> QED
  BY <1>2, <1>3, <1>4, <1>5 DEF ConsoleInv, Browsing

\* The answer is true of the run as the call left it.
LEMMA AnswerTrue ==
    ASSUME NEW n \in Nat, run' \in Seq(Runs), n \in DOMAIN run', RunsFit(run')
    PROVE  LET b == C!Projection(n)'
           IN  /\ b \in Records /\ b.run = n /\ b.next = Len(run'[n].inputs) + 1
               /\ b.phase \notin Moving => Over(run', n)
<1> DEFINE phase == IF run'[n].status = "FAILED" /\ C!Active(run'[n].phase)
                      THEN "FAILED" ELSE run'[n].phase
           next == Len(run'[n].inputs) + 1
           closed == C!Closed(n)'
           cancel == run'[n].cancel
           b == [run |-> n, phase |-> phase, next |-> next, closed |-> closed,
                 cancel |-> cancel]
<1>1. C!Projection(n)' = b
  BY DEF C!Projection
<1>2. run'[n] \in Runs /\ RunFits(run'[n])
  BY DEF RunsFit
<1>3. phase \in Phases /\ (phase \notin Moving => Over(run', n))
  BY <1>2 DEF Runs, Phases, Moving, Over, Live, RunFits, C!Active
<1>4. next \in Nat \ {0}
  BY <1>2 DEF Runs
<1>5. closed \in BOOLEAN
  BY Zenon DEF C!Closed
<1>6. cancel \in BOOLEAN
  BY <1>2 DEF Runs
<1> HIDE DEF phase, closed, cancel
<1> QED
  BY <1>1, <1>3, <1>4, <1>5, <1>6 DEF Records

LEMMA AnswerKeeps ==
    ASSUME C!ConsoleAssumption,
           ConsoleTypes, ConsoleInv, NEW k \in CallKinds, NEW n \in 1..MaxRuns, C!Answer(k, n)
    PROVE  ConsoleTypes' /\ ConsoleInv'
<1> DEFINE q == call[k].req
           b == C!Projection(n)'
           answer == [state |-> "answered", req |-> q, body |-> b]
<1>1. /\ call[k].state = "sent" /\ q \in Requests /\ call[k] # C!NoCall
      /\ Good(q, run, typed) /\ C!Handle(q, n) /\ call' = [call EXCEPT ![k] = answer]
      /\ UNCHANGED <<worker, shown, intent, stray, pending, typed>>
  BY CallTypes DEF C!Answer, ConsoleInv, Browsing, Underway
<1>2. /\ run' \in Seq(Runs) /\ Len(run') <= MaxRuns /\ Grows(run, run')
      /\ RunsFit(run') /\ WorkerFits(worker, run') /\ Stored(run', typed)
      /\ n \in DOMAIN run' /\ (q.op # "start" => n = q.run)
      /\ q.op = "input" /\ ~Over(run', n) /\ q.input.seq = Len(typed[n]) =>
            Len(run'[n].inputs) = Len(typed[n])
  BY <1>1, HandleEffect
<1>3. /\ b \in Records /\ b.run = n /\ b.next = Len(run'[n].inputs) + 1
      /\ b.phase \notin Moving => Over(run', n)
  BY <1>2, AnswerTrue
<1>4. Browsing(run', typed, shown, pending, call, stray)
  BY <1>2, BrowserKeeps DEF ConsoleInv
<1> HIDE DEF b
<1>5. answer \in Answered /\ answer.req = q /\ answer.body = b /\ answer.state = "answered"
  BY <1>1, <1>3 DEF Answered
<1> HIDE DEF answer
<1>6. /\ call' \in [CallKinds -> Calls] /\ call'[k] = answer
      /\ \A j \in CallKinds \ {k} : call'[j] = call[j]
  BY <1>1, <1>5 DEF ConsoleTypes, Calls
<1>7. ConsoleTypes'
  BY <1>1, <1>2, <1>6 DEF ConsoleTypes
<1>8. GoodBody(b, run', typed)
  <2>1. Len(run'[n].inputs) <= Len(typed[n])
    BY <1>2 DEF Stored, Begins
  <2>2. Len(run'[n].inputs) \in Nat /\ Len(typed[n]) \in Nat
    BY <1>2 DEF Runs, ConsoleTypes
  <2> QED
    BY <1>2, <1>3, <2>1, <2>2 DEF GoodBody
<1>9. Underway(call', run', typed)
  <2>1. Good(q, run', typed)
    BY <1>1, <1>4 DEF Browsing, Underway
  <2> QED
    BY <1>4, <1>5, <1>6, <1>8, <2>1 DEF Browsing, Underway
<1>10. Starting(call', shown, run')
  <2>1. call'["start"] # C!NoCall => call["start"] # C!NoCall
    BY <1>1, <1>6 DEF CallKinds
  <2> QED
    BY <1>4, <2>1 DEF Browsing, Starting
<1>11. Controls(call', shown, run', typed)
  <2>1. Controls(call, shown, run', typed)
    BY <1>4 DEF Browsing
  <2>2. CASE k # "control"
    <3>1. call'["control"] = call["control"]
      BY <2>2, <1>6 DEF CallKinds
    <3> QED
      BY <2>1, <3>1 DEF Controls
  <2>3. CASE k = "control"
    <3>1. /\ q.op # "start" /\ n = q.run
          /\ shown.run # n => /\ Over(run', n)
                              /\ shown.run # 0 /\ ~Over(run', shown.run) => typed[shown.run] = <<>>
          /\ q.op = "input" /\ ~Over(run', n) => q.input.seq = Len(typed[n])
      BY <1>1, <1>2, <2>1, <2>3 DEF Controls
    <3>2. q.op = "input" /\ ~Over(run', n) => b.next = Len(typed[n]) + 1
      BY <1>2, <1>3, <3>1
    <3> QED
      BY <1>3, <1>5, <1>6, <2>3, <3>1, <3>2 DEF Controls
  <2> QED
    BY <2>2, <2>3
<1>12. Browsing(run', typed, shown, pending, call', stray)
  BY <1>4, <1>9, <1>10, <1>11 DEF Browsing
<1> QED
  BY <1>1, <1>2, <1>7, <1>12 DEF ConsoleInv


(***************************************************************************)
(* The browser.                                                            *)
(***************************************************************************)
LEMMA Asked ==
    ASSUME NEW c \in [CallKinds -> Calls], NEW k \in CallKinds, NEW q \in Requests,
           NEW r, NEW t, Underway(c, r, t), Good(q, r, t)
    PROVE  LET d == [c EXCEPT ![k] = [state |-> "sent", req |-> q]]
           IN  /\ d \in [CallKinds -> Calls] /\ Underway(d, r, t)
               /\ d[k].req = q /\ d[k].state = "sent" /\ d[k] # C!NoCall
               /\ \A j \in CallKinds \ {k} : d[j] = c[j]
<1> DEFINE a == [state |-> "sent", req |-> q]
           d == [c EXCEPT ![k] = a]
<1>1. a \in Sent /\ a.req = q /\ a.state = "sent" /\ a # C!NoCall
  <2>1. C!NoCall.state = "idle" /\ a.state = "sent"
    BY DEF C!NoCall
  <2> QED
    BY <2>1 DEF Sent
<1> HIDE DEF a
<1>2. /\ d \in [CallKinds -> Calls] /\ d[k] = a /\ \A j \in CallKinds \ {k} : d[j] = c[j]
  BY <1>1 DEF Calls
<1> HIDE DEF d
<1>3. Underway(d, r, t)
  BY <1>1, <1>2 DEF Underway
<1> QED
  BY <1>1, <1>2, <1>3 DEF a, d

LEMMA Dropped ==
    ASSUME NEW c \in [CallKinds -> Calls], NEW k \in CallKinds, NEW r, NEW t, Underway(c, r, t)
    PROVE  LET d == [c EXCEPT ![k] = C!NoCall]
           IN  /\ d \in [CallKinds -> Calls] /\ Underway(d, r, t)
               /\ d[k] = C!NoCall /\ \A j \in CallKinds \ {k} : d[j] = c[j]
<1> DEFINE d == [c EXCEPT ![k] = C!NoCall]
<1>1. /\ d \in [CallKinds -> Calls] /\ d[k] = C!NoCall /\ \A j \in CallKinds \ {k} : d[j] = c[j]
  BY DEF Calls
<1>2. C!NoCall.state = "idle"
  BY DEF C!NoCall
<1> HIDE DEF d
<1>3. Underway(d, r, t)
  BY <1>1, <1>2 DEF Underway
<1> QED
  BY <1>1, <1>3 DEF d

\* A step of the browser leaves the runs and the worker as they are.
LEMMA BrowserStep ==
    ASSUME ConsoleTypes, ConsoleInv, UNCHANGED <<C!server, worker>>,
           shown' \in Records, call' \in [CallKinds -> Calls], stray' \subseteq Requests,
           pending' \in Numbered, typed' \in [1..MaxRuns -> Seq(C!Inputs)], intent' \in Nat,
           Stored(run, typed'), Browsing(run, typed', shown', pending', call', stray')
    PROVE  ConsoleTypes' /\ ConsoleInv'
<1>1. ConsoleTypes'
  BY DEF ConsoleTypes, C!server
<1> QED
  BY <1>1 DEF ConsoleInv, C!server

\* What is shown is a run, if it is a record at all.
LEMMA ShownRun ==
    ASSUME C!ConsoleAssumption,
           ConsoleTypes, ConsoleInv, shown # C!NoRecord
    PROVE  /\ shown.run # 0 /\ shown.run \in DOMAIN run /\ shown.run \in 1..MaxRuns
           /\ DOMAIN run = 1..Len(run) /\ DOMAIN run \subseteq 1..MaxRuns
<1>1. /\ shown.run # 0 /\ shown.run \in DOMAIN run
  BY DEF ConsoleInv, Browsing, Shows
<1>2. DOMAIN run = 1..Len(run) /\ Len(run) <= MaxRuns
  BY DEF ConsoleTypes
<1> QED
  BY <1>1, <1>2

LEMMA StartKeeps == ConsoleTypes /\ ConsoleInv /\ C!Start => ConsoleTypes' /\ ConsoleInv'
<1> SUFFICES ASSUME ConsoleTypes, ConsoleInv, C!Start PROVE ConsoleTypes' /\ ConsoleInv'
  OBVIOUS
<1>1. PICK key \in Nat : intent' = key /\ C!Ask("start", [op |-> "start", key |-> key])
  <2>1. intent \in Nat /\ intent + 1 \in Nat
    BY DEF ConsoleTypes
  <2> QED
    BY <2>1 DEF C!Start
<1>2. UNCHANGED <<C!server, worker, shown, stray, pending, typed>> /\ shown.phase \notin Moving
  BY DEF C!Start, C!Active, Moving
<1> DEFINE q == [op |-> "start", key |-> key]
<1>3. q \in Requests /\ Good(q, run, typed) /\ q.op = "start"
  BY DEF Requests, StartRequests, Good
<1>4. call' = [call EXCEPT !["start"] = [state |-> "sent", req |-> q]]
  BY <1>1 DEF C!Ask
<1> HIDE DEF q
<1>5. call \in [CallKinds -> Calls] /\ Underway(call, run, typed) /\ "start" \in CallKinds
  BY DEF ConsoleTypes, ConsoleInv, Browsing, CallKinds
<1>6. /\ call' \in [CallKinds -> Calls] /\ Underway(call', run, typed)
      /\ \A j \in CallKinds \ {"start"} : call'[j] = call[j]
  BY <1>3, <1>4, <1>5, Asked
<1>7. Starting(call', shown, run)
  BY <1>2 DEF Starting, ConsoleInv, Browsing, Shows
<1>8. Controls(call', shown, run, typed)
  <2>1. call'["control"] = call["control"]
    BY <1>6 DEF CallKinds
  <2> QED
    BY <2>1 DEF ConsoleInv, Browsing, Controls
<1>9. Browsing(run, typed, shown, pending, call', stray)
  BY <1>6, <1>7, <1>8 DEF ConsoleInv, Browsing
<1> QED
  BY <1>1, <1>2, <1>6, <1>9, BrowserStep DEF ConsoleTypes, ConsoleInv

LEMMA LookKeeps ==
    ASSUME C!ConsoleAssumption,
           ConsoleTypes, ConsoleInv, NEW k \in {"control", "read"}, NEW op \in {"stop", "read"},
           k = "control" => op = "stop",
           shown # C!NoRecord, C!Ask(k, [op |-> op, run |-> shown.run]),
           UNCHANGED <<C!server, worker, shown, intent, stray, pending, typed>>
    PROVE  ConsoleTypes' /\ ConsoleInv'
<1> DEFINE q == [op |-> op, run |-> shown.run]
<1>1. shown.run \in DOMAIN run /\ shown.run \in Nat
  BY ShownRun DEF ConsoleTypes, Records
<1>3. q \in Requests /\ Good(q, run, typed) /\ q.op = op /\ q.run = shown.run
  BY <1>1 DEF Requests, LookRequests, Good
<1>4. call' = [call EXCEPT ![k] = [state |-> "sent", req |-> q]]
  BY DEF C!Ask
<1> HIDE DEF q
<1>5. call \in [CallKinds -> Calls] /\ Underway(call, run, typed) /\ k \in CallKinds
  BY DEF ConsoleTypes, ConsoleInv, Browsing, CallKinds
<1>6. /\ call' \in [CallKinds -> Calls] /\ Underway(call', run, typed)
      /\ call'[k].req = q /\ call'[k].state = "sent"
      /\ \A j \in CallKinds \ {k} : call'[j] = call[j]
  BY <1>3, <1>4, <1>5, Asked
<1>7. Starting(call', shown, run)
  BY <1>6 DEF Starting, ConsoleInv, Browsing, CallKinds
<1>8. Controls(call', shown, run, typed)
  <2>1. CASE k = "control"
    BY <1>3, <1>6, <2>1 DEF Controls
  <2>2. CASE k = "read"
    <3>1. call'["control"] = call["control"]
      BY <1>6, <2>2 DEF CallKinds
    <3> QED
      BY <3>1 DEF ConsoleInv, Browsing, Controls
  <2> QED
    BY <2>1, <2>2
<1>9. Browsing(run, typed, shown, pending, call', stray)
  BY <1>6, <1>7, <1>8 DEF ConsoleInv, Browsing
<1> QED
  BY <1>6, <1>9, BrowserStep DEF ConsoleTypes, ConsoleInv

LEMMA GiveUpKeeps ==
    ASSUME ConsoleTypes, ConsoleInv, NEW k \in CallKinds, C!GiveUp(k)
    PROVE  ConsoleTypes' /\ ConsoleInv'
<1>1. /\ call[k] # C!NoCall /\ call' = [call EXCEPT ![k] = C!NoCall]
      /\ stray' \subseteq stray \cup {call[k].req}
      /\ UNCHANGED <<C!server, worker, shown, intent, pending, typed>>
  BY DEF C!GiveUp, C!Idle
<1>2. call[k].req \in Requests /\ Good(call[k].req, run, typed)
  BY <1>1, CallTypes DEF ConsoleInv, Browsing, Underway
<1>3. call \in [CallKinds -> Calls] /\ Underway(call, run, typed)
  BY DEF ConsoleTypes, ConsoleInv, Browsing
<1>4. /\ call' \in [CallKinds -> Calls] /\ Underway(call', run, typed) /\ call'[k] = C!NoCall
      /\ \A j \in CallKinds \ {k} : call'[j] = call[j]
  BY <1>1, <1>3, Dropped
<1>5. Starting(call', shown, run)
  BY <1>4 DEF Starting, ConsoleInv, Browsing, CallKinds
<1>6. Controls(call', shown, run, typed)
  <2>1. call'["control"] \in {C!NoCall, call["control"]}
    BY <1>4 DEF CallKinds
  <2> QED
    BY <2>1 DEF ConsoleInv, Browsing, Controls
<1>7. Browsing(run, typed, shown, pending, call', stray')
  BY <1>1, <1>2, <1>4, <1>5, <1>6 DEF ConsoleInv, Browsing
<1> QED
  BY <1>1, <1>2, <1>4, <1>7, BrowserStep DEF ConsoleTypes, ConsoleInv


LEMMA SendKeeps ==
    ASSUME C!ConsoleAssumption,
           ConsoleTypes, ConsoleInv, NEW line \in C!Inputs, C!Send(line)
    PROVE  ConsoleTypes' /\ ConsoleInv'
<1> DEFINE n == shown.run
           taken == IF pending = C!NoInput THEN [seq |-> shown.next, line |-> line] ELSE pending
           q == [op |-> "input", run |-> n, input |-> taken]
<1>1. shown # C!NoRecord
  BY DEF C!Send, C!NoRecord
<1>2. n \in DOMAIN run /\ n \in 1..MaxRuns /\ n # 0 /\ DOMAIN run \subseteq 1..MaxRuns
  BY <1>1, ShownRun
<1>3. /\ call' = [call EXCEPT !["control"] = [state |-> "sent", req |-> q]]
      /\ pending' = taken
      /\ UNCHANGED <<C!server, worker, shown, intent, stray>>
      /\ typed' = IF pending = C!NoInput
                    THEN [typed EXCEPT ![n] = Append(@, line)] ELSE typed
  BY DEF C!Send, C!Ask
<1>4. taken \in Numbered
  BY DEF ConsoleTypes, Numbered, Records
<1>5. /\ typed' \in [1..MaxRuns -> Seq(C!Inputs)]
      /\ \A m \in 1..MaxRuns \ {n} : typed'[m] = typed[m]
      /\ Begins(typed[n], typed'[n])
      /\ pending = C!NoInput => /\ Len(typed'[n]) = Len(typed[n]) + 1
                                /\ typed'[n][Len(typed[n]) + 1] = line
      /\ pending # C!NoInput => typed'[n] = typed[n]
  <2>1. typed \in [1..MaxRuns -> Seq(C!Inputs)] /\ typed[n] \in Seq(C!Inputs)
    BY <1>2 DEF ConsoleTypes
  <2>2. CASE pending = C!NoInput
    <3>1. typed' = [typed EXCEPT ![n] = Append(typed[n], line)]
      BY <1>3, <2>2
    <3>2. /\ Append(typed[n], line) \in Seq(C!Inputs)
          /\ Len(Append(typed[n], line)) = Len(typed[n]) + 1
          /\ Append(typed[n], line)[Len(typed[n]) + 1] = line
          /\ Begins(typed[n], Append(typed[n], line))
      BY <2>1 DEF Begins
    <3> QED
      BY <1>2, <2>1, <2>2, <3>1, <3>2
  <2>3. CASE pending # C!NoInput
    BY <1>3, <2>1, <2>3 DEF Begins
  <2> QED
    BY <2>2, <2>3
<1>6. ~Over(run, n) => /\ taken.seq = Len(typed'[n]) /\ taken.seq \in 1..Len(typed'[n])
                       /\ typed'[n][taken.seq] = taken.line
                       /\ shown.next <= Len(typed'[n]) + 1 /\ taken # C!NoInput
  <2> SUFFICES ASSUME ~Over(run, n)
               PROVE  /\ taken.seq = Len(typed'[n]) /\ taken.seq \in 1..Len(typed'[n])
                      /\ typed'[n][taken.seq] = taken.line
                      /\ shown.next <= Len(typed'[n]) + 1 /\ taken # C!NoInput
    OBVIOUS
  <2>1. /\ shown.next <= Len(typed[n]) + 1
        /\ pending = C!NoInput => shown.next = Len(typed[n]) + 1
        /\ pending # C!NoInput => /\ pending.seq = Len(typed[n]) /\ pending.seq # 0
                                  /\ typed[n][pending.seq] = pending.line
    BY <1>2 DEF ConsoleInv, Browsing, Shows
  <2>2. Len(typed[n]) \in Nat /\ Len(typed'[n]) \in Nat /\ shown.next \in Nat
    BY <1>2, <1>5 DEF ConsoleTypes, Records
  <2>3. CASE pending = C!NoInput
    <3>1. taken.seq = Len(typed[n]) + 1 /\ taken.line = line
      BY <2>1, <2>3
    <3>2. C!NoInput.seq = 0
      BY DEF C!NoInput
    <3> QED
      BY <1>5, <2>1, <2>2, <2>3, <3>1, <3>2
  <2>4. CASE pending # C!NoInput
    BY <1>5, <2>1, <2>2, <2>4
  <2> QED
    BY <2>3, <2>4
<1> HIDE DEF taken
<1>7. q \in Requests /\ Good(q, run, typed') /\ q.op = "input" /\ q.run = n /\ q.input = taken
  BY <1>2, <1>4, <1>6 DEF Requests, InputRequests, Good
<1> HIDE DEF q
<1>8. \A m \in 1..MaxRuns : /\ Begins(typed[m], typed'[m])
                            /\ Len(typed[m]) \in Nat /\ Len(typed'[m]) \in Nat
  <2> SUFFICES ASSUME NEW m \in 1..MaxRuns
               PROVE  /\ Begins(typed[m], typed'[m])
                      /\ Len(typed[m]) \in Nat /\ Len(typed'[m]) \in Nat
    OBVIOUS
  <2>1. typed[m] \in Seq(C!Inputs) /\ typed'[m] \in Seq(C!Inputs)
    BY <1>5 DEF ConsoleTypes
  <2>2. CASE m = n
    BY <1>5, <2>1, <2>2
  <2>3. CASE m # n
    BY <1>5, <2>1, <2>3 DEF Begins
  <2> QED
    BY <2>2, <2>3
<1>9. \A p : Good(p, run, typed) => Good(p, run, typed')
  <2> SUFFICES ASSUME NEW p, Good(p, run, typed), p.op = "input", p.run \in DOMAIN run,
                      ~Over(run, p.run)
               PROVE  /\ p.input.seq \in 1..Len(typed'[p.run])
                      /\ typed'[p.run][p.input.seq] = p.input.line
    BY DEF Good
  <2>1. p.input.seq \in 1..Len(typed[p.run]) /\ typed[p.run][p.input.seq] = p.input.line
    BY DEF Good
  <2> QED
    BY <1>2, <1>8, <2>1 DEF Begins
<1>10. \A k \in CallKinds : call[k].state = "answered" /\ GoodBody(call[k].body, run, typed)
                          => GoodBody(call[k].body, run, typed')
  <2> SUFFICES ASSUME NEW k \in CallKinds, call[k].state = "answered",
                      GoodBody(call[k].body, run, typed)
               PROVE  GoodBody(call[k].body, run, typed')
    OBVIOUS
  <2> DEFINE b == call[k].body
  <2>1. b.next \in Nat
    BY CallTypes DEF Records
  <2> HIDE DEF b
  <2>2. /\ b.run \in DOMAIN run /\ (b.phase \notin Moving => Over(run, b.run))
        /\ ~Over(run, b.run) => b.next <= Len(typed[b.run]) + 1
    BY DEF GoodBody, b
  <2>3. /\ Len(typed[b.run]) <= Len(typed'[b.run])
        /\ Len(typed[b.run]) \in Nat /\ Len(typed'[b.run]) \in Nat
    BY <1>2, <1>8, <2>2 DEF Begins
  <2>4. GoodBody(b, run, typed')
    BY <2>1, <2>2, <2>3 DEF GoodBody
  <2> QED
    BY <2>4 DEF b
<1>11. Underway(call, run, typed') /\ (\A p \in stray : Good(p, run, typed'))
  BY <1>9, <1>10 DEF ConsoleInv, Browsing, Underway
<1>12. call \in [CallKinds -> Calls] /\ "control" \in CallKinds
  BY DEF ConsoleTypes, CallKinds
<1>13. /\ call' \in [CallKinds -> Calls] /\ Underway(call', run, typed')
       /\ call'["control"].req = q /\ call'["control"].state = "sent"
       /\ \A j \in CallKinds \ {"control"} : call'[j] = call[j]
  <2>1. call' = [call EXCEPT !["control"] = [state |-> "sent", req |-> q]]
    BY <1>3 DEF q
  <2>2. Underway(call, run, typed') /\ q \in Requests /\ Good(q, run, typed')
    BY <1>7, <1>11
  <2> QED
    BY <2>1, <2>2, <1>12, Asked
<1>14. Shows(shown, taken, run, typed')
  BY <1>2, <1>6 DEF Shows, ConsoleInv, Browsing
<1>15. OnlyShownTyped(shown, run, typed')
  BY <1>5 DEF OnlyShownTyped, ConsoleInv, Browsing
<1>16. Starting(call', shown, run)
  BY <1>13 DEF Starting, ConsoleInv, Browsing, CallKinds
<1>17. Controls(call', shown, run, typed')
  BY <1>6, <1>7, <1>13 DEF Controls
<1>18. Stored(run, typed')
  <2> SUFFICES ASSUME NEW m \in DOMAIN run PROVE Begins(run[m].inputs, typed'[m])
    BY DEF Stored
  <2>1. Begins(run[m].inputs, typed[m]) /\ Begins(typed[m], typed'[m])
        /\ Len(typed[m]) \in Nat /\ Len(typed'[m]) \in Nat
    BY <1>2, <1>8 DEF ConsoleInv, Stored
  <2>2. Len(run[m].inputs) \in Nat
    BY DEF ConsoleTypes, Runs
  <2> QED
    BY <2>1, <2>2 DEF Begins
<1>19. Browsing(run, typed', shown, taken, call', stray)
  BY <1>11, <1>13, <1>14, <1>15, <1>16, <1>17 DEF Browsing
<1> QED
  BY <1>3, <1>4, <1>5, <1>13, <1>18, <1>19, BrowserStep DEF ConsoleTypes


\* An answer is merged into what is shown.
LEMMA MergedRecord ==
    ASSUME shown \in Records, NEW b \in Records
    PROVE  LET m == C!Merged(b)
           IN  /\ m \in Records /\ m.run = b.run
               /\ b.run # shown.run => m = b
               /\ b.run = shown.run =>
                     /\ m.phase \in {shown.phase, b.phase}
                     /\ C!Rank(m.phase) >= C!Rank(shown.phase)
                     /\ m.next = IF shown.next > b.next THEN shown.next ELSE b.next
                     /\ (shown.closed => m.closed) /\ (shown.cancel => m.cancel)
<1>1. CASE shown.run # b.run
  BY <1>1 DEF C!Merged
<1>2. CASE shown.run = b.run
  <2> DEFINE phase == IF C!Rank(shown.phase) > C!Rank(b.phase) THEN shown.phase ELSE b.phase
             next == IF shown.next > b.next THEN shown.next ELSE b.next
             closed == b.closed \/ shown.closed
             cancel == b.cancel \/ shown.cancel
             m == [b EXCEPT !.phase = phase, !.next = next, !.closed = closed,
                            !.cancel = cancel]
  <2>1. C!Merged(b) = m
    BY <1>2 DEF C!Merged
  <2>2. /\ phase \in Phases \cup {"NONE"} /\ phase \in {shown.phase, b.phase}
        /\ next \in Nat \ {0}
    BY DEF Records
  <2>3. closed \in BOOLEAN /\ cancel \in BOOLEAN
    OBVIOUS
  <2>4. (shown.closed => closed) /\ (shown.cancel => cancel)
    OBVIOUS
  <2>5. C!Rank(phase) >= C!Rank(shown.phase)
    <3>1. \A p : C!Rank(p) \in {1, 2, 3, 4}
      BY DEF C!Rank
    <3>2. CASE C!Rank(shown.phase) > C!Rank(b.phase)
      BY <3>1, <3>2
    <3>3. CASE ~(C!Rank(shown.phase) > C!Rank(b.phase))
      BY <3>1, <3>3
    <3> QED
      BY <3>2, <3>3
  <2> HIDE DEF phase, closed, cancel
  <2>6. /\ m \in Records /\ m.run = b.run /\ m.phase = phase /\ m.next = next
        /\ m.closed = closed /\ m.cancel = cancel
    BY <2>2, <2>3 DEF Records
  <2> HIDE DEF m, next
  <2>7. (shown.closed => m.closed) /\ (shown.cancel => m.cancel)
    BY <2>4, <2>6
  <2> QED
    BY <1>2, <2>1, <2>2, <2>5, <2>6, <2>7 DEF next
<1> QED
  BY <1>1, <1>2

LEMMA ReceiveKeeps ==
    ASSUME C!ConsoleAssumption,
           ConsoleTypes, ConsoleInv, NEW k \in CallKinds, C!Receive(k)
    PROVE  ConsoleTypes' /\ ConsoleInv'
<1> DEFINE b == call[k].body
           m == C!Merged(b)
           q == call["control"].req
<1>1. /\ call[k].state = "answered" /\ call[k] # C!NoCall
      /\ b \in Records /\ GoodBody(b, run, typed)
  BY CallTypes DEF C!Receive, ConsoleInv, Browsing, Underway
<1>2. /\ k = "read" => b.run = shown.run
      /\ shown' = m /\ call' = [call EXCEPT ![k] = C!NoCall]
      /\ pending' = IF k = "start" \/ (k = "control" /\ q.op = "input")
                      THEN C!NoInput ELSE pending
      /\ UNCHANGED <<C!server, worker, intent, stray, typed>>
  BY DEF C!Receive
<1>3. /\ m \in Records /\ m.run = b.run
      /\ b.run # shown.run => m = b
      /\ b.run = shown.run =>
            /\ m.phase \in {shown.phase, b.phase}
            /\ m.next = IF shown.next > b.next THEN shown.next ELSE b.next
  BY <1>1, MergedRecord DEF ConsoleTypes
<1> HIDE DEF m
<1>4. /\ call \in [CallKinds -> Calls] /\ Underway(call, run, typed)
      /\ Shows(shown, pending, run, typed) /\ OnlyShownTyped(shown, run, typed)
      /\ Starting(call, shown, run) /\ Controls(call, shown, run, typed)
  BY DEF ConsoleTypes, ConsoleInv, Browsing
<1>5. /\ call' \in [CallKinds -> Calls] /\ Underway(call', run, typed) /\ call'[k] = C!NoCall
      /\ \A j \in CallKinds \ {k} : call'[j] = call[j]
  BY <1>2, <1>4, Dropped
<1>6. /\ b.run \in DOMAIN run /\ b.run \in 1..MaxRuns
      /\ b.phase \notin Moving => Over(run, b.run)
      /\ ~Over(run, b.run) => b.next <= Len(typed[b.run]) + 1
  <2>1. DOMAIN run = 1..Len(run) /\ Len(run) <= MaxRuns /\ Len(run) \in Nat
    BY DEF ConsoleTypes
  <2> QED
    BY <1>1, <2>1 DEF GoodBody
<1>7. /\ shown.run = 0 => shown = C!NoRecord
      /\ shown.run # 0 =>
            /\ shown.run \in DOMAIN run
            /\ shown.phase \notin Moving => Over(run, shown.run)
            /\ ~Over(run, shown.run) =>
                  /\ shown.next <= Len(typed[shown.run]) + 1
                  /\ pending = C!NoInput => shown.next = Len(typed[shown.run]) + 1
                  /\ pending # C!NoInput =>
                        /\ pending.seq = Len(typed[shown.run]) /\ pending.seq # 0
                        /\ typed[shown.run][pending.seq] = pending.line
  BY <1>4 DEF Shows
<1>8. /\ shown.next \in Nat /\ b.next \in Nat \ {0} /\ Len(typed[b.run]) \in Nat
  BY <1>1, <1>6 DEF ConsoleTypes, Records
<1>9. call["control"] # C!NoCall => q \in Requests /\ Good(q, run, typed)
  BY CallTypes, <1>4 DEF Underway, CallKinds
\* A start answers when nothing live is shown.
<1>s. k = "start" => /\ shown.run = 0 \/ Over(run, shown.run)
                     /\ ~Over(run, b.run) => b.run # shown.run /\ typed[b.run] = <<>>
  BY <1>1, <1>4, <1>6 DEF Starting, OnlyShownTyped
\* A control answers for the run shown, or for one that is over.
<1>c. k = "control" =>
        /\ b.run = q.run /\ q.op \in {"stop", "read", "input"}
        /\ shown.run # b.run =>
              /\ Over(run, b.run)
              /\ shown.run # 0 /\ ~Over(run, shown.run) => typed[shown.run] = <<>>
        /\ q.op = "input" /\ ~Over(run, b.run) => b.next = Len(typed[b.run]) + 1
  <2> SUFFICES ASSUME k = "control"
               PROVE  /\ b.run = q.run /\ q.op # "start"
                      /\ shown.run # b.run =>
                            /\ Over(run, b.run)
                            /\ shown.run # 0 /\ ~Over(run, shown.run) =>
                                  typed[shown.run] = <<>>
                      /\ q.op = "input" /\ ~Over(run, b.run) =>
                            b.next = Len(typed[b.run]) + 1
    BY <1>1, <1>9 DEF Requests, StartRequests, LookRequests, InputRequests
  <2> QED
    BY <1>1, <1>4 DEF Controls
<1>10. Shows(m, pending', run, typed)
  <2>1. m.run # 0 /\ m.run \in DOMAIN run
    BY <1>3, <1>6
  <2>2. m.phase \notin Moving => Over(run, m.run)
    BY <1>3, <1>6, <1>7
  <2>3. ASSUME ~Over(run, m.run), b.run = shown.run, pending' = pending
        PROVE  /\ m.next <= Len(typed[m.run]) + 1
               /\ pending' = C!NoInput => m.next = Len(typed[m.run]) + 1
               /\ pending' # C!NoInput => /\ pending'.seq = Len(typed[m.run]) /\ pending'.seq # 0
                                          /\ typed[m.run][pending'.seq] = pending'.line
    BY <1>3, <1>6, <1>7, <1>8, <2>1, <2>3
  <2>4. ASSUME ~Over(run, m.run), pending' = C!NoInput, k \in {"start", "control"},
               k = "control" => q.op = "input"
        PROVE  m.next = Len(typed[m.run]) + 1
    <3>1. CASE k = "start"
      <4>1. m = b /\ typed[b.run] = <<>>
        BY <1>s, <1>3, <2>4, <3>1
      <4>2. b.next <= 1
        BY <1>3, <1>6, <2>4, <4>1
      <4> QED
        BY <1>8, <4>1, <4>2
    <3>2. CASE k = "control"
      <4>1. b.run = shown.run /\ b.next = Len(typed[b.run]) + 1
        BY <1>c, <1>3, <2>4, <3>2
      <4>2. shown.next <= Len(typed[b.run]) + 1
        BY <1>3, <1>7, <2>1, <2>4, <4>1
      <4> QED
        BY <1>3, <1>8, <4>1, <4>2
    <3> QED
      BY <2>4, <3>1, <3>2
  <2>5. ~Over(run, m.run) =>
          /\ m.next <= Len(typed[m.run]) + 1
          /\ pending' = C!NoInput => m.next = Len(typed[m.run]) + 1
          /\ pending' # C!NoInput => /\ pending'.seq = Len(typed[m.run]) /\ pending'.seq # 0
                                     /\ typed[m.run][pending'.seq] = pending'.line
    <3>1. CASE k = "start" \/ (k = "control" /\ q.op = "input")
      <4>1. pending' = C!NoInput
        BY <1>2, <3>1
      <4> QED
        BY <1>3, <1>8, <2>4, <3>1, <4>1
    <3>2. CASE ~(k = "start" \/ (k = "control" /\ q.op = "input"))
      <4>1. pending' = pending
        BY <1>2, <3>2
      <4>2. ~Over(run, m.run) => b.run = shown.run
        BY <1>2, <1>3, <1>c, <3>2 DEF CallKinds
      <4> QED
        BY <2>3, <4>1, <4>2
    <3> QED
      BY <3>1, <3>2
  <2> QED
    BY <2>1, <2>2, <2>5 DEF Shows
<1>11. OnlyShownTyped(m, run, typed)
  <2> SUFFICES ASSUME NEW n \in 1..MaxRuns, ~Over(run, n), m.run # n
               PROVE  typed[n] = <<>>
    BY DEF OnlyShownTyped
  <2>1. CASE shown.run # n
    BY <1>4, <2>1 DEF OnlyShownTyped
  <2>2. CASE shown.run = n
    BY <1>2, <1>3, <1>s, <1>c, <2>2 DEF CallKinds
  <2> QED
    BY <2>1, <2>2
<1>12. Starting(call', m, run)
  <2> SUFFICES ASSUME k # "start", call["start"] # C!NoCall
               PROVE  Over(run, m.run)
    BY <1>5 DEF Starting, CallKinds
  <2>1. shown.run # 0 => Over(run, shown.run)
    BY <1>4 DEF Starting
  <2>2. b.run # 0
    BY <1>6
  <2> QED
    BY <1>2, <1>3, <1>c, <2>1, <2>2 DEF CallKinds
<1>13. Controls(call', m, run, typed)
  <2>1. CASE k = "control"
    BY <1>5, <2>1 DEF Controls
  <2>2. CASE k # "control"
    <3>1. call'["control"] = call["control"]
      BY <1>5, <2>2 DEF CallKinds
    <3>2. CASE call["control"] = C!NoCall
      BY <3>1, <3>2 DEF Controls
    <3>3. CASE call["control"] # C!NoCall
      <4>1. q.op # "start" /\ q.run \in DOMAIN run /\ q.run # 0
        <5>1. q.op # "start"
          BY <1>4, <3>3 DEF Controls
        <5>2. DOMAIN run = 1..Len(run)
          BY DEF ConsoleTypes
        <5> QED
          BY <1>9, <3>3, <5>1, <5>2 DEF Good
      <4>2. m.run # q.run => /\ Over(run, q.run)
                             /\ m.run # 0 /\ ~Over(run, m.run) => typed[m.run] = <<>>
        <5>1. CASE k = "read"
          BY <1>2, <1>3, <1>4, <3>3, <5>1 DEF Controls
        <5>2. CASE k = "start"
          BY <1>3, <1>4, <1>s, <3>3, <4>1, <5>2 DEF Controls
        <5> QED
          BY <2>2, <5>1, <5>2 DEF CallKinds
      <4> QED
        BY <1>4, <3>1, <3>3, <4>1, <4>2 DEF Controls
    <3> QED
      BY <3>2, <3>3
  <2> QED
    BY <2>1, <2>2
<1>14. Browsing(run, typed, m, pending', call', stray)
  BY <1>5, <1>10, <1>11, <1>12, <1>13 DEF ConsoleInv, Browsing
<1>15. pending' \in Numbered
  BY <1>2 DEF ConsoleTypes, Numbered, C!NoInput, C!Inputs
<1> QED
  BY <1>2, <1>3, <1>5, <1>14, <1>15, BrowserStep DEF ConsoleTypes, ConsoleInv


(***************************************************************************)
(* The theorems.                                                           *)
(***************************************************************************)
LEMMA Steps ==
    ASSUME ConsoleTypes, [C!Next]_(C!vars)
    PROVE  \/ UNCHANGED C!vars
           \/ C!Start \/ C!Stop \/ C!Read \/ C!Worker \/ C!Revoke
           \/ \E line \in C!Inputs : C!Send(line)
           \/ \E k \in CallKinds : \/ C!Receive(k) \/ C!GiveUp(k)
                               \/ \E n \in 1..MaxRuns : C!Answer(k, n)
           \/ \E n \in 1..MaxRuns : \E q \in stray : C!Arrive(q, n)
<1>1. DOMAIN call = CallKinds
  BY DEF ConsoleTypes
<1> QED
  BY <1>1 DEF C!Next, C!Browser, C!Api

LEMMA InitInv ==
    ASSUME C!ConsoleAssumption
    PROVE  C!Init => ConsoleTypes /\ ConsoleInv
<1> SUFFICES ASSUME C!Init PROVE ConsoleTypes /\ ConsoleInv
  OBVIOUS
<1>1. /\ run = <<>> /\ worker = C!Off /\ shown = C!NoRecord /\ stray = {} /\ pending = C!NoInput
      /\ call \in [CallKinds -> {C!NoCall}] /\ typed \in [1..MaxRuns -> {<<>>}] /\ intent = 0
  BY DEF C!Init, CallKinds
<1>2. /\ C!NoRecord \in Records /\ C!NoRecord.run = 0
      /\ C!NoInput \in Numbered /\ C!NoCall.state = "idle"
  BY DEF C!NoRecord, Records, C!NoInput, Numbered, C!NoCall, C!Inputs
<1>3. DOMAIN run = {} /\ run \in Seq(Runs) /\ Len(run) = 0
  <2>1. run \in Seq(Runs) /\ Len(run) = 0
    BY <1>1
  <2> QED
    BY <2>1
<1>4. call \in [CallKinds -> Calls] /\ \A k \in CallKinds : call[k] = C!NoCall
  BY <1>1 DEF Calls
<1>5. typed \in [1..MaxRuns -> Seq(C!Inputs)] /\ \A n \in 1..MaxRuns : typed[n] = <<>>
  <2>1. <<>> \in Seq(C!Inputs)
    OBVIOUS
  <2>2. \A n \in 1..MaxRuns : typed[n] = <<>>
    BY <1>1
  <2>3. typed = [n \in 1..MaxRuns |-> typed[n]]
    BY <1>1
  <2> QED
    BY <2>1, <2>2, <2>3
<1>6. ConsoleTypes
  BY <1>1, <1>2, <1>3, <1>4, <1>5, OffWorks DEF ConsoleTypes
<1>7. RunsFit(run) /\ WorkerFits(worker, run) /\ Stored(run, typed)
  BY <1>1, <1>3 DEF RunsFit, WorkerFits, Stored
<1>8. Underway(call, run, typed)
  BY <1>2, <1>4 DEF Underway
<1>9. Shows(shown, pending, run, typed) /\ OnlyShownTyped(shown, run, typed)
  BY <1>1, <1>2, <1>5 DEF Shows, OnlyShownTyped
<1>10. Starting(call, shown, run) /\ Controls(call, shown, run, typed)
  BY <1>4 DEF Starting, Controls, CallKinds
<1> QED
  BY <1>1, <1>6, <1>7, <1>8, <1>9, <1>10 DEF ConsoleInv, Browsing

LEMMA WorkerStepKeeps == ConsoleTypes /\ ConsoleInv /\ C!Worker => ConsoleTypes' /\ ConsoleInv'
<1> SUFFICES ASSUME ConsoleTypes, ConsoleInv, C!Worker PROVE ConsoleTypes' /\ ConsoleInv'
  OBVIOUS
<1>1. Advances /\ UNCHANGED <<shown, intent, call, stray, pending, typed>>
  BY WorkerAdvances DEF C!browser
<1>2. Browsing(run', typed, shown, pending, call, stray)
  BY <1>1, BrowserKeeps DEF ConsoleInv, Advances
<1>3. ConsoleTypes'
  BY <1>1 DEF ConsoleTypes, Advances
<1> QED
  BY <1>1, <1>2, <1>3 DEF ConsoleInv, Advances

LEMMA NextInv ==
    ASSUME C!ConsoleAssumption
    PROVE  ConsoleTypes /\ ConsoleInv /\ [C!Next]_(C!vars) => ConsoleTypes' /\ ConsoleInv'
<1> SUFFICES ASSUME ConsoleTypes, ConsoleInv, [C!Next]_(C!vars) PROVE ConsoleTypes' /\ ConsoleInv'
  OBVIOUS
<1>1. CASE UNCHANGED C!vars \/ C!Revoke
  <2>1. UNCHANGED <<run, worker, shown, intent, call, stray, pending, typed>>
    BY <1>1 DEF C!vars, C!server, C!browser, C!Revoke
  <2> QED
    BY <2>1 DEF ConsoleTypes, ConsoleInv
<1>2. CASE C!Stop
  <2>1. shown # C!NoRecord
    BY <1>2 DEF C!Stop, C!NoRecord, C!Active
  <2> QED
    BY <1>2, <2>1, LookKeeps DEF C!Stop
<1>3. CASE C!Read
  BY <1>3, LookKeeps DEF C!Read
<1> QED
  BY <1>1, <1>2, <1>3, Steps, StartKeeps, WorkerStepKeeps, SendKeeps, ReceiveKeeps,
     GiveUpKeeps, AnswerKeeps, ArriveKeeps

LEMMA AlwaysInv ==
    ASSUME C!ConsoleAssumption
    PROVE  C!Spec => [](ConsoleTypes /\ ConsoleInv)
  BY InitInv, NextInv, PTL DEF C!Spec

(* The runs, the worker, the calls and what the browser keeps have their types,
   and no more runs are created than the bound allows. *)
THEOREM ConsoleTypeCorrect ==
    ASSUME C!ConsoleAssumption
    PROVE  C!Spec => []ConsoleTypes
  BY AlwaysInv, PTL

LEMMA PrefixMeans ==
    ASSUME NEW S, NEW s \in Seq(S), NEW t \in Seq(S), Begins(s, t)
    PROVE  IsPrefix(s, t)
  BY DEF IsPrefix, Begins

(* The program is given what was typed, each input once and in order, for any
   number of runs, lost and late calls, and faults of the worker. *)
THEOREM InputOnceAlways ==
    ASSUME C!ConsoleAssumption
    PROVE  C!Spec => []InputOnce
<1>1. ConsoleTypes /\ ConsoleInv => InputOnce
  <2> SUFFICES ASSUME ConsoleTypes, ConsoleInv, NEW n \in DOMAIN run
               PROVE  IsPrefix(run[n].given, run[n].inputs) /\ IsPrefix(run[n].inputs, typed[n])
    BY DEF InputOnce
  <2>1. /\ run[n].given \in Seq(C!Inputs) /\ run[n].inputs \in Seq(C!Inputs)
        /\ typed[n] \in Seq(C!Inputs)
    <3>1. n \in 1..MaxRuns
      BY DEF ConsoleTypes
    <3>2. run[n] \in Runs /\ typed[n] \in Seq(C!Inputs)
      BY <3>1 DEF ConsoleTypes
    <3> QED
      BY <3>2 DEF Runs
  <2>2. Begins(run[n].given, run[n].inputs) /\ Begins(run[n].inputs, typed[n])
    BY DEF ConsoleInv, RunsFit, RunFits, Stored
  <2> QED
    BY <2>1, <2>2, PrefixMeans
<1> QED
  BY <1>1, AlwaysInv, PTL

\* No step changes what is told of a run that ended.
LEMMA EndsStand ==
    ASSUME C!ConsoleAssumption,
           ConsoleTypes, ConsoleInv, [C!Next]_(C!vars), NEW n \in DOMAIN run,
           Told(run[n]) \notin Moving
    PROVE  Told(run'[n]) = Told(run[n])
<1>1. CASE run' = run
  BY <1>1
<1>2. CASE C!Worker
  BY <1>2, WorkerAdvances DEF Advances
<1>3. ASSUME NEW k \in CallKinds, NEW m \in 1..MaxRuns, C!Answer(k, m)
      PROVE  Told(run'[n]) = Told(run[n])
  <2>1. call[k].req \in Requests /\ Good(call[k].req, run, typed) /\ C!Handle(call[k].req, m)
    BY <1>3, CallTypes DEF C!Answer, ConsoleInv, Browsing, Underway
  <2> QED
    BY <2>1, HandleEffect DEF Told
<1>4. ASSUME NEW q \in stray, NEW m \in 1..MaxRuns, C!Arrive(q, m)
      PROVE  Told(run'[n]) = Told(run[n])
  <2>1. q \in Requests /\ Good(q, run, typed) /\ C!Handle(q, m)
    BY <1>4 DEF C!Arrive, ConsoleInv, Browsing, ConsoleTypes
  <2> QED
    BY <2>1, HandleEffect DEF Told
<1>5. \/ run' = run \/ C!Worker
      \/ \E k \in CallKinds, m \in 1..MaxRuns : C!Answer(k, m)
      \/ \E q \in stray, m \in 1..MaxRuns : C!Arrive(q, m)
  BY Steps DEF C!vars, C!server, C!Start, C!Stop, C!Read, C!Revoke, C!Send, C!Receive, C!GiveUp
<1> QED
  BY <1>1, <1>2, <1>3, <1>4, <1>5

(* The end of a run stands, as the API tells it, and what the browser shows of a
   run never goes back. *)
THEOREM NeverBackAlways ==
    ASSUME C!ConsoleAssumption
    PROVE  C!Spec => NeverBack
<1>1. ConsoleTypes /\ ConsoleInv /\ [C!Next]_(C!vars) =>
        [\A n \in DOMAIN run : ~Active(Projection(n).phase) =>
            Projection(n)'.phase = Projection(n).phase]_run
  <2> SUFFICES ASSUME ConsoleTypes, ConsoleInv, [C!Next]_(C!vars), NEW n \in DOMAIN run,
                      ~Active(Projection(n).phase)
               PROVE  Projection(n)'.phase = Projection(n).phase
    OBVIOUS
  <2>1. Projection(n).phase = Told(run[n]) /\ Projection(n)'.phase = Told(run'[n])
    BY DEF Projection, Told, Active, Moving
  <2>2. Told(run[n]) \notin Moving
    BY <2>1 DEF Active, Moving
  <2> QED
    BY <2>1, <2>2, EndsStand
<1>2. ConsoleTypes /\ [C!Next]_(C!vars) =>
        [shown'.run = shown.run =>
           /\ Rank(shown'.phase) >= Rank(shown.phase) /\ shown'.next >= shown.next
           /\ (shown.closed => shown'.closed) /\ (shown.cancel => shown'.cancel)]_shown
  <2> SUFFICES ASSUME ConsoleTypes, [C!Next]_(C!vars), shown' # shown, shown'.run = shown.run
               PROVE  /\ Rank(shown'.phase) >= Rank(shown.phase)
                      /\ shown'.next >= shown.next
                      /\ (shown.closed => shown'.closed)
                      /\ (shown.cancel => shown'.cancel)
    OBVIOUS
  <2>1. \E k \in CallKinds : C!Receive(k)
    BY Steps, WorkerAdvances DEF C!vars, C!browser, C!Start, C!Stop, C!Read, C!Revoke,
       C!Send, C!GiveUp, C!Answer, C!Arrive, C!Worker, C!Claim, C!ExpireLease, C!Control,
       C!Exit, C!Renew, C!Deliver, C!Compile, C!Execute, C!Complete, C!Abandon, C!Crash
  <2>2. PICK k \in CallKinds : C!Receive(k)
    BY <2>1
  <2>3. call[k].body \in Records /\ shown' = C!Merged(call[k].body) /\ shown \in Records
    BY <2>2, CallTypes DEF C!Receive, ConsoleTypes
  <2>4. call[k].body.run = shown.run
    BY <2>3, MergedRecord
  <2>5. \A p : Rank(p) = C!Rank(p)
    BY DEF Rank, C!Rank
  <2> QED
    BY <2>3, <2>4, <2>5, MergedRecord DEF Records
<1> QED
  BY <1>1, <1>2, AlwaysInv, PTL DEF C!Spec, NeverBack, ResultStands, ShownNeverRegresses
=============================================================================
