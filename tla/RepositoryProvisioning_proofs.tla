-------------------- MODULE RepositoryProvisioning_proofs --------------------
(***************************************************************************)
(* What is proved of RepositoryProvisioning, and of PairedBackup around it,  *)
(* for every number of workers and backups and every bound on attempts.     *)
(*                                                                         *)
(* Under any timing: types, and that nothing students pushed is lost.  If   *)
(* leases outlast the work done under them, by the invariant Held: a worker *)
(* that is at work owns the running job.  So there is at most one, nobody   *)
(* else writes the row, and what it has verified on the disk stays as it    *)
(* is until it reports it.                                                  *)
(***************************************************************************)
EXTENDS PairedBackup, TLAPS

USE DEF Labels, Directories

-----------------------------------------------------------------------------
(* Under any timing. *)

LEMMA TypeInit == Init => TypeOK
<1> SUFFICES ASSUME Init PROVE TypeOK
  OBVIOUS
<1>1. JobTypes
  BY LimitAssumption DEF Init, JobTypes
<1>2. JobFlags /\ DiskTypes /\ LocalTypes
  BY DEF Init, JobFlags, DiskTypes, LocalTypes
<1> QED
  BY <1>1, <1>2 DEF TypeOK

(* The steps that write the job or its repository's row, and the others. *)
WritesJob(w) == Sweep(w) \/ Claim(w) \/ CompleteWrite(w) \/ FailWrite(w)

LEMMA JobWriters ==
    ASSUME NEW w \in Workers, WorkerStep(w) \/ WorkerDies(w)
    PROVE  WritesJob(w) \/ UNCHANGED jobVars
  BY DEF WorkerStep, WorkerDies, WritesJob, Look, MakeStaging, MarkStaging, InitStaging,
         CheckStaging, PublishCheck, PublishRename, CheckFinal, Measure, StorageFails,
         CompleteRead, CompleteAborts, QuarantineLook, QuarantineMove, FailRead

LEMMA JobTypesStep == JobTypes /\ [Next]_vars => JobTypes'
<1> SUFFICES ASSUME JobTypes, [Next]_vars PROVE JobTypes'
  OBVIOUS
<1> USE DEF JobTypes
<1>1. CASE UNCHANGED jobVars
  BY <1>1 DEF jobVars
<1>2. ASSUME NEW w \in Workers, WritesJob(w) PROVE JobTypes'
  <2>1. CASE Sweep(w)
    BY <2>1 DEF Sweep
  <2>2. CASE Claim(w)
    BY <2>2 DEF Claim, Claimable
  <2>3. CASE CompleteWrite(w)
    BY <2>3 DEF CompleteWrite
  <2>4. CASE FailWrite(w)
    BY <2>4 DEF FailWrite, StorageAfterFailure
  <2> QED
    BY <1>2, <2>1, <2>2, <2>3, <2>4 DEF WritesJob
<1>3. CASE LeaseExpires
  BY <1>3 DEF LeaseExpires
<1>4. CASE AdminRetry
  <2>1. /\ attempt = maxAttempt /\ maxAttempt < RetryCap
        /\ attempt' = attempt /\ maxAttempt' = maxAttempt + 1
        /\ status' = "PENDING" /\ storage' = "PENDING"
        /\ owner' = NoWorker /\ provisioned' = provisioned
    BY <1>4 DEF AdminRetry, RetryOffered
  <2> QED
    BY <2>1, LimitAssumption
<1>5. CASE Push \/ UNCHANGED vars
  BY <1>1, <1>5 DEF Push, jobVars, vars
<1> QED
  BY <1>1, <1>2, <1>3, <1>4, <1>5, JobWriters DEF Next

LEMMA JobFlagsStep == JobFlags /\ LocalTypes /\ [Next]_vars => JobFlags'
<1> SUFFICES ASSUME JobFlags, LocalTypes, [Next]_vars PROVE JobFlags'
  OBVIOUS
<1> USE DEF JobFlags
<1>1. CASE UNCHANGED jobVars
  BY <1>1 DEF jobVars
<1>2. ASSUME NEW w \in Workers, WritesJob(w) PROVE JobFlags'
  <2>1. moved[w] \in BOOLEAN
    BY DEF LocalTypes
  <2> QED
    BY <1>2, <2>1 DEF WritesJob, Sweep, Claim, CompleteWrite, FailWrite
<1>3. CASE LeaseExpires \/ AdminRetry \/ Push \/ UNCHANGED vars
  BY <1>1, <1>3 DEF LeaseExpires, AdminRetry, Push, jobVars, vars
<1> QED
  BY <1>1, <1>2, <1>3, JobWriters DEF Next

(* The steps that touch the disk, and the others. *)
WritesDisk(w) ==
    MakeStaging(w) \/ MarkStaging(w) \/ InitStaging(w) \/ PublishRename(w) \/ QuarantineMove(w)

LEMMA DiskWriters ==
    ASSUME NEW w \in Workers, WorkerStep(w) \/ WorkerDies(w)
    PROVE  WritesDisk(w) \/ UNCHANGED diskVars
  BY DEF WorkerStep, WorkerDies, WritesDisk, Sweep, Claim, Look, CheckStaging, PublishCheck,
         CheckFinal, Measure, StorageFails, CompleteRead, CompleteWrite, CompleteAborts,
         QuarantineLook, FailRead, FailWrite

LEMMA DiskTypesStep == DiskTypes /\ [Next]_vars => DiskTypes'
<1> SUFFICES ASSUME DiskTypes, [Next]_vars PROVE DiskTypes'
  OBVIOUS
<1> USE DEF DiskTypes
<1>1. CASE UNCHANGED diskVars
  BY <1>1 DEF diskVars
<1>2. ASSUME NEW w \in Workers, WritesDisk(w) PROVE DiskTypes'
  BY <1>2 DEF WritesDisk, MakeStaging, MarkStaging, InitStaging, Initialised, PublishRename,
              QuarantineMove, diskVars
<1>3. CASE Push
  BY <1>3 DEF Push
<1>4. CASE LeaseExpires \/ AdminRetry \/ UNCHANGED vars
  BY <1>1, <1>4 DEF LeaseExpires, AdminRetry, diskVars, vars
<1> QED
  BY <1>1, <1>2, <1>3, <1>4, DiskWriters DEF Next

(* A worker's step, by what it does to the worker itself. *)
LEMMA LocalTypesStep == LocalTypes /\ [Next]_vars => LocalTypes'
<1> SUFFICES ASSUME LocalTypes, [Next]_vars PROVE LocalTypes'
  OBVIOUS
<1> USE DEF LocalTypes, Goto, localVars
<1>1. ASSUME NEW w \in Workers, NEW label \in Labels, Goto(w, label),
             UNCHANGED localVars \/ Forget(w)
      PROVE  LocalTypes'
  BY <1>1 DEF Forget
<1>2. ASSUME NEW w \in Workers, FailsGravely(w) PROVE LocalTypes'
  BY <1>2 DEF FailsGravely
<1>3. ASSUME NEW w \in Workers, WorkerStep(w) \/ WorkerDies(w) PROVE LocalTypes'
  <2>1. CASE Sweep(w) \/ Claim(w)
    BY <2>1 DEF Sweep, Claim
  <2>2. CASE Look(w) \/ StorageFails(w) \/ CompleteRead(w) \/ CompleteWrite(w) \/ CompleteAborts(w)
    BY <1>1, <2>2 DEF Look, StorageFails, CompleteRead, CompleteWrite, CompleteAborts,
                      Continues, Fails
  <2>3. CASE MakeStaging(w) \/ MarkStaging(w) \/ InitStaging(w) \/ CheckStaging(w)
    BY <1>1, <1>2, <2>3 DEF MakeStaging, MarkStaging, InitStaging, CheckStaging, Continues, Fails
  <2>4. CASE PublishCheck(w) \/ PublishRename(w) \/ CheckFinal(w) \/ Measure(w)
    BY <1>1, <1>2, <2>4 DEF PublishCheck, PublishRename, CheckFinal, Measure, Continues, Fails
  <2>5. CASE QuarantineLook(w)
    BY <2>5 DEF QuarantineLook
  <2>6. CASE QuarantineMove(w)
    BY <2>6 DEF QuarantineMove
  <2>7. CASE FailRead(w)
    <3>1. RetriesLeft(w) \in BOOLEAN
      BY DEF RetriesLeft
    <3> QED
      BY <2>7, <3>1 DEF FailRead, Forget
  <2>8. CASE FailWrite(w) \/ WorkerDies(w)
    BY <1>1, <2>8 DEF FailWrite, WorkerDies
  <2> QED
    BY <1>3, <2>1, <2>2, <2>3, <2>4, <2>5, <2>6, <2>7, <2>8 DEF WorkerStep
<1>4. CASE LeaseExpires \/ AdminRetry \/ Push \/ UNCHANGED vars
  BY <1>4 DEF LeaseExpires, AdminRetry, Push, vars
<1> QED
  BY <1>3, <1>4 DEF Next

LEMMA TypeStep == TypeOK /\ [Next]_vars => TypeOK'
  BY JobTypesStep, JobFlagsStep, DiskTypesStep, LocalTypesStep DEF TypeOK

(* Every column and every local stays in its range, and no job is claimed
   more often than it may be (claimNext, retryRepositoryProvisioningJob). *)
THEOREM TypeCorrect == Spec => []TypeOK
  BY TypeInit, TypeStep, PTL DEF Spec

(* What students pushed is overwritten or deleted by no step, not even of a
   worker whose lease another one has taken over (publish, quarantine). *)
THEOREM PushedIsKeptAlways == Spec => PushedIsKept
<1>1. ASSUME [Next]_vars PROVE KeepsPushed
  <2> USE DEF KeepsPushed, diskVars
  <2>1. CASE UNCHANGED diskVars
    BY <2>1
  <2>2. ASSUME NEW w \in Workers, WritesDisk(w) PROVE KeepsPushed
    BY <2>2 DEF WritesDisk, MakeStaging, MarkStaging, InitStaging, PublishRename, QuarantineMove
  <2>3. CASE LeaseExpires \/ AdminRetry \/ Push \/ UNCHANGED vars
    BY <2>3 DEF LeaseExpires, AdminRetry, Push, vars
  <2> QED
    BY <1>1, <2>1, <2>2, <2>3, DiskWriters DEF Next
<1> QED
  BY <1>1, PTL DEF Spec, PushedIsKept

-----------------------------------------------------------------------------
(* If leases outlast the work. *)

Busy(w) == pc[w] \notin {"idle", "dead"}

(* Who is at work owns the job, under a lease that has not expired. *)
Held == \A w \in Workers : Busy(w) => status = "RUNNING" /\ owner = w /\ ~expired

(* What CheckFinal has seen is still there when complete reports it. *)
Verified ==
    \A w \in Workers : pc[w] \in {"measure", "complete", "completing"} => final = "bare"

(* fail's local `retry` still says what the row says. *)
RetryIsCurrent ==
    \A w \in Workers : pc[w] = "failing" => (retry[w] <=> RetriesLeft(w))

Strict ==
    /\ TypeOK /\ Held /\ Verified /\ RetryIsCurrent
    /\ ReadyIsOnDisk /\ JobStorageAgreement /\ AttemptsMatchStatus

LEMMA StrictInit == Init => Strict
<1> SUFFICES ASSUME Init PROVE Strict
  OBVIOUS
<1>1. Held /\ Verified /\ RetryIsCurrent /\ ReadyIsOnDisk
  BY DEF Init, Held, Busy, Verified, RetryIsCurrent, ReadyIsOnDisk
<1>2. JobStorageAgreement /\ AttemptsMatchStatus
  BY LimitAssumption DEF Init, JobStorageAgreement, AttemptsMatchStatus
<1> QED
  BY <1>1, <1>2, TypeInit DEF Strict

(* A step of a worker leaves the others where they are, and only a claim
   puts one to work. *)
LEMMA OwnMoves ==
    ASSUME LocalTypes, NEW w \in Workers, WorkerStep(w) \/ WorkerDies(w)
    PROVE  /\ \A v \in Workers \ {w} :
                 pc'[v] = pc[v] /\ grave'[v] = grave[v] /\ retry'[v] = retry[v]
           /\ Claim(w) \/ pc'[w] \in {"idle", "dead"} \/ Busy(w)
<1> USE DEF LocalTypes, Goto, localVars, Busy
<1>1. CASE Sweep(w) \/ Claim(w)
  BY <1>1 DEF Sweep, Claim
<1>2. CASE Look(w) \/ StorageFails(w) \/ CompleteRead(w) \/ CompleteWrite(w) \/ CompleteAborts(w)
  BY <1>2 DEF Look, StorageFails, CompleteRead, CompleteWrite, CompleteAborts, Continues, Fails
<1>3. CASE MakeStaging(w) \/ MarkStaging(w) \/ InitStaging(w) \/ CheckStaging(w)
  BY <1>3 DEF MakeStaging, MarkStaging, InitStaging, CheckStaging, Continues, Fails, FailsGravely
<1>4. CASE PublishCheck(w) \/ PublishRename(w) \/ CheckFinal(w) \/ Measure(w)
  BY <1>4 DEF PublishCheck, PublishRename, CheckFinal, Measure, Continues, Fails, FailsGravely
<1>5. CASE QuarantineLook(w) \/ QuarantineMove(w)
  BY <1>5 DEF QuarantineLook, QuarantineMove
<1>6. CASE FailRead(w) \/ FailWrite(w) \/ WorkerDies(w)
  BY <1>6 DEF FailRead, FailWrite, WorkerDies, Forget
<1> QED
  BY <1>1, <1>2, <1>3, <1>4, <1>5, <1>6 DEF WorkerStep

LEMMA OnlyOwnerBusy ==
    ASSUME Held, NEW w \in Workers, NEW v \in Workers, Busy(w), Busy(v)
    PROVE  w = v
  BY DEF Held

LEMMA HeldStep == LeasesHeld /\ TypeOK /\ Held /\ [Next]_vars => Held'
<1> SUFFICES ASSUME LeasesHeld, TypeOK, Held, [Next]_vars,
                    NEW v \in Workers, Busy(v)'
             PROVE  (status = "RUNNING" /\ owner = v /\ ~expired)'
  BY DEF Held
<1> USE DEF Busy, Held
<1>0. LocalTypes
  BY DEF TypeOK
<1>1. ASSUME NEW w \in Workers, WorkerStep(w) \/ WorkerDies(w)
      PROVE  (status = "RUNNING" /\ owner = v /\ ~expired)'
  <2>1. Busy(v) \/ (Claim(w) /\ v = w)
    BY <1>0, <1>1, OwnMoves
  <2>2. CASE Claim(w)
    BY <1>0, <2>1, <2>2 DEF Claim, Claimable, Goto, LocalTypes
  <2>3. CASE Sweep(w)
    BY <2>1, <2>3 DEF Sweep, Claim
  <2>4. CASE CompleteWrite(w) \/ FailWrite(w)
    BY <1>0, <2>1, <2>4, OnlyOwnerBusy
       DEF CompleteWrite, FailWrite, Claim, Continues, Goto, LocalTypes
  <2>5. CASE UNCHANGED jobVars /\ ~Claim(w)
    BY <2>1, <2>5 DEF jobVars
  <2> QED
    BY <1>1, <2>2, <2>3, <2>4, <2>5, JobWriters DEF WritesJob
<1>2. CASE LeaseExpires
  BY <1>2 DEF LeaseExpires
<1>3. CASE AdminRetry
  BY <1>3 DEF AdminRetry, RetryOffered
<1>4. CASE Push \/ UNCHANGED vars
  BY <1>4 DEF Push, jobVars, vars
<1> QED
  BY <1>1, <1>2, <1>3, <1>4 DEF Next

(* A step that writes the disk is one of a worker at work. *)
LEMMA DiskWriterBusy == ASSUME NEW w \in Workers, WritesDisk(w) PROVE Busy(w)
  BY DEF WritesDisk, MakeStaging, MarkStaging, InitStaging, PublishRename, QuarantineMove, Busy

LEMMA VerifiedStep == Strict /\ [Next]_vars => Verified'
<1> SUFFICES ASSUME Strict, [Next]_vars, NEW v \in Workers,
                    pc'[v] \in {"measure", "complete", "completing"}
             PROVE  final' = "bare"
  BY DEF Verified
<1>0. LocalTypes /\ Held /\ Verified /\ JobStorageAgreement
  BY DEF Strict, TypeOK
<1>1. ASSUME NEW w \in Workers, WorkerStep(w) \/ WorkerDies(w), v # w
      PROVE  final' = "bare"
  <2>1. pc'[v] = pc[v]
    BY <1>0, <1>1, OwnMoves
  <2>2. final = "bare" /\ Busy(v)
    BY <1>0, <2>1 DEF Verified, Busy
  <2>3. ~WritesDisk(w)
    BY <1>0, <1>1, <2>2, DiskWriterBusy, OnlyOwnerBusy
  <2> QED
    BY <1>1, <2>2, <2>3, DiskWriters DEF diskVars
<1>2. ASSUME WorkerStep(v) \/ WorkerDies(v) PROVE final' = "bare"
  <2> USE <1>0 DEF LocalTypes, Goto, Continues, Fails, FailsGravely, diskVars
  <2>1. CASE Sweep(v) \/ Claim(v) \/ Look(v) \/ StorageFails(v) \/ WorkerDies(v)
    BY <2>1 DEF Sweep, Claim, Look, StorageFails, WorkerDies
  <2>2. CASE MakeStaging(v) \/ MarkStaging(v) \/ InitStaging(v) \/ CheckStaging(v)
    BY <2>2 DEF MakeStaging, MarkStaging, InitStaging, CheckStaging
  <2>3. CASE PublishCheck(v) \/ PublishRename(v)
    BY <2>3 DEF PublishCheck, PublishRename
  <2>4. CASE CheckFinal(v) \/ Measure(v) \/ CompleteRead(v)
    BY <2>4 DEF CheckFinal, Measure, CompleteRead, Verified
  <2>5. CASE CompleteWrite(v) \/ CompleteAborts(v) \/ QuarantineLook(v) \/ QuarantineMove(v)
    BY <2>5 DEF CompleteWrite, CompleteAborts, QuarantineLook, QuarantineMove
  <2>6. CASE FailRead(v) \/ FailWrite(v)
    BY <2>6 DEF FailRead, FailWrite
  <2> QED
    BY <1>2, <2>1, <2>2, <2>3, <2>4, <2>5, <2>6 DEF WorkerStep
<1>3. CASE LeaseExpires \/ AdminRetry \/ UNCHANGED vars
  BY <1>0, <1>3 DEF LeaseExpires, AdminRetry, vars, diskVars, Verified
<1>4. CASE Push
  BY <1>0, <1>4 DEF Push, Verified, Held, Busy, JobStorageAgreement
<1> QED
  BY <1>1, <1>2, <1>3, <1>4 DEF Next

(* While a worker is at work, no other one writes the row. *)
LEMMA BusyFreezes ==
    ASSUME Held, NEW v \in Workers, Busy(v),
           NEW w \in Workers \ {v}, WorkerStep(w) \/ WorkerDies(w)
    PROVE  UNCHANGED jobVars
<1>1. ~Busy(w)
  BY OnlyOwnerBusy
<1>2. status = "RUNNING" /\ ~expired
  BY DEF Held
<1>3. ~WritesJob(w)
  BY <1>1, <1>2 DEF WritesJob, Sweep, Claim, Claimable, CompleteWrite, FailWrite, Busy
<1> QED
  BY <1>3, JobWriters

LEMMA RetryIsCurrentStep == Strict /\ [Next]_vars => RetryIsCurrent'
<1> SUFFICES ASSUME Strict, [Next]_vars, NEW v \in Workers, pc'[v] = "failing"
             PROVE  retry'[v] <=> RetriesLeft(v)'
  BY DEF RetryIsCurrent
<1>0. LocalTypes /\ Held /\ RetryIsCurrent
  BY DEF Strict, TypeOK
<1>1. ASSUME pc[v] = "failing", retry'[v] = retry[v], grave'[v] = grave[v],
             attempt' = attempt, maxAttempt' = maxAttempt
      PROVE  retry'[v] <=> RetriesLeft(v)'
  BY <1>0, <1>1 DEF RetryIsCurrent, RetriesLeft
<1>2. ASSUME NEW w \in Workers \ {v}, WorkerStep(w) \/ WorkerDies(w)
      PROVE  retry'[v] <=> RetriesLeft(v)'
  <2>1. pc[v] = "failing" /\ retry'[v] = retry[v] /\ grave'[v] = grave[v]
    BY <1>0, <1>2, OwnMoves
  <2>2. UNCHANGED jobVars
    BY <1>0, <1>2, <2>1, BusyFreezes DEF Busy
  <2> QED
    BY <1>1, <2>1, <2>2 DEF jobVars
<1>3. ASSUME WorkerStep(v) \/ WorkerDies(v) PROVE retry'[v] <=> RetriesLeft(v)'
  <2> USE <1>0 DEF LocalTypes, Goto, Continues, Fails, FailsGravely
  <2>1. CASE FailRead(v)
    <3>1. retry'[v] = RetriesLeft(v) /\ grave'[v] = grave[v]
      BY <2>1 DEF FailRead
    <3>2. attempt' = attempt /\ maxAttempt' = maxAttempt
      BY <2>1 DEF FailRead, jobVars
    <3> QED
      BY <3>1, <3>2 DEF RetriesLeft
  <2>2. ~(Sweep(v) \/ Claim(v) \/ Look(v) \/ StorageFails(v) \/ WorkerDies(v))
    BY DEF Sweep, Claim, Look, StorageFails, WorkerDies
  <2>3. ~(MakeStaging(v) \/ MarkStaging(v) \/ InitStaging(v) \/ CheckStaging(v))
    BY DEF MakeStaging, MarkStaging, InitStaging, CheckStaging
  <2>4. ~(PublishCheck(v) \/ PublishRename(v) \/ CheckFinal(v) \/ Measure(v))
    BY DEF PublishCheck, PublishRename, CheckFinal, Measure
  <2>5. ~(CompleteRead(v) \/ CompleteWrite(v) \/ CompleteAborts(v))
    BY DEF CompleteRead, CompleteWrite, CompleteAborts
  <2>6. ~(QuarantineLook(v) \/ QuarantineMove(v) \/ FailWrite(v))
    BY DEF QuarantineLook, QuarantineMove, FailWrite
  <2> QED
    BY <1>3, <2>1, <2>2, <2>3, <2>4, <2>5, <2>6 DEF WorkerStep
<1>4. CASE LeaseExpires \/ Push \/ UNCHANGED vars
  BY <1>1, <1>4 DEF LeaseExpires, Push, vars, jobVars, localVars
<1>5. CASE AdminRetry
  BY <1>0, <1>5 DEF AdminRetry, RetryOffered, Held, Busy
<1> QED
  BY <1>2, <1>3, <1>4, <1>5 DEF Next

LEMMA ReadyIsOnDiskStep == Strict /\ [Next]_vars => ReadyIsOnDisk'
<1> SUFFICES ASSUME Strict, [Next]_vars, storage' = "READY"
             PROVE  final' \in {"bare", "pushed"}
  BY DEF ReadyIsOnDisk
<1>0. Held /\ Verified /\ ReadyIsOnDisk /\ JobStorageAgreement
  BY DEF Strict
<1>1. ASSUME UNCHANGED storage, NEW w \in Workers, WorkerStep(w) \/ WorkerDies(w)
      PROVE  final' \in {"bare", "pushed"}
  <2>1. status = "SUCCEEDED" /\ final \in {"bare", "pushed"}
    BY <1>0, <1>1 DEF ReadyIsOnDisk, JobStorageAgreement
  <2>2. ~WritesDisk(w)
    BY <1>0, <2>1, DiskWriterBusy DEF Held
  <2> QED
    BY <1>1, <2>1, <2>2, DiskWriters DEF diskVars
<1>2. ASSUME NEW w \in Workers, WritesJob(w) PROVE final' \in {"bare", "pushed"}
  <2>1. CASE CompleteWrite(w)
    BY <1>0, <2>1 DEF CompleteWrite, Verified, diskVars
  <2>2. ~(Sweep(w) \/ Claim(w) \/ FailWrite(w))
    BY DEF Sweep, Claim, FailWrite, StorageAfterFailure
  <2> QED
    BY <1>2, <2>1, <2>2 DEF WritesJob
<1>3. CASE LeaseExpires \/ AdminRetry \/ Push \/ UNCHANGED vars
  BY <1>0, <1>3 DEF LeaseExpires, AdminRetry, Push, vars, diskVars, jobVars, ReadyIsOnDisk
<1> QED
  BY <1>1, <1>2, <1>3, JobWriters DEF Next, jobVars

LEMMA AgreementStep == Strict /\ [Next]_vars => JobStorageAgreement'
<1> SUFFICES ASSUME Strict, [Next]_vars PROVE JobStorageAgreement'
  OBVIOUS
<1>0. Held /\ JobStorageAgreement /\ RetryIsCurrent /\ JobTypes
  BY DEF Strict, TypeOK
<1> USE <1>0 DEF JobStorageAgreement
<1>1. CASE UNCHANGED jobVars
  BY <1>1 DEF jobVars
<1>2. ASSUME NEW w \in Workers, WritesJob(w) PROVE JobStorageAgreement'
  <2>1. CASE Sweep(w)
    BY <2>1 DEF Sweep
  <2>2. CASE Claim(w)
    BY <2>2 DEF Claim, StorageMayLeaveReady
  <2>3. CASE CompleteWrite(w)
    <3>1. status = "RUNNING"
      BY <2>3 DEF CompleteWrite, Held, Busy
    <3>2. provisioned = 0
      BY <3>1
    <3> QED
      BY <2>3, <3>2 DEF CompleteWrite
  <2>4. CASE FailWrite(w)
    <3>1. pc[w] = "failing" /\ storage # "READY" /\ provisioned' = provisioned
      BY <2>4 DEF FailWrite, StorageMayLeaveReady
    <3>2. retry[w] => ~grave[w]
      BY <3>1 DEF RetryIsCurrent, RetriesLeft
    <3>3. \/ status' = "PENDING" /\ storage' = "PENDING"
          \/ status' = "FAILED" /\ storage' \in {"FAILED", "QUARANTINED"}
      BY <2>4, <3>2 DEF FailWrite, StorageAfterFailure
    <3> QED
      BY <3>1, <3>3
  <2> QED
    BY <1>2, <2>1, <2>2, <2>3, <2>4 DEF WritesJob
<1>3. CASE LeaseExpires \/ AdminRetry \/ Push \/ UNCHANGED vars
  BY <1>3 DEF LeaseExpires, AdminRetry, RetryOffered, Push, vars, jobVars
<1> QED
  BY <1>1, <1>2, <1>3, JobWriters DEF Next

LEMMA AttemptsStep == Strict /\ [Next]_vars => AttemptsMatchStatus'
<1> SUFFICES ASSUME Strict, [Next]_vars PROVE AttemptsMatchStatus'
  OBVIOUS
<1>0. Held /\ AttemptsMatchStatus /\ RetryIsCurrent /\ JobTypes
  BY DEF Strict, TypeOK
<1>1. CASE UNCHANGED jobVars
  BY <1>0, <1>1 DEF jobVars, AttemptsMatchStatus
<1>2. ASSUME NEW w \in Workers, WritesJob(w) PROVE AttemptsMatchStatus'
  <2>1. CASE Sweep(w)
    BY <1>0, <2>1 DEF Sweep, AttemptsMatchStatus, JobTypes
  <2>2. CASE Claim(w) \/ CompleteWrite(w)
    BY <2>2 DEF Claim, CompleteWrite, AttemptsMatchStatus
  <2>3. CASE FailWrite(w)
    <3>1. attempt' = attempt /\ maxAttempt' = maxAttempt
      BY <2>3 DEF FailWrite
    <3>2. retry[w] <=> ~grave[w] /\ attempt < maxAttempt
      BY <1>0, <2>3 DEF FailWrite, RetryIsCurrent, RetriesLeft
    <3>3. status' = "PENDING" => attempt < maxAttempt
      BY <2>3, <3>2 DEF FailWrite
    <3>4. storage' = "FAILED" => ~(attempt < maxAttempt)
      BY <2>3, <3>2 DEF FailWrite, StorageAfterFailure
    <3>5. attempt < maxAttempt \/ attempt = maxAttempt
      BY <1>0 DEF JobTypes
    <3> QED
      BY <3>1, <3>3, <3>4, <3>5 DEF AttemptsMatchStatus
  <2> QED
    BY <1>2, <2>1, <2>2, <2>3 DEF WritesJob
<1>3. CASE LeaseExpires \/ Push \/ UNCHANGED vars
  BY <1>0, <1>3 DEF LeaseExpires, Push, vars, jobVars, AttemptsMatchStatus
<1>4. CASE AdminRetry
  <2>1. /\ attempt = maxAttempt /\ attempt' = attempt /\ maxAttempt' = maxAttempt + 1
        /\ storage' = "PENDING"
    BY <1>4 DEF AdminRetry, RetryOffered
  <2> QED
    BY <1>0, <2>1 DEF AttemptsMatchStatus, JobTypes
<1> QED
  BY <1>1, <1>2, <1>3, <1>4, JobWriters DEF Next

LEMMA StrictStep == LeasesHeld /\ Strict /\ [Next]_vars => Strict'
  BY TypeStep, HeldStep, VerifiedStep, RetryIsCurrentStep, ReadyIsOnDiskStep, AgreementStep,
     AttemptsStep DEF Strict

LEMMA StrictAlways == LeasesHeld /\ Spec => []Strict
<1>1. LeasesHeld' <=> LeasesHeld
  OBVIOUS
<1> QED
  BY <1>1, StrictInit, StrictStep, PTL DEF Spec

(* While leases are held, a READY repository is on the disk, job, repository
   and activity feed tell the same story, and a job that waits can be claimed
   (claimNext, complete, fail, process and the administrator's retry). *)
THEOREM RowsTrueAlways == LeasesHeld /\ Spec => []RowsTrue
<1>1. Strict => RowsTrue
  BY DEF Strict, RowsTrue
<1> QED
  BY <1>1, StrictAlways, PTL

(* Then also neither a worker nor the administrator's retry brings a
   repository out of quarantine. *)
THEOREM QuarantineIsFinalAlways == LeasesHeld /\ Spec => QuarantineIsFinal
<1>1. ASSUME Strict, [Next]_vars, storage = "QUARANTINED" PROVE storage' = "QUARANTINED"
  <2>1. status = "FAILED" /\ Held
    BY <1>1 DEF Strict, JobStorageAgreement, TypeOK, JobTypes
  <2>2. ASSUME NEW w \in Workers PROVE ~WritesJob(w)
    BY <2>1, <2>2 DEF Held, Busy, WritesJob, Sweep, Claim, Claimable, CompleteWrite, FailWrite
  <2>3. CASE LeaseExpires \/ AdminRetry \/ Push \/ UNCHANGED vars
    BY <1>1, <2>3 DEF LeaseExpires, AdminRetry, RetryOffered, Push, vars, jobVars
  <2> QED
    BY <1>1, <2>2, <2>3, JobWriters DEF Next, jobVars
<1>2. Strict /\ [Next]_vars => KeepsQuarantine
  BY <1>1 DEF KeepsQuarantine
<1> QED
  BY <1>2, StrictAlways, PTL DEF Spec, QuarantineIsFinal

(* So neither what was pushed nor what was put in quarantine is lost. *)
THEOREM StaysPutAlways == LeasesHeld /\ Spec => StaysPut
  BY PushedIsKeptAlways, QuarantineIsFinalAlways DEF StaysPut

-----------------------------------------------------------------------------
(* The paired backup.  Around the provisioning it changes nothing, so that    *)
(* all that is proved above holds of the backed up system too; and a          *)
(* completed backup is one recovery point.  The argument for the second: a    *)
(* row that is READY stays READY and what was pushed is READY, so that the    *)
(* archive, made after the dump, has whatever the dump promises; and while    *)
(* services are stopped and quiescent nothing moves, so that dump and archive *)
(* are of one state.                                                         *)

LEMMA Projection == [PairNext]_pairVars => [Next]_vars
<1> SUFFICES ASSUME [PairNext]_pairVars PROVE [Next]_vars
  OBVIOUS
<1>1. ASSUME NEW w \in Workers, Serve(w) PROVE Next
  BY <1>1 DEF Serve, Next
<1>2. CASE Others
  BY <1>2 DEF Others, Next
<1>3. CASE Stop \/ Start \/ Tool \/ Abandon \/ UNCHANGED pairVars
  BY <1>3 DEF Stop, Start, Tool, Plan, Dump, Archive, BuildManifest, Seal, Abandon, pairVars
<1> QED
  BY <1>1, <1>2, <1>3 DEF PairNext

(* Whatever is backed up and however services are stopped, the repository goes
   through behaviours of RepositoryProvisioning only (PairedBackup's Others). *)
THEOREM ImplementsProvisioning == PairSpec => Spec
<1>1. PairInit => Init
  BY DEF PairInit
<1> QED
  BY <1>1, Projection, PTL DEF PairSpec, Spec

(* So with leases that outlast the work, rows, feed and disk tell one story in
   the backed up system too (process, complete, pilot.py's stop). *)
THEOREM RowsTrueHere == LeasesHeld /\ PairSpec => []RowsTrue
  BY ImplementsProvisioning, RowsTrueAlways, PTL

-----------------------------------------------------------------------------
(* A READY row stays READY, and what was pushed is READY. *)

PushedIsReady == staging # "pushed" /\ (final = "pushed" => storage = "READY")

LEMMA ReadyStays == storage = "READY" /\ [Next]_vars => storage' = "READY"
<1> SUFFICES ASSUME storage = "READY", [Next]_vars PROVE storage' = "READY"
  OBVIOUS
<1>1. CASE UNCHANGED jobVars
  BY <1>1 DEF jobVars
<1>2. ASSUME NEW w \in Workers, WritesJob(w) PROVE storage' = "READY"
  BY <1>2 DEF WritesJob, Sweep, Claim, CompleteWrite, FailWrite, StorageMayLeaveReady
<1>3. CASE LeaseExpires \/ AdminRetry \/ Push \/ UNCHANGED vars
  BY <1>1, <1>3 DEF LeaseExpires, AdminRetry, RetryOffered, Push, jobVars, vars
<1> QED
  BY <1>1, <1>2, <1>3, JobWriters DEF Next

LEMMA PushedIsReadyInit == Init => PushedIsReady
  BY DEF Init, PushedIsReady

LEMMA PushedIsReadyStep == PushedIsReady /\ [Next]_vars => PushedIsReady'
<1> SUFFICES ASSUME PushedIsReady, [Next]_vars PROVE PushedIsReady'
  OBVIOUS
<1>0. storage = "READY" => storage' = "READY"
  BY ReadyStays
<1>1. CASE UNCHANGED diskVars
  BY <1>0, <1>1 DEF diskVars, PushedIsReady
<1>2. ASSUME NEW w \in Workers, WritesDisk(w) PROVE PushedIsReady'
  BY <1>0, <1>2 DEF WritesDisk, MakeStaging, MarkStaging, InitStaging, Initialised, PublishRename,
                    QuarantineMove, PushedIsReady, diskVars
<1>3. CASE LeaseExpires \/ AdminRetry \/ Push \/ UNCHANGED vars
  BY <1>0, <1>1, <1>3 DEF LeaseExpires, AdminRetry, Push, PushedIsReady, diskVars, vars
<1> QED
  BY <1>1, <1>2, <1>3, DiskWriters DEF Next

-----------------------------------------------------------------------------
(* The invariant: one part for each file of a backup. *)

Working == phase \in {"planned", "dumped", "archived", "listed"}
Dumped == phase \in {"dumped", "archived", "listed", "done"}
Archived == phase \in {"archived", "listed", "done"}

(* While a backup of stopped services is made, nothing can move. *)
Still == followed /\ Working => ~up /\ Quiescent

DumpHolds ==
    Dumped =>
        /\ Restored!JobStorageAgreement /\ Restored!AttemptsMatchStatus
        /\ dump.storage = "READY" => storage = "READY"
        /\ followed => dump.status # "RUNNING"
        /\ followed /\ Working => dump.storage = storage

ArchiveHolds ==
    Archived =>
        /\ dump.storage = "READY" => archive.final \in {"bare", "pushed"}
        /\ archive.final = "pushed" => storage = "READY"
        /\ followed => PushedIsServed /\ archive.staging = "absent"

ManifestHolds ==
    phase \in {"listed", "done"} => (archive.final = "pushed" => counted.storage = "READY")

PairInv == Strict /\ PushedIsReady /\ Still /\ DumpHolds /\ ArchiveHolds /\ ManifestHolds

LEMMA PairInvInit == PairInit => PairInv
  BY StrictInit, PushedIsReadyInit
     DEF PairInit, PairInv, Still, DumpHolds, ArchiveHolds, ManifestHolds, Working, Dumped, Archived

(* What goes on in the system leaves the files of a backup alone. *)
LEMMA SystemStep ==
    ASSUME PairInv, [Next]_vars, UNCHANGED backupVars,
           ~up => UNCHANGED <<staging, storage, status>> \/ status = "RUNNING"
    PROVE  Still' /\ DumpHolds' /\ ArchiveHolds' /\ ManifestHolds'
<1> USE DEF PairInv, backupVars, Working, Dumped, Archived
<1>0. storage = "READY" => storage' = "READY"
  BY ReadyStays
<1>1. followed /\ Working => UNCHANGED <<staging, storage, status>>
  BY DEF Still, Quiescent
<1>2. Still'
  BY <1>1 DEF Still, Quiescent
<1>3. DumpHolds'
  BY <1>0, <1>1 DEF DumpHolds, Restored!JobStorageAgreement, Restored!AttemptsMatchStatus
<1>4. ArchiveHolds' /\ ManifestHolds'
  BY <1>0 DEF ArchiveHolds, ManifestHolds, PushedIsServed
<1> QED
  BY <1>2, <1>3, <1>4

LEMMA ToolStep ==
    ASSUME PairInv, Stop \/ Start \/ Tool \/ Abandon
    PROVE  Still' /\ DumpHolds' /\ ArchiveHolds' /\ ManifestHolds'
<1> USE DEF PairInv, Working, Dumped, Archived
<1>1. Strict /\ ReadyIsOnDisk /\ JobStorageAgreement /\ AttemptsMatchStatus
  BY DEF Strict
<1>2. CASE Stop \/ Start \/ Abandon
  <2>1. Still' /\ ManifestHolds'
    BY <1>2 DEF Stop, Start, Abandon, Still, ManifestHolds, Quiescent, vars
  <2>2. DumpHolds' /\ ArchiveHolds'
    BY <1>2 DEF Stop, Start, Abandon, DumpHolds, ArchiveHolds, PushedIsServed, vars,
                Restored!JobStorageAgreement, Restored!AttemptsMatchStatus
  <2> QED
    BY <2>1, <2>2
<1>3. CASE Plan
  BY <1>3 DEF Plan, Still, DumpHolds, ArchiveHolds, ManifestHolds, Quiescent, vars
<1>4. CASE Dump
  <2>1. /\ dump'.status = status /\ dump'.storage = storage /\ dump'.attempt = attempt
        /\ dump'.maxAttempt = maxAttempt /\ dump'.provisioned = provisioned
    BY <1>4 DEF Dump, Rows
  <2>2. Still' /\ ArchiveHolds' /\ ManifestHolds'
    BY <1>4 DEF Dump, Still, ArchiveHolds, ManifestHolds, Quiescent, vars
  <2>3. (Restored!JobStorageAgreement /\ Restored!AttemptsMatchStatus)'
    BY <1>1, <2>1 DEF JobStorageAgreement, AttemptsMatchStatus,
                      Restored!JobStorageAgreement, Restored!AttemptsMatchStatus
  <2>4. followed' => dump'.status # "RUNNING"
    BY <1>4, <2>1 DEF Dump, Still, Quiescent
  <2> QED
    BY <1>4, <2>1, <2>2, <2>3, <2>4 DEF Dump, DumpHolds, vars
<1>5. CASE Archive
  <2>1. archive'.final = final /\ archive'.staging = staging
    BY <1>5 DEF Archive, Disk
  <2>2. Still' /\ DumpHolds' /\ ManifestHolds'
    BY <1>5 DEF Archive, Still, DumpHolds, ManifestHolds, Quiescent, vars,
                Restored!JobStorageAgreement, Restored!AttemptsMatchStatus
  <2>3. ArchiveHolds'
    BY <1>1, <1>5, <2>1 DEF Archive, ArchiveHolds, DumpHolds, Still, Quiescent, PushedIsServed,
                            PushedIsReady, ReadyIsOnDisk, vars
  <2> QED
    BY <2>2, <2>3
<1>6. CASE BuildManifest \/ Seal
  <2>1. Still' /\ ArchiveHolds'
    BY <1>6 DEF BuildManifest, Seal, Still, ArchiveHolds, PushedIsServed, Quiescent, vars
  <2>2. DumpHolds'
    BY <1>6 DEF BuildManifest, Seal, DumpHolds, vars,
                Restored!JobStorageAgreement, Restored!AttemptsMatchStatus
  <2>3. ManifestHolds'
    BY <1>6 DEF BuildManifest, Seal, ManifestHolds, ArchiveHolds, vars
  <2> QED
    BY <2>1, <2>2, <2>3
<1> QED
  BY <1>2, <1>3, <1>4, <1>5, <1>6 DEF Tool

LEMMA PairInvStep == LeasesHeld /\ PairInv /\ [PairNext]_pairVars => PairInv'
<1> SUFFICES ASSUME LeasesHeld, PairInv, [PairNext]_pairVars PROVE PairInv'
  OBVIOUS
<1>0. [Next]_vars
  BY Projection
<1>1. Strict' /\ PushedIsReady'
  BY <1>0, StrictStep, PushedIsReadyStep DEF PairInv
<1>2. ASSUME NEW w \in Workers, Serve(w)
      PROVE  Still' /\ DumpHolds' /\ ArchiveHolds' /\ ManifestHolds'
  BY <1>0, <1>2, SystemStep DEF Serve
<1>3. ASSUME Others PROVE Still' /\ DumpHolds' /\ ArchiveHolds' /\ ManifestHolds'
  BY <1>0, <1>3, SystemStep DEF Others, LeaseExpires, diskVars
<1>4. ASSUME UNCHANGED pairVars PROVE Still' /\ DumpHolds' /\ ArchiveHolds' /\ ManifestHolds'
  BY <1>0, <1>4, SystemStep DEF pairVars, vars
<1>5. ASSUME Stop \/ Start \/ Tool \/ Abandon
      PROVE  Still' /\ DumpHolds' /\ ArchiveHolds' /\ ManifestHolds'
  BY <1>5, ToolStep
<1> QED
  BY <1>1, <1>2, <1>3, <1>4, <1>5 DEF PairNext, PairInv

(* A backup that was completed while services were stopped, or that passes
   verification, restores to rows that are true of their disk, and no pushed
   repository would be put in quarantine (executePairedBackupPlan,
   buildRestoreEvidence). *)
THEOREM BackupSoundAlways == LeasesHeld /\ PairSpec => []BackupSound
<1>1. PairInv => BackupSound
  BY DEF PairInv, BackupSound, DumpHolds, ArchiveHolds, ManifestHolds, Dumped, Archived,
         PassesVerification, Corresponds, PushedIsServed, Restored!RowsTrue, Restored!ReadyIsOnDisk
<1>2. LeasesHeld' <=> LeasesHeld
  OBVIOUS
<1> QED
  BY <1>1, <1>2, PairInvInit, PairInvStep, PTL DEF PairSpec
=============================================================================
