----------------------- MODULE RepositoryProvisioning -----------------------
(***************************************************************************)
(* One repository on its way to the disk: the provisioning job in the       *)
(* database (src/server/src/infrastructure/job-queue/                       *)
(* repository-provisioning-queue.ts), the directories the Git workers build *)
(* it in (modules/repositories/repository-provisioning.service.ts,          *)
(* infrastructure/storage/repository-storage.ts), and the administrator who *)
(* retries it (modules/admin/admin.repository.ts).                          *)
(*                                                                         *)
(* The database and the file system share no transaction.  All workers use  *)
(* the same staging and final directory for the repository, and every call  *)
(* on the file system is a step: another worker, a crash or an expired      *)
(* lease may come between any two.  complete and fail read the job without  *)
(* a lock and write later in the same transaction: two steps each.          *)
(* The retry backoff is left out: a PENDING job may be claimed at any time. *)
(***************************************************************************)
EXTENDS Naturals

CONSTANTS
    Workers,     \* worker incarnations: each start draws a new randomUUID()
    NoWorker,    \* the null of worker_id
    MaxAttempts, \* GIT_PROVISIONING_MAX_ATTEMPTS
    RetryCap,    \* the ceiling of max_claim_attempts
    LeasesHeld   \* does a lease outlast the work done under it?

ASSUME NullAssumption == NoWorker \notin Workers
ASSUME LimitAssumption == /\ MaxAttempts \in Nat \ {0} /\ RetryCap \in Nat
                          /\ MaxAttempts <= RetryCap
ASSUME SwitchAssumption == LeasesHeld \in BOOLEAN

(* What a directory of the repository holds: nothing, something without the
   ownership marker, the marker alone, an empty bare repository with its
   marker, one that students have pushed to. *)
Directories == {"absent", "unmarked", "marked", "bare", "pushed"}

VARIABLES
    status,      \* repository_provisioning_jobs.status
    attempt,     \* claim_attempt
    maxAttempt,  \* max_claim_attempts
    owner,       \* worker_id
    expired,     \* lease_expires_at <= now, for a RUNNING job
    keyed,       \* is quarantine_key set?
    storage,     \* repositories.storage_status
    provisioned, \* REPOSITORY_PROVISIONED activities recorded
    staging,     \* the staging directory
    final,       \* the directory Git is served from
    quarantined, \* what has been moved to quarantine
    pc,          \* where each worker is
    grave,       \* does its failure call for quarantine?
    source,      \* the directory quarantine has chosen to move
    moved,       \* has quarantine moved one?
    retry        \* fail's local `retry`, once computed

jobVars == <<status, attempt, maxAttempt, owner, expired, keyed, storage, provisioned>>
diskVars == <<staging, final, quarantined>>
localVars == <<grave, source, moved, retry>>
vars == <<status, attempt, maxAttempt, owner, expired, keyed, storage, provisioned,
          staging, final, quarantined, pc, grave, source, moved, retry>>

(* createPersonal, and its siblings: repository and job in one transaction.
   A directory nobody has provisioned may be in the way. *)
Init ==
    /\ status = "PENDING" /\ attempt = 0 /\ maxAttempt = MaxAttempts
    /\ owner = NoWorker /\ expired = FALSE /\ keyed = FALSE
    /\ storage = "PENDING" /\ provisioned = 0
    /\ staging = "absent" /\ final \in {"absent", "unmarked"} /\ quarantined = {}
    /\ pc = [w \in Workers |-> "idle"]
    /\ grave = [w \in Workers |-> FALSE]
    /\ source = [w \in Workers |-> "none"]
    /\ moved = [w \in Workers |-> FALSE]
    /\ retry = [w \in Workers |-> FALSE]

Goto(w, label) == pc' = [pc EXCEPT ![w] = label]

(* A transaction that leaves storage_path set on a row that is not READY is
   refused by repositories_storage_lifecycle_check. *)
StorageMayLeaveReady == storage # "READY"

-----------------------------------------------------------------------------
(* claimNext: first the sweep of markExpiredExhausted, then a claim.        *)

Sweep(w) ==
    /\ pc[w] = "idle"
    /\ status = "RUNNING" /\ expired /\ attempt >= maxAttempt
    /\ StorageMayLeaveReady
    /\ status' = "FAILED" /\ storage' = "FAILED"
    /\ owner' = NoWorker /\ expired' = FALSE
    /\ UNCHANGED <<attempt, maxAttempt, keyed, provisioned, diskVars, pc, localVars>>

(* Mutant: expired leases are not taken over. *)
ClaimablePendingOnly == status = "PENDING" /\ attempt < maxAttempt
Claimable ==
    /\ status = "PENDING" \/ (status = "RUNNING" /\ expired)
    /\ attempt < maxAttempt

Claim(w) ==
    /\ pc[w] = "idle"
    /\ Claimable
    /\ StorageMayLeaveReady
    /\ status' = "RUNNING" /\ attempt' = attempt + 1
    /\ owner' = w /\ expired' = FALSE
    /\ storage' = "PROVISIONING"
    /\ Goto(w, "look")
    /\ UNCHANGED <<maxAttempt, keyed, provisioned, diskVars, localVars>>

-----------------------------------------------------------------------------
(* process.  A failure whose code is in QUARANTINE_FAILURES is grave.       *)

Fails(w) ==
    /\ Goto(w, "fail")
    /\ UNCHANGED localVars

FailsGravely(w) ==
    /\ Goto(w, "quarantine")
    /\ grave' = [grave EXCEPT ![w] = TRUE]
    /\ UNCHANGED <<source, moved, retry>>

Continues(w, label) == Goto(w, label) /\ UNCHANGED localVars

Marked(dir) == dir \in {"marked", "bare", "pushed"}

(* Does the repository exist at its final path?  Then what an earlier claim
   has published is only verified again. *)
Look(w) ==
    /\ pc[w] = "look"
    /\ Continues(w, IF final = "absent" THEN "mkdir" ELSE "checkFinal")
    /\ UNCHANGED <<jobVars, diskVars>>

(* prepareStaging: a directory left by an earlier claim is taken over if it
   carries the marker; one whose marker cannot be read has a bad one. *)
MakeStaging(w) ==
    /\ pc[w] = "mkdir"
    /\ \/ staging = "absent" /\ staging' = "unmarked" /\ Continues(w, "mark")
       \/ Marked(staging) /\ UNCHANGED staging /\ Continues(w, "init")
       \/ staging # "absent" /\ UNCHANGED staging /\ FailsGravely(w)
    /\ UNCHANGED <<jobVars, final, quarantined>>

MarkStaging(w) ==
    /\ pc[w] = "mark"
    /\ IF staging = "unmarked"
       THEN staging' = "marked" /\ Continues(w, "init")
       ELSE UNCHANGED staging /\ Fails(w)
    /\ UNCHANGED <<jobVars, final, quarantined>>

(* git init creates what is missing; killed at its timeout, it may or may
   not have done its work. *)
Initialised(dir) == IF Marked(dir) THEN "bare" ELSE "unmarked"

InitStaging(w) ==
    /\ pc[w] = "init"
    /\ \/ staging' = Initialised(staging) /\ Continues(w, "checkStaging")
       \/ staging' \in {staging, Initialised(staging)} /\ Fails(w)
    /\ UNCHANGED <<jobVars, final, quarantined>>

(* verifyMarker and verifyEmptyBare.  Any failure of the second, a timeout
   of one of its commands included, is grave. *)
CheckStaging(w) ==
    /\ pc[w] = "checkStaging"
    /\ \/ staging = "bare" /\ Continues(w, "publish")
       \/ FailsGravely(w)
    /\ UNCHANGED <<jobVars, diskVars>>

(* publish: verify the marker, rename.  rename replaces no directory that
   holds anything. *)
PublishCheck(w) ==
    /\ pc[w] = "publish"
    /\ \/ Marked(staging) /\ Continues(w, "rename")
       \/ FailsGravely(w)
    /\ UNCHANGED <<jobVars, diskVars>>

PublishRename(w) ==
    /\ pc[w] = "rename"
    /\ \/ /\ staging # "absent" /\ final = "absent"
          /\ final' = staging /\ staging' = "absent"
          /\ Continues(w, "checkFinal")
       \/ /\ staging # "absent" /\ final # "absent"
          /\ UNCHANGED <<staging, final>>
          /\ \/ Marked(final) /\ Continues(w, "checkFinal")
             \/ FailsGravely(w)
       \/ staging = "absent" /\ UNCHANGED <<staging, final>> /\ Fails(w)
    /\ UNCHANGED <<jobVars, quarantined>>

(* Mutant: the published repository is not verified again. *)
CheckFinalSkipped(w) ==
    /\ pc[w] = "checkFinal"
    /\ Continues(w, "measure")
    /\ UNCHANGED <<jobVars, diskVars>>

CheckFinal(w) ==
    /\ pc[w] = "checkFinal"
    /\ \/ final = "bare" /\ Continues(w, "measure")
       \/ FailsGravely(w)
    /\ UNCHANGED <<jobVars, diskVars>>

Measure(w) ==
    /\ pc[w] = "measure"
    /\ \/ final # "absent" /\ Continues(w, "complete")
       \/ Fails(w)
    /\ UNCHANGED <<jobVars, diskVars>>

(* A call on the file system fails, with no code of QUARANTINE_FAILURES. *)
StorageFails(w) ==
    /\ pc[w] \in {"look", "mkdir", "mark", "publish", "rename"}
    /\ Fails(w)
    /\ UNCHANGED <<jobVars, diskVars>>

-----------------------------------------------------------------------------
(* complete *)

StillOwns(w) == status = "RUNNING" /\ owner = w

CompleteRead(w) ==
    /\ pc[w] = "complete"
    /\ Continues(w, IF StillOwns(w) THEN "completing" ELSE "idle")
    /\ UNCHANGED <<jobVars, diskVars>>

CompleteWrite(w) ==
    /\ pc[w] = "completing"
    /\ status' = "SUCCEEDED" /\ storage' = "READY"
    /\ owner' = NoWorker /\ expired' = FALSE
    /\ provisioned' = provisioned + 1
    /\ Continues(w, "idle")
    /\ UNCHANGED <<attempt, maxAttempt, keyed, diskVars>>

(* The database refuses or loses the transaction; process takes it for a
   failure of the work. *)
CompleteAborts(w) ==
    /\ pc[w] \in {"complete", "completing"}
    /\ Fails(w)
    /\ UNCHANGED <<jobVars, diskVars>>

-----------------------------------------------------------------------------
(* quarantine, then fail *)

QuarantineLook(w) ==
    /\ pc[w] = "quarantine"
    /\ source' = [source EXCEPT ![w] = IF staging # "absent" THEN "staging"
                                       ELSE IF final # "absent" THEN "final" ELSE "none"]
    /\ Goto(w, IF source'[w] = "none" THEN "fail" ELSE "moving")
    /\ UNCHANGED <<jobVars, diskVars, grave, moved, retry>>

(* The rename; its errors are ignored. *)
QuarantineMove(w) ==
    /\ pc[w] = "moving"
    /\ \/ /\ source[w] = "staging" /\ staging # "absent"
          /\ quarantined' = quarantined \union {staging} /\ staging' = "absent"
          /\ moved' = [moved EXCEPT ![w] = TRUE]
          /\ UNCHANGED final
       \/ /\ source[w] = "final" /\ final # "absent"
          /\ quarantined' = quarantined \union {final} /\ final' = "absent"
          /\ moved' = [moved EXCEPT ![w] = TRUE]
          /\ UNCHANGED staging
       \/ UNCHANGED <<diskVars, moved>>
    /\ Goto(w, "fail")
    /\ UNCHANGED <<jobVars, grave, source, retry>>

Forget(w) ==
    /\ grave' = [grave EXCEPT ![w] = FALSE]
    /\ source' = [source EXCEPT ![w] = "none"]
    /\ moved' = [moved EXCEPT ![w] = FALSE]
    /\ retry' = [retry EXCEPT ![w] = FALSE]

RetriesLeft(w) == ~grave[w] /\ attempt < maxAttempt

FailRead(w) ==
    /\ pc[w] = "fail"
    /\ IF StillOwns(w)
       THEN /\ retry' = [retry EXCEPT ![w] = RetriesLeft(w)]
            /\ Goto(w, "failing")
            /\ UNCHANGED <<grave, source, moved>>
       ELSE Goto(w, "idle") /\ Forget(w)
    /\ UNCHANGED <<jobVars, diskVars>>

StorageAfterFailure(w) ==
    IF grave[w] THEN "QUARANTINED" ELSE IF retry[w] THEN "PENDING" ELSE "FAILED"

FailWrite(w) ==
    /\ pc[w] = "failing"
    /\ StorageMayLeaveReady
    /\ status' = IF retry[w] THEN "PENDING" ELSE "FAILED"
    /\ keyed' = IF retry[w] THEN keyed ELSE moved[w]
    /\ owner' = NoWorker /\ expired' = FALSE
    /\ storage' = StorageAfterFailure(w)
    /\ Goto(w, "idle") /\ Forget(w)
    /\ UNCHANGED <<attempt, maxAttempt, provisioned, diskVars>>

-----------------------------------------------------------------------------
(* What happens to the workers. *)

(* The process stops: it is killed, or an error of claimNext or fail ends it.
   The one that is alive last stands for those the supervisor starts. *)
WorkerDies(w) ==
    /\ pc[w] # "dead"
    /\ \E v \in Workers \ {w} : pc[v] # "dead"
    /\ Goto(w, "dead") /\ Forget(w)
    /\ UNCHANGED <<jobVars, diskVars>>

LeaseExpires ==
    /\ status = "RUNNING" /\ ~expired
    /\ LeasesHeld => pc[owner] \in {"idle", "dead"}
    /\ expired' = TRUE
    /\ UNCHANGED <<status, attempt, maxAttempt, owner, keyed, storage, provisioned,
                   diskVars, pc, localVars>>

-----------------------------------------------------------------------------
(* The administrator retries an exhausted job.  Mutant: a quarantined one
   too. *)
RetryOfferedQuarantined ==
    /\ status = "FAILED" /\ storage \in {"FAILED", "QUARANTINED"}
    /\ maxAttempt < RetryCap
RetryOffered ==
    /\ status = "FAILED" /\ storage = "FAILED" /\ ~keyed
    /\ attempt = maxAttempt /\ maxAttempt < RetryCap

AdminRetry ==
    /\ RetryOffered
    /\ status' = "PENDING" /\ storage' = "PENDING"
    /\ maxAttempt' = maxAttempt + 1
    /\ owner' = NoWorker /\ expired' = FALSE
    /\ UNCHANGED <<attempt, keyed, provisioned, diskVars, pc, localVars>>

(* A student pushes: Git is served only from a READY repository, whose
   directory must carry the marker. *)
Push ==
    /\ storage = "READY" /\ final = "bare"
    /\ final' = "pushed"
    /\ UNCHANGED <<jobVars, staging, quarantined, pc, localVars>>

-----------------------------------------------------------------------------
WorkerStep(w) ==
    \/ Sweep(w)
    \/ Claim(w)
    \/ Look(w)
    \/ MakeStaging(w)
    \/ MarkStaging(w)
    \/ InitStaging(w)
    \/ CheckStaging(w)
    \/ PublishCheck(w)
    \/ PublishRename(w)
    \/ CheckFinal(w)
    \/ Measure(w)
    \/ StorageFails(w)
    \/ CompleteRead(w)
    \/ CompleteWrite(w)
    \/ CompleteAborts(w)
    \/ QuarantineLook(w)
    \/ QuarantineMove(w)
    \/ FailRead(w)
    \/ FailWrite(w)

Next ==
    \/ \E w \in Workers : WorkerStep(w) \/ WorkerDies(w)
    \/ LeaseExpires
    \/ AdminRetry
    \/ Push

Spec == Init /\ [][Next]_vars

(* A live worker goes on, and time passes.  Nobody has to die, to retry or to
   push. *)
Fairness == WF_vars(LeaseExpires) /\ \A w \in Workers : WF_vars(WorkerStep(w))

FairSpec == Spec /\ Fairness

-----------------------------------------------------------------------------
Labels == {"idle", "look", "mkdir", "mark", "init", "checkStaging", "publish", "rename",
           "checkFinal", "measure", "complete", "completing", "quarantine", "moving",
           "fail", "failing", "dead"}

JobTypes ==
    /\ status \in {"PENDING", "RUNNING", "SUCCEEDED", "FAILED"}
    /\ attempt \in Nat /\ maxAttempt \in Nat
    /\ attempt <= maxAttempt /\ maxAttempt <= RetryCap
    /\ owner \in Workers \union {NoWorker}
    /\ storage \in {"PENDING", "PROVISIONING", "READY", "FAILED", "QUARANTINED"}
    /\ provisioned \in Nat

JobFlags == expired \in BOOLEAN /\ keyed \in BOOLEAN

DiskTypes ==
    staging \in Directories /\ final \in Directories /\ quarantined \subseteq Directories

LocalTypes ==
    /\ pc \in [Workers -> Labels]
    /\ grave \in [Workers -> BOOLEAN]
    /\ source \in [Workers -> {"none", "staging", "final"}]
    /\ moved \in [Workers -> BOOLEAN]
    /\ retry \in [Workers -> BOOLEAN]

TypeOK == JobTypes /\ JobFlags /\ DiskTypes /\ LocalTypes

(* While leases are held, a READY repository is on the disk, verified or
   pushed to since: no crash, retry or failure of an earlier claim takes it
   away (process, complete). *)
ReadyIsOnDisk == storage = "READY" => final \in {"bare", "pushed"}

(* The job, the repository row and the feed agree: one REPOSITORY_PROVISIONED
   activity for a READY repository, none before (complete, and every
   transaction that writes storage_status). *)
JobStorageAgreement ==
    /\ status = "SUCCEEDED" <=> storage = "READY"
    /\ status = "RUNNING" => storage = "PROVISIONING"
    /\ status = "PENDING" => storage = "PENDING"
    /\ status = "FAILED" => storage \in {"FAILED", "QUARANTINED"}
    /\ provisioned = IF storage = "READY" THEN 1 ELSE 0

(* A job that waits can be claimed; one that failed for want of attempts has
   used them all, so that the administrator's retry gives it one. *)
AttemptsMatchStatus ==
    /\ status = "PENDING" => attempt < maxAttempt
    /\ storage = "FAILED" => attempt = maxAttempt

(* Nothing but a person can bring a repository out of quarantine. *)
KeepsQuarantine == storage = "QUARANTINED" => storage' = "QUARANTINED"
QuarantineIsFinal == [][KeepsQuarantine]_vars

(* What students pushed is never overwritten or deleted, whatever leases do:
   it leaves its place only for quarantine. *)
KeepsPushed ==
    /\ "pushed" \in quarantined => "pushed" \in quarantined'
    /\ final = "pushed" => final' = "pushed" \/ "pushed" \in quarantined'
PushedIsKept == [][KeepsPushed]_vars

(* The row of a repository, its job's row, the feed and the disk tell one story,
   wherever a worker died. *)
RowsTrue == ReadyIsOnDisk /\ JobStorageAgreement /\ AttemptsMatchStatus

(* What was pushed and what was put in quarantine stay where they are. *)
StaysPut == PushedIsKept /\ QuarantineIsFinal

(* Every job comes to an end: it is not left waiting or RUNNING for ever by
   the death of a worker. *)
Settles == <>[](status \in {"SUCCEEDED", "FAILED"})
=============================================================================
