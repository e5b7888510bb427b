---------------------------- MODULE Checkpoints ----------------------------
(***************************************************************************)
(* Browser checkpoints of one activity workspace: the queue                 *)
(* (src/server/src/infrastructure/job-queue/repository-checkpoint-queue.ts  *)
(* and activity-workspace-checkpoint.repository.ts), the worker that        *)
(* processes a job (activity-workspace-checkpoint-worker.service.ts) and    *)
(* the writer that clones, commits and pushes                               *)
(* (infrastructure/git/git-activity-checkpoint-writer.ts).                  *)
(*                                                                         *)
(* There is no receipt: a writer whose push has landed and whose job was    *)
(* not completed recognises its own commit when it finds it at the head.    *)
(* main is only ever extended, so it is the sequence of what its commits    *)
(* come from, and a head is a length of it; 0 is the empty repository.      *)
(***************************************************************************)
EXTENDS Naturals, Sequences, SequencesExt

CONSTANTS
    Jobs,         \* checkpoints a student may ask for, in one workspace
    Native,       \* the origin of a commit that was pushed natively
    Workers,      \* worker incarnations: a restarted process is a new one
    NoWorker,     \* no worker
    NoJob,        \* no job
    MaxAttempts,  \* max_claim_attempts of a job
    MaxPushes,    \* bound on native pushes
    MaxFaults     \* bound on failed or timed out Git commands and transactions

ASSUME CheckpointAssumption == /\ Native \notin Jobs /\ NoJob \notin Jobs
                               /\ NoWorker \notin Workers
                               /\ MaxAttempts \in Nat \ {0}
                               /\ MaxPushes \in Nat /\ MaxFaults \in Nat

VARIABLES
    jobs,      \* repository_checkpoint_jobs
    recorded,  \* COMMIT activities of each job
    main,      \* the branch: the origins of its commits
    writable,  \* does the student's access let him update main?
    workers,   \* what each worker is doing, for which job, from which clone
    upset      \* has any command or transaction failed, or any lease run out?

vars == <<jobs, recorded, main, writable, workers, upset>>

NewJob == [status |-> "NONE", attempts |-> 0, worker |-> NoWorker, lease |-> "none",
           expected |-> 0, result |-> 0]
Idle == [pc |-> "idle", job |-> NoJob, head |-> 0]
Faults == upset < MaxFaults

Init ==
    /\ jobs = [j \in Jobs |-> NewJob]
    /\ recorded = [j \in Jobs |-> 0]
    /\ main = <<>>
    /\ writable = TRUE
    /\ workers = [w \in Workers |-> Idle]
    /\ upset = 0

At(w, label) == workers[w].pc = label
Goto(w, label) == workers' = [workers EXCEPT ![w].pc = label]
Owns(w, j) == jobs[j].status = "RUNNING" /\ jobs[j].worker = w
Ended(j, status) == [jobs[j] EXCEPT !.status = status, !.worker = NoWorker, !.lease = "none"]

-----------------------------------------------------------------------------
(* The student.                                                             *)

(* create: the editor may have been loaded at any earlier head; the partial
   index lets one job of a repository be active. *)
Create(j) ==
    /\ jobs[j].status = "NONE" /\ writable
    /\ \A k \in Jobs : jobs[k].status \notin {"PENDING", "RUNNING"}
    /\ \E head \in 0..Len(main) :
          jobs' = [jobs EXCEPT ![j].status = "PENDING", ![j].expected = head]
    /\ UNCHANGED <<recorded, main, writable, workers, upset>>

(* A native push, by the same student. *)
NativePush ==
    /\ writable
    /\ Len(SelectSeq(main, LAMBDA c : c = Native)) < MaxPushes
    /\ main' = Append(main, Native)
    /\ UNCHANGED <<jobs, recorded, writable, workers, upset>>

(* The activity closes, the due date passes, a membership ends; or returns. *)
ChangeAccess ==
    /\ writable' = ~writable
    /\ UNCHANGED <<jobs, recorded, main, workers, upset>>

-----------------------------------------------------------------------------
(* claimNext.                                                               *)

Exhausted(j) == /\ jobs[j].status = "RUNNING" /\ jobs[j].lease = "expired"
                /\ jobs[j].attempts >= MaxAttempts
Swept == [j \in Jobs |-> IF Exhausted(j) THEN Ended(j, "FAILED") ELSE jobs[j]]

Claimable(j) ==
    /\ \/ jobs[j].status = "PENDING"
       \/ jobs[j].status = "RUNNING" /\ jobs[j].lease = "expired"
    /\ jobs[j].attempts < MaxAttempts

Claim(w, j) ==
    /\ At(w, "idle") /\ Claimable(j)
    /\ jobs' = [Swept EXCEPT ![j] = [jobs[j] EXCEPT !.status = "RUNNING", !.worker = w,
                                     !.lease = "held", !.attempts = @ + 1]]
    /\ workers' = [workers EXCEPT ![w] = [pc |-> "claimed", job |-> j, head |-> 0]]
    /\ UNCHANGED <<recorded, main, writable, upset>>

(* Nothing to claim, but something to sweep. *)
Sweep(w) ==
    /\ At(w, "idle")
    /\ \E j \in Jobs : Exhausted(j)
    /\ \A j \in Jobs : ~Claimable(j)
    /\ jobs' = Swept
    /\ UNCHANGED <<recorded, main, writable, workers, upset>>

-----------------------------------------------------------------------------
(* process and write.                                                       *)

(* canUpdateMain, before anything is prepared. *)
CheckAccess(w) ==
    /\ At(w, "claimed")
    /\ Goto(w, IF writable THEN "cloning" ELSE "refused")
    /\ UNCHANGED <<jobs, recorded, main, writable, upset>>

(* The head of the clone is the expected one, or the job's own commit, or
   somebody has been there.
   Mutant: the writer commits on whatever head it finds. *)
CloneAnyHead(w) ==
    /\ At(w, "cloning")
    /\ workers' = [workers EXCEPT ![w].pc = "committed", ![w].head = Len(main)]
    /\ UNCHANGED <<jobs, recorded, main, writable, upset>>

OwnHead(j) == main # <<>> /\ Last(main) = j
Clone(w) ==
    /\ At(w, "cloning")
    /\ LET j == workers[w].job IN
       workers' = [workers EXCEPT ![w].pc = IF Len(main) = jobs[j].expected THEN "committed"
                                            ELSE IF OwnHead(j) THEN "saved" ELSE "conflict",
                                  ![w].head = Len(main)]
    /\ UNCHANGED <<jobs, recorded, main, writable, upset>>

(* beforePush. *)
BeforePush(w) ==
    /\ At(w, "committed")
    /\ Goto(w, IF writable THEN "pushing" ELSE "refused")
    /\ UNCHANGED <<jobs, recorded, main, writable, upset>>

(* git push refuses what is not a fast-forward of main as it is now.
   Mutant: the push is forced. *)
PushForced(w) ==
    /\ At(w, "pushing")
    /\ main' = Append(SubSeq(main, 1, workers[w].head), workers[w].job)
    /\ workers' = [workers EXCEPT ![w].pc = "saved", ![w].head = Len(main')]
    /\ UNCHANGED <<jobs, recorded, writable, upset>>

Push(w) ==
    /\ At(w, "pushing")
    /\ IF Len(main) = workers[w].head
       THEN /\ main' = Append(main, workers[w].job)
            /\ workers' = [workers EXCEPT ![w].pc = "saved", ![w].head = Len(main')]
       ELSE UNCHANGED main /\ Goto(w, "conflict")
    /\ UNCHANGED <<jobs, recorded, writable, upset>>

(* A push that times out may have landed. *)
PushTimesOut(w) ==
    /\ At(w, "pushing") /\ Faults
    /\ upset' = upset + 1
    /\ \/ UNCHANGED main
       \/ Len(main) = workers[w].head /\ main' = Append(main, workers[w].job)
    /\ Goto(w, "failed")
    /\ UNCHANGED <<jobs, recorded, writable>>

(* Any other command or query fails. *)
CommandFails(w) ==
    /\ workers[w].pc \in {"claimed", "cloning", "committed", "saved"} /\ Faults
    /\ upset' = upset + 1
    /\ Goto(w, "failed")
    /\ UNCHANGED <<jobs, recorded, main, writable>>

(* complete, fenced by the owner's name. *)
Complete(w) ==
    /\ At(w, "saved")
    /\ LET j == workers[w].job IN
       IF Owns(w, j)
       THEN /\ jobs' = [jobs EXCEPT ![j] = [Ended(j, "SUCCEEDED") EXCEPT !.result = workers[w].head]]
            /\ recorded' = [recorded EXCEPT ![j] = @ + 1]
       ELSE UNCHANGED <<jobs, recorded>>
    /\ workers' = [workers EXCEPT ![w] = Idle]
    /\ UNCHANGED <<main, writable, upset>>

(* fail: what a conflict or a refusal decides is final, anything else is
   retried while attempts are left.  Mutant: one attempt too many is awaited. *)
AfterFailureOffByOne(j, why) ==
    CASE why = "conflict" -> "CONFLICTED"
      [] why = "refused" -> "FAILED"
      [] OTHER -> IF jobs[j].attempts <= MaxAttempts THEN "PENDING" ELSE "FAILED"

AfterFailure(j, why) ==
    CASE why = "conflict" -> "CONFLICTED"
      [] why = "refused" -> "FAILED"
      [] OTHER -> IF jobs[j].attempts < MaxAttempts THEN "PENDING" ELSE "FAILED"

Fail(w) ==
    /\ workers[w].pc \in {"conflict", "refused", "failed"}
    /\ LET j == workers[w].job IN
       jobs' = IF Owns(w, j) THEN [jobs EXCEPT ![j] = Ended(j, AfterFailure(j, workers[w].pc))]
                             ELSE jobs
    /\ workers' = [workers EXCEPT ![w] = Idle]
    /\ UNCHANGED <<recorded, main, writable, upset>>

-----------------------------------------------------------------------------
(* The process dies; an error of fail ends it too. *)
Crash(w) ==
    /\ workers[w].pc \notin {"dead", "idle"} /\ Faults
    /\ upset' = upset + 1
    /\ workers' = [workers EXCEPT ![w] = [Idle EXCEPT !.pc = "dead"]]
    /\ UNCHANGED <<jobs, recorded, main, writable>>

(* The lease of a dead worker runs out; under a living one it may, since it is
   never renewed. *)
ExpireLease(j) ==
    /\ jobs[j].status = "RUNNING" /\ jobs[j].lease = "held"
    /\ \/ At(jobs[j].worker, "dead") /\ UNCHANGED upset
       \/ ~At(jobs[j].worker, "dead") /\ Faults /\ upset' = upset + 1
    /\ jobs' = [jobs EXCEPT ![j].lease = "expired"]
    /\ UNCHANGED <<recorded, main, writable, workers>>

Work(w) ==
    \/ \E j \in Jobs : Claim(w, j)
    \/ Sweep(w)
    \/ CheckAccess(w)
    \/ Clone(w)
    \/ BeforePush(w)
    \/ Push(w)
    \/ Complete(w)
    \/ Fail(w)

Next ==
    \/ \E j \in Jobs : Create(j) \/ ExpireLease(j)
    \/ NativePush
    \/ ChangeAccess
    \/ \E w \in Workers : Work(w) \/ PushTimesOut(w) \/ CommandFails(w) \/ Crash(w)

Spec == Init /\ [][Next]_vars

(* A worker that runs goes on with what it does, and time passes. *)
Fairness ==
    /\ \A w \in Workers : WF_vars(Work(w))
    /\ \A j \in Jobs : WF_vars(ExpireLease(j))

FairSpec == Spec /\ Fairness

-----------------------------------------------------------------------------
Statuses == {"NONE", "PENDING", "RUNNING", "SUCCEEDED", "FAILED", "CONFLICTED"}
Labels == {"idle", "claimed", "cloning", "committed", "pushing", "saved", "conflict", "refused",
           "failed", "dead"}
Row == [status : Statuses, attempts : 0..MaxAttempts, worker : Workers \union {NoWorker},
        lease : {"none", "held", "expired"}, expected : Nat, result : Nat]
Hand == [pc : Labels, job : Jobs \union {NoJob}, head : Nat]

JobTypes == jobs \in [Jobs -> Row] /\ recorded \in [Jobs -> Nat]
MainTypes == main \in Seq(Jobs \union {Native}) /\ writable \in BOOLEAN
WorkerTypes ==
    /\ workers \in [Workers -> Hand]
    /\ \A w \in Workers : workers[w].job = NoJob <=> workers[w].pc \in {"idle", "dead"}
BoundTypes == upset \in 0..MaxFaults

TypeOK == JobTypes /\ MainTypes /\ WorkerTypes /\ BoundTypes

(* A checkpoint is one commit, however often its job is claimed and by how many
   workers at once, and it follows the head its student was looking at. *)
SavedOnce ==
    \A i \in DOMAIN main : main[i] # Native => jobs[main[i]].expected = i - 1

(* A checkpoint that has SUCCEEDED names its own commit and is in the feed once;
   no other is in the feed. *)
SucceededIsSaved ==
    \A j \in Jobs :
        IF jobs[j].status = "SUCCEEDED"
        THEN recorded[j] = 1 /\ jobs[j].result \in DOMAIN main /\ main[jobs[j].result] = j
        ELSE recorded[j] = 0

(* While nothing fails and no lease runs out, a student who is told that his
   checkpoint conflicted or failed finds no commit of it. *)
RefusedIsNotSaved ==
    \A j \in Jobs : upset = 0 /\ jobs[j].status \in {"FAILED", "CONFLICTED"} =>
        j \notin {main[i] : i \in DOMAIN main}

(* What a student is told of a checkpoint is what main and the feed say. *)
CheckpointToldIsTrue == SavedOnce /\ SucceededIsSaved /\ RefusedIsNotSaved

(* Work that was pushed, natively or by a checkpoint, stays on main. *)
NothingOverwritten == [][IsPrefix(main, main')]_vars

(* As long as one worker incarnation is left, every checkpoint is answered. *)
Answered ==
    \A j \in Jobs : jobs[j].status = "PENDING"
        ~> jobs[j].status \in {"SUCCEEDED", "FAILED", "CONFLICTED"}
           \/ \A w \in Workers : At(w, "dead")
=============================================================================
