------------------------------ MODULE Practice ------------------------------
(***************************************************************************)
(* The practice workspace of one student at one activity whose official     *)
(* attempts are complete                                                    *)
(* (src/server/src/modules/activity-practice/practice.service.ts,           *)
(* practice.worker.ts and practice-policy.ts,                               *)
(* src/server/src/infrastructure/git/git-practice-writer.ts).               *)
(*                                                                         *)
(* Entering queues the job that starts the branch practice/<id>; a saved    *)
(* editor queues a job that adds a commit to it.  A job is published by one *)
(* Git transaction, which moves the branch and creates the job's receipt    *)
(* ref, within a database transaction that holds the job's row and          *)
(* share-locks every row the student's right to practise depends on.  That  *)
(* transaction (60 s) is assumed to outlive the Git update made in it.      *)
(*                                                                         *)
(* The branch is only extended, so it is the sequence of what its commits   *)
(* come from, and a head is a length of it; 0 is no branch.                 *)
(***************************************************************************)
EXTENDS PracticePromises, FiniteSets, SequencesExt

CONSTANTS
    Saves,        \* saves and resets a student may ask for
    Native,       \* the origin of a commit that was pushed natively
    Workers,      \* worker incarnations: a restarted process is a new one
    NoWorker,     \* no worker
    NoJob,        \* no job
    GiveUpAt,     \* claims after which a job that was never started is given up
    MaxPushes,    \* bound on native pushes
    MaxFaults     \* bound on failed commands, crashes and leases lost by the living

Jobs == Saves \union {Initialize}

ASSUME PracticeAssumption == /\ Initialize \notin Saves /\ Native \notin Jobs
                             /\ NoJob \notin Jobs /\ NoWorker \notin Workers
                             /\ GiveUpAt \in Nat \ {0}
                             /\ MaxPushes \in Nat /\ MaxFaults \in Nat

VARIABLES
    entered,      \* the workspace's row exists
    receipts,     \* refs/projex/practice-commits/<job>
    hands,        \* what each worker is doing, and for which job
    troubles      \* faults so far

faultVars == <<troubles, misread>>
vars == <<eligible, entered, initialized, saves, branch, receipts, hands, faultVars>>

NewJob == [status |-> "NONE", attempts |-> 0, worker |-> NoWorker, lease |-> "none",
           started |-> FALSE, expected |-> 0]
Idle == [pc |-> "idle", job |-> NoJob]

Init ==
    /\ eligible = TRUE
    /\ entered = FALSE /\ initialized = FALSE
    /\ saves = [j \in Jobs |-> NewJob]
    /\ branch = <<>>
    /\ receipts = {}
    /\ hands = [w \in Workers |-> Idle]
    /\ troubles = 0 /\ misread = {}

Trouble == troubles < MaxFaults /\ troubles' = troubles + 1
At(w, label) == hands[w].pc = label
Goto(w, label) == hands' = [hands EXCEPT ![w].pc = label]
Owns(w) == LET j == hands[w].job IN saves[j].status = "RUNNING" /\ saves[j].worker = w
Active == {j \in Jobs : saves[j].status \in {"PENDING", "RUNNING"}}

(* Workers inside the publishing transaction hold the job's row and, unless they
   found its receipt, share-lock the rows of the policy. *)
RowFree(j) == \A w \in Workers : hands[w].pc \in {"publishing", "published", "found"} =>
                                    hands[w].job # j
PolicyFree == \A w \in Workers : hands[w].pc \notin {"publishing", "published"}

-----------------------------------------------------------------------------
(* The student and the instructor.                                          *)

(* enter: the initial job is queued once, and again when it has FAILED.  It
   locks the activity's row, which the policy share-locks. *)
Enter ==
    /\ eligible /\ ~initialized
    /\ PolicyFree
    /\ entered' = TRUE
    /\ saves' = [saves EXCEPT ![Initialize] =
                    IF @.status \in {"NONE", "FAILED"} THEN [NewJob EXCEPT !.status = "PENDING"]
                                                       ELSE @]
    /\ saves' # saves
    /\ UNCHANGED <<eligible, initialized, branch, receipts, hands, faultVars>>

(* save: one job at a time; the editor may show any head the branch has had. *)
Save(j) ==
    /\ saves[j].status = "NONE" /\ eligible /\ initialized
    /\ Active = {}
    /\ \E head \in 1..Len(branch) :
          saves' = [saves EXCEPT ![j].status = "PENDING", ![j].expected = head]
    /\ UNCHANGED <<eligible, entered, initialized, branch, receipts, hands, faultVars>>

(* validatePreReceive: a practice branch is pushed to, but neither created nor
   deleted. *)
Pushable == initialized /\ branch # <<>>

NativePush ==
    /\ eligible /\ Pushable
    /\ Len(SelectSeq(branch, LAMBDA c : c = Native)) < MaxPushes
    /\ branch' = Append(branch, Native)
    /\ UNCHANGED <<eligible, entered, initialized, saves, receipts, hands, faultVars>>

(* A longer limit of attempts, an archived class, a membership or an account
   that ends: an update of a row that lockPracticePolicy share-locks.
   Mutant: the policy is not locked. *)
ChangeEligibilityUnlocked ==
    /\ eligible' = ~eligible
    /\ UNCHANGED <<entered, initialized, saves, branch, receipts, hands, faultVars>>

ChangeEligibility ==
    /\ PolicyFree
    /\ eligible' = ~eligible
    /\ UNCHANGED <<entered, initialized, saves, branch, receipts, hands, faultVars>>

-----------------------------------------------------------------------------
(* processNext.                                                             *)

(* Mutant: a claim whose lease ran out stays with the worker that made it. *)
ClaimablePendingOnly(j) == saves[j].status = "PENDING"

Claimable(j) ==
    \/ saves[j].status = "PENDING"
    \/ saves[j].status = "RUNNING" /\ saves[j].lease = "expired"

Claim(w, j) ==
    /\ At(w, "idle") /\ RowFree(j)
    /\ Claimable(j)
    /\ saves' = [saves EXCEPT ![j].status = "RUNNING", ![j].worker = w, ![j].lease = "held",
                              ![j].attempts = IF @ < GiveUpAt THEN @ + 1 ELSE @]
    /\ hands' = [hands EXCEPT ![w] = [pc |-> "claimed", job |-> j]]
    /\ UNCHANGED <<eligible, entered, initialized, branch, receipts, faultVars>>

(* The receipt decides before anything else; without it the student must still
   be eligible, and the head must be the one his editor showed. *)
Look(w) ==
    /\ At(w, "claimed")
    /\ Goto(w, IF hands[w].job \in receipts THEN "prepared"
               ELSE IF eligible THEN "preparing" ELSE "refused")
    /\ UNCHANGED <<eligible, entered, initialized, saves, branch, receipts, faultVars>>

Prepare(w) ==
    /\ At(w, "preparing")
    /\ Goto(w, IF Len(branch) = saves[hands[w].job].expected THEN "prepared" ELSE "conflict")
    /\ UNCHANGED <<eligible, entered, initialized, saves, branch, receipts, faultVars>>

(* publishStarted is set before the transaction. *)
StartPublishing(w) ==
    /\ At(w, "prepared") /\ RowFree(hands[w].job)
    /\ saves' = IF Owns(w) THEN [saves EXCEPT ![hands[w].job].started = TRUE] ELSE saves
    /\ Goto(w, "started")
    /\ UNCHANGED <<eligible, entered, initialized, branch, receipts, faultVars>>

(* The job's row is locked and judged, then the receipt, then the student. *)
LockJob(w) ==
    /\ At(w, "started") /\ RowFree(hands[w].job)
    /\ LET j == hands[w].job IN
       Goto(w, IF ~Owns(w) \/ saves[j].lease # "held" THEN "lost"
               ELSE IF j \in receipts THEN "found"
               ELSE IF eligible THEN "publishing" ELSE "refused")
    /\ UNCHANGED <<eligible, entered, initialized, saves, branch, receipts, faultVars>>

(* publish: the update and the receipt are one Git transaction.  When Git
   refuses it the receipt is looked for again, and without it the branch has
   moved.
   Mutant: the receipt is a command of its own, and may be missing. *)
PublishWithoutReceipt(w) ==
    /\ At(w, "publishing")
    /\ LET j == hands[w].job IN
       IF Len(branch) = saves[j].expected
       THEN /\ branch' = Append(branch, j)
            /\ receipts' \in {receipts, receipts \union {j}}
            /\ Goto(w, IF j \in receipts' THEN "published" ELSE "failed")
       ELSE /\ Goto(w, IF j \in receipts THEN "published" ELSE "conflict")
            /\ UNCHANGED <<branch, receipts>>
    /\ UNCHANGED <<eligible, entered, initialized, saves, faultVars>>

Publish(w) ==
    /\ At(w, "publishing")
    /\ LET j == hands[w].job IN
       IF Len(branch) = saves[j].expected
       THEN /\ branch' = Append(branch, j)
            /\ receipts' = receipts \union {j}
            /\ Goto(w, "published")
       ELSE /\ Goto(w, IF j \in receipts THEN "published" ELSE "conflict")
            /\ UNCHANGED <<branch, receipts>>
    /\ UNCHANGED <<eligible, entered, initialized, saves, faultVars>>

(* revision() answers null when its Git command fails: a ref that is there is
   taken for one that is not.  What is done without the receipt follows. *)
MisreadReceipt(w) ==
    /\ \/ At(w, "claimed") /\ Goto(w, IF eligible THEN "preparing" ELSE "refused")
       \/ /\ At(w, "started") /\ RowFree(hands[w].job)
          /\ Owns(w) /\ saves[hands[w].job].lease = "held"
          /\ Goto(w, IF eligible THEN "publishing" ELSE "refused")
    /\ hands[w].job \in receipts
    /\ Trouble
    /\ misread' = misread \union {hands[w].job}
    /\ UNCHANGED <<eligible, entered, initialized, saves, branch, receipts>>

MisreadHead(w) ==
    /\ At(w, "preparing")
    /\ Trouble
    /\ Goto(w, IF saves[hands[w].job].expected = 0 THEN "prepared" ELSE "conflict")
    /\ UNCHANGED <<eligible, entered, initialized, saves, branch, receipts, misread>>

(* update-ref fails, before or after it has updated, and so does a read of
   publish's catch block. *)
UpdateMisread(w) ==
    /\ At(w, "publishing")
    /\ Trouble
    /\ LET j == hands[w].job IN
       /\ \/ /\ Len(branch) = saves[j].expected
             /\ branch' = Append(branch, j)
             /\ receipts' = receipts \union {j}
          \/ UNCHANGED <<branch, receipts>>
       /\ misread' = IF j \in receipts' THEN misread \union {j} ELSE misread
       /\ \E head \in {0, Len(branch')} :
             Goto(w, IF head = saves[j].expected THEN "failed" ELSE "conflict")
    /\ UNCHANGED <<eligible, entered, initialized, saves>>

(* A Git command other than a read or a query fails, a read is cut off, or the
   publishing transaction does not commit: its row lock is gone, what Git has
   done stays. *)
CommandFails(w) ==
    /\ hands[w].pc \in {"claimed", "preparing", "prepared", "started", "publishing",
                        "published", "found"}
    /\ Trouble
    /\ Goto(w, "failed")
    /\ UNCHANGED <<eligible, entered, initialized, saves, branch, receipts, misread>>

(* complete. *)
Complete(w) ==
    /\ hands[w].pc \in {"published", "found"}
    /\ LET j == hands[w].job IN
       /\ saves' = [saves EXCEPT ![j] = [@ EXCEPT !.status = "SUCCEEDED", !.worker = NoWorker,
                                                  !.lease = "none"]]
       /\ initialized' = (initialized \/ j = Initialize)
    /\ hands' = [hands EXCEPT ![w] = Idle]
    /\ UNCHANGED <<eligible, entered, branch, receipts, faultVars>>

(* The catch block: a refusal and a conflict are final; another failure is too
   when the job was never started and has been claimed often enough. *)
AfterFailure(j, why) ==
    CASE why = "conflict" -> "CONFLICTED"
      [] why = "refused" -> "FAILED"
      [] OTHER -> IF ~saves[j].started /\ saves[j].attempts >= GiveUpAt THEN "FAILED"
                                                                       ELSE "PENDING"

Catch(w) ==
    /\ hands[w].pc \in {"conflict", "refused", "lost", "failed"}
    /\ RowFree(hands[w].job)
    /\ saves' = IF Owns(w)
                THEN [saves EXCEPT ![hands[w].job] =
                         [@ EXCEPT !.status = AfterFailure(hands[w].job, hands[w].pc),
                                   !.worker = NoWorker, !.lease = "none"]]
                ELSE saves
    /\ hands' = [hands EXCEPT ![w] = Idle]
    /\ UNCHANGED <<eligible, entered, initialized, branch, receipts, faultVars>>

-----------------------------------------------------------------------------
(* The process dies; the lease of a dead worker runs out, that of a living one
   may. *)
Crash(w) ==
    /\ hands[w].pc # "dead"
    /\ Trouble
    /\ hands' = [hands EXCEPT ![w] = [Idle EXCEPT !.pc = "dead"]]
    /\ UNCHANGED <<eligible, entered, initialized, saves, branch, receipts, misread>>

ExpireLease(j) ==
    /\ saves[j].status = "RUNNING" /\ saves[j].lease = "held"
    /\ \/ At(saves[j].worker, "dead") /\ UNCHANGED troubles
       \/ ~At(saves[j].worker, "dead") /\ Trouble
    /\ saves' = [saves EXCEPT ![j].lease = "expired"]
    /\ UNCHANGED <<eligible, entered, initialized, branch, receipts, hands, misread>>

Work(w) ==
    \/ \E j \in Jobs : Claim(w, j)
    \/ Look(w)
    \/ Prepare(w)
    \/ StartPublishing(w)
    \/ LockJob(w)
    \/ Publish(w)
    \/ Complete(w)
    \/ Catch(w)

Fault(w) ==
    \/ MisreadReceipt(w)
    \/ MisreadHead(w)
    \/ UpdateMisread(w)
    \/ CommandFails(w)
    \/ Crash(w)

Student ==
    \/ Enter
    \/ \E j \in Saves : Save(j)
    \/ NativePush

Next ==
    \/ Student
    \/ ChangeEligibility
    \/ \E j \in Jobs : ExpireLease(j)
    \/ \E w \in Workers : Work(w) \/ Fault(w)

Spec == Init /\ [][Next]_vars

Fairness ==
    /\ \A w \in Workers : WF_vars(Work(w))
    /\ \A j \in Jobs : WF_vars(ExpireLease(j))

FairSpec == Spec /\ Fairness

-----------------------------------------------------------------------------
Row == [status : {"NONE", "PENDING", "RUNNING", "SUCCEEDED", "FAILED", "CONFLICTED"},
        attempts : 0..GiveUpAt, worker : Workers \union {NoWorker},
        lease : {"none", "held", "expired"}, started : BOOLEAN, expected : Nat]
Labels == {"idle", "claimed", "preparing", "prepared", "started", "publishing", "published",
           "found", "conflict", "refused", "lost", "failed", "dead"}
Hand == [pc : Labels, job : Jobs \union {NoJob}]

SaveTypes == saves \in [Jobs -> Row]
GitTypes == branch \in Seq(Jobs \union {Native}) /\ receipts \subseteq Jobs
WorkerTypes ==
    /\ hands \in [Workers -> Hand]
    /\ \A w \in Workers : hands[w].job = NoJob <=> hands[w].pc \in {"idle", "dead"}
OtherTypes ==
    /\ eligible \in BOOLEAN /\ entered \in BOOLEAN /\ initialized \in BOOLEAN
    /\ troubles \in 0..MaxFaults /\ misread \subseteq Jobs

TypeOK == SaveTypes /\ GitTypes /\ WorkerTypes /\ OtherTypes

(* While a worker lives, a job that was queued is answered, whoever crashed
   under it and however often it is claimed again. *)
Answered ==
    \A j \in Jobs :
        saves[j].status = "PENDING" ~>
            \/ saves[j].status \in {"SUCCEEDED", "FAILED", "CONFLICTED"}
            \/ \A w \in Workers : At(w, "dead")
=============================================================================
