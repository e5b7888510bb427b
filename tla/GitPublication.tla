--------------------------- MODULE GitPublication ---------------------------
(***************************************************************************)
(* Commits, new branches and fast-forwards that students make in the        *)
(* browser, published in one managed repository by Git workers              *)
(* (src/server/src/modules/group-browser-commits,                           *)
(* src/server/src/modules/group-browser-refs,                               *)
(* src/server/src/infrastructure/git/git-group-browser-writer.ts and        *)
(* git-group-browser-ref-writer.ts), while native pushes move the same      *)
(* branches and memberships change.                                         *)
(*                                                                         *)
(* A job is a row of the database; what it publishes is a Git ref.  The two *)
(* are tied by a receipt: one atomic update-ref moves the branch, if it is  *)
(* still where the job expects it, and creates a ref named after the job.   *)
(* The update runs inside a database transaction that holds the job's row   *)
(* and the rows the permission depends on; the transaction has a timeout    *)
(* and Git does not know of it.                                             *)
(*                                                                         *)
(* A commit is identified with the history it ends: a branch head is the    *)
(* sequence of its commits, the empty sequence for a branch that is not     *)
(* there, and "is ancestor" is "is a prefix".  The commit of a job is       *)
(* prepared from its expected head, with the job's own date, and is the     *)
(* same one at every attempt.  Paths and contents are left out: the checks  *)
(* on them are decided by the expected head alone.                          *)
(***************************************************************************)
EXTENDS Naturals, FiniteSets, SequencesExt

CONSTANTS
    Jobs,         \* requests of the browser, one idempotency key each
    Plans,        \* what they may ask for: one request for each job
    Actors,       \* the students who ask
    Branches,     \* branch names
    Main,         \* the protected branch
    MaxBranches,  \* GIT_MAX_BRANCHES
    Workers,      \* Git worker processes
    NoWorker,
    NoJob,
    Lead,         \* the one who leads the team and owns the repository
    GiveUpAt,     \* claims after which an error before publication is final (3)
    MaxMoves,     \* bound on native pushes and changes of permissions
    MaxFaults,    \* bound on crashes, errors, timeouts and overrun leases
    Fenced        \* does a transaction outlive the Git update made in it?

Request == [actor: Actors, operation: {"COMMIT", "CREATE_BRANCH", "FAST_FORWARD"},
            source: Branches, target: Branches]

(* browserRefInput: the branches of a ref action differ, and main is never
   created.  A commit has only its target. *)
ASSUME RequestAssumption ==
    /\ Plans \subseteq [Jobs -> Request]
    /\ \A plan \in Plans, j \in Jobs :
           /\ plan[j].operation = "COMMIT" <=> plan[j].source = plan[j].target
           /\ plan[j].operation = "CREATE_BRANCH" => plan[j].target # Main
ASSUME NullAssumption == /\ Main \in Branches /\ Lead \in Actors
                         /\ NoWorker \notin Workers /\ NoJob \notin Jobs
                         /\ Jobs \intersect Nat = {}   \* a commit is a job's or a push's
ASSUME BoundAssumption == /\ MaxBranches \in Nat \ {0} /\ IsFiniteSet(Branches)
                          /\ MaxMoves \in Nat /\ MaxFaults \in Nat
                          /\ GiveUpAt \in Nat
                          /\ Fenced \in BOOLEAN

VARIABLES
    heads,        \* refs/heads/*
    receipts,     \* refs/projex/browser-commits/* and browser-refs/*
    request,      \* what each job asks for
    expSource,    \* expected_source_commit_hash
    expTarget,    \* expected_head_commit_hash, expected_target_commit_hash
    status,       \* status of the job rows, ABSENT before the request
    owner,        \* worker_id
    attempt,      \* claim_attempt
    leased,       \* lease_expires_at is in the future
    started,      \* publish_started
    result,       \* resulting_commit_hash
    recorded,     \* repository activities written for the job
    access,       \* what memberships and states of class, task, team and
                  \* repository let each student write
    open,         \* the due date has not passed
    pc,           \* where each worker is in processNext
    job,          \* the job it claimed
    claim,        \* claimAttempt it read then
    inTx,         \* its transaction is open, and holds the job's row lock
    error,        \* code of the error it caught
    moves,        \* native pushes and changes of permissions so far
    faults,       \* faults so far
    misread       \* jobs whose receipt a worker has taken for absent

gitVars == <<heads, receipts>>
askedVars == <<request, expSource, expTarget>>
rowVars == <<status, owner, attempt, leased, started, result, recorded>>
policyVars == <<access, open>>
workerVars == <<pc, job, claim, inTx, error>>
faultVars == <<faults, misread>>
vars == <<gitVars, askedVars, rowVars, policyVars, workerVars, moves, faultVars>>

None == <<>>
Root == 0   \* the commit a repository may start with; a push makes commit "moves"

-----------------------------------------------------------------------------
(* What a job publishes: prepare, and the update-ref that follows it. *)

Target(j) == request[j].target
Source(j) == request[j].source
IsCommit(j) == request[j].operation = "COMMIT"
Creates(j) == request[j].operation = "CREATE_BRANCH"

Publication(j) == IF IsCommit(j) THEN Append(expTarget[j], j) ELSE expSource[j]

Present == {b \in Branches : heads[b] # None}

(* A commit to an absent head initialises the repository. *)
CommitRefusal(j) ==
    IF heads[Target(j)] # expTarget[j] THEN "CHANGED"
    ELSE IF expTarget[j] = None /\ (Target(j) # Main \/ Present # {}) THEN "REFUSED"
    ELSE "NONE"

CreateRefusal(j) ==
    IF heads[Source(j)] # expSource[j] \/ Target(j) \in Present THEN "CHANGED"
    ELSE IF Cardinality(Present) >= MaxBranches THEN "REFUSED"
    ELSE "NONE"

FastForwardRefusal(j) ==
    IF \/ heads[Source(j)] # expSource[j] \/ heads[Target(j)] # expTarget[j]
       \/ expSource[j] = expTarget[j] \/ ~IsPrefix(expTarget[j], expSource[j])
    THEN "CHANGED"
    ELSE "NONE"

(* Why prepare throws: CHANGED for the codes a job ends CONFLICTED with,
   REFUSED for the others. *)
Refusal(j) == IF IsCommit(j) THEN CommitRefusal(j)
              ELSE IF Creates(j) THEN CreateRefusal(j)
              ELSE FastForwardRefusal(j)

(* Mutant: update-ref is given no old value for the target. *)
AsExpectedSource(j) == IsCommit(j) \/ heads[Source(j)] = expSource[j]
AsExpected(j) == /\ heads[Target(j)] = expTarget[j]
                 /\ IsCommit(j) \/ heads[Source(j)] = expSource[j]

(* evaluateGitPermission, for the branch a job writes. *)
Allowed(j) ==
    /\ access[request[j].actor] # "NONE"
    /\ Target(j) = Main => access[request[j].actor] = "MAINTAINER"
Permitted(j) == open /\ Allowed(j)

-----------------------------------------------------------------------------
Init ==
    /\ \E there \in SUBSET Branches :
           /\ (there # {} => Main \in there) /\ Cardinality(there) <= MaxBranches
           /\ heads = [b \in Branches |-> IF b \in there THEN <<Root>> ELSE None]
    /\ receipts = [j \in Jobs |-> None]
    /\ request \in Plans
    /\ expSource = [j \in Jobs |-> None]
    /\ expTarget = [j \in Jobs |-> None]
    /\ status = [j \in Jobs |-> "ABSENT"]
    /\ owner = [j \in Jobs |-> NoWorker]
    /\ attempt = [j \in Jobs |-> 0]
    /\ leased = [j \in Jobs |-> FALSE]
    /\ started = [j \in Jobs |-> FALSE]
    /\ result = [j \in Jobs |-> None]
    /\ recorded = [j \in Jobs |-> 0]
    /\ access = [a \in Actors |-> IF a = Lead THEN "MAINTAINER" ELSE "DEVELOPER"]
    /\ open = TRUE
    /\ pc = [w \in Workers |-> "idle"]
    /\ job = [w \in Workers |-> NoJob]
    /\ claim = [w \in Workers |-> 0]
    /\ inTx = [w \in Workers |-> FALSE]
    /\ error = [w \in Workers |-> "NONE"]
    /\ moves = 0
    /\ faults = 0
    /\ misread = {}

-----------------------------------------------------------------------------
(* Locks.  An open transaction holds its job's row from the start and the
   policy's rows from LockPolicy on; a ref action holds the repository's row
   for update, a commit for share. *)

PolicyLocked(w) == inTx[w] /\ pc[w] \in {"fenced", "publishing", "refused", "completing"}
RowLocked(j) == \E w \in Workers : inTx[w] /\ job[w] = j

(* Mutant: a ref action locks the repository's row for share only. *)
RepositoryFreeShared(w) == TRUE
RepositoryFree(w) ==
    \A v \in Workers \ {w} : PolicyLocked(v) => IsCommit(job[v]) /\ IsCommit(job[w])

Goto(w, label) ==
    /\ pc' = [pc EXCEPT ![w] = label]
    /\ UNCHANGED <<job, claim, inTx, error>>

(* An error leaves the transaction, which is rolled back, and is caught. *)
Throw(w, code) ==
    /\ pc' = [pc EXCEPT ![w] = "caught"]
    /\ error' = [error EXCEPT ![w] = code]
    /\ inTx' = [inTx EXCEPT ![w] = FALSE]
    /\ UNCHANGED <<job, claim>>

Return(w) ==
    /\ pc' = [pc EXCEPT ![w] = "idle"]
    /\ job' = [job EXCEPT ![w] = NoJob]
    /\ claim' = [claim EXCEPT ![w] = 0]
    /\ inTx' = [inTx EXCEPT ![w] = FALSE]
    /\ error' = [error EXCEPT ![w] = "NONE"]

Owns(w) ==
    /\ status[job[w]] = "RUNNING" /\ owner[job[w]] = w
    /\ attempt[job[w]] = claim[w]

-----------------------------------------------------------------------------
(* create, of both services.  The heads it records are those the student
   read; a stale reading and a permission lost before the insertion are the
   same as a branch moved and a permission lost right after it. *)

InFlight(j) == status[j] \in {"PENDING", "RUNNING"}

FreeToAsk(j) == \A k \in Jobs : InFlight(k) => request[k].actor # request[j].actor

Create(j) ==
    /\ status[j] = "ABSENT" /\ Permitted(j) /\ FreeToAsk(j)
    /\ \A w \in Workers : ~PolicyLocked(w)
    /\ IF IsCommit(j) THEN Target(j) = Main \/ Target(j) \in Present
       ELSE Source(j) \in Present /\ (Creates(j) \/ Target(j) \in Present)
    /\ status' = [status EXCEPT ![j] = "PENDING"]
    /\ expSource' = [expSource EXCEPT ![j] = heads[Source(j)]]
    /\ expTarget' = [expTarget EXCEPT ![j] = IF Creates(j) THEN None ELSE heads[Target(j)]]
    /\ UNCHANGED <<gitVars, request, owner, attempt, leased, started, result, recorded,
                   policyVars, workerVars, moves, faultVars>>

-----------------------------------------------------------------------------
(* processNext *)

(* Mutant: an expired lease does not bring a job back. *)
ClaimablePendingOnly(j) == status[j] = "PENDING" /\ ~RowLocked(j)
Claimable(j) ==
    /\ \/ status[j] = "PENDING"
       \/ status[j] = "RUNNING" /\ ~leased[j]
    /\ ~RowLocked(j)

Claim(w, j) ==
    /\ pc[w] = "idle" /\ Claimable(j)
    /\ status' = [status EXCEPT ![j] = "RUNNING"]
    /\ owner' = [owner EXCEPT ![j] = w]
    /\ attempt' = [attempt EXCEPT ![j] = @ + 1]
    /\ leased' = [leased EXCEPT ![j] = TRUE]
    /\ pc' = [pc EXCEPT ![w] = "claimed"]
    /\ job' = [job EXCEPT ![w] = j]
    /\ claim' = [claim EXCEPT ![w] = attempt'[j]]
    /\ UNCHANGED <<gitVars, askedVars, started, result, recorded, policyVars, inTx, error,
                   moves, faultVars>>

(* Mutant: every attempt is authorised and prepared. *)
ReadReceiptIgnored(w) ==
    /\ pc[w] = "claimed"
    /\ Goto(w, "checking")
    /\ UNCHANGED <<gitVars, askedVars, rowVars, policyVars, moves, faultVars>>

(* A job that has its receipt is neither authorised nor prepared again. *)
ReadReceipt(w) ==
    /\ pc[w] = "claimed"
    /\ Goto(w, IF receipts[job[w]] = None THEN "checking" ELSE "prepared")
    /\ UNCHANGED <<gitVars, askedVars, rowVars, policyVars, moves, faultVars>>

CheckAccess(w) ==
    /\ pc[w] = "checking"
    /\ IF Permitted(job[w]) THEN Goto(w, "preparing") ELSE Throw(w, "REFUSED")
    /\ UNCHANGED <<gitVars, askedVars, rowVars, policyVars, moves, faultVars>>

Prepare(w) ==
    /\ pc[w] = "preparing"
    /\ IF Refusal(job[w]) = "NONE" THEN Goto(w, "prepared") ELSE Throw(w, Refusal(job[w]))
    /\ UNCHANGED <<gitVars, askedVars, rowVars, policyVars, moves, faultVars>>

MarkStarted(w) ==
    /\ pc[w] = "prepared"
    /\ started' = IF Owns(w) THEN [started EXCEPT ![job[w]] = TRUE] ELSE started
    /\ Goto(w, "started")
    /\ UNCHANGED <<gitVars, askedVars, status, owner, attempt, leased, result, recorded,
                   policyVars, moves, faultVars>>

(* The transaction begins.  The row lock is only waited for by a worker that
   no longer owns the job, and that is then told so. *)
LockJob(w) ==
    /\ pc[w] = "started"
    /\ IF Owns(w) /\ leased[job[w]]
       THEN /\ pc' = [pc EXCEPT ![w] = "locked"]
            /\ inTx' = [inTx EXCEPT ![w] = TRUE]
            /\ UNCHANGED <<job, claim, error>>
       ELSE Throw(w, "LEASE_LOST")
    /\ UNCHANGED <<gitVars, askedVars, rowVars, policyVars, moves, faultVars>>

(* complete, and the end of the transaction. *)
Succeed(w, commit) ==
    /\ status' = [status EXCEPT ![job[w]] = "SUCCEEDED"]
    /\ result' = [result EXCEPT ![job[w]] = commit]
    /\ recorded' = [recorded EXCEPT ![job[w]] = @ + 1]
    /\ owner' = [owner EXCEPT ![job[w]] = NoWorker]
    /\ leased' = [leased EXCEPT ![job[w]] = FALSE]
    /\ Return(w)
    /\ UNCHANGED <<attempt, started>>

TransactionGone(w) == ~inTx[w] /\ Throw(w, "RETRY") /\ UNCHANGED rowVars

TxReceipt(w) ==
    /\ pc[w] = "locked"
    /\ \/ /\ receipts[job[w]] = None
          /\ Goto(w, "fencing") /\ UNCHANGED rowVars
       \/ /\ receipts[job[w]] # None
          /\ \/ inTx[w] /\ Succeed(w, receipts[job[w]])
             \/ TransactionGone(w)
    /\ UNCHANGED <<gitVars, askedVars, policyVars, moves, faultVars>>

(* Mutant: the permission read before the transaction is trusted. *)
LockPolicyOnly(w) ==
    /\ pc[w] = "fencing"
    /\ \/ /\ inTx[w] /\ RepositoryFree(w)
          /\ Goto(w, IF IsCommit(job[w]) THEN "publishing" ELSE "fenced")
          /\ UNCHANGED rowVars
       \/ TransactionGone(w)
    /\ UNCHANGED <<gitVars, askedVars, policyVars, moves, faultVars>>

(* The policy's rows are locked, then read. *)
LockPolicy(w) ==
    /\ pc[w] = "fencing"
    /\ \/ /\ inTx[w] /\ RepositoryFree(w)
          /\ IF Permitted(job[w])
             THEN Goto(w, IF IsCommit(job[w]) THEN "publishing" ELSE "fenced")
             ELSE Throw(w, "REFUSED")
          /\ UNCHANGED rowVars
       \/ TransactionGone(w)
    /\ UNCHANGED <<gitVars, askedVars, policyVars, moves, faultVars>>

(* A ref action is prepared again, with the policy's rows locked, and the
   due date is looked at again. *)
PrepareAgain(w) ==
    /\ pc[w] = "fenced"
    /\ IF Refusal(job[w]) # "NONE" THEN Throw(w, Refusal(job[w]))
       ELSE IF open THEN Goto(w, "publishing")
       ELSE Throw(w, "REFUSED")
    /\ UNCHANGED <<gitVars, askedVars, rowVars, policyVars, moves, faultVars>>

(* update-ref: the branch and the receipt, or neither. *)
Applies(j) == AsExpected(j) /\ receipts[j] = None

Apply(j) ==
    /\ heads' = [heads EXCEPT ![Target(j)] = Publication(j)]
    /\ receipts' = [receipts EXCEPT ![j] = Publication(j)]

UpdateRef(w) ==
    /\ pc[w] = "publishing"
    /\ \/ Applies(job[w]) /\ Apply(job[w]) /\ Goto(w, "completing")
       \/ ~Applies(job[w]) /\ Goto(w, "refused") /\ UNCHANGED gitVars
    /\ UNCHANGED <<askedVars, rowVars, policyVars, moves, faultVars>>

(* publish's catch block, when Git has refused the update. *)
AfterRefusal(w) ==
    /\ pc[w] = "refused"
    /\ IF receipts[job[w]] # None THEN Goto(w, "completing")
       ELSE IF AsExpected(job[w]) THEN Throw(w, "RETRY")
       ELSE Throw(w, "CHANGED")
    /\ UNCHANGED <<gitVars, askedVars, rowVars, policyVars, moves, faultVars>>

Complete(w) ==
    /\ pc[w] = "completing"
    /\ \/ inTx[w] /\ Succeed(w, Publication(job[w]))
       \/ TransactionGone(w)
    /\ UNCHANGED <<gitVars, askedVars, policyVars, moves, faultVars>>

(* processNext's catch block.  Only the owner's update counts, and only the
   owner has written publish_started since. *)
Terminal(w) ==
    \/ error[w] \in {"CHANGED", "REFUSED"}
    \/ ~started[job[w]] /\ attempt[job[w]] >= GiveUpAt

StatusAfterError(w) ==
    IF ~Terminal(w) THEN "PENDING" ELSE IF error[w] = "CHANGED" THEN "CONFLICTED" ELSE "FAILED"

Settle(w) ==
    /\ pc[w] = "caught"
    /\ \/ /\ Owns(w)
          /\ status' = [status EXCEPT ![job[w]] = StatusAfterError(w)]
          /\ owner' = [owner EXCEPT ![job[w]] = NoWorker]
          /\ leased' = [leased EXCEPT ![job[w]] = FALSE]
       \/ ~Owns(w) /\ UNCHANGED <<status, owner, leased>>
    /\ Return(w)
    /\ UNCHANGED <<gitVars, askedVars, attempt, started, result, recorded, policyVars,
                   moves, faultVars>>

-----------------------------------------------------------------------------
(* What goes wrong. *)

Fault == faults < MaxFaults /\ faults' = faults + 1

(* A call to the database or to Git fails: it times out, or it is none of the
   reads below. *)
CallFails(w) ==
    /\ pc[w] \notin {"idle", "caught"} /\ Fault
    /\ Throw(w, "RETRY")
    /\ UNCHANGED <<gitVars, askedVars, rowVars, policyVars, moves, misread>>

(* A rev-parse that exits with an error, whatever its reason, reads the ref as
   absent (revision, and receipt of the ref writer). *)
ReceiptMissed(j) == misread' = IF receipts[j] = None THEN misread ELSE misread \union {j}

MisreadReceipt(w) ==
    /\ pc[w] \in {"claimed", "locked"} /\ receipts[job[w]] # None /\ Fault
    /\ Goto(w, IF pc[w] = "claimed" THEN "checking" ELSE "fencing")
    /\ ReceiptMissed(job[w])
    /\ UNCHANGED <<gitVars, askedVars, rowVars, policyVars, moves>>

(* A head that is expected is found changed, and so is one that merge-base
   does not find to be a descendant; one that should be absent is taken for
   it, and other branches then forbid the initialisation. *)
ExpectsHead(j) == ~IsCommit(j) \/ expTarget[j] # None

MisreadHead(w) ==
    /\ pc[w] \in {"preparing", "fenced"} /\ Fault
    /\ IF ExpectsHead(job[w]) THEN Throw(w, "CHANGED")
       ELSE heads[Target(job[w])] # None /\ Throw(w, "REFUSED")
    /\ UNCHANGED <<gitVars, askedVars, rowVars, policyVars, moves, misread>>

(* After a refusal the receipt, the heads or both are taken for absent. *)
UpdateMisread(w) ==
    /\ pc[w] = "refused" /\ Fault
    /\ ExpectsHead(job[w]) \/ ~AsExpected(job[w])
    /\ Throw(w, "CHANGED")
    /\ ReceiptMissed(job[w])
    /\ UNCHANGED <<gitVars, askedVars, rowVars, policyVars, moves>>

(* The answer of update-ref is lost, by its own timeout for instance, or it
   exits with an error before or after it has moved the refs. *)
UpdateUnknown(w) ==
    /\ pc[w] = "publishing" /\ Fault
    /\ \/ /\ Applies(job[w]) /\ Apply(job[w])
          /\ Throw(w, "RETRY") \/ Goto(w, "refused")
       \/ Goto(w, "refused") /\ UNCHANGED gitVars
    /\ UNCHANGED <<askedVars, rowVars, policyVars, moves, misread>>

(* The database rolls the transaction back and frees its locks; the worker
   learns it from its next query. *)
TxTimesOut(w) ==
    /\ inTx[w] /\ Fault
    /\ Fenced => pc[w] \notin {"fenced", "publishing"}
    /\ inTx' = [inTx EXCEPT ![w] = FALSE]
    /\ UNCHANGED <<gitVars, askedVars, rowVars, policyVars, pc, job, claim, error, moves,
                   misread>>

(* The process stops and is started again; its Git child stops with it. *)
Crash(w) ==
    /\ pc[w] # "idle" /\ Fault
    /\ Return(w)
    /\ UNCHANGED <<gitVars, askedVars, rowVars, policyVars, moves, misread>>

(* 120 seconds pass.  That a worker is still at the job is a fault. *)
AtWork(j) == \E w \in Workers : job[w] = j /\ Owns(w)

LeaseExpires(j) ==
    /\ status[j] = "RUNNING" /\ leased[j]
    /\ IF AtWork(j) THEN Fault ELSE UNCHANGED faults
    /\ leased' = [leased EXCEPT ![j] = FALSE]
    /\ UNCHANGED <<gitVars, askedVars, status, owner, attempt, started, result, recorded,
                   policyVars, workerVars, moves, misread>>

-----------------------------------------------------------------------------
(* Others. *)

Move == moves < MaxMoves /\ moves' = moves + 1

(* Memberships and states change unless a transaction has locked them.  Only
   the owner who leads the team may update main. *)
Levels(a) == {"NONE", "DEVELOPER"} \union (IF a = Lead THEN {"MAINTAINER"} ELSE {})

AccessChanges(a) ==
    /\ Move
    /\ \A w \in Workers : PolicyLocked(w) => request[job[w]].actor # a
    /\ \E level \in Levels(a) : access' = [access EXCEPT ![a] = level]
    /\ UNCHANGED <<gitVars, askedVars, rowVars, open, workerVars, faultVars>>

(* No lock stops the clock. *)
DueDatePasses ==
    /\ Move
    /\ open /\ open' = FALSE
    /\ UNCHANGED <<gitVars, askedVars, rowVars, access, workerVars, faultVars>>

(* A native push that the pre-receive hook accepts: it fast-forwards a
   branch, makes the first commit on main, or deletes a branch. *)
Push(b) ==
    /\ Move
    /\ \/ (b = Main \/ b \in Present) /\ heads' = [heads EXCEPT ![b] = Append(@, moves')]
       \/ b \in Present \ {Main} /\ heads' = [heads EXCEPT ![b] = None]
    /\ UNCHANGED <<receipts, askedVars, rowVars, policyVars, workerVars, faultVars>>

-----------------------------------------------------------------------------
WorkerStep(w) ==
    \/ \E j \in Jobs : Claim(w, j)
    \/ ReadReceipt(w)
    \/ CheckAccess(w)
    \/ Prepare(w)
    \/ MarkStarted(w)
    \/ LockJob(w)
    \/ TxReceipt(w)
    \/ LockPolicy(w)
    \/ PrepareAgain(w)
    \/ UpdateRef(w)
    \/ AfterRefusal(w)
    \/ Complete(w)
    \/ Settle(w)

WorkerFault(w) ==
    \/ CallFails(w)
    \/ MisreadReceipt(w)
    \/ MisreadHead(w)
    \/ UpdateMisread(w)
    \/ UpdateUnknown(w)
    \/ TxTimesOut(w)
    \/ Crash(w)

Next ==
    \/ \E j \in Jobs : Create(j) \/ LeaseExpires(j)
    \/ \E w \in Workers : WorkerStep(w) \/ WorkerFault(w)
    \/ \E a \in Actors : AccessChanges(a)
    \/ DueDatePasses
    \/ \E b \in Branches : Push(b)

Spec == Init /\ [][Next]_vars

-----------------------------------------------------------------------------
Histories == Seq(Jobs \union Nat)
Statuses == {"ABSENT", "PENDING", "RUNNING", "SUCCEEDED", "FAILED", "CONFLICTED"}
Labels == {"idle", "claimed", "checking", "preparing", "prepared", "started", "locked",
           "fencing", "fenced", "publishing", "refused", "completing", "caught"}
Codes == {"NONE", "CHANGED", "REFUSED", "LEASE_LOST", "RETRY"}

GitTypes ==
    /\ heads \in [Branches -> Histories]
    /\ receipts \in [Jobs -> Histories]

AskedTypes ==
    /\ request \in Plans
    /\ expSource \in [Jobs -> Histories]
    /\ expTarget \in [Jobs -> Histories]

RowTypes ==
    /\ status \in [Jobs -> Statuses]
    /\ owner \in [Jobs -> Workers \union {NoWorker}]
    /\ attempt \in [Jobs -> Nat]
    /\ leased \in [Jobs -> BOOLEAN]
    /\ started \in [Jobs -> BOOLEAN]
    /\ result \in [Jobs -> Histories]
    /\ recorded \in [Jobs -> Nat]

WorkerTypes ==
    /\ pc \in [Workers -> Labels]
    /\ job \in [Workers -> Jobs \union {NoJob}]
    /\ claim \in [Workers -> Nat]
    /\ inTx \in [Workers -> BOOLEAN]
    /\ error \in [Workers -> Codes]
    /\ \A w \in Workers : pc[w] = "idle" <=> job[w] = NoJob

PolicyTypes ==
    /\ access \in [Actors -> {"NONE", "DEVELOPER", "MAINTAINER"}]
    /\ open \in BOOLEAN

BoundTypes == moves \in Nat /\ faults \in Nat /\ misread \subseteq Jobs

TypeOK == GitTypes /\ AskedTypes /\ RowTypes /\ PolicyTypes /\ WorkerTypes /\ BoundTypes

(* A job that is told FAILED or CONFLICTED has not moved a branch, whatever
   was interrupted, retried or taken over before (the catch block: "Known
   refusals cannot have updated the ref."), unless a worker has read the
   receipt that was there as absent: its job is then authorised and prepared
   again, against the branch that it has itself moved. *)
RefusedIsNotPublished ==
    \A j \in Jobs :
        status[j] \in {"FAILED", "CONFLICTED"} => receipts[j] = None \/ j \in misread

(* A SUCCEEDED job names the commit its receipt names, and what it put on
   main stays there (complete, from both of its callers). *)
SucceededIsPublished ==
    \A j \in Jobs : status[j] = "SUCCEEDED" =>
        /\ result[j] = receipts[j] /\ receipts[j] # None
        /\ Target(j) = Main => IsPrefix(receipts[j], heads[Main])

(* The feed has one activity for every SUCCEEDED job and none for the others,
   although a job is completed by whichever worker finds its receipt. *)
RecordedOnce ==
    \A j \in Jobs : recorded[j] = IF status[j] = "SUCCEEDED" THEN 1 ELSE 0

(* No history carries the commit of a job twice, and none carries it without
   the job's receipt, however often its publication was tried and whatever
   was deleted and created again in between. *)
PublishedOnce ==
    \A j \in Jobs, b \in Branches :
        \A i \in DOMAIN heads[b] : heads[b][i] = j =>
            /\ receipts[j] # None
            /\ \A k \in DOMAIN heads[b] : heads[b][k] = j => k = i

(* What a job is told, what the feed says and what the branches hold agree, and
   nothing is published twice, whatever was interrupted and retried. *)
ToldIsTrue == RefusedIsNotPublished /\ SucceededIsPublished /\ RecordedOnce /\ PublishedOnce

(* While the transaction outlives the update, branches made in the browser
   stay within the limit, although each ref action counts them some Git
   commands before its update ("Serialize browser ref publications per
   repository, including case/prefix and branch-count checks."). *)
BranchLimit == Cardinality(Present) <= MaxBranches

(* While the transaction outlives the update, a branch moves only by a
   student whose memberships allow it at that moment ("These locks fence
   every row owning the browser write policy through the atomic Git
   update."). *)
AuthorizedPublication ==
    [][\A j \in Jobs : receipts'[j] # receipts[j] => Allowed(j)]_vars

(* What was pushed or published is never overwritten: a publication, the
   retry of one included, only extends the history of its branch. *)
NoLostUpdate ==
    [][receipts' # receipts => \A b \in Branches : IsPrefix(heads[b], heads'[b])]_vars

(* No job is left in a state that time and the workers do not lead out of:
   neither a claim that nobody may take over nor a refusal that nobody may
   settle.  Every round of retries takes a claim, so that with boundedly many
   faults every job ends (the second half of the claim's query; the catch
   block). *)
NeverStuck ==
    \A j \in Jobs : InFlight(j) =>
        \/ \E w \in Workers : ENABLED WorkerStep(w)
        \/ \E k \in Jobs : status[k] = "RUNNING" /\ leased[k] /\ ~AtWork(k)

=============================================================================
