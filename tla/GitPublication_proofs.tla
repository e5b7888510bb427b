------------------------ MODULE GitPublication_proofs ------------------------
(***************************************************************************)
(* Theorems about GitPublication, for every set of jobs, students, branches *)
(* and workers and any number of faults.                                    *)
(*                                                                         *)
(* Under any timing: types, and JobInv and HistoryInv.  An open transaction *)
(* owns the job whose row it holds, a receipt names the commit that every   *)
(* attempt of its job prepares, and what was prepared extends the branch it *)
(* expects.  So jobs are completed once, and no publication overwrites      *)
(* another.                                                                *)
(*                                                                         *)
(* If a transaction outlives the update made in it, also FencedInv: whoever *)
(* publishes still owns the job, so nobody else can refuse it meanwhile,    *)
(* and still holds the rows that its permission depends on.                 *)
(***************************************************************************)
EXTENDS GitPublication, FiniteSetTheorems, TLAPS

(***************************************************************************)
(* Types.                                                                  *)
(***************************************************************************)

LEMMA BusyHoldsJob ==
    ASSUME TypeOK, NEW w \in Workers, pc[w] # "idle"
    PROVE  job[w] \in Jobs
  BY DEF TypeOK, WorkerTypes

LEMMA PublicationType ==
    ASSUME TypeOK, NEW j \in Jobs
    PROVE  Publication(j) \in Histories
<1>1. expTarget[j] \in Seq(Jobs \union Nat) /\ expSource[j] \in Seq(Jobs \union Nat)
  BY DEF TypeOK, AskedTypes, Histories
<1>2. Append(expTarget[j], j) \in Seq(Jobs \union Nat)
  BY <1>1
<1> QED
  BY <1>1, <1>2 DEF Publication, Histories

LEMMA NoneType == None \in Histories
  BY DEF None, Histories

LEMMA RefusalType == ASSUME NEW j PROVE Refusal(j) \in {"NONE", "CHANGED", "REFUSED"}
  BY DEF Refusal, CommitRefusal, CreateRefusal, FastForwardRefusal

LEMMA RequestType ==
    ASSUME TypeOK, NEW j \in Jobs
    PROVE  /\ request[j] \in Request
           /\ Target(j) \in Branches /\ Source(j) \in Branches
           /\ request[j].actor \in Actors
           /\ IsCommit(j) <=> Source(j) = Target(j)
           /\ Creates(j) => Target(j) # Main
  BY RequestAssumption DEF TypeOK, AskedTypes, Request, Target, Source, IsCommit, Creates

(* The three ways on keep the types of a worker's own variables. *)
LEMMA GotoType ==
    ASSUME TypeOK, NEW w \in Workers, pc[w] # "idle",
           NEW l \in Labels \ {"idle"}, Goto(w, l)
    PROVE  WorkerTypes'
  BY DEF TypeOK, WorkerTypes, Goto, Labels

LEMMA ThrowType ==
    ASSUME TypeOK, NEW w \in Workers, pc[w] # "idle", NEW c \in Codes, Throw(w, c)
    PROVE  WorkerTypes'
  BY DEF TypeOK, WorkerTypes, Throw, Labels

LEMMA ReturnType ==
    ASSUME TypeOK, NEW w \in Workers, Return(w)
    PROVE  WorkerTypes'
  BY DEF TypeOK, WorkerTypes, Return, Labels, Codes

LEMMA TypeStep == TypeOK /\ [Next]_vars => TypeOK'
<1> SUFFICES ASSUME TypeOK, [Next]_vars PROVE TypeOK'
  OBVIOUS
<1> USE DEF TypeOK, faultVars
<1>0. CASE UNCHANGED vars
  BY <1>0 DEF vars, gitVars, askedVars, rowVars, policyVars, workerVars, GitTypes,
              AskedTypes, RowTypes, PolicyTypes, WorkerTypes, BoundTypes
<1>1. ASSUME NEW j \in Jobs, Create(j) PROVE TypeOK'
  <2>1. AskedTypes'
    BY <1>1, RequestType, NoneType DEF Create, AskedTypes, GitTypes
  <2>2. RowTypes'
    BY <1>1 DEF Create, RowTypes, Statuses
  <2> QED
    BY <1>1, <2>1, <2>2 DEF Create, gitVars, policyVars, workerVars, GitTypes, PolicyTypes,
                            WorkerTypes, BoundTypes
<1>2. ASSUME NEW j \in Jobs, LeaseExpires(j) PROVE TypeOK'
  BY <1>2 DEF LeaseExpires, Fault, gitVars, askedVars, policyVars, workerVars, GitTypes,
              AskedTypes, RowTypes, PolicyTypes, WorkerTypes, BoundTypes
<1>3. ASSUME NEW w \in Workers, NEW j \in Jobs, Claim(w, j) PROVE TypeOK'
  <2>1. RowTypes'
    BY <1>3 DEF Claim, RowTypes, Statuses
  <2>2. WorkerTypes'
    BY <1>3, <2>1, NullAssumption DEF Claim, WorkerTypes, RowTypes, Labels
  <2> QED
    BY <1>3, <2>1, <2>2 DEF Claim, gitVars, askedVars, policyVars, GitTypes, AskedTypes,
                            PolicyTypes, BoundTypes
<1>4. ASSUME NEW w \in Workers, pc[w] # "idle",
             \/ \E l \in Labels \ {"idle"} : Goto(w, l)
             \/ \E c \in Codes : Throw(w, c),
             UNCHANGED <<gitVars, askedVars, rowVars, policyVars>>, BoundTypes'
      PROVE  TypeOK'
  BY <1>4, GotoType, ThrowType DEF gitVars, askedVars, rowVars, policyVars, GitTypes,
              AskedTypes, RowTypes, PolicyTypes
<1>5. ASSUME NEW w \in Workers, ReadReceipt(w) PROVE TypeOK'
  BY <1>4, <1>5 DEF ReadReceipt, Labels, BoundTypes
<1>6. ASSUME NEW w \in Workers, CheckAccess(w) PROVE TypeOK'
  BY <1>4, <1>6 DEF CheckAccess, Labels, Codes, BoundTypes
<1>7. ASSUME NEW w \in Workers, Prepare(w) PROVE TypeOK'
  BY <1>4, <1>7, RefusalType DEF Prepare, Labels, Codes, BoundTypes
<1>8. ASSUME NEW w \in Workers, MarkStarted(w) PROVE TypeOK'
  <2>1. RowTypes'
    BY <1>8 DEF MarkStarted, RowTypes
  <2>2. WorkerTypes'
    BY <1>8, GotoType DEF MarkStarted, Labels
  <2> QED
    BY <1>8, <2>1, <2>2 DEF MarkStarted, gitVars, askedVars, policyVars, GitTypes, AskedTypes,
                            PolicyTypes, BoundTypes
<1>9. ASSUME NEW w \in Workers, LockJob(w) PROVE TypeOK'
  <2>1. CASE Throw(w, "LEASE_LOST")
    BY <1>4, <1>9, <2>1 DEF LockJob, Codes, BoundTypes
  <2>2. CASE Owns(w) /\ leased[job[w]]
    <3>1. WorkerTypes'
      BY <1>9, <2>2 DEF LockJob, WorkerTypes, Labels
    <3> QED
      BY <1>9, <3>1 DEF LockJob, gitVars, askedVars, rowVars, policyVars, GitTypes, AskedTypes,
                        RowTypes, PolicyTypes, BoundTypes
  <2> QED
    BY <1>9, <2>1, <2>2 DEF LockJob
<1>10. ASSUME NEW w \in Workers, pc[w] # "idle", NEW commit \in Histories,
              Succeed(w, commit), UNCHANGED <<gitVars, askedVars, policyVars, moves, faultVars>>
       PROVE  TypeOK'
  <2>1. RowTypes'
    BY <1>10, BusyHoldsJob DEF Succeed, RowTypes, Statuses
  <2>2. WorkerTypes'
    BY <1>10, ReturnType DEF Succeed
  <2> QED
    BY <1>10, <2>1, <2>2 DEF gitVars, askedVars, policyVars, GitTypes, AskedTypes,
                             PolicyTypes, BoundTypes
<1>11. ASSUME NEW w \in Workers, TxReceipt(w) PROVE TypeOK'
  <2>1. receipts[job[w]] \in Histories
    BY <1>11, BusyHoldsJob DEF TxReceipt, GitTypes
  <2>2. CASE Succeed(w, receipts[job[w]])
    BY <1>10, <1>11, <2>1, <2>2 DEF TxReceipt
  <2>3. CASE ~Succeed(w, receipts[job[w]])
    BY <1>4, <1>11, <2>3 DEF TxReceipt, TransactionGone, Labels, Codes, BoundTypes
  <2> QED
    BY <2>2, <2>3
<1>12. ASSUME NEW w \in Workers, LockPolicy(w) PROVE TypeOK'
  BY <1>4, <1>12 DEF LockPolicy, TransactionGone, Labels, Codes, BoundTypes
<1>13. ASSUME NEW w \in Workers, PrepareAgain(w) PROVE TypeOK'
  BY <1>4, <1>13, RefusalType DEF PrepareAgain, Labels, Codes, BoundTypes
<1>14. ASSUME NEW j \in Jobs, Apply(j) PROVE GitTypes'
  BY <1>14, PublicationType, RequestType DEF Apply, GitTypes
<1>15. ASSUME NEW w \in Workers, UpdateRef(w) PROVE TypeOK'
  <2>1. WorkerTypes'
    BY <1>15, GotoType DEF UpdateRef, Labels
  <2>2. GitTypes'
    BY <1>14, <1>15, BusyHoldsJob DEF UpdateRef, gitVars, GitTypes
  <2> QED
    BY <1>15, <2>1, <2>2 DEF UpdateRef, askedVars, rowVars, policyVars, AskedTypes, RowTypes,
                             PolicyTypes, BoundTypes
<1>16. ASSUME NEW w \in Workers, AfterRefusal(w) PROVE TypeOK'
  BY <1>4, <1>16 DEF AfterRefusal, Labels, Codes, BoundTypes
<1>17. ASSUME NEW w \in Workers, Complete(w) PROVE TypeOK'
  <2>1. Publication(job[w]) \in Histories
    BY <1>17, BusyHoldsJob, PublicationType DEF Complete
  <2>2. CASE Succeed(w, Publication(job[w]))
    BY <1>10, <1>17, <2>1, <2>2 DEF Complete
  <2>3. CASE ~Succeed(w, Publication(job[w]))
    BY <1>4, <1>17, <2>3 DEF Complete, TransactionGone, Labels, Codes, BoundTypes
  <2> QED
    BY <2>2, <2>3
<1>18. ASSUME NEW w \in Workers, Settle(w) PROVE TypeOK'
  <2>1. StatusAfterError(w) \in Statuses
    BY DEF StatusAfterError, Statuses
  <2>2. RowTypes'
    BY <1>18, <2>1 DEF Settle, RowTypes
  <2>3. WorkerTypes'
    BY <1>18, ReturnType DEF Settle
  <2> QED
    BY <1>18, <2>2, <2>3 DEF Settle, gitVars, askedVars, policyVars, GitTypes, AskedTypes,
                             PolicyTypes, BoundTypes
<1>19. ASSUME NEW w \in Workers, CallFails(w) PROVE TypeOK'
  BY <1>4, <1>19 DEF CallFails, Fault, Codes, BoundTypes
<1>20. ASSUME NEW w \in Workers, UpdateUnknown(w) PROVE TypeOK'
  <2>1. WorkerTypes'
    BY <1>20, ThrowType, GotoType DEF UpdateUnknown, Codes, Labels
  <2>2. GitTypes'
    BY <1>14, <1>20, BusyHoldsJob DEF UpdateUnknown, gitVars, GitTypes
  <2> QED
    BY <1>20, <2>1, <2>2 DEF UpdateUnknown, Fault, askedVars, rowVars, policyVars, AskedTypes,
                             RowTypes, PolicyTypes, BoundTypes
<1>21. ASSUME NEW w \in Workers, TxTimesOut(w) PROVE TypeOK'
  BY <1>21 DEF TxTimesOut, Fault, gitVars, askedVars, rowVars, policyVars, GitTypes,
               AskedTypes, RowTypes, PolicyTypes, WorkerTypes, BoundTypes
<1>22. ASSUME NEW w \in Workers, Crash(w) PROVE TypeOK'
  BY <1>22, ReturnType DEF Crash, Fault, gitVars, askedVars, rowVars, policyVars, GitTypes,
               AskedTypes, RowTypes, PolicyTypes, BoundTypes
<1>23. ASSUME NEW a \in Actors, AccessChanges(a) PROVE TypeOK'
  BY <1>23 DEF AccessChanges, Levels, Move, gitVars, askedVars, rowVars, workerVars, GitTypes,
               AskedTypes, RowTypes, PolicyTypes, WorkerTypes, BoundTypes
<1>24. CASE DueDatePasses
  <2>1. open' = FALSE /\ access' = access
    BY <1>24, Zenon DEF DueDatePasses
  <2>2. PolicyTypes'
    BY <2>1 DEF PolicyTypes
  <2>3. /\ UNCHANGED <<gitVars, askedVars, rowVars, workerVars, faultVars>>
        /\ moves' = moves + 1
    BY <1>24, Zenon DEF DueDatePasses, Move
  <2> QED
    BY <2>2, <2>3 DEF gitVars, askedVars, rowVars, workerVars, GitTypes, AskedTypes, RowTypes,
                      WorkerTypes, BoundTypes
<1>25. ASSUME NEW b \in Branches, Push(b) PROVE TypeOK'
  <2>1. moves' \in Nat
    BY <1>25 DEF Push, Move, BoundTypes
  <2>2. Append(heads[b], moves') \in Histories
    BY <2>1 DEF GitTypes, Histories
  <2>3. GitTypes'
    BY <1>25, <2>2, NoneType DEF Push, GitTypes
  <2> QED
    BY <1>25, <2>1, <2>3 DEF Push, askedVars, rowVars, policyVars, workerVars, AskedTypes,
                             RowTypes, PolicyTypes, WorkerTypes, BoundTypes
<1>26. ASSUME NEW w \in Workers,
              MisreadReceipt(w) \/ MisreadHead(w) \/ UpdateMisread(w)
       PROVE  TypeOK'
  <2>1. BoundTypes'
    BY <1>26, BusyHoldsJob DEF MisreadReceipt, MisreadHead, UpdateMisread, ReceiptMissed, Fault,
                               BoundTypes
  <2> QED
    BY <1>4, <1>26, <2>1 DEF MisreadReceipt, MisreadHead, UpdateMisread, Labels, Codes
<1> QED
  BY <1>0, <1>1, <1>2, <1>3, <1>5, <1>6, <1>7, <1>8, <1>9, <1>11, <1>12, <1>13, <1>15, <1>16,
     <1>17, <1>18, <1>19, <1>20, <1>21, <1>22, <1>23, <1>24, <1>25, <1>26
     DEF Next, WorkerStep, WorkerFault

(* Every variable keeps its type, for any jobs, workers and timing. *)
THEOREM TypeCorrect == Spec => []TypeOK
<1>1. ASSUME Init PROVE TypeOK
  <2>1. <<Root>> \in Histories
    BY DEF Histories, Root
  <2>2. GitTypes
    BY <1>1, <2>1, NoneType DEF Init, GitTypes
  <2>3. AskedTypes
    BY <1>1, NoneType DEF Init, AskedTypes
  <2>4. RowTypes
    BY <1>1, NoneType DEF Init, RowTypes, Statuses
  <2>5. PolicyTypes
    <3>1. open \in BOOLEAN
      BY <1>1, Zenon DEF Init
    <3>2. access \in [Actors -> {"NONE", "DEVELOPER", "MAINTAINER"}]
      BY <1>1 DEF Init
    <3> QED
      BY <3>1, <3>2, Zenon DEF PolicyTypes
  <2>6. WorkerTypes
    BY <1>1 DEF Init, WorkerTypes, Labels, Codes
  <2>7. BoundTypes
    BY <1>1 DEF Init, BoundTypes
  <2> QED
    BY <2>2, <2>3, <2>4, <2>5, <2>6, <2>7 DEF TypeOK
<1> QED
  BY <1>1, TypeStep, PTL DEF Spec

(***************************************************************************)
(* Any timing.  What a worker knows at each of its labels, and what a       *)
(* receipt says of its job.                                                *)
(***************************************************************************)
InTransaction == {"locked", "fencing", "fenced", "publishing", "refused", "completing"}

(* An open transaction holds the row of a job that its worker still owns. *)
TxOwns == \A w \in Workers : inTx[w] => pc[w] \in InTransaction /\ Owns(w)

(* publish_started is written before the transaction begins. *)
StartedFirst ==
    \A w \in Workers :
        \/ pc[w] \in InTransaction
        \/ pc[w] = "started" /\ Owns(w)
        => started[job[w]]

(* What a job was created with. *)
AskedFirst ==
    /\ \A w \in Workers : job[w] \in Jobs => status[job[w]] # "ABSENT"
    /\ \A j \in Jobs : status[j] # "ABSENT" =>
           /\ ~IsCommit(j) => expSource[j] # None
           /\ Creates(j) => expTarget[j] = None

(* A receipt names the commit that every attempt prepares. *)
ReceiptsTrue ==
    \A j \in Jobs : receipts[j] # None =>
        started[j] /\ status[j] # "ABSENT" /\ receipts[j] = Publication(j)

Receipted == \A w \in Workers : pc[w] = "completing" => receipts[job[w]] # None

ResultsTrue ==
    \A j \in Jobs : status[j] = "SUCCEEDED" => result[j] = receipts[j] /\ receipts[j] # None

JobInv == TxOwns /\ StartedFirst /\ AskedFirst /\ ReceiptsTrue /\ Receipted /\ ResultsTrue
          /\ RecordedOnce

(* What is prepared extends the branch it expects, so its publication does. *)
Extends(j) == IsPrefix(expTarget[j], Publication(j))
PreparedExtends ==
    /\ \A j \in Jobs : receipts[j] # None => Extends(j)
    /\ \A w \in Workers :
           pc[w] \in {"prepared", "started", "locked", "fencing", "fenced", "publishing"} =>
               Extends(job[w])

MainKeeps ==
    \A j \in Jobs : receipts[j] # None /\ Target(j) = Main => IsPrefix(receipts[j], heads[Main])

HistoryInv == PreparedExtends /\ MainKeeps

(***************************************************************************)
(* Fenced: a transaction outlives the Git update made in it.               *)
(***************************************************************************)
UpdateInTx == \A w \in Workers : pc[w] \in {"fenced", "publishing"} => inTx[w]

(* What the owner of a job may still refuse has not been published, unless
   its receipt was misread. *)
Unpublished ==
    \A w \in Workers :
        \/ pc[w] \in {"checking", "preparing", "fencing", "fenced", "publishing"} /\ Owns(w)
        \/ pc[w] = "caught" /\ error[w] \in {"CHANGED", "REFUSED"} /\ Owns(w)
        => receipts[job[w]] = None \/ job[w] \in misread

AllowedInTx == \A w \in Workers : pc[w] \in {"fenced", "publishing"} => Allowed(job[w])

FencedInv == UpdateInTx /\ Unpublished /\ RefusedIsNotPublished /\ AllowedInTx

USE DEF vars, gitVars, askedVars, rowVars, policyVars, workerVars, faultVars, Goto, Throw, Return,
        GitTypes, AskedTypes, RowTypes, WorkerTypes, TypeOK

(* The steps of a worker that write its own variables only, those that move
   the branch, and those that end the job's row. *)
Walks(w) ==
    \/ ReadReceipt(w) \/ CheckAccess(w) \/ Prepare(w) \/ LockJob(w) \/ LockPolicy(w)
    \/ PrepareAgain(w) \/ AfterRefusal(w) \/ CallFails(w) \/ TxTimesOut(w) \/ Crash(w)
    \/ MisreadReceipt(w) \/ MisreadHead(w) \/ UpdateMisread(w)
    \/ UpdateUnknown(w) /\ UNCHANGED gitVars /\ pc'[w] = "refused"
    \/ TxReceipt(w) /\ UNCHANGED rowVars
    \/ Complete(w) /\ UNCHANGED rowVars
    \/ UpdateRef(w) /\ pc'[w] = "refused"

Publishes(w) ==
    /\ pc[w] = "publishing" /\ Applies(job[w]) /\ Apply(job[w])
    /\ Goto(w, "completing") \/ Throw(w, "RETRY") \/ Goto(w, "refused")
    /\ UNCHANGED <<askedVars, rowVars, policyVars, misread>>

Succeeds(w) ==
    /\ \/ pc[w] = "locked" /\ receipts[job[w]] # None /\ Succeed(w, receipts[job[w]])
       \/ pc[w] = "completing" /\ Succeed(w, Publication(job[w]))
    /\ inTx[w]
    /\ UNCHANGED <<gitVars, askedVars, policyVars, misread>>

(* The steps that change neither a job nor a worker, leases aside. *)
Around ==
    \/ \E j \in Jobs : LeaseExpires(j)
    \/ \E a \in Actors : AccessChanges(a)
    \/ DueDatePasses
    \/ \E b \in Branches : Push(b)

LEMMA Steps ==
    ASSUME TypeOK, [Next]_vars
    PROVE  \/ UNCHANGED vars
           \/ \E j \in Jobs : Create(j)
           \/ \E w \in Workers : \/ \E j \in Jobs : Claim(w, j)
                                 \/ Walks(w)
                                 \/ MarkStarted(w)
                                 \/ Publishes(w)
                                 \/ Succeeds(w)
                                 \/ Settle(w)
           \/ Around
<1>1. ASSUME NEW w \in Workers, TxReceipt(w) PROVE Walks(w) \/ Succeeds(w)
  BY <1>1 DEF TxReceipt, TransactionGone, Walks, Succeeds
<1>2. ASSUME NEW w \in Workers, Complete(w) PROVE Walks(w) \/ Succeeds(w)
  BY <1>2 DEF Complete, TransactionGone, Walks, Succeeds
<1>3. ASSUME NEW w \in Workers, UpdateRef(w) \/ UpdateUnknown(w) PROVE Walks(w) \/ Publishes(w)
  BY <1>3 DEF UpdateRef, UpdateUnknown, Walks, Publishes
<1> QED
  BY <1>1, <1>2, <1>3 DEF Next, WorkerStep, WorkerFault, Walks, Around

(* What each of them does, as far as the invariants tell it apart. *)
OthersKeep(w) ==
    \A v \in Workers \ {w} :
        /\ pc'[v] = pc[v] /\ job'[v] = job[v] /\ claim'[v] = claim[v]
        /\ inTx'[v] = inTx[v] /\ error'[v] = error[v]

(* A receipt is absent, or has been taken for it. *)
Absent(w) == receipts[job[w]] = None \/ job[w] \in misread'

Follows(w) ==
    \/ pc[w] = "claimed" /\ pc'[w] = "checking" /\ Absent(w)
    \/ pc[w] = "claimed" /\ pc'[w] = "prepared" /\ receipts[job[w]] # None
    \/ pc[w] = "checking" /\ pc'[w] = "preparing"
    \/ pc[w] = "preparing" /\ pc'[w] = "prepared" /\ Refusal(job[w]) = "NONE"
    \/ pc[w] = "locked" /\ pc'[w] = "fencing" /\ Absent(w)
    \/ /\ pc[w] = "fencing" /\ pc'[w] = (IF IsCommit(job[w]) THEN "publishing" ELSE "fenced")
       /\ inTx[w] /\ Allowed(job[w]) /\ RepositoryFree(w)
    \/ pc[w] = "fenced" /\ pc'[w] = "publishing" /\ Refusal(job[w]) = "NONE"
    \/ pc[w] = "publishing" /\ pc'[w] = "refused"
    \/ pc[w] = "refused" /\ pc'[w] = "completing" /\ receipts[job[w]] # None

LateRefusal(w) ==
    error'[w] \in {"CHANGED", "REFUSED"} =>
        pc[w] \in {"checking", "preparing", "fencing", "fenced"} \/ Absent(w)

LEMMA Walk ==
    ASSUME TypeOK, NEW w \in Workers, Walks(w)
    PROVE  /\ UNCHANGED <<gitVars, askedVars, rowVars, policyVars>>
           /\ misread \subseteq misread'
           /\ OthersKeep(w)
           /\ \/ pc'[w] = "idle" /\ job'[w] = NoJob /\ ~inTx'[w]
              \/ /\ job'[w] = job[w] /\ claim'[w] = claim[w]
                 /\ \/ pc'[w] = "caught" /\ ~inTx'[w] /\ LateRefusal(w)
                    \/ /\ pc'[w] = pc[w] /\ ~inTx'[w] /\ error'[w] = error[w]
                       /\ Fenced => pc[w] \notin {"fenced", "publishing"}
                    \/ pc[w] = "started" /\ pc'[w] = "locked" /\ Owns(w) /\ inTx'[w]
                    \/ inTx'[w] = inTx[w] /\ Follows(w)
<1> USE DEF OthersKeep, Absent
<1>1. CASE ReadReceipt(w)
  BY <1>1 DEF ReadReceipt, Follows
<1>2. CASE CheckAccess(w)
  BY <1>2 DEF CheckAccess, Follows, LateRefusal
<1>3. CASE Prepare(w)
  BY <1>3 DEF Prepare, Follows, LateRefusal
<1>4. CASE LockJob(w)
  BY <1>4 DEF LockJob, LateRefusal
<1>5. CASE LockPolicy(w)
  BY <1>5 DEF LockPolicy, TransactionGone, Permitted, Follows, LateRefusal
<1>6. CASE PrepareAgain(w)
  BY <1>6 DEF PrepareAgain, Follows, LateRefusal
<1>7. CASE AfterRefusal(w)
  BY <1>7 DEF AfterRefusal, Follows, LateRefusal
<1>8. CASE CallFails(w)
  BY <1>8 DEF CallFails, LateRefusal
<1>9. CASE TxTimesOut(w)
  BY <1>9 DEF TxTimesOut
<1>10. CASE Crash(w)
  BY <1>10 DEF Crash
<1>11. CASE TxReceipt(w) /\ UNCHANGED rowVars
  BY <1>11 DEF TxReceipt, TransactionGone, Succeed, Follows, LateRefusal
<1>12. CASE Complete(w) /\ UNCHANGED rowVars
  BY <1>12 DEF Complete, TransactionGone, Succeed, LateRefusal
<1>13. CASE UpdateRef(w) /\ pc'[w] = "refused"
  BY <1>13 DEF UpdateRef, Follows
<1>14. CASE MisreadReceipt(w)
  BY <1>14 DEF MisreadReceipt, ReceiptMissed, Follows
<1>15. CASE MisreadHead(w)
  BY <1>15 DEF MisreadHead, LateRefusal
<1>16. CASE UpdateMisread(w)
  BY <1>16 DEF UpdateMisread, ReceiptMissed, LateRefusal
<1>17. CASE UpdateUnknown(w) /\ UNCHANGED gitVars /\ pc'[w] = "refused"
  BY <1>17 DEF UpdateUnknown, Follows
<1> QED
  BY <1>1, <1>2, <1>3, <1>4, <1>5, <1>6, <1>7, <1>8, <1>9, <1>10, <1>11, <1>12, <1>13, <1>14,
     <1>15, <1>16, <1>17 DEF Walks

LEMMA SettleEffect ==
    ASSUME TypeOK, NEW w \in Workers, Settle(w)
    PROVE  /\ UNCHANGED <<gitVars, askedVars, attempt, started, result, recorded, policyVars,
                          misread>>
           /\ OthersKeep(w) /\ pc[w] = "caught" /\ pc'[w] = "idle"
           /\ job'[w] = NoJob /\ ~inTx'[w]
           /\ \A j \in Jobs :
                  \/ status'[j] = status[j] /\ owner'[j] = owner[j]
                  \/ /\ j = job[w] /\ Owns(w) /\ owner'[j] = NoWorker
                     /\ \/ status'[j] = "PENDING"
                        \/ /\ status'[j] \in {"FAILED", "CONFLICTED"}
                           /\ error[w] \in {"CHANGED", "REFUSED"} \/ ~started[j]
<1>1. /\ StatusAfterError(w) \in {"PENDING", "FAILED", "CONFLICTED"}
      /\ StatusAfterError(w) # "PENDING" =>
             error[w] \in {"CHANGED", "REFUSED"} \/ ~started[job[w]]
  BY DEF StatusAfterError, Terminal
<1> QED
  BY <1>1 DEF Settle, OthersKeep

-----------------------------------------------------------------------------
(* Any timing: every step keeps each part of JobInv. *)

LEMMA TxOwnsStep == TypeOK /\ TxOwns /\ [Next]_vars => TxOwns'
<1> SUFFICES ASSUME TypeOK /\ TxOwns, [Next]_vars PROVE TxOwns'
  OBVIOUS
<1> USE DEF TxOwns, Owns, InTransaction
<1>0. CASE UNCHANGED vars
  BY <1>0
<1>1. ASSUME NEW j \in Jobs, Create(j) PROVE TxOwns'
  BY <1>1 DEF Create
<1>2. ASSUME NEW w \in Workers, NEW j \in Jobs, Claim(w, j) PROVE TxOwns'
  BY <1>2, NullAssumption DEF Claim, Claimable, RowLocked
<1>3. ASSUME NEW w \in Workers, Walks(w) PROVE TxOwns'
  BY <1>3, Walk, NullAssumption DEF OthersKeep, Follows
<1>4. ASSUME NEW w \in Workers, MarkStarted(w) PROVE TxOwns'
  BY <1>4 DEF MarkStarted
<1>5. ASSUME NEW w \in Workers, Publishes(w) PROVE TxOwns'
  BY <1>5 DEF Publishes, Applies, Apply
<1>6. ASSUME NEW w \in Workers, Succeeds(w) PROVE TxOwns'
  BY <1>6 DEF Succeeds, Succeed
<1>7. ASSUME NEW w \in Workers, Settle(w) PROVE TxOwns'
  BY <1>7, SettleEffect, NullAssumption DEF OthersKeep
<1>8. CASE Around
  BY <1>8 DEF Around, LeaseExpires, AccessChanges, DueDatePasses, Push
<1> QED
  BY <1>0, <1>1, <1>2, <1>3, <1>4, <1>5, <1>6, <1>7, <1>8, Steps

LEMMA StartedFirstStep == TypeOK /\ TxOwns /\ StartedFirst /\ [Next]_vars => StartedFirst'
<1> SUFFICES ASSUME TypeOK /\ TxOwns /\ StartedFirst, [Next]_vars PROVE StartedFirst'
  OBVIOUS
<1> USE DEF TxOwns, StartedFirst, Owns, InTransaction
<1>0. CASE UNCHANGED vars
  BY <1>0
<1>1. ASSUME NEW j \in Jobs, Create(j) PROVE StartedFirst'
  BY <1>1 DEF Create
<1>2. ASSUME NEW w \in Workers, NEW j \in Jobs, Claim(w, j) PROVE StartedFirst'
  BY <1>2 DEF Claim, Claimable, RowLocked
<1>3. ASSUME NEW w \in Workers, Walks(w) PROVE StartedFirst'
  BY <1>3, Walk DEF OthersKeep, Follows
<1>4. ASSUME NEW w \in Workers, MarkStarted(w) PROVE StartedFirst'
  BY <1>4 DEF MarkStarted
<1>5. ASSUME NEW w \in Workers, Publishes(w) PROVE StartedFirst'
  BY <1>5 DEF Publishes, Applies, Apply
<1>6. ASSUME NEW w \in Workers, Succeeds(w) PROVE StartedFirst'
  BY <1>6 DEF Succeeds, Succeed
<1>7. ASSUME NEW w \in Workers, Settle(w) PROVE StartedFirst'
  BY <1>7, SettleEffect, NullAssumption DEF OthersKeep
<1>8. CASE Around
  BY <1>8 DEF Around, LeaseExpires, AccessChanges, DueDatePasses, Push
<1> QED
  BY <1>0, <1>1, <1>2, <1>3, <1>4, <1>5, <1>6, <1>7, <1>8, Steps

LEMMA AskedFirstStep == TypeOK /\ TxOwns /\ AskedFirst /\ [Next]_vars => AskedFirst'
<1> SUFFICES ASSUME TypeOK /\ TxOwns /\ AskedFirst, [Next]_vars PROVE AskedFirst'
  OBVIOUS
<1> USE DEF TxOwns, AskedFirst, Owns, IsCommit, Creates
<1>0. CASE UNCHANGED vars
  BY <1>0
<1>1. ASSUME NEW j \in Jobs, Create(j) PROVE AskedFirst'
  BY <1>1, RequestType DEF Create, Present, IsCommit, Source
<1>2. ASSUME NEW w \in Workers, NEW j \in Jobs, Claim(w, j) PROVE AskedFirst'
  BY <1>2, NullAssumption DEF Claim, Claimable, RowLocked
<1>3. ASSUME NEW w \in Workers, Walks(w) PROVE AskedFirst'
  BY <1>3, Walk, NullAssumption DEF OthersKeep, Follows
<1>4. ASSUME NEW w \in Workers, MarkStarted(w) PROVE AskedFirst'
  BY <1>4 DEF MarkStarted
<1>5. ASSUME NEW w \in Workers, Publishes(w) PROVE AskedFirst'
  BY <1>5 DEF Publishes, Applies, Apply
<1>6. ASSUME NEW w \in Workers, Succeeds(w) PROVE AskedFirst'
  <2>1. job[w] \in Jobs /\ status[job[w]] # "ABSENT"
    BY <1>6, BusyHoldsJob DEF Succeeds
  <2>2. /\ UNCHANGED askedVars
        /\ status' = [status EXCEPT ![job[w]] = "SUCCEEDED"]
        /\ job' = [job EXCEPT ![w] = NoJob]
    BY <1>6 DEF Succeeds, Succeed
  <2> QED
    BY <2>1, <2>2, NullAssumption
<1>7. ASSUME NEW w \in Workers, Settle(w) PROVE AskedFirst'
  BY <1>7, SettleEffect, NullAssumption DEF OthersKeep
<1>8. CASE Around
  BY <1>8 DEF Around, LeaseExpires, AccessChanges, DueDatePasses, Push
<1> QED
  BY <1>0, <1>1, <1>2, <1>3, <1>4, <1>5, <1>6, <1>7, <1>8, Steps

LEMMA PublicationSome ==
    ASSUME TypeOK, AskedFirst, NEW j \in Jobs, status[j] # "ABSENT"
    PROVE  Publication(j) # None
<1>1. expTarget[j] \in Seq(Jobs \union Nat)
  BY DEF Histories
<1>2. Len(Append(expTarget[j], j)) = Len(expTarget[j]) + 1 /\ Len(expTarget[j]) \in Nat
  BY <1>1
<1>3. Len(<<>>) = 0
  OBVIOUS
<1>4. Append(expTarget[j], j) # <<>>
  <2>1. Append(expTarget[j], j) = <<>> => Len(expTarget[j]) + 1 = 0
    BY <1>2, <1>3, Zenon
  <2> QED
    BY <1>2, <2>1
<1> QED
  BY <1>4 DEF AskedFirst, Publication, IsCommit, None

LEMMA PublicationKept ==
    ASSUME NEW j \in Jobs, UNCHANGED askedVars PROVE Publication(j)' = Publication(j)
  BY DEF Publication, IsCommit

LEMMA ReceiptsTrueStep ==
    TypeOK /\ TxOwns /\ StartedFirst /\ AskedFirst /\ ReceiptsTrue /\ [Next]_vars
    => ReceiptsTrue'
<1> SUFFICES ASSUME TypeOK /\ TxOwns /\ StartedFirst /\ AskedFirst /\ ReceiptsTrue,
                    [Next]_vars
             PROVE  ReceiptsTrue'
  OBVIOUS
<1> USE DEF TxOwns, StartedFirst, AskedFirst, ReceiptsTrue, Owns, InTransaction
<1>0. CASE UNCHANGED vars
  BY <1>0, PublicationKept
<1>1. ASSUME NEW j \in Jobs, Create(j) PROVE ReceiptsTrue'
  <2>1. \A k \in Jobs : status[k] # "ABSENT" => Publication(k)' = Publication(k)
    BY <1>1 DEF Create, Publication, IsCommit
  <2> QED
    BY <1>1, <2>1 DEF Create
<1>2. ASSUME NEW w \in Workers, NEW j \in Jobs, Claim(w, j) PROVE ReceiptsTrue'
  BY <1>2, PublicationKept DEF Claim, Claimable, RowLocked
<1>3. ASSUME NEW w \in Workers, Walks(w) PROVE ReceiptsTrue'
  BY <1>3, Walk, PublicationKept DEF OthersKeep, Follows
<1>4. ASSUME NEW w \in Workers, MarkStarted(w) PROVE ReceiptsTrue'
  BY <1>4, PublicationKept DEF MarkStarted
<1>5. ASSUME NEW w \in Workers, Publishes(w) PROVE ReceiptsTrue'
  <2>1. job[w] \in Jobs /\ started[job[w]] /\ status[job[w]] # "ABSENT"
    BY <1>5, BusyHoldsJob DEF Publishes
  <2>2. UNCHANGED askedVars /\ UNCHANGED rowVars
    BY <1>5 DEF Publishes
  <2> QED
    BY <1>5, <2>1, <2>2, PublicationKept DEF Publishes, Apply
<1>6. ASSUME NEW w \in Workers, Succeeds(w) PROVE ReceiptsTrue'
  BY <1>6, PublicationKept DEF Succeeds, Succeed
<1>7. ASSUME NEW w \in Workers, Settle(w) PROVE ReceiptsTrue'
  BY <1>7, SettleEffect, PublicationKept DEF OthersKeep
<1>8. CASE Around
  <2>1. UNCHANGED askedVars /\ UNCHANGED <<receipts, status, started>>
    BY <1>8 DEF Around, LeaseExpires, AccessChanges, DueDatePasses, Push
  <2> QED
    BY <2>1, PublicationKept
<1> QED
  BY <1>0, <1>1, <1>2, <1>3, <1>4, <1>5, <1>6, <1>7, <1>8, Steps

LEMMA ReceiptedStep == TypeOK /\ AskedFirst /\ Receipted /\ [Next]_vars => Receipted'
<1> SUFFICES ASSUME TypeOK /\ AskedFirst /\ Receipted, [Next]_vars PROVE Receipted'
  OBVIOUS
<1> USE DEF AskedFirst, Receipted
<1>0. CASE UNCHANGED vars
  BY <1>0
<1>1. ASSUME NEW j \in Jobs, Create(j) PROVE Receipted'
  BY <1>1 DEF Create
<1>2. ASSUME NEW w \in Workers, NEW j \in Jobs, Claim(w, j) PROVE Receipted'
  BY <1>2 DEF Claim, Claimable, RowLocked
<1>3. ASSUME NEW w \in Workers, Walks(w) PROVE Receipted'
  BY <1>3, Walk DEF OthersKeep, Follows
<1>4. ASSUME NEW w \in Workers, MarkStarted(w) PROVE Receipted'
  BY <1>4 DEF MarkStarted
<1>5. ASSUME NEW w \in Workers, Publishes(w) PROVE Receipted'
  <2>1. job[w] \in Jobs /\ Publication(job[w]) # None
    BY <1>5, BusyHoldsJob, PublicationSome DEF Publishes
  <2>2. receipts' = [receipts EXCEPT ![job[w]] = Publication(job[w])]
    BY <1>5 DEF Publishes, Apply
  <2>3. \A v \in Workers : receipts[job[v]] # None \/ v = w => receipts'[job[v]] # None
    BY <2>1, <2>2
  <2>4. \A v \in Workers : job'[v] = job[v] /\ (v # w => pc'[v] = pc[v])
    BY <1>5 DEF Publishes
  <2> QED
    BY <2>3, <2>4
<1>6. ASSUME NEW w \in Workers, Succeeds(w) PROVE Receipted'
  BY <1>6 DEF Succeeds, Succeed
<1>7. ASSUME NEW w \in Workers, Settle(w) PROVE Receipted'
  BY <1>7, SettleEffect DEF OthersKeep
<1>8. CASE Around
  BY <1>8 DEF Around, LeaseExpires, AccessChanges, DueDatePasses, Push
<1> QED
  BY <1>0, <1>1, <1>2, <1>3, <1>4, <1>5, <1>6, <1>7, <1>8, Steps

LEMMA ResultsTrueStep ==
    TypeOK /\ TxOwns /\ ReceiptsTrue /\ Receipted /\ ResultsTrue /\ [Next]_vars
    => ResultsTrue'
<1> SUFFICES ASSUME TypeOK /\ TxOwns /\ ReceiptsTrue /\ Receipted /\ ResultsTrue,
                    [Next]_vars
             PROVE  ResultsTrue'
  OBVIOUS
<1> USE DEF TxOwns, ReceiptsTrue, Receipted, ResultsTrue, Owns
<1>0. CASE UNCHANGED vars
  BY <1>0
<1>1. ASSUME NEW j \in Jobs, Create(j) PROVE ResultsTrue'
  BY <1>1 DEF Create
<1>2. ASSUME NEW w \in Workers, NEW j \in Jobs, Claim(w, j) PROVE ResultsTrue'
  BY <1>2 DEF Claim, Claimable, RowLocked
<1>3. ASSUME NEW w \in Workers, Walks(w) PROVE ResultsTrue'
  BY <1>3, Walk DEF OthersKeep, Follows
<1>4. ASSUME NEW w \in Workers, MarkStarted(w) PROVE ResultsTrue'
  BY <1>4 DEF MarkStarted
<1>5. ASSUME NEW w \in Workers, Publishes(w) PROVE ResultsTrue'
  BY <1>5 DEF Publishes, Applies, Apply
<1>6. ASSUME NEW w \in Workers, Succeeds(w) PROVE ResultsTrue'
  BY <1>6 DEF Succeeds, Succeed
<1>7. ASSUME NEW w \in Workers, Settle(w) PROVE ResultsTrue'
  BY <1>7, SettleEffect DEF OthersKeep
<1>8. CASE Around
  BY <1>8 DEF Around, LeaseExpires, AccessChanges, DueDatePasses, Push
<1> QED
  BY <1>0, <1>1, <1>2, <1>3, <1>4, <1>5, <1>6, <1>7, <1>8, Steps

LEMMA RecordedOnceStep == TypeOK /\ TxOwns /\ RecordedOnce /\ [Next]_vars => RecordedOnce'
<1> SUFFICES ASSUME TypeOK /\ TxOwns /\ RecordedOnce, [Next]_vars PROVE RecordedOnce'
  OBVIOUS
<1> USE DEF TxOwns, RecordedOnce, Owns
<1>0. CASE UNCHANGED vars
  BY <1>0
<1>1. ASSUME NEW j \in Jobs, Create(j) PROVE RecordedOnce'
  BY <1>1 DEF Create
<1>2. ASSUME NEW w \in Workers, NEW j \in Jobs, Claim(w, j) PROVE RecordedOnce'
  BY <1>2 DEF Claim, Claimable, RowLocked
<1>3. ASSUME NEW w \in Workers, Walks(w) PROVE RecordedOnce'
  BY <1>3, Walk DEF OthersKeep, Follows
<1>4. ASSUME NEW w \in Workers, MarkStarted(w) PROVE RecordedOnce'
  BY <1>4 DEF MarkStarted
<1>5. ASSUME NEW w \in Workers, Publishes(w) PROVE RecordedOnce'
  BY <1>5 DEF Publishes, Applies, Apply
<1>6. ASSUME NEW w \in Workers, Succeeds(w) PROVE RecordedOnce'
  BY <1>6 DEF Succeeds, Succeed
<1>7. ASSUME NEW w \in Workers, Settle(w) PROVE RecordedOnce'
  BY <1>7, SettleEffect DEF OthersKeep
<1>8. CASE Around
  BY <1>8 DEF Around, LeaseExpires, AccessChanges, DueDatePasses, Push
<1> QED
  BY <1>0, <1>1, <1>2, <1>3, <1>4, <1>5, <1>6, <1>7, <1>8, Steps

-----------------------------------------------------------------------------
(* Fenced: every step keeps each part of FencedInv. *)

LEMMA UpdateInTxStep == Fenced /\ TypeOK /\ UpdateInTx /\ [Next]_vars => UpdateInTx'
<1> SUFFICES ASSUME Fenced /\ TypeOK /\ UpdateInTx, [Next]_vars PROVE UpdateInTx'
  OBVIOUS
<1> USE DEF UpdateInTx
<1>0. CASE UNCHANGED vars
  BY <1>0
<1>1. ASSUME NEW j \in Jobs, Create(j) PROVE UpdateInTx'
  BY <1>1 DEF Create
<1>2. ASSUME NEW w \in Workers, NEW j \in Jobs, Claim(w, j) PROVE UpdateInTx'
  BY <1>2 DEF Claim, Claimable, RowLocked
<1>3. ASSUME NEW w \in Workers, Walks(w) PROVE UpdateInTx'
  BY <1>3, Walk DEF OthersKeep, Follows
<1>4. ASSUME NEW w \in Workers, MarkStarted(w) PROVE UpdateInTx'
  BY <1>4 DEF MarkStarted
<1>5. ASSUME NEW w \in Workers, Publishes(w) PROVE UpdateInTx'
  BY <1>5 DEF Publishes, Applies, Apply
<1>6. ASSUME NEW w \in Workers, Succeeds(w) PROVE UpdateInTx'
  BY <1>6 DEF Succeeds, Succeed
<1>7. ASSUME NEW w \in Workers, Settle(w) PROVE UpdateInTx'
  BY <1>7, SettleEffect DEF OthersKeep
<1>8. CASE Around
  BY <1>8 DEF Around, LeaseExpires, AccessChanges, DueDatePasses, Push
<1> QED
  BY <1>0, <1>1, <1>2, <1>3, <1>4, <1>5, <1>6, <1>7, <1>8, Steps

LEMMA UnpublishedStep ==
    Fenced /\ TypeOK /\ TxOwns /\ UpdateInTx /\ Unpublished /\ [Next]_vars
    => Unpublished'
<1> SUFFICES ASSUME Fenced /\ TypeOK /\ TxOwns /\ UpdateInTx /\ Unpublished,
                    [Next]_vars
             PROVE  Unpublished'
  OBVIOUS
<1> USE DEF TxOwns, UpdateInTx, Unpublished, Owns
<1>0. CASE UNCHANGED vars
  BY <1>0
<1>1. ASSUME NEW j \in Jobs, Create(j) PROVE Unpublished'
  BY <1>1 DEF Create
<1>2. ASSUME NEW w \in Workers, NEW j \in Jobs, Claim(w, j) PROVE Unpublished'
  BY <1>2 DEF Claim, Claimable, RowLocked
<1>3. ASSUME NEW w \in Workers, Walks(w) PROVE Unpublished'
  BY <1>3, Walk DEF OthersKeep, Follows, LateRefusal, Absent
<1>4. ASSUME NEW w \in Workers, MarkStarted(w) PROVE Unpublished'
  BY <1>4 DEF MarkStarted
<1>5. ASSUME NEW w \in Workers, Publishes(w) PROVE Unpublished'
  BY <1>5 DEF Publishes, Applies, Apply
<1>6. ASSUME NEW w \in Workers, Succeeds(w) PROVE Unpublished'
  BY <1>6 DEF Succeeds, Succeed
<1>7. ASSUME NEW w \in Workers, Settle(w) PROVE Unpublished'
  BY <1>7, SettleEffect, NullAssumption DEF OthersKeep
<1>8. CASE Around
  BY <1>8 DEF Around, LeaseExpires, AccessChanges, DueDatePasses, Push
<1> QED
  BY <1>0, <1>1, <1>2, <1>3, <1>4, <1>5, <1>6, <1>7, <1>8, Steps

LEMMA RefusedStep ==
    Fenced /\ TypeOK /\ TxOwns /\ UpdateInTx /\ ReceiptsTrue /\ Unpublished
    /\ RefusedIsNotPublished /\ [Next]_vars
    => RefusedIsNotPublished'
<1> SUFFICES ASSUME Fenced, TypeOK, TxOwns, UpdateInTx, ReceiptsTrue, Unpublished,
                    RefusedIsNotPublished, [Next]_vars
             PROVE  RefusedIsNotPublished'
  OBVIOUS
<1> USE DEF TxOwns, UpdateInTx, ReceiptsTrue, Unpublished, RefusedIsNotPublished, Owns
<1>0. CASE UNCHANGED vars
  BY <1>0
<1>1. ASSUME NEW j \in Jobs, Create(j) PROVE RefusedIsNotPublished'
  BY <1>1 DEF Create
<1>2. ASSUME NEW w \in Workers, NEW j \in Jobs, Claim(w, j) PROVE RefusedIsNotPublished'
  BY <1>2 DEF Claim, Claimable, RowLocked
<1>3. ASSUME NEW w \in Workers, Walks(w) PROVE RefusedIsNotPublished'
  BY <1>3, Walk DEF OthersKeep, Follows
<1>4. ASSUME NEW w \in Workers, MarkStarted(w) PROVE RefusedIsNotPublished'
  BY <1>4 DEF MarkStarted
<1>5. ASSUME NEW w \in Workers, Publishes(w) PROVE RefusedIsNotPublished'
  BY <1>5 DEF Publishes, Applies, Apply
<1>6. ASSUME NEW w \in Workers, Succeeds(w) PROVE RefusedIsNotPublished'
  BY <1>6 DEF Succeeds, Succeed
<1>7. ASSUME NEW w \in Workers, Settle(w) PROVE RefusedIsNotPublished'
  BY <1>7, SettleEffect DEF OthersKeep
<1>8. CASE Around
  BY <1>8 DEF Around, LeaseExpires, AccessChanges, DueDatePasses, Push
<1> QED
  BY <1>0, <1>1, <1>2, <1>3, <1>4, <1>5, <1>6, <1>7, <1>8, Steps

LEMMA AllowedStep ==
    Fenced /\ TypeOK /\ UpdateInTx /\ AllowedInTx /\ [Next]_vars
    => AllowedInTx'
<1> SUFFICES ASSUME Fenced /\ TypeOK /\ UpdateInTx /\ AllowedInTx,
                    [Next]_vars
             PROVE  AllowedInTx'
  OBVIOUS
<1> USE DEF UpdateInTx, AllowedInTx, Allowed, Target
<1>0. CASE UNCHANGED vars
  BY <1>0
<1>1. ASSUME NEW j \in Jobs, Create(j) PROVE AllowedInTx'
  BY <1>1 DEF Create
<1>2. ASSUME NEW w \in Workers, NEW j \in Jobs, Claim(w, j) PROVE AllowedInTx'
  BY <1>2 DEF Claim, Claimable, RowLocked
<1>3. ASSUME NEW w \in Workers, Walks(w) PROVE AllowedInTx'
  BY <1>3, Walk DEF OthersKeep, Follows
<1>4. ASSUME NEW w \in Workers, MarkStarted(w) PROVE AllowedInTx'
  BY <1>4 DEF MarkStarted
<1>5. ASSUME NEW w \in Workers, Publishes(w) PROVE AllowedInTx'
  BY <1>5 DEF Publishes, Applies, Apply
<1>6. ASSUME NEW w \in Workers, Succeeds(w) PROVE AllowedInTx'
  BY <1>6 DEF Succeeds, Succeed
<1>7. ASSUME NEW w \in Workers, Settle(w) PROVE AllowedInTx'
  BY <1>7, SettleEffect DEF OthersKeep
<1>8. CASE Around
  <2>1. ASSUME NEW a \in Actors, AccessChanges(a) PROVE AllowedInTx'
    BY <2>1, BusyHoldsJob DEF AccessChanges, PolicyLocked
  <2> QED
    BY <1>8, <2>1 DEF Around, LeaseExpires, DueDatePasses, Push
<1> QED
  BY <1>0, <1>1, <1>2, <1>3, <1>4, <1>5, <1>6, <1>7, <1>8, Steps

-----------------------------------------------------------------------------
(* Histories. *)

LEMMA PrefixMeans ==
    ASSUME NEW S, NEW s \in Seq(S), NEW t \in Seq(S)
    PROVE  IsPrefix(s, t) <=> Len(s) <= Len(t) /\ \A i \in 1 .. Len(s) : s[i] = t[i]
  BY DEF IsPrefix

LEMMA PrefixSelf == ASSUME NEW S, NEW s \in Seq(S) PROVE IsPrefix(s, s)
  BY PrefixMeans

LEMMA PrefixEmpty == ASSUME NEW S, NEW s \in Seq(S) PROVE IsPrefix(<<>>, s)
<1> DEFINE t == <<>>
<1>1. t \in Seq(S) /\ Len(t) = 0 /\ Len(s) \in Nat
  OBVIOUS
<1> HIDE DEF t
<1>2. IsPrefix(t, s)
  <2>1. Len(t) <= Len(s) /\ \A i \in 1 .. Len(t) : t[i] = s[i]
    BY <1>1
  <2>2. t \in Seq(S) /\ s \in Seq(S)
    BY <1>1
  <2> QED
    BY <2>1, <2>2, PrefixMeans
<1> QED
  BY <1>2 DEF t

LEMMA PrefixAppend ==
    ASSUME NEW S, NEW s \in Seq(S), NEW e \in S PROVE IsPrefix(s, Append(s, e))
<1> DEFINE t == Append(s, e)
<1>1. t \in Seq(S) /\ Len(t) = Len(s) + 1 /\ \A i \in 1 .. Len(s) : t[i] = s[i]
  OBVIOUS
<1> HIDE DEF t
<1>2. IsPrefix(s, t)
  BY <1>1, PrefixMeans
<1> QED
  BY <1>2 DEF t

LEMMA PrefixTrans ==
    ASSUME NEW S, NEW s \in Seq(S), NEW t \in Seq(S), NEW u \in Seq(S),
           IsPrefix(s, t), IsPrefix(t, u)
    PROVE  IsPrefix(s, u)
  BY PrefixMeans

LEMMA RefusalExtends ==
    ASSUME TypeOK, AskedFirst, NEW j \in Jobs, status[j] # "ABSENT", Refusal(j) = "NONE"
    PROVE  Extends(j)
<1>0. expTarget[j] \in Seq(Jobs \union Nat) /\ expSource[j] \in Seq(Jobs \union Nat)
  BY DEF Histories
<1>1. CASE IsCommit(j)
  BY <1>0, <1>1, PrefixAppend DEF Extends, Publication
<1>2. CASE Creates(j)
  <2>1. expTarget[j] = <<>> /\ ~IsCommit(j)
    BY <1>2 DEF AskedFirst, None, IsCommit, Creates
  <2> QED
    BY <1>0, <2>1, PrefixEmpty DEF Extends, Publication
<1>3. CASE ~IsCommit(j) /\ ~Creates(j)
  BY <1>3 DEF Refusal, FastForwardRefusal, Extends, Publication
<1> QED
  BY <1>1, <1>2, <1>3

LEMMA ExtendsKept ==
    ASSUME NEW j \in Jobs, UNCHANGED askedVars PROVE Extends(j)' = Extends(j)
  BY DEF Extends, Publication, IsCommit

LEMMA PreparedExtendsStep ==
    TypeOK /\ AskedFirst /\ ReceiptsTrue /\ Receipted /\ PreparedExtends /\ [Next]_vars
    => PreparedExtends'
<1> SUFFICES ASSUME TypeOK /\ AskedFirst /\ ReceiptsTrue /\ Receipted /\ PreparedExtends,
                    [Next]_vars
             PROVE  PreparedExtends'
  OBVIOUS
<1> USE DEF AskedFirst, PreparedExtends
<1>0. CASE UNCHANGED vars
  BY <1>0, ExtendsKept, BusyHoldsJob
<1>1. ASSUME NEW j \in Jobs, Create(j) PROVE PreparedExtends'
  <2>1. \A k \in Jobs : status[k] # "ABSENT" => Extends(k)' = Extends(k)
    BY <1>1 DEF Create, Extends, Publication, IsCommit
  <2> QED
    BY <1>1, <2>1, BusyHoldsJob DEF Create, ReceiptsTrue
<1>2. ASSUME NEW w \in Workers, NEW j \in Jobs, Claim(w, j) PROVE PreparedExtends'
  BY <1>2, ExtendsKept, BusyHoldsJob DEF Claim, Claimable, RowLocked
<1>3. ASSUME NEW w \in Workers, Walks(w) PROVE PreparedExtends'
  <2>1. \A k \in Jobs : Extends(k)' = Extends(k)
    BY <1>3, Walk, ExtendsKept
  <2>2. job[w] \in Jobs /\ Refusal(job[w]) = "NONE" => Extends(job[w])
    BY RefusalExtends
  <2> QED
    BY <1>3, <2>1, <2>2, Walk, BusyHoldsJob DEF OthersKeep, Follows
<1>4. ASSUME NEW w \in Workers, MarkStarted(w) PROVE PreparedExtends'
  BY <1>4, ExtendsKept, BusyHoldsJob DEF MarkStarted
<1>5. ASSUME NEW w \in Workers, Publishes(w) PROVE PreparedExtends'
  BY <1>5, ExtendsKept, BusyHoldsJob, PublicationSome DEF Publishes, Applies, Apply
<1>6. ASSUME NEW w \in Workers, Succeeds(w) PROVE PreparedExtends'
  BY <1>6, ExtendsKept, BusyHoldsJob DEF Succeeds, Succeed
<1>7. ASSUME NEW w \in Workers, Settle(w) PROVE PreparedExtends'
  BY <1>7, SettleEffect, ExtendsKept, BusyHoldsJob DEF OthersKeep
<1>8. CASE Around
  <2>1. UNCHANGED askedVars /\ UNCHANGED <<receipts, pc, job>>
    BY <1>8 DEF Around, LeaseExpires, AccessChanges, DueDatePasses, Push
  <2> QED
    BY <2>1, ExtendsKept, BusyHoldsJob
<1> QED
  BY <1>0, <1>1, <1>2, <1>3, <1>4, <1>5, <1>6, <1>7, <1>8, Steps

(* A publication extends the branch that it moves and no other. *)
LEMMA PublicationExtends ==
    ASSUME TypeOK, PreparedExtends, NEW w \in Workers, Publishes(w), NEW b \in Branches
    PROVE  IsPrefix(heads[b], heads'[b])
<1>1. job[w] \in Jobs /\ Extends(job[w]) /\ heads[Target(job[w])] = expTarget[job[w]]
  BY BusyHoldsJob DEF Publishes, PreparedExtends, Applies, AsExpected
<1>2. heads' = [heads EXCEPT ![Target(job[w])] = Publication(job[w])]
  BY DEF Publishes, Apply
<1>3. CASE b = Target(job[w])
  BY <1>1, <1>2, <1>3 DEF Extends
<1>4. CASE b # Target(job[w])
  <2>1. heads[b] \in Seq(Jobs \union Nat) /\ heads'[b] = heads[b]
    BY <1>2, <1>4 DEF Histories
  <2> QED
    BY <2>1, PrefixSelf
<1> QED
  BY <1>3, <1>4

LEMMA MainGrows ==
    ASSUME TypeOK, PreparedExtends, [Next]_vars
    PROVE  IsPrefix(heads[Main], heads'[Main])
<1>0. Main \in Branches /\ heads[Main] \in Seq(Jobs \union Nat)
  BY NullAssumption DEF Histories
<1>1. CASE heads' = heads
  BY <1>0, <1>1, PrefixSelf
<1>2. ASSUME NEW w \in Workers, Publishes(w) PROVE IsPrefix(heads[Main], heads'[Main])
  BY <1>0, <1>2, PublicationExtends
<1>3. ASSUME NEW b \in Branches, Push(b) PROVE IsPrefix(heads[Main], heads'[Main])
  <2>1. moves' \in Jobs \union Nat
    BY <1>3 DEF Push, Move, BoundTypes
  <2>2. heads'[Main] = heads[Main] \/ heads'[Main] = Append(heads[Main], moves')
    BY <1>0, <1>3 DEF Push
  <2>3. IsPrefix(heads[Main], heads[Main])
    BY <1>0, PrefixSelf
  <2>4. IsPrefix(heads[Main], Append(heads[Main], moves'))
    BY <1>0, <2>1, PrefixAppend
  <2> QED
    BY <2>2, <2>3, <2>4
<1>4. ASSUME NEW w \in Workers, Walks(w) \/ Settle(w) PROVE heads' = heads
  BY <1>4, Walk, SettleEffect
<1> QED
  BY <1>1, <1>2, <1>3, <1>4, Steps
     DEF Create, Claim, MarkStarted, Succeeds, Around, LeaseExpires, AccessChanges,
         DueDatePasses

LEMMA MainKeepsStep ==
    TypeOK /\ AskedFirst /\ ReceiptsTrue /\ PreparedExtends /\ MainKeeps /\ [Next]_vars
    => MainKeeps'
<1> SUFFICES ASSUME TypeOK, AskedFirst, ReceiptsTrue, PreparedExtends, MainKeeps, [Next]_vars,
                    NEW j \in Jobs, receipts'[j] # None, Target(j)' = Main
             PROVE  IsPrefix(receipts'[j], heads'[Main])
  BY DEF MainKeeps
<1>1. Target(j) = Main /\ request' = request
  <2>1. request' = request
    BY Steps, Walk, SettleEffect DEF Create, Claim, MarkStarted, Publishes, Succeeds, Around,
       LeaseExpires, AccessChanges, DueDatePasses, Push
  <2> QED
    BY <2>1 DEF Target
<1>2. CASE receipts'[j] = receipts[j]
  <2>1. /\ receipts[j] \in Seq(Jobs \union Nat)
        /\ heads[Main] \in Seq(Jobs \union Nat) /\ heads'[Main] \in Seq(Jobs \union Nat)
    BY TypeStep, NullAssumption DEF Histories
  <2>2. IsPrefix(receipts[j], heads[Main])
    BY <1>1, <1>2 DEF MainKeeps
  <2> QED
    BY <1>2, <2>1, <2>2, MainGrows, PrefixTrans
<1>3. CASE receipts'[j] # receipts[j]
  <2>1. PICK w \in Workers : Publishes(w)
    BY <1>3, Steps, Walk, SettleEffect DEF Create, Claim, MarkStarted, Succeeds, Around,
       LeaseExpires, AccessChanges, DueDatePasses, Push
  <2>2. job[w] = j /\ receipts'[j] = Publication(j) /\ heads'[Main] = Publication(j)
    BY <1>1, <1>3, <2>1, BusyHoldsJob, NullAssumption DEF Publishes, Apply
  <2>3. Publication(j) \in Seq(Jobs \union Nat)
    BY PublicationType DEF Histories
  <2> QED
    BY <2>2, <2>3, PrefixSelf
<1> QED
  BY <1>2, <1>3

(* The commit of a job is put on a branch only while the job has no receipt,
   and elsewhere only by copying a branch. *)
LEMMA PublishedOnceStep == TypeOK /\ PublishedOnce /\ [Next]_vars => PublishedOnce'
<1> SUFFICES ASSUME TypeOK, PublishedOnce, [Next]_vars, NEW j \in Jobs, NEW b \in Branches,
                    NEW i \in DOMAIN heads'[b], heads'[b][i] = j
             PROVE  /\ receipts'[j] # None
                    /\ \A k \in DOMAIN heads'[b] : heads'[b][k] = j => k = i
  BY DEF PublishedOnce
<1>0. \A c \in Branches : heads[c] \in Seq(Jobs \union Nat)
  BY DEF Histories
<1>1. CASE heads' = heads /\ receipts' = receipts
  BY <1>1 DEF PublishedOnce
<1>2. ASSUME NEW w \in Workers, Publishes(w)
      PROVE  /\ receipts'[j] # None
             /\ \A k \in DOMAIN heads'[b] : heads'[b][k] = j => k = i
  <2> DEFINE p == job[w]
  <2>1. /\ p \in Jobs /\ Target(p) \in Branches /\ Source(p) \in Branches
        /\ receipts[p] = None /\ heads[Target(p)] = expTarget[p]
        /\ ~IsCommit(p) => heads[Source(p)] = expSource[p]
        /\ heads' = [heads EXCEPT ![Target(p)] = Publication(p)]
        /\ receipts' = [receipts EXCEPT ![p] = Publication(p)]
    BY <1>2, BusyHoldsJob, RequestType DEF Publishes, Applies, AsExpected, Apply
  <2> HIDE DEF p
  <2>2. \A k \in Jobs : k # p => receipts'[k] = receipts[k]
    BY <2>1
  <2>3. \A c \in Branches : \A n \in DOMAIN heads[c] : heads[c][n] # p
    BY <2>1 DEF PublishedOnce
  <2>4. CASE b # Target(p)
    <3>1. heads'[b] = heads[b]
      BY <2>1, <2>4
    <3> QED
      BY <2>2, <2>3, <3>1 DEF PublishedOnce
  <2>5. CASE b = Target(p) /\ ~IsCommit(p)
    <3>1. heads'[b] = heads[Source(p)]
      BY <2>1, <2>5 DEF Publication
    <3> QED
      BY <2>1, <2>2, <2>3, <3>1 DEF PublishedOnce
  <2>6. CASE b = Target(p) /\ IsCommit(p)
    <3> DEFINE s == heads[b]
    <3>1. heads'[b] = Append(s, p) /\ receipts'[p] = Append(s, p)
      BY <2>1, <2>6 DEF Publication
    <3>2. s \in Seq(Jobs \union Nat) /\ p \in Jobs \union Nat
      BY <1>0, <2>1
    <3> HIDE DEF s
    <3>3. /\ DOMAIN heads'[b] = 1 .. (Len(s) + 1) /\ DOMAIN s = 1 .. Len(s)
          /\ Len(s) \in Nat /\ heads'[b][Len(s) + 1] = p
          /\ \A n \in 1 .. Len(s) : heads'[b][n] = s[n]
          /\ Append(s, p) # <<>>
      BY <3>1, <3>2
    <3>4. CASE j = p
      <4>1. \A n \in 1 .. Len(s) : heads'[b][n] # p
        BY <2>3, <3>3 DEF s
      <4> QED
        BY <3>1, <3>3, <3>4, <4>1 DEF None
    <3>5. CASE j # p
      <4>1. i \in DOMAIN s /\ \A k \in DOMAIN heads'[b] : heads'[b][k] = j => k \in DOMAIN s
        BY <3>3, <3>5
      <4> QED
        BY <2>2, <3>3, <3>5, <4>1 DEF PublishedOnce, s
    <3> QED
      BY <3>4, <3>5
  <2> QED
    BY <2>4, <2>5, <2>6
<1>3. ASSUME NEW c \in Branches, Push(c)
      PROVE  /\ receipts'[j] # None
             /\ \A k \in DOMAIN heads'[b] : heads'[b][k] = j => k = i
  <2> DEFINE s == heads[b]
  <2>1. moves' \in Nat /\ j \notin Nat /\ receipts' = receipts
    BY <1>3, NullAssumption DEF Push, Move, BoundTypes
  <2>2. heads'[b] = s \/ heads'[b] = Append(s, moves') \/ heads'[b] = <<>>
    BY <1>3 DEF Push, None
  <2>3. s \in Seq(Jobs \union Nat) /\ moves' \in Jobs \union Nat
    BY <1>0, <2>1
  <2> HIDE DEF s
  <2>4. \A k \in DOMAIN heads'[b] : heads'[b][k] = j => k \in DOMAIN s /\ s[k] = j
    <3>1. CASE heads'[b] = Append(s, moves')
      <4>1. /\ DOMAIN heads'[b] = 1 .. (Len(s) + 1) /\ DOMAIN s = 1 .. Len(s)
            /\ Len(s) \in Nat /\ heads'[b][Len(s) + 1] = moves'
            /\ \A n \in 1 .. Len(s) : heads'[b][n] = s[n]
        BY <2>3, <3>1
      <4> QED
        BY <2>1, <4>1
    <3>2. CASE heads'[b] = <<>>
      <4>1. DOMAIN heads'[b] = {}
        BY <3>2
      <4> QED
        BY <4>1
    <3> QED
      BY <2>2, <3>1, <3>2
  <2> QED
    BY <2>1, <2>4 DEF PublishedOnce, s
<1>4. ASSUME NEW w \in Workers, Walks(w) \/ Settle(w)
      PROVE  heads' = heads /\ receipts' = receipts
  BY <1>4, Walk, SettleEffect
<1> QED
  BY <1>1, <1>2, <1>3, <1>4, Steps
     DEF Create, Claim, MarkStarted, Succeeds, Around, LeaseExpires, AccessChanges,
         DueDatePasses

-----------------------------------------------------------------------------
(* Theorems. *)

LEMMA AlwaysInv == Spec => [](TypeOK /\ JobInv /\ HistoryInv)
<1>1. Init => JobInv /\ HistoryInv
  <2> SUFFICES ASSUME Init PROVE JobInv /\ HistoryInv
    OBVIOUS
  <2> USE DEF Init
  <2>1. TxOwns /\ StartedFirst /\ Receipted /\ PreparedExtends
    BY NullAssumption DEF TxOwns, StartedFirst, Receipted, PreparedExtends, InTransaction
  <2>2. AskedFirst
    BY NullAssumption DEF AskedFirst
  <2>3. ReceiptsTrue /\ ResultsTrue /\ RecordedOnce /\ MainKeeps
    BY DEF ReceiptsTrue, ResultsTrue, RecordedOnce, MainKeeps
  <2> QED
    BY <2>1, <2>2, <2>3 DEF JobInv, HistoryInv
<1>2. TypeOK /\ JobInv /\ HistoryInv /\ [Next]_vars => JobInv' /\ HistoryInv'
  BY TxOwnsStep, StartedFirstStep, AskedFirstStep, ReceiptsTrueStep, ReceiptedStep,
     ResultsTrueStep, RecordedOnceStep, PreparedExtendsStep, MainKeepsStep
     DEF JobInv, HistoryInv
<1> QED
  BY <1>1, <1>2, TypeCorrect, TypeStep, PTL DEF Spec

(* Under any timing the feed has one activity for each SUCCEEDED job: the
   completion of a job is written under its row lock by its owner. *)
THEOREM RecordedOnceAlways == Spec => []RecordedOnce
<1>1. JobInv => RecordedOnce
  BY DEF JobInv
<1> QED
  BY <1>1, AlwaysInv, PTL

(* Under any timing a SUCCEEDED job names the commit of its receipt, and what
   it put on main stays there. *)
THEOREM SucceededIsPublishedAlways == Spec => []SucceededIsPublished
<1>1. JobInv /\ HistoryInv => SucceededIsPublished
  BY DEF JobInv, HistoryInv, ResultsTrue, MainKeeps, SucceededIsPublished
<1> QED
  BY <1>1, AlwaysInv, PTL

(* The only step that writes a receipt. *)
LEMMA ReceiptWriter ==
    ASSUME TypeOK, [Next]_vars, receipts' # receipts
    PROVE  \E w \in Workers : Publishes(w)
  BY Steps, Walk, SettleEffect DEF Create, Claim, MarkStarted, Succeeds, Around,
     LeaseExpires, AccessChanges, DueDatePasses, Push

(* Under any timing a publication only extends the history of its branch,
   whichever attempt makes it and however late. *)
THEOREM NoLostUpdateAlways == Spec => NoLostUpdate
<1>1. TypeOK /\ HistoryInv /\ [Next]_vars =>
          (receipts' # receipts => \A b \in Branches : IsPrefix(heads[b], heads'[b]))
  BY ReceiptWriter, PublicationExtends DEF HistoryInv
<1>2. TypeOK /\ HistoryInv /\ [Next]_vars =>
          [receipts' # receipts => \A b \in Branches : IsPrefix(heads[b], heads'[b])]_vars
  BY <1>1
<1> QED
  BY <1>2, AlwaysInv, PTL DEF Spec, NoLostUpdate

LEMMA FencedAlways == Fenced /\ Spec => []FencedInv
<1>1. Init => FencedInv
  BY DEF Init, FencedInv, UpdateInTx, Unpublished, RefusedIsNotPublished, AllowedInTx
<1>2. Fenced /\ TypeOK /\ JobInv /\ FencedInv /\ [Next]_vars => FencedInv'
  BY UpdateInTxStep, UnpublishedStep, RefusedStep, AllowedStep DEF JobInv, FencedInv
<1>3. Fenced' <=> Fenced
  OBVIOUS
<1> QED
  BY <1>1, <1>2, <1>3, AlwaysInv, PTL DEF Spec

(* If a transaction outlives the update made in it, a job that ends FAILED or
   CONFLICTED has published nothing, unless a worker has read its receipt as
   absent. *)
THEOREM RefusedIsNotPublishedAlways == Fenced /\ Spec => []RefusedIsNotPublished
<1>1. FencedInv => RefusedIsNotPublished
  BY DEF FencedInv
<1> QED
  BY <1>1, FencedAlways, PTL

(* Under any timing no history carries the commit of a job twice, or without
   its receipt. *)
THEOREM PublishedOnceAlways == Spec => []PublishedOnce
<1>1. Init => PublishedOnce
  <2> SUFFICES ASSUME Init, NEW j \in Jobs, NEW b \in Branches, NEW i \in DOMAIN heads[b]
               PROVE  heads[b][i] # j
    BY DEF PublishedOnce
  <2>1. heads[b] = <<Root>> \/ heads[b] = <<>>
    BY DEF Init, None
  <2>2. heads[b][i] = 0
    BY <2>1 DEF Root
  <2> QED
    BY <2>2, NullAssumption
<1> QED
  BY <1>1, PublishedOnceStep, TypeCorrect, PTL DEF Spec

(* If a transaction outlives the update made in it, what a job is told, what
   the feed says and what the branches hold agree, and nothing is published
   twice. *)
THEOREM ToldIsTrueAlways == Fenced /\ Spec => []ToldIsTrue
<1>1. RefusedIsNotPublished /\ SucceededIsPublished /\ RecordedOnce /\ PublishedOnce
      => ToldIsTrue
  BY DEF ToldIsTrue
<1> QED
  BY <1>1, RefusedIsNotPublishedAlways, SucceededIsPublishedAlways, RecordedOnceAlways,
     PublishedOnceAlways, PTL

(* If a transaction outlives the update made in it, a branch moves only by a
   student whose memberships allow it at that moment. *)
THEOREM AuthorizedPublicationAlways == Fenced /\ Spec => AuthorizedPublication
<1>1. TypeOK /\ FencedInv /\ [Next]_vars =>
          [\A j \in Jobs : receipts'[j] # receipts[j] => Allowed(j)]_vars
  <2> SUFFICES ASSUME TypeOK, FencedInv, [Next]_vars, NEW j \in Jobs, receipts'[j] # receipts[j]
               PROVE  Allowed(j)
    OBVIOUS
  <2>1. PICK w \in Workers : Publishes(w)
    BY ReceiptWriter
  <2>2. job[w] = j /\ pc[w] = "publishing"
    BY <2>1, BusyHoldsJob DEF Publishes, Apply
  <2> QED
    BY <2>2 DEF FencedInv, AllowedInTx
<1> QED
  BY <1>1, FencedAlways, AlwaysInv, PTL DEF Spec, AuthorizedPublication

(***************************************************************************)
(* The limit on branches.  A branch is counted with the repository's row    *)
(* locked and made in the same transaction: meanwhile nobody else publishes,*)
(* and a push makes a branch only in an empty repository.                   *)
(***************************************************************************)

(* A request that expects its branch to be absent makes a branch, or the
   first commit on main. *)
AskedWhere ==
    \A j \in Jobs : status[j] # "ABSENT" /\ expTarget[j] = None =>
        Creates(j) \/ (IsCommit(j) /\ Target(j) = Main)

MainFirst == heads[Main] # None \/ Present = {}

(* Two transactions hold the repository's row only for share. *)
Alone ==
    \A v, w \in Workers : v # w /\ PolicyLocked(v) /\ PolicyLocked(w) =>
        IsCommit(job[v]) /\ IsCommit(job[w])

Room ==
    \A w \in Workers : pc[w] = "publishing" /\ Creates(job[w]) =>
        heads[Main] # None /\ Cardinality(Present) < MaxBranches

LimitInv == AskedWhere /\ MainFirst /\ Alone /\ Room /\ BranchLimit

LEMMA AskedWhereStep == TypeOK /\ TxOwns /\ AskedFirst /\ AskedWhere /\ [Next]_vars => AskedWhere'
<1> SUFFICES ASSUME TypeOK /\ TxOwns /\ AskedFirst /\ AskedWhere, [Next]_vars PROVE AskedWhere'
  OBVIOUS
<1> USE DEF TxOwns, AskedFirst, AskedWhere, Owns, IsCommit, Creates, Target
<1>0. CASE UNCHANGED vars
  BY <1>0
<1>1. ASSUME NEW j \in Jobs, Create(j) PROVE AskedWhere'
  <2>1. /\ request' = request /\ expTarget' = [expTarget EXCEPT ![j] = expTarget'[j]]
        /\ \A k \in Jobs \ {j} : status'[k] = status[k] /\ expTarget'[k] = expTarget[k]
    BY <1>1 DEF Create
  <2>2. expTarget'[j] = None => Creates(j) \/ (IsCommit(j) /\ Target(j) = Main)
    BY <1>1 DEF Create, Present
  <2> QED
    BY <2>1, <2>2
<1>2. ASSUME NEW w \in Workers, NEW j \in Jobs, Claim(w, j) PROVE AskedWhere'
  BY <1>2, NullAssumption DEF Claim, Claimable, RowLocked
<1>3. ASSUME NEW w \in Workers, Walks(w) PROVE AskedWhere'
  BY <1>3, Walk DEF OthersKeep, Follows
<1>4. ASSUME NEW w \in Workers, MarkStarted(w) PROVE AskedWhere'
  BY <1>4 DEF MarkStarted
<1>5. ASSUME NEW w \in Workers, Publishes(w) PROVE AskedWhere'
  BY <1>5 DEF Publishes, Applies, Apply
<1>6. ASSUME NEW w \in Workers, Succeeds(w) PROVE AskedWhere'
  BY <1>6, NullAssumption, BusyHoldsJob DEF Succeeds, Succeed
<1>7. ASSUME NEW w \in Workers, Settle(w) PROVE AskedWhere'
  BY <1>7, SettleEffect, NullAssumption DEF OthersKeep
<1>8. CASE Around
  BY <1>8 DEF Around, LeaseExpires, AccessChanges, DueDatePasses, Push
<1> QED
  BY <1>0, <1>1, <1>2, <1>3, <1>4, <1>5, <1>6, <1>7, <1>8, Steps

LEMMA AloneStep == TypeOK /\ Alone /\ AskedFirst /\ [Next]_vars => Alone'
<1> SUFFICES ASSUME TypeOK /\ Alone /\ AskedFirst, [Next]_vars PROVE Alone'
  OBVIOUS
<1> USE DEF Alone, PolicyLocked, IsCommit
<1>0. CASE UNCHANGED vars
  BY <1>0
<1>1. ASSUME NEW j \in Jobs, Create(j) PROVE Alone'
  BY <1>1 DEF Create
<1>2. ASSUME NEW w \in Workers, NEW j \in Jobs, Claim(w, j) PROVE Alone'
  BY <1>2 DEF Claim, Claimable, RowLocked
<1>3. ASSUME NEW w \in Workers, Walks(w) PROVE Alone'
  BY <1>3, Walk DEF OthersKeep, Follows, RepositoryFree
<1>4. ASSUME NEW w \in Workers, MarkStarted(w) PROVE Alone'
  BY <1>4 DEF MarkStarted
<1>5. ASSUME NEW w \in Workers, Publishes(w) PROVE Alone'
  BY <1>5 DEF Publishes, Applies, Apply
<1>6. ASSUME NEW w \in Workers, Succeeds(w) PROVE Alone'
  BY <1>6 DEF Succeeds, Succeed
<1>7. ASSUME NEW w \in Workers, Settle(w) PROVE Alone'
  BY <1>7, SettleEffect DEF OthersKeep
<1>8. CASE Around
  BY <1>8 DEF Around, LeaseExpires, AccessChanges, DueDatePasses, Push
<1> QED
  BY <1>0, <1>1, <1>2, <1>3, <1>4, <1>5, <1>6, <1>7, <1>8, Steps

LEMMA PresentFinite ==
    ASSUME TypeOK
    PROVE  IsFiniteSet(Present) /\ Cardinality(Present) \in Nat
<1>1. Present \subseteq Branches
  BY DEF Present
<1> QED
  BY <1>1, BoundAssumption, FS_Subset, FS_CardinalityType

(* A publication adds a branch only if there is room for it. *)
LEMMA PublishesBranch ==
    ASSUME Fenced, TypeOK, JobInv, UpdateInTx, LimitInv, NEW w \in Workers, Publishes(w)
    PROVE  /\ heads'[Main] # None
           /\ Present' \subseteq Present \union {Target(job[w])}
           /\ Present' = Present \/ Creates(job[w]) \/ (Present = {} /\ Present' = {Main})
<1> DEFINE j == job[w]
<1>1. j \in Jobs /\ status[j] # "ABSENT" /\ pc[w] = "publishing"
  BY BusyHoldsJob DEF Publishes, JobInv, AskedFirst
<1>2. Publication(j) # None /\ Target(j) \in Branches
  BY <1>1, PublicationSome, RequestType DEF JobInv
<1> HIDE DEF j
<1>3. /\ heads' = [heads EXCEPT ![Target(j)] = Publication(j)]
      /\ heads[Target(j)] = expTarget[j]
      /\ IsCommit(j) \/ heads[Source(j)] = expSource[j]
  BY DEF Publishes, Apply, Applies, AsExpected, j
<1>4. Present' = Present \union {Target(j)} /\ heads'[Target(j)] # None
  BY <1>2, <1>3 DEF Present
<1>5. CASE expTarget[j] # None
  <2>1. Present' = Present /\ Present # {}
    BY <1>2, <1>3, <1>4, <1>5 DEF Present
  <2>2. heads[Main] # None
    BY <2>1 DEF LimitInv, MainFirst
  <2> QED
    BY <1>2, <1>3, <1>4, <2>1, <2>2 DEF j
<1>6. CASE expTarget[j] = None /\ Creates(j)
  <2>1. heads[Main] # None /\ Target(j) # Main
    BY <1>1, <1>6, RequestType DEF LimitInv, Room, j
  <2> QED
    BY <1>2, <1>3, <1>4, <1>6, <2>1 DEF j
<1>7. CASE expTarget[j] = None /\ Target(j) = Main
  <2>1. Present = {}
    BY <1>3, <1>7 DEF LimitInv, MainFirst
  <2> QED
    BY <1>4, <1>7, <2>1 DEF j
<1> QED
  BY <1>1, <1>5, <1>6, <1>7 DEF LimitInv, AskedWhere

(* A push makes a branch only in an empty repository. *)
LEMMA PushesBranch ==
    ASSUME TypeOK, MainFirst, NEW b \in Branches, Push(b)
    PROVE  /\ heads[Main] # None => heads'[Main] # None /\ Present' \subseteq Present
           /\ heads[Main] = None => Present' \subseteq {Main} /\ heads'[Main] # None
           /\ UNCHANGED <<pc, job, request>>
<1>1. \A c \in Branches : heads[c] \in Seq(Jobs \union Nat)
  BY DEF Histories
<1>2. moves' \in Nat
  BY DEF Push, Move, BoundTypes
<1>3. Append(heads[b], moves') # None
  <2>1. Len(Append(heads[b], moves')) = Len(heads[b]) + 1 /\ Len(heads[b]) \in Nat
    BY <1>1, <1>2
  <2>2. Len(<<>>) = 0
    OBVIOUS
  <2>3. Append(heads[b], moves') = <<>> => Len(heads[b]) + 1 = 0
    BY <2>1, <2>2, Zenon
  <2> QED
    BY <2>1, <2>3 DEF None
<1>4. UNCHANGED <<pc, job, request>>
  BY DEF Push
<1>5. CASE (b = Main \/ b \in Present) /\ heads' = [heads EXCEPT ![b] = Append(@, moves')]
  <2>1. Present' = Present \union {b}
    BY <1>3, <1>5 DEF Present
  <2>2. heads[Main] # None => Main \in Present
    BY NullAssumption DEF Present
  <2> QED
    BY <1>3, <1>4, <1>5, <2>1, <2>2 DEF MainFirst
<1>6. CASE b \in Present \ {Main} /\ heads' = [heads EXCEPT ![b] = None]
  <2>1. Present' \subseteq Present /\ heads'[Main] = heads[Main]
    BY <1>6, NullAssumption DEF Present
  <2> QED
    BY <1>4, <1>6, <2>1 DEF MainFirst
<1> QED
  BY <1>5, <1>6 DEF Push

LEMMA LimitStep ==
    Fenced /\ TypeOK /\ JobInv /\ UpdateInTx /\ LimitInv /\ [Next]_vars
    => (MainFirst /\ Room /\ BranchLimit)'
<1> SUFFICES ASSUME Fenced, TypeOK, JobInv, UpdateInTx, LimitInv, [Next]_vars
             PROVE  (MainFirst /\ Room /\ BranchLimit)'
  OBVIOUS
<1>1. ASSUME UNCHANGED <<heads, request>>,
             \A w \in Workers : pc'[w] = "publishing" => pc[w] = "publishing" /\ job'[w] = job[w]
      PROVE  (MainFirst /\ Room /\ BranchLimit)'
  BY <1>1 DEF LimitInv, MainFirst, Room, BranchLimit, Present, Creates
<1>2. ASSUME NEW w \in Workers, Walks(w) PROVE (MainFirst /\ Room /\ BranchLimit)'
  <2>1. CASE pc[w] = "fenced" /\ pc'[w] = "publishing"
    <3>1. /\ Refusal(job[w]) = "NONE" /\ job'[w] = job[w] /\ UNCHANGED <<heads, request>>
          /\ \A v \in Workers \ {w} : pc'[v] = pc[v] /\ job'[v] = job[v]
      BY <1>2, <2>1, Walk DEF Follows, OthersKeep
    <3>2. ASSUME Creates(job[w])
          PROVE  heads[Main] # None /\ Cardinality(Present) < MaxBranches
      <4>1. job[w] \in Jobs /\ status[job[w]] # "ABSENT"
        BY <2>1, BusyHoldsJob DEF JobInv, AskedFirst
      <4>2. ~IsCommit(job[w])
        BY <3>2 DEF Creates, IsCommit
      <4>3. /\ heads[Source(job[w])] = expSource[job[w]] /\ expSource[job[w]] # None
            /\ ~(Cardinality(Present) >= MaxBranches)
        BY <3>1, <3>2, <4>1, <4>2 DEF Refusal, CreateRefusal, JobInv, AskedFirst
      <4>4. Source(job[w]) \in Present
        BY <4>1, <4>3, RequestType DEF Present
      <4> QED
        BY <4>3, <4>4, PresentFinite, BoundAssumption DEF LimitInv, MainFirst
    <3> QED
      BY <3>1, <3>2 DEF LimitInv, MainFirst, Room, BranchLimit, Present, Creates
  <2>2. CASE pc[w] = "fencing" /\ pc'[w] = "publishing"
    <3>1. /\ IsCommit(job[w]) /\ job'[w] = job[w] /\ UNCHANGED <<heads, request>>
          /\ \A v \in Workers \ {w} : pc'[v] = pc[v] /\ job'[v] = job[v]
      BY <1>2, <2>2, Walk DEF Follows, OthersKeep
    <3> QED
      BY <3>1 DEF LimitInv, MainFirst, Room, BranchLimit, Present, Creates, IsCommit
  <2> QED
    BY <1>1, <1>2, <2>1, <2>2, Walk DEF OthersKeep, Follows
<1>3. ASSUME NEW w \in Workers, Publishes(w) PROVE (MainFirst /\ Room /\ BranchLimit)'
  <2>1. /\ heads'[Main] # None
        /\ Present' \subseteq Present \union {Target(job[w])}
        /\ Present' = Present \/ Creates(job[w]) \/ (Present = {} /\ Present' = {Main})
    BY <1>3, PublishesBranch
  <2>2. pc[w] = "publishing" /\ pc'[w] # "publishing" /\ UNCHANGED <<job, request>>
        /\ \A v \in Workers \ {w} : pc'[v] = pc[v]
    BY <1>3 DEF Publishes
  <2>3. \A v \in Workers : pc'[v] = "publishing" => v # w /\ pc[v] = "publishing"
    BY <2>2
  <2>4. \A v \in Workers : pc'[v] = "publishing" => IsCommit(job[v]) /\ IsCommit(job[w])
    BY <2>2, <2>3 DEF LimitInv, Alone, PolicyLocked, UpdateInTx
  <2>5. Room'
    BY <2>2, <2>4 DEF Room, Creates, IsCommit
  <2>6. CASE Present' = Present
    BY <2>1, <2>5, <2>6 DEF LimitInv, MainFirst, BranchLimit
  <2>7. CASE Present' = {Main}
    <3>1. Cardinality(Present') = 1
      BY <2>7, FS_Singleton
    <3> QED
      BY <2>1, <2>5, <3>1, BoundAssumption DEF MainFirst, BranchLimit
  <2>8. CASE Creates(job[w])
    <3>1. Cardinality(Present) < MaxBranches
      BY <2>2, <2>8 DEF LimitInv, Room
    <3>2. IsFiniteSet(Present \union {Target(job[w])})
          /\ Cardinality(Present \union {Target(job[w])}) <= Cardinality(Present) + 1
      <4>1. CASE Target(job[w]) \in Present
        <5>1. Present \union {Target(job[w])} = Present
          BY <4>1
        <5>2. Cardinality(Present) <= Cardinality(Present) + 1
          BY PresentFinite
        <5>3. IsFiniteSet(Present)
          BY PresentFinite
        <5> QED
          BY <5>1, <5>2, <5>3, Zenon
      <4>2. CASE Target(job[w]) \notin Present
        <5>1. /\ IsFiniteSet(Present \union {Target(job[w])})
              /\ Cardinality(Present \union {Target(job[w])}) = Cardinality(Present) + 1
          BY <4>2, PresentFinite, FS_AddElement
        <5> QED
          BY <5>1, PresentFinite
      <4> QED
        BY <4>1, <4>2
    <3>3. Cardinality(Present') <= Cardinality(Present \union {Target(job[w])})
          /\ Cardinality(Present') \in Nat
      BY <2>1, <3>2, FS_Subset, FS_CardinalityType
    <3>4. Cardinality(Present \union {Target(job[w])}) \in Nat
      BY <3>2, FS_CardinalityType
    <3>5. BranchLimit'
      BY <3>1, <3>2, <3>3, <3>4, PresentFinite, BoundAssumption DEF BranchLimit
    <3> QED
      BY <2>1, <2>5, <3>5 DEF MainFirst
  <2> QED
    BY <2>1, <2>6, <2>7, <2>8
<1>4. ASSUME NEW b \in Branches, Push(b) PROVE (MainFirst /\ Room /\ BranchLimit)'
  <2>1. /\ heads[Main] # None => heads'[Main] # None /\ Present' \subseteq Present
        /\ heads[Main] = None => Present' \subseteq {Main} /\ heads'[Main] # None
        /\ UNCHANGED <<pc, job, request>>
    BY <1>4, PushesBranch DEF LimitInv
  <2>2. CASE heads[Main] # None
    <3>1. Cardinality(Present') \in Nat /\ Cardinality(Present') <= Cardinality(Present)
      BY <2>1, <2>2, PresentFinite, FS_Subset, FS_CardinalityType
    <3>2. Cardinality(Present') <= MaxBranches
          /\ (Cardinality(Present) < MaxBranches => Cardinality(Present') < MaxBranches)
      BY <3>1, PresentFinite, BoundAssumption DEF LimitInv, BranchLimit
    <3> QED
      BY <2>1, <2>2, <3>2 DEF LimitInv, MainFirst, Room, BranchLimit, Creates
  <2>3. CASE heads[Main] = None
    <3>1. Cardinality({Main}) = 1 /\ IsFiniteSet({Main})
      BY FS_Singleton
    <3>2. Cardinality(Present') \in Nat /\ Cardinality(Present') <= 1
      BY <2>1, <2>3, <3>1, FS_Subset, FS_CardinalityType
    <3>3. BranchLimit'
      BY <3>2, BoundAssumption DEF BranchLimit
    <3>4. Room'
      BY <2>1, <2>3 DEF LimitInv, Room, Creates
    <3> QED
      BY <2>1, <2>3, <3>3, <3>4 DEF MainFirst
  <2> QED
    BY <2>2, <2>3
<1>5. ASSUME NEW j \in Jobs, Create(j) PROVE (MainFirst /\ Room /\ BranchLimit)'
  BY <1>1, <1>5 DEF Create
<1>6. ASSUME NEW w \in Workers, NEW j \in Jobs, Claim(w, j) PROVE (MainFirst /\ Room /\ BranchLimit)'
  BY <1>1, <1>6 DEF Claim
<1>7. ASSUME NEW w \in Workers, MarkStarted(w) PROVE (MainFirst /\ Room /\ BranchLimit)'
  BY <1>1, <1>7 DEF MarkStarted
<1>8. ASSUME NEW w \in Workers, Succeeds(w) PROVE (MainFirst /\ Room /\ BranchLimit)'
  BY <1>1, <1>8 DEF Succeeds, Succeed
<1>9. ASSUME NEW w \in Workers, Settle(w) PROVE (MainFirst /\ Room /\ BranchLimit)'
  BY <1>1, <1>9, SettleEffect DEF OthersKeep
<1>10. CASE Around
  BY <1>1, <1>4, <1>10 DEF Around, LeaseExpires, AccessChanges, DueDatePasses
<1>11. CASE UNCHANGED vars
  BY <1>1, <1>11
<1> QED
  BY <1>2, <1>3, <1>5, <1>6, <1>7, <1>8, <1>9, <1>10, <1>11, Steps

(* If a transaction outlives the update made in it, the branches made in the
   browser stay within GIT_MAX_BRANCHES, whatever workers run at once: a ref
   action counts them again with the repository's row locked for update. *)
THEOREM BranchLimitAlways == Fenced /\ Spec => []BranchLimit
<1>1. ASSUME Init
      PROVE  LimitInv
  <2>1. PICK there \in SUBSET Branches :
           /\ (there # {} => Main \in there) /\ Cardinality(there) <= MaxBranches
           /\ heads = [b \in Branches |-> IF b \in there THEN <<Root>> ELSE None]
    BY <1>1 DEF Init
  <2>2. <<Root>> # None
    BY DEF None
  <2>3. Present = there
    BY <2>1, <2>2 DEF Present
  <2>4. MainFirst /\ BranchLimit
    BY <2>1, <2>2, <2>3, NullAssumption DEF MainFirst, BranchLimit
  <2>5. AskedWhere /\ Alone /\ Room
    BY <1>1 DEF Init, AskedWhere, Alone, PolicyLocked, Room
  <2> QED
    BY <2>4, <2>5 DEF LimitInv
<1>2. Fenced /\ TypeOK /\ JobInv /\ FencedInv /\ LimitInv /\ [Next]_vars => LimitInv'
  <2> SUFFICES ASSUME Fenced, TypeOK, JobInv, FencedInv, LimitInv, [Next]_vars
               PROVE  LimitInv'
    OBVIOUS
  <2>1. AskedWhere' /\ Alone'
    BY AskedWhereStep, AloneStep DEF LimitInv, JobInv
  <2>2. (MainFirst /\ Room /\ BranchLimit)'
    BY LimitStep DEF FencedInv
  <2> QED
    BY <2>1, <2>2 DEF LimitInv
<1>3. LimitInv => BranchLimit
  BY DEF LimitInv
<1>4. Fenced' <=> Fenced
  OBVIOUS
<1> QED
  BY <1>1, <1>2, <1>3, <1>4, AlwaysInv, FencedAlways, PTL DEF Spec

=============================================================================
