------------------------- MODULE Workspaces_proofs --------------------------
(***************************************************************************)
(* Theorems about the Git workspaces a student works in by the browser:    *)
(* Checkpoints, for every set of jobs and workers and any number of        *)
(* attempts, pushes and faults, and below Practice.  No timing is assumed. *)
(*                                                                         *)
(* Checkpoints.  HeadKnown says where the commit of a checkpoint can be:   *)
(* after the head that its job expects, because every worker that may      *)
(* still push it has cloned that head, and at the head of the worker that  *)
(* is about to complete it.  Quiet says what is known as long as nothing   *)
(* has failed: a job is worked at by its owner alone, and only its owner's *)
(* push is on main.                                                        *)
(***************************************************************************)
EXTENDS Checkpoints, PracticePromises, TLAPS

CONSTANTS Saves, GiveUpAt
VARIABLES entered, receipts, hands, troubles

\* Jobs, workers and bounds that both modules name are the same here.
P == INSTANCE Practice

USE DEF vars, At, Goto, Owns, Ended, Faults, Statuses

(***************************************************************************)
(* Types.                                                                  *)
(***************************************************************************)
LEMMA EndedType ==
    ASSUME JobTypes, NEW j \in Jobs, NEW s \in Statuses, NEW n \in Nat
    PROVE  Ended(j, s) \in Row /\ [Ended(j, s) EXCEPT !.result = n] \in Row
<1>1. jobs[j] \in Row
  BY DEF JobTypes
<1>2. \A r \in Row : [r EXCEPT !.status = s, !.worker = NoWorker, !.lease = "none"] \in Row
  BY DEF Row
<1>3. \A r \in Row : [r EXCEPT !.result = n] \in Row
  BY DEF Row
<1> QED
  BY <1>1, <1>2, <1>3

LEMMA SweptType ==
    ASSUME JobTypes, NEW j \in Jobs
    PROVE  /\ Swept \in [Jobs -> Row]
           /\ \/ Swept[j] = jobs[j]
              \/ Exhausted(j) /\ Swept[j] = Ended(j, "FAILED")
<1>1. \A k \in Jobs : Ended(k, "FAILED") \in Row
  BY EndedType
<1>2. \A k \in Jobs : jobs[k] \in Row
  BY DEF JobTypes
<1> HIDE DEF Ended
<1>3. \A k \in Jobs : (IF Exhausted(k) THEN Ended(k, "FAILED") ELSE jobs[k]) \in Row
  BY <1>1, <1>2
<1>4. Swept \in [Jobs -> Row]
  BY <1>3, Zenon DEF Swept
<1>5. Swept[j] = IF Exhausted(j) THEN Ended(j, "FAILED") ELSE jobs[j]
  BY Zenon DEF Swept
<1> QED
  BY <1>4, <1>5

LEMMA RowUpdated ==
    ASSUME JobTypes, NEW j \in Jobs, NEW r \in Row, jobs' = [jobs EXCEPT ![j] = r],
           recorded' \in [Jobs -> Nat]
    PROVE  JobTypes'
  BY DEF JobTypes

LEMMA HandUpdated ==
    ASSUME WorkerTypes, NEW w \in Workers, NEW h \in Hand, workers' = [workers EXCEPT ![w] = h],
           h.job = NoJob <=> h.pc \in {"idle", "dead"}
    PROVE  WorkerTypes'
  BY DEF WorkerTypes

(* A worker goes on with its job. *)
LEMMA Moved ==
    ASSUME WorkerTypes, NEW w \in Workers, workers[w].pc \notin {"idle", "dead"},
           NEW l \in Labels \ {"idle", "dead"}, NEW n \in Nat,
           workers' = [workers EXCEPT ![w].pc = l, ![w].head = n]
    PROVE  WorkerTypes'
<1>1. workers[w] \in Hand /\ workers[w].job # NoJob
  BY DEF WorkerTypes
<1>2. \A h \in Hand : [h EXCEPT !.pc = l, !.head = n] \in Hand
  BY DEF Hand
<1> DEFINE h == [workers[w] EXCEPT !.pc = l, !.head = n]
<1>3. h \in Hand /\ h.job = workers[w].job /\ h.pc = l
  BY <1>1, <1>2 DEF Hand
<1>4. workers' = [workers EXCEPT ![w] = h]
  BY DEF WorkerTypes
<1> HIDE DEF h
<1> QED
  BY <1>1, <1>3, <1>4, HandUpdated

LEMMA Went ==
    ASSUME WorkerTypes, NEW w \in Workers, workers[w].pc \notin {"idle", "dead"},
           NEW l \in Labels \ {"idle", "dead"}, Goto(w, l)
    PROVE  WorkerTypes'
<1>1. workers[w] \in Hand /\ workers[w].job # NoJob
  BY DEF WorkerTypes
<1> DEFINE h == [workers[w] EXCEPT !.pc = l]
<1>2. h \in Hand /\ h.job = workers[w].job /\ h.pc = l
  BY <1>1 DEF Hand
<1>3. workers' = [workers EXCEPT ![w] = h]
  OBVIOUS
<1> HIDE DEF h
<1> QED
  BY <1>1, <1>2, <1>3, HandUpdated

LEMMA Freed ==
    ASSUME WorkerTypes, NEW w \in Workers, NEW l \in {"idle", "dead"},
           workers' = [workers EXCEPT ![w] = [Idle EXCEPT !.pc = l]]
    PROVE  WorkerTypes'
<1>1. [Idle EXCEPT !.pc = l] \in Hand
  BY DEF Idle, Hand, Labels
<1> QED
  BY <1>1, HandUpdated DEF Idle

LEMMA BusyHoldsJob ==
    ASSUME WorkerTypes, NEW w \in Workers, workers[w].pc \notin {"idle", "dead"}
    PROVE  workers[w].job \in Jobs /\ workers[w].head \in Nat
  BY DEF WorkerTypes, Hand

LEMMA TypeStep == TypeOK /\ [Next]_vars => TypeOK'
<1> SUFFICES ASSUME TypeOK, [Next]_vars PROVE TypeOK'
  OBVIOUS
<1> USE CheckpointAssumption DEF TypeOK
<1>0. CASE UNCHANGED vars
  BY <1>0 DEF JobTypes, MainTypes, WorkerTypes, BoundTypes
<1>1. ASSUME NEW j \in Jobs, Create(j) PROVE TypeOK'
  <2>1. PICK head \in 0..Len(main) :
            jobs' = [jobs EXCEPT ![j].status = "PENDING", ![j].expected = head]
    BY <1>1 DEF Create
  <2>2. [jobs[j] EXCEPT !.status = "PENDING", !.expected = head] \in Row
    <3>1. jobs[j] \in Row /\ head \in Nat
      BY DEF JobTypes, MainTypes
    <3>2. \A r \in Row : [r EXCEPT !.status = "PENDING", !.expected = head] \in Row
      BY <3>1 DEF Row
    <3> QED
      BY <3>1, <3>2
  <2>3. JobTypes'
    BY <1>1, <2>1, <2>2, RowUpdated DEF Create, JobTypes
  <2> QED
    BY <1>1, <2>3 DEF Create, MainTypes, WorkerTypes, BoundTypes
<1>2. ASSUME NEW j \in Jobs, ExpireLease(j) PROVE TypeOK'
  <2>1. [jobs[j] EXCEPT !.lease = "expired"] \in Row
    BY DEF JobTypes, Row
  <2>2. JobTypes'
    BY <1>2, <2>1, RowUpdated DEF ExpireLease, JobTypes
  <2> QED
    BY <1>2, <2>2 DEF ExpireLease, MainTypes, WorkerTypes, BoundTypes
<1>3. CASE NativePush
  BY <1>3 DEF NativePush, JobTypes, MainTypes, WorkerTypes, BoundTypes
<1>4. CASE ChangeAccess
  BY <1>4 DEF ChangeAccess, JobTypes, MainTypes, WorkerTypes, BoundTypes
<1>5. ASSUME NEW w \in Workers, NEW j \in Jobs, Claim(w, j) PROVE TypeOK'
  <2>1. [jobs[j] EXCEPT !.status = "RUNNING", !.worker = w, !.lease = "held",
                        !.attempts = @ + 1] \in Row
    <3>1. jobs[j] \in Row /\ jobs[j].attempts < MaxAttempts
      BY <1>5 DEF Claim, Claimable, JobTypes
    <3>2. jobs[j].attempts + 1 \in 0..MaxAttempts
      BY <3>1 DEF Row
    <3>3. \A r \in Row, n \in 0..MaxAttempts :
              [r EXCEPT !.status = "RUNNING", !.worker = w, !.lease = "held",
                        !.attempts = n] \in Row
      BY DEF Row
    <3> QED
      BY <3>1, <3>2, <3>3
  <2>2. JobTypes'
    BY <1>5, <2>1, SweptType DEF Claim, JobTypes
  <2>3. [pc |-> "claimed", job |-> j, head |-> 0] \in Hand
    BY DEF Hand, Labels
  <2>4. WorkerTypes'
    BY <1>5, <2>3, HandUpdated DEF Claim
  <2> QED
    BY <1>5, <2>2, <2>4 DEF Claim, MainTypes, BoundTypes
<1>6. ASSUME NEW w \in Workers, Sweep(w) PROVE TypeOK'
  BY <1>6, SweptType DEF Sweep, JobTypes, MainTypes, WorkerTypes, BoundTypes
<1>7. ASSUME NEW w \in Workers, CheckAccess(w) \/ BeforePush(w) PROVE TypeOK'
  <2>1. WorkerTypes'
    BY <1>7, Went DEF CheckAccess, BeforePush, Labels
  <2> QED
    BY <1>7, <2>1 DEF CheckAccess, BeforePush, JobTypes, MainTypes, BoundTypes
<1>8. ASSUME NEW w \in Workers, Clone(w) PROVE TypeOK'
  <2>1. PICK l \in {"committed", "saved", "conflict"} :
            workers' = [workers EXCEPT ![w].pc = l, ![w].head = Len(main)]
    BY <1>8 DEF Clone
  <2>2. Len(main) \in Nat /\ l \in Labels \ {"idle", "dead"}
    BY DEF MainTypes, Labels
  <2>3. WorkerTypes'
    BY <1>8, <2>1, <2>2, Moved DEF Clone
  <2> QED
    BY <1>8, <2>3 DEF Clone, JobTypes, MainTypes, BoundTypes
<1>9. ASSUME NEW w \in Workers, Push(w) PROVE TypeOK'
  <2>1. MainTypes'
    <3>1. Append(main, workers[w].job) \in Seq(Jobs \union {Native})
      BY <1>9, BusyHoldsJob DEF Push, MainTypes
    <3> QED
      BY <1>9, <3>1 DEF Push, MainTypes
  <2>2. Len(main') \in Nat
    BY <2>1 DEF MainTypes
  <2>3. WorkerTypes'
    BY <1>9, <2>2, Moved, Went DEF Push, Labels
  <2> QED
    BY <1>9, <2>1, <2>3 DEF Push, JobTypes, BoundTypes
<1>10. ASSUME NEW w \in Workers, Complete(w) PROVE TypeOK'
  <2> DEFINE j == workers[w].job
  <2>1. j \in Jobs /\ workers[w].head \in Nat
    BY <1>10, BusyHoldsJob DEF Complete
  <2>2. [Ended(j, "SUCCEEDED") EXCEPT !.result = workers[w].head] \in Row
    BY <2>1, EndedType
  <2>3. JobTypes'
    BY <1>10, <2>1, <2>2, RowUpdated DEF Complete, JobTypes
  <2>4. WorkerTypes'
    <3>1. workers' = [workers EXCEPT ![w] = [Idle EXCEPT !.pc = "idle"]]
      BY <1>10 DEF Complete, Idle
    <3> QED
      BY <3>1, Freed
  <2> QED
    BY <1>10, <2>3, <2>4 DEF Complete, MainTypes, BoundTypes
<1>11. ASSUME NEW w \in Workers, Fail(w) PROVE TypeOK'
  <2> DEFINE j == workers[w].job
             s == AfterFailure(j, workers[w].pc)
  <2>1. j \in Jobs /\ s \in Statuses
    BY <1>11, BusyHoldsJob DEF Fail, AfterFailure
  <2>2. Ended(j, s) \in Row
    BY <2>1, EndedType
  <2>3. JobTypes'
    BY <1>11, <2>1, <2>2, RowUpdated DEF Fail, JobTypes
  <2>4. WorkerTypes'
    <3>1. workers' = [workers EXCEPT ![w] = [Idle EXCEPT !.pc = "idle"]]
      BY <1>11 DEF Fail, Idle
    <3> QED
      BY <3>1, Freed
  <2> QED
    BY <1>11, <2>3, <2>4 DEF Fail, MainTypes, BoundTypes
<1>12. ASSUME NEW w \in Workers, PushTimesOut(w) PROVE TypeOK'
  <2>1. MainTypes'
    BY <1>12, BusyHoldsJob DEF PushTimesOut, MainTypes
  <2>2. WorkerTypes'
    BY <1>12, Went DEF PushTimesOut, Labels
  <2> QED
    BY <1>12, <2>1, <2>2 DEF PushTimesOut, JobTypes, BoundTypes
<1>13. ASSUME NEW w \in Workers, CommandFails(w) PROVE TypeOK'
  <2>1. WorkerTypes'
    BY <1>13, Went DEF CommandFails, Labels
  <2> QED
    BY <1>13, <2>1 DEF CommandFails, JobTypes, MainTypes, BoundTypes
<1>14. ASSUME NEW w \in Workers, Crash(w) PROVE TypeOK'
  <2>1. WorkerTypes'
    BY <1>14, Freed DEF Crash
  <2> QED
    BY <1>14, <2>1 DEF Crash, JobTypes, MainTypes, BoundTypes
<1> QED
  BY <1>0, <1>1, <1>2, <1>3, <1>4, <1>5, <1>6, <1>7, <1>8, <1>9, <1>10, <1>11, <1>12, <1>13,
     <1>14 DEF Next, Work

(* Every variable keeps its type and its bound, for any jobs and workers. *)
THEOREM TypeCorrect == Spec => []TypeOK
<1>1. ASSUME Init PROVE TypeOK
  <2>1. NewJob \in Row /\ Idle \in Hand
    BY CheckpointAssumption DEF NewJob, Row, Idle, Hand, Labels
  <2> QED
    BY <1>1, <2>1, CheckpointAssumption DEF Init, TypeOK, JobTypes, MainTypes, WorkerTypes,
       BoundTypes, Idle
<1> QED
  BY <1>1, TypeStep, PTL DEF Spec

(***************************************************************************)
(* The invariant.                                                          *)
(***************************************************************************)
Busy(w) == workers[w].pc \notin {"idle", "dead"}

(* A job that is worked at, or whose commit is on main, was asked for, and
   what it expects does not change any more. *)
Asked ==
    /\ \A w \in Workers : Busy(w) => jobs[workers[w].job].status # "NONE"
    /\ \A i \in DOMAIN main : main[i] # Native => jobs[main[i]].status # "NONE"
    /\ \A j \in Jobs : jobs[j].status = "RUNNING" => jobs[j].worker \in Workers

HeadKnown ==
    \A w \in Workers :
        /\ workers[w].pc \in {"committed", "pushing"} =>
               workers[w].head = jobs[workers[w].job].expected
        /\ workers[w].pc = "saved" =>
               workers[w].head \in DOMAIN main /\ main[workers[w].head] = workers[w].job

Landed(j) ==
    \/ jobs[j].status = "SUCCEEDED"
    \/ \E w \in Workers : workers[w].pc = "saved" /\ workers[w].job = j

Quiet ==
    upset = 0 =>
        /\ \A w \in Workers : /\ workers[w].pc \notin {"dead", "failed"}
                              /\ Busy(w) => Owns(w, workers[w].job)
        /\ \A j \in Jobs : jobs[j].lease # "expired"
        /\ \A i \in DOMAIN main : main[i] # Native => Landed(main[i])

Inv == TypeOK /\ Asked /\ HeadKnown /\ SavedOnce /\ SucceededIsSaved /\ Quiet

(* The steps of a worker on its way, and what they do. *)
Walks(w) == \/ CheckAccess(w) \/ Clone(w) \/ BeforePush(w) \/ Push(w)
            \/ PushTimesOut(w) \/ CommandFails(w)

LEMMA Walk ==
    ASSUME TypeOK, NEW w \in Workers, Walks(w)
    PROVE  /\ UNCHANGED <<jobs, recorded>> /\ workers[w].job \in Jobs
           /\ \A v \in Workers \ {w} : workers'[v] = workers[v]
           /\ Busy(w) /\ Busy(w)' /\ workers'[w].job = workers[w].job
           /\ upset' = upset \/ upset' = upset + 1
           /\ workers'[w].pc = "failed" => upset' = upset + 1
           /\ \/ /\ main' = main
                 /\ workers'[w].pc = "committed" =>
                        workers'[w].head = jobs[workers[w].job].expected
                 /\ workers'[w].pc = "pushing" =>
                        workers[w].pc = "committed" /\ workers'[w].head = workers[w].head
                 /\ workers'[w].pc = "saved" => workers'[w].head = Len(main) /\ main # <<>>
                                               /\ main[Len(main)] = workers[w].job
              \/ /\ main' = Append(main, workers[w].job)
                 /\ workers[w].pc = "pushing" /\ workers[w].head = Len(main)
                 /\ \/ workers'[w].pc = "saved" /\ workers'[w].head = Len(main) + 1
                    \/ workers'[w].pc = "failed"
           /\ workers[w].pc # "saved" \/ upset' = upset + 1
<1> USE DEF TypeOK, WorkerTypes, Hand, Busy
<1>0. workers[w].pc \notin {"idle", "dead"} => workers[w].job \in Jobs
  BY BusyHoldsJob
<1>1. CASE CheckAccess(w)
  BY <1>0, <1>1 DEF CheckAccess
<1>2. CASE Clone(w)
  BY <1>0, <1>2 DEF Clone, OwnHead, Last
<1>3. CASE BeforePush(w)
  BY <1>0, <1>3 DEF BeforePush
<1>4. CASE Push(w)
  <2>1. workers[w].job \in Jobs \union {Native} /\ main \in Seq(Jobs \union {Native})
    BY <1>0, <1>4 DEF Push, MainTypes
  <2>2. Len(Append(main, workers[w].job)) = Len(main) + 1
    BY <2>1
  <2> QED
    BY <1>0, <1>4, <2>2 DEF Push
<1>5. CASE PushTimesOut(w)
  BY <1>0, <1>5 DEF PushTimesOut
<1>6. CASE CommandFails(w)
  BY <1>0, <1>6 DEF CommandFails
<1> QED
  BY <1>1, <1>2, <1>3, <1>4, <1>5, <1>6 DEF Walks

(* What the rows of the other jobs may do when a job is claimed. *)
LEMMA ClaimEffect ==
    ASSUME TypeOK, NEW w \in Workers, NEW j \in Jobs, Claim(w, j)
    PROVE  /\ UNCHANGED <<recorded, main, upset>>
           /\ workers[w].pc = "idle" /\ workers'[w].pc = "claimed" /\ workers'[w].job = j
           /\ \A v \in Workers \ {w} : workers'[v] = workers[v]
           /\ jobs[j].status \in {"PENDING", "RUNNING"}
           /\ jobs[j].status = "RUNNING" => jobs[j].lease = "expired"
           /\ jobs'[j].status = "RUNNING" /\ jobs'[j].worker = w /\ jobs'[j].lease = "held"
           /\ jobs'[j].expected = jobs[j].expected
           /\ \A k \in Jobs \ {j} :
                  \/ jobs'[k] = jobs[k]
                  \/ /\ jobs[k].status = "RUNNING" /\ jobs[k].lease = "expired"
                     /\ jobs'[k].status = "FAILED" /\ jobs'[k].expected = jobs[k].expected
<1>1. \A k \in Jobs : \/ Swept[k] = jobs[k]
                      \/ Exhausted(k) /\ Swept[k] = Ended(k, "FAILED")
  BY SweptType DEF TypeOK
<1>2. jobs[j] \in Row /\ Swept \in [Jobs -> Row] /\ \A k \in Jobs : jobs[k] \in Row
  BY SweptType DEF TypeOK, JobTypes
<1>3. \A k \in Jobs \ {j} : jobs'[k] = Swept[k]
  BY <1>2 DEF Claim
<1>4. jobs'[j] = [jobs[j] EXCEPT !.status = "RUNNING", !.worker = w, !.lease = "held",
                                 !.attempts = @ + 1]
  BY <1>2 DEF Claim
<1>5. \A k \in Jobs : Exhausted(k) =>
          /\ jobs[k].status = "RUNNING" /\ jobs[k].lease = "expired"
          /\ Ended(k, "FAILED").status = "FAILED"
          /\ Ended(k, "FAILED").expected = jobs[k].expected
  BY <1>2 DEF Exhausted, Row
<1>6. /\ jobs'[j].status = "RUNNING" /\ jobs'[j].worker = w /\ jobs'[j].lease = "held"
      /\ jobs'[j].expected = jobs[j].expected
  BY <1>2, <1>4 DEF Row
<1>7. /\ UNCHANGED <<recorded, main, upset>>
      /\ workers[w].pc = "idle" /\ workers'[w].pc = "claimed" /\ workers'[w].job = j
      /\ \A v \in Workers \ {w} : workers'[v] = workers[v]
      /\ jobs[j].status \in {"PENDING", "RUNNING"}
      /\ jobs[j].status = "RUNNING" => jobs[j].lease = "expired"
  BY DEF Claim, Claimable, TypeOK, WorkerTypes
<1> HIDE DEF Ended
<1> QED
  BY <1>1, <1>3, <1>5, <1>6, <1>7

LEMMA SweepEffect ==
    ASSUME TypeOK, NEW w \in Workers, Sweep(w)
    PROVE  /\ UNCHANGED <<recorded, main, upset, workers>>
           /\ \A k \in Jobs :
                  \/ jobs'[k] = jobs[k]
                  \/ /\ jobs[k].status = "RUNNING" /\ jobs[k].lease = "expired"
                     /\ jobs'[k].status = "FAILED" /\ jobs'[k].expected = jobs[k].expected
<1>1. \A k \in Jobs : \/ Swept[k] = jobs[k]
                      \/ Exhausted(k) /\ Swept[k] = Ended(k, "FAILED")
  BY SweptType DEF TypeOK
<1>2. \A k \in Jobs : jobs[k] \in Row
  BY DEF TypeOK, JobTypes
<1>3. \A k \in Jobs : Exhausted(k) =>
          /\ jobs[k].status = "RUNNING" /\ jobs[k].lease = "expired"
          /\ Ended(k, "FAILED").status = "FAILED"
          /\ Ended(k, "FAILED").expected = jobs[k].expected
  BY <1>2 DEF Exhausted, Row
<1> HIDE DEF Ended
<1> QED
  BY <1>1, <1>3 DEF Sweep

(* A worker ends its work on a job, as its owner or not. *)
LEMMA EndEffect ==
    ASSUME TypeOK, NEW w \in Workers, Complete(w) \/ Fail(w)
    PROVE  LET j == workers[w].job
               new == jobs'[j]
           IN  /\ UNCHANGED <<main, upset>> /\ j \in Jobs
               /\ workers'[w].pc = "idle" /\ Busy(w)
               /\ \A v \in Workers \ {w} : workers'[v] = workers[v]
               /\ \A k \in Jobs \ {j} : jobs'[k] = jobs[k] /\ recorded'[k] = recorded[k]
               /\ \/ ~Owns(w, j) /\ new = jobs[j] /\ recorded'[j] = recorded[j]
                  \/ /\ Owns(w, j) /\ new.expected = jobs[j].expected
                     /\ new.lease = "none"
                     /\ \/ /\ workers[w].pc = "saved" /\ new.status = "SUCCEEDED"
                           /\ new.result = workers[w].head /\ recorded'[j] = recorded[j] + 1
                        \/ /\ workers[w].pc # "saved" /\ recorded'[j] = recorded[j]
                           /\ new.status \in {"CONFLICTED", "FAILED", "PENDING"}
                           /\ new.status = "PENDING" => workers[w].pc = "failed"
<1> DEFINE j == workers[w].job
<1>1. j \in Jobs /\ jobs[j] \in Row /\ jobs \in [Jobs -> Row] /\ recorded \in [Jobs -> Nat]
  BY BusyHoldsJob DEF Complete, Fail, TypeOK, JobTypes
<1>2. /\ \A v \in Workers \ {w} : workers'[v] = workers[v]
      /\ workers'[w].pc = "idle" /\ Busy(w) /\ UNCHANGED <<main, upset>>
  BY DEF Complete, Fail, TypeOK, WorkerTypes, Idle, Busy
<1>3. ASSUME NEW s PROVE Ended(j, s).status = s /\ Ended(j, s).expected = jobs[j].expected
                         /\ Ended(j, s).lease = "none"
  BY <1>1 DEF Row
<1>4. [Ended(j, "SUCCEEDED") EXCEPT !.result = workers[w].head].status = "SUCCEEDED"
      /\ [Ended(j, "SUCCEEDED") EXCEPT !.result = workers[w].head].expected = jobs[j].expected
      /\ [Ended(j, "SUCCEEDED") EXCEPT !.result = workers[w].head].lease = "none"
      /\ [Ended(j, "SUCCEEDED") EXCEPT !.result = workers[w].head].result = workers[w].head
  BY <1>1 DEF Row
<1> HIDE DEF Ended, j
<1>5. CASE Complete(w)
  BY <1>1, <1>2, <1>4, <1>5 DEF Complete, j
<1>6. CASE Fail(w)
  <2>1. /\ AfterFailure(j, workers[w].pc) \in {"CONFLICTED", "FAILED", "PENDING"}
        /\ AfterFailure(j, workers[w].pc) = "PENDING" => workers[w].pc = "failed"
    BY <1>6 DEF AfterFailure, Fail
  <2> QED
    BY <1>1, <1>2, <1>3, <1>6, <2>1 DEF Fail, j
<1> QED
  BY <1>5, <1>6

LEMMA CrashEffect ==
    ASSUME TypeOK, NEW w \in Workers, Crash(w)
    PROVE  /\ UNCHANGED <<jobs, recorded, main>> /\ upset' = upset + 1
           /\ workers'[w].pc = "dead"
           /\ \A v \in Workers \ {w} : workers'[v] = workers[v]
  BY DEF Crash, TypeOK, WorkerTypes, Idle

LEMMA ExpireEffect ==
    ASSUME TypeOK, NEW j \in Jobs, ExpireLease(j)
    PROVE  /\ UNCHANGED <<recorded, main, workers>>
           /\ \/ upset' = upset /\ workers[jobs[j].worker].pc = "dead"
              \/ upset' = upset + 1
           /\ jobs[j].status = "RUNNING"
           /\ \A k \in Jobs : /\ jobs'[k].status = jobs[k].status
                              /\ jobs'[k].worker = jobs[k].worker
                              /\ jobs'[k].expected = jobs[k].expected
                              /\ jobs'[k].result = jobs[k].result
  BY DEF ExpireLease, TypeOK, JobTypes, Row

LEMMA CreateEffect ==
    ASSUME TypeOK, NEW j \in Jobs, Create(j)
    PROVE  /\ UNCHANGED <<recorded, main, workers, upset>>
           /\ jobs[j].status = "NONE" /\ jobs'[j].status = "PENDING"
           /\ jobs'[j].lease = jobs[j].lease
           /\ \A k \in Jobs \ {j} : jobs'[k] = jobs[k]
  BY DEF Create, TypeOK, JobTypes, Row

LEMMA Steps ==
    ASSUME [Next]_vars
    PROVE  \/ UNCHANGED <<jobs, recorded, main, workers, upset>>
           \/ \E j \in Jobs : Create(j) \/ ExpireLease(j)
           \/ NativePush
           \/ \E w \in Workers : \/ \E j \in Jobs : Claim(w, j)
                                 \/ Sweep(w)
                                 \/ Walks(w)
                                 \/ Complete(w) \/ Fail(w)
                                 \/ Crash(w)
  BY DEF Next, Work, Walks, ChangeAccess

(* What is put on main leaves the rest as it is. *)
LEMMA MainAppended ==
    ASSUME TypeOK, NEW c \in Jobs \union {Native}, main' = Append(main, c)
    PROVE  /\ Len(main) \in Nat /\ DOMAIN main = 1..Len(main)
           /\ DOMAIN main' = 1..(Len(main) + 1) /\ main'[Len(main) + 1] = c
           /\ \A i \in 1..Len(main) : main'[i] = main[i]
           /\ \A i \in DOMAIN main : main[i] # Native => main[i] \in Jobs
  BY DEF TypeOK, MainTypes

LEMMA OnMain == ASSUME TypeOK, NEW i \in DOMAIN main, main[i] # Native PROVE main[i] \in Jobs
  BY DEF TypeOK, MainTypes

LEMMA WorkingJob == ASSUME TypeOK, NEW w \in Workers, Busy(w) PROVE workers[w].job \in Jobs
  BY BusyHoldsJob DEF TypeOK, Busy

LEMMA AskedStep == TypeOK /\ Asked /\ [Next]_vars => Asked'
<1> SUFFICES ASSUME TypeOK, Asked, [Next]_vars PROVE Asked'
  OBVIOUS
<1> USE OnMain, WorkingJob DEF Asked, Busy
<1>0. CASE UNCHANGED <<jobs, recorded, main, workers, upset>>
  BY <1>0
<1>1. ASSUME NEW j \in Jobs, Create(j) PROVE Asked'
  BY <1>1, CreateEffect
<1>2. ASSUME NEW j \in Jobs, ExpireLease(j) PROVE Asked'
  BY <1>2, ExpireEffect
<1>3. CASE NativePush
  BY <1>3, MainAppended DEF NativePush
<1>4. ASSUME NEW w \in Workers, NEW j \in Jobs, Claim(w, j) PROVE Asked'
  BY <1>4, ClaimEffect
<1>5. ASSUME NEW w \in Workers, Sweep(w) PROVE Asked'
  BY <1>5, SweepEffect
<1>6. ASSUME NEW w \in Workers, Walks(w) PROVE Asked'
  BY <1>6, Walk, MainAppended
<1>7. ASSUME NEW w \in Workers, Complete(w) \/ Fail(w) PROVE Asked'
  BY <1>7, EndEffect
<1>8. ASSUME NEW w \in Workers, Crash(w) PROVE Asked'
  BY <1>8, CrashEffect
<1> QED
  BY <1>0, <1>1, <1>2, <1>3, <1>4, <1>5, <1>6, <1>7, <1>8, Steps

LEMMA HeadKnownStep == TypeOK /\ Asked /\ HeadKnown /\ [Next]_vars => HeadKnown'
<1> SUFFICES ASSUME TypeOK, Asked, HeadKnown, [Next]_vars PROVE HeadKnown'
  OBVIOUS
<1> USE OnMain, WorkingJob DEF Asked, Busy, HeadKnown
<1>0. CASE UNCHANGED <<jobs, recorded, main, workers, upset>>
  BY <1>0
<1>1. ASSUME NEW j \in Jobs, Create(j) PROVE HeadKnown'
  BY <1>1, CreateEffect
<1>2. ASSUME NEW j \in Jobs, ExpireLease(j) PROVE HeadKnown'
  BY <1>2, ExpireEffect
<1>3. CASE NativePush
  BY <1>3, MainAppended DEF NativePush
<1>4. ASSUME NEW w \in Workers, NEW j \in Jobs, Claim(w, j) PROVE HeadKnown'
  BY <1>4, ClaimEffect
<1>5. ASSUME NEW w \in Workers, Sweep(w) PROVE HeadKnown'
  BY <1>5, SweepEffect
<1>6. ASSUME NEW w \in Workers, Walks(w) PROVE HeadKnown'
  <2>1. main \in Seq(Jobs \union {Native})
    BY DEF TypeOK, MainTypes
  <2>2. main # <<>> => Len(main) \in DOMAIN main
    BY <2>1
  <2> QED
    BY <1>6, <2>2, Walk, MainAppended
<1>7. ASSUME NEW w \in Workers, Complete(w) \/ Fail(w) PROVE HeadKnown'
  BY <1>7, EndEffect
<1>8. ASSUME NEW w \in Workers, Crash(w) PROVE HeadKnown'
  BY <1>8, CrashEffect
<1> QED
  BY <1>0, <1>1, <1>2, <1>3, <1>4, <1>5, <1>6, <1>7, <1>8, Steps

LEMMA SavedOnceStep == TypeOK /\ Asked /\ HeadKnown /\ SavedOnce /\ [Next]_vars => SavedOnce'
<1> SUFFICES ASSUME TypeOK, Asked, HeadKnown, SavedOnce, [Next]_vars PROVE SavedOnce'
  OBVIOUS
<1> USE OnMain, WorkingJob DEF Asked, Busy, HeadKnown, SavedOnce
<1>0. CASE UNCHANGED <<jobs, recorded, main, workers, upset>>
  BY <1>0
<1>1. ASSUME NEW j \in Jobs, Create(j) PROVE SavedOnce'
  BY <1>1, CreateEffect
<1>2. ASSUME NEW j \in Jobs, ExpireLease(j) PROVE SavedOnce'
  BY <1>2, ExpireEffect
<1>3. CASE NativePush
  BY <1>3, MainAppended DEF NativePush
<1>4. ASSUME NEW w \in Workers, NEW j \in Jobs, Claim(w, j) PROVE SavedOnce'
  BY <1>4, ClaimEffect
<1>5. ASSUME NEW w \in Workers, Sweep(w) PROVE SavedOnce'
  BY <1>5, SweepEffect
<1>6. ASSUME NEW w \in Workers, Walks(w) PROVE SavedOnce'
  BY <1>6, Walk, MainAppended
<1>7. ASSUME NEW w \in Workers, Complete(w) \/ Fail(w) PROVE SavedOnce'
  BY <1>7, EndEffect
<1>8. ASSUME NEW w \in Workers, Crash(w) PROVE SavedOnce'
  BY <1>8, CrashEffect
<1> QED
  BY <1>0, <1>1, <1>2, <1>3, <1>4, <1>5, <1>6, <1>7, <1>8, Steps

LEMMA SucceededStep ==
    TypeOK /\ HeadKnown /\ SucceededIsSaved /\ [Next]_vars => SucceededIsSaved'
<1> SUFFICES ASSUME TypeOK, HeadKnown, SucceededIsSaved, [Next]_vars PROVE SucceededIsSaved'
  OBVIOUS
<1> USE WorkingJob DEF Busy, HeadKnown, SucceededIsSaved
<1>0. CASE UNCHANGED <<jobs, recorded, main, workers, upset>>
  BY <1>0
<1>1. ASSUME NEW j \in Jobs, Create(j) PROVE SucceededIsSaved'
  BY <1>1, CreateEffect
<1>2. ASSUME NEW j \in Jobs, ExpireLease(j) PROVE SucceededIsSaved'
  BY <1>2, ExpireEffect
<1>3. CASE NativePush
  BY <1>3, MainAppended DEF NativePush
<1>4. ASSUME NEW w \in Workers, NEW j \in Jobs, Claim(w, j) PROVE SucceededIsSaved'
  BY <1>4, ClaimEffect
<1>5. ASSUME NEW w \in Workers, Sweep(w) PROVE SucceededIsSaved'
  BY <1>5, SweepEffect
<1>6. ASSUME NEW w \in Workers, Walks(w) PROVE SucceededIsSaved'
  BY <1>6, Walk, MainAppended
<1>7. ASSUME NEW w \in Workers, Complete(w) \/ Fail(w) PROVE SucceededIsSaved'
  BY <1>7, EndEffect DEF TypeOK, JobTypes
<1>8. ASSUME NEW w \in Workers, Crash(w) PROVE SucceededIsSaved'
  BY <1>8, CrashEffect
<1> QED
  BY <1>0, <1>1, <1>2, <1>3, <1>4, <1>5, <1>6, <1>7, <1>8, Steps

LEMMA QuietStep == TypeOK /\ Asked /\ Quiet /\ [Next]_vars => Quiet'
<1> SUFFICES ASSUME TypeOK, Asked, Quiet, [Next]_vars, upset' = 0 PROVE Quiet'
  BY DEF Quiet
<1>0. upset \in Nat
  BY CheckpointAssumption DEF TypeOK, BoundTypes
<1> USE OnMain, WorkingJob DEF Asked, Busy, Landed, Quiet
<1>1. CASE UNCHANGED <<jobs, recorded, main, workers, upset>>
  BY <1>1
<1>2. ASSUME NEW j \in Jobs, Create(j) PROVE Quiet'
  BY <1>2, CreateEffect
<1>3. ASSUME NEW j \in Jobs, ExpireLease(j) PROVE Quiet'
  BY <1>0, <1>3, ExpireEffect
<1>4. CASE NativePush
  BY <1>4, MainAppended DEF NativePush
<1>5. ASSUME NEW w \in Workers, NEW j \in Jobs, Claim(w, j) PROVE Quiet'
  BY <1>5, ClaimEffect
<1>6. ASSUME NEW w \in Workers, Sweep(w) PROVE Quiet'
  BY <1>6, SweepEffect
<1>7. ASSUME NEW w \in Workers, Walks(w) PROVE Quiet'
  BY <1>0, <1>7, Walk, MainAppended
<1>8. ASSUME NEW w \in Workers, Complete(w) \/ Fail(w) PROVE Quiet'
  BY <1>8, EndEffect
<1>9. ASSUME NEW w \in Workers, Crash(w) PROVE Quiet'
  BY <1>0, <1>9, CrashEffect
<1> QED
  BY <1>1, <1>2, <1>3, <1>4, <1>5, <1>6, <1>7, <1>8, <1>9, Steps

LEMMA AlwaysInv == Spec => []Inv
<1>1. ASSUME Init PROVE Asked /\ HeadKnown /\ SavedOnce /\ SucceededIsSaved /\ Quiet
  <2>1. DOMAIN main = {}
    BY <1>1 DEF Init
  <2> QED
    BY <1>1, <2>1 DEF Init, NewJob, Idle, Asked, Busy, HeadKnown, SavedOnce, SucceededIsSaved,
                      Quiet
<1>2. Inv /\ [Next]_vars => Inv'
  BY TypeStep, AskedStep, HeadKnownStep, SavedOnceStep, SucceededStep, QuietStep DEF Inv
<1> QED
  BY <1>1, <1>2, TypeCorrect, TypeStep, PTL DEF Spec, Inv

(* What a student is told of a checkpoint is what main and the feed say,
   whatever crashes and retries, and if nothing has failed, a conflict or a
   failure as well. *)
THEOREM CheckpointToldIsTrueAlways == Spec => []CheckpointToldIsTrue
<1>1. Inv => CheckpointToldIsTrue
  <2> SUFFICES ASSUME Inv, NEW j \in Jobs, upset = 0, jobs[j].status \in {"FAILED", "CONFLICTED"},
                      NEW i \in DOMAIN main, main[i] = j
               PROVE  FALSE
    BY DEF Inv, CheckpointToldIsTrue, RefusedIsNotSaved
  <2>1. j # Native
    BY CheckpointAssumption
  <2> QED
    BY <2>1 DEF Inv, Quiet, Landed, Busy
<1> QED
  BY <1>1, AlwaysInv, PTL

LEMMA PrefixMeans ==
    ASSUME NEW S, NEW s \in Seq(S), NEW t \in Seq(S),
           Len(s) <= Len(t), \A i \in 1 .. Len(s) : s[i] = t[i]
    PROVE  IsPrefix(s, t)
  BY DEF IsPrefix

(* main is only extended, by pushes and by checkpoints, late ones included. *)
THEOREM NothingOverwrittenAlways == Spec => NothingOverwritten
<1>1. TypeOK /\ [Next]_vars => [IsPrefix(main, main')]_vars
  <2> SUFFICES ASSUME TypeOK, [Next]_vars PROVE IsPrefix(main, main')
    OBVIOUS
  <2>1. main \in Seq(Jobs \union {Native}) /\ main' \in Seq(Jobs \union {Native})
    BY TypeStep DEF TypeOK, MainTypes
  <2>2. main' = main \/ \E c \in Jobs \union {Native} : main' = Append(main, c)
    BY Steps, Walk, CreateEffect, ExpireEffect, ClaimEffect, SweepEffect, EndEffect, CrashEffect
       DEF NativePush
  <2>3. Len(main) <= Len(main') /\ \A i \in 1 .. Len(main) : main[i] = main'[i]
    BY <2>1, <2>2
  <2> QED
    BY <2>1, <2>3, PrefixMeans
<1> QED
  BY <1>1, TypeCorrect, PTL DEF Spec, NothingOverwritten

-----------------------------------------------------------------------------
(***************************************************************************)
(* Practice, for every set of saves and workers and any number of pushes,  *)
(* faults and changes of eligibility.                                      *)
(*                                                                         *)
(* A worker inside the publishing transaction owns the job whose row it    *)
(* holds. A receipt says that its job's commit follows the head that the   *)
(* job expects, whoever put it there; who owns a job that it may still     *)
(* refuse has found no receipt of it, or misread the one that was there;   *)
(* and a branch begins with the initial job's commit, because every other  *)
(* job expects a head.                                                     *)
(***************************************************************************)
USE DEF P!vars, P!faultVars, P!At, P!Goto, P!Owns

(***************************************************************************)
(* Types.                                                                  *)
(***************************************************************************)
LEMMA PracticeRowUpdated ==
    ASSUME P!SaveTypes, NEW j \in P!Jobs, NEW r \in P!Row, saves' = [saves EXCEPT ![j] = r]
    PROVE  P!SaveTypes'
  BY DEF P!SaveTypes

LEMMA PracticeHandUpdated ==
    ASSUME P!WorkerTypes, NEW w \in Workers, NEW h \in P!Hand, hands' = [hands EXCEPT ![w] = h],
           h.job = NoJob <=> h.pc \in {"idle", "dead"}
    PROVE  P!WorkerTypes'
  BY DEF P!WorkerTypes

LEMMA PracticeWent ==
    ASSUME P!WorkerTypes, NEW w \in Workers, hands[w].pc \notin {"idle", "dead"},
           NEW l \in P!Labels \ {"idle", "dead"}, P!Goto(w, l)
    PROVE  P!WorkerTypes'
<1>1. hands[w] \in P!Hand /\ hands[w].job # NoJob
  BY DEF P!WorkerTypes
<1> DEFINE h == [hands[w] EXCEPT !.pc = l]
<1>2. h \in P!Hand /\ h.job = hands[w].job /\ h.pc = l
  BY <1>1 DEF P!Hand
<1>3. hands' = [hands EXCEPT ![w] = h]
  OBVIOUS
<1> HIDE DEF h
<1> QED
  BY <1>1, <1>2, <1>3, PracticeHandUpdated

LEMMA PracticeFreed ==
    ASSUME P!WorkerTypes, NEW w \in Workers, NEW l \in {"idle", "dead"},
           hands' = [hands EXCEPT ![w] = [P!Idle EXCEPT !.pc = l]]
    PROVE  P!WorkerTypes'
<1>1. [P!Idle EXCEPT !.pc = l] \in P!Hand
  BY DEF P!Idle, P!Hand, P!Labels
<1> QED
  BY <1>1, PracticeHandUpdated DEF P!Idle

LEMMA WentIdle ==
    ASSUME P!WorkerTypes, NEW w \in Workers, hands' = [hands EXCEPT ![w] = P!Idle]
    PROVE  P!WorkerTypes'
<1>1. hands' = [hands EXCEPT ![w] = [P!Idle EXCEPT !.pc = "idle"]]
  BY DEF P!Idle
<1> QED
  BY <1>1, PracticeFreed

PracticeBusy(w) == hands[w].pc \notin {"idle", "dead"}

LEMMA PracticeWorkingJob == ASSUME P!WorkerTypes, NEW w \in Workers, PracticeBusy(w) PROVE hands[w].job \in P!Jobs
  BY DEF P!WorkerTypes, P!Hand, PracticeBusy

(***************************************************************************)
(* The steps, and what they do.                                            *)
(***************************************************************************)
Publishes(w) ==
    /\ P!At(w, "publishing") /\ Len(branch) = saves[hands[w].job].expected
    /\ branch' = Append(branch, hands[w].job)
    /\ receipts' = receipts \union {hands[w].job}
    /\ \/ P!Goto(w, "published") /\ UNCHANGED <<troubles, misread>>
       \/ /\ P!Goto(w, "conflict") \/ P!Goto(w, "failed")
          /\ P!Trouble /\ misread' = misread \union {hands[w].job}
    /\ UNCHANGED <<eligible, entered, initialized, saves>>

(* publish's update is refused. *)
Refused(w) ==
    /\ P!At(w, "publishing") /\ Len(branch) # saves[hands[w].job].expected
    /\ P!Goto(w, IF hands[w].job \in receipts THEN "published" ELSE "conflict")
    /\ UNCHANGED <<eligible, entered, initialized, saves, branch, receipts, troubles, misread>>

(* An update that was not made, and a read that failed after it. *)
Misled(w) ==
    /\ P!At(w, "publishing") /\ P!Trouble
    /\ misread' = IF hands[w].job \in receipts THEN misread \union {hands[w].job} ELSE misread
    /\ \/ P!Goto(w, "failed")
       \/ /\ P!Goto(w, "conflict")
          /\ \/ Len(branch) # saves[hands[w].job].expected
             \/ saves[hands[w].job].expected # 0
    /\ UNCHANGED <<eligible, entered, initialized, saves, branch, receipts>>

PracticeWalks(w) ==
    \/ P!Look(w) \/ P!Prepare(w) \/ P!LockJob(w) \/ P!CommandFails(w)
    \/ P!MisreadReceipt(w) \/ P!MisreadHead(w) \/ Refused(w) \/ Misled(w)

LEMMA PracticeSteps ==
    ASSUME [P!Next]_(P!vars)
    PROVE  \/ UNCHANGED P!vars
           \/ P!Enter
           \/ \E j \in Saves : P!Save(j)
           \/ P!NativePush
           \/ P!ChangeEligibility
           \/ \E j \in P!Jobs : P!ExpireLease(j)
           \/ \E w \in Workers : \/ \E j \in P!Jobs : P!Claim(w, j)
                                 \/ PracticeWalks(w)
                                 \/ P!StartPublishing(w)
                                 \/ Publishes(w)
                                 \/ P!Complete(w)
                                 \/ P!Catch(w)
                                 \/ P!Crash(w)
<1>1. ASSUME NEW w \in Workers, P!Publish(w) PROVE PracticeWalks(w) \/ Publishes(w)
  BY <1>1 DEF P!Publish, PracticeWalks, Publishes, Refused, P!faultVars
<1>2. ASSUME NEW w \in Workers, P!UpdateMisread(w) PROVE PracticeWalks(w) \/ Publishes(w)
  <2> DEFINE j == hands[w].job
  <2>1. PICK head \in {0, Len(branch')} :
            P!Goto(w, IF head = saves[j].expected THEN "failed" ELSE "conflict")
    BY <1>2 DEF P!UpdateMisread
  <2>2. P!Goto(w, "failed") \/ (P!Goto(w, "conflict") /\ head # saves[j].expected)
    BY <2>1
  <2>3. CASE UNCHANGED <<branch, receipts>>
    BY <1>2, <2>1, <2>2, <2>3 DEF P!UpdateMisread, PracticeWalks, Misled
  <2>4. CASE /\ Len(branch) = saves[j].expected
             /\ branch' = Append(branch, j) /\ receipts' = receipts \union {j}
    BY <1>2, <2>2, <2>4 DEF P!UpdateMisread, Publishes
  <2> QED
    BY <1>2, <2>3, <2>4 DEF P!UpdateMisread
<1> QED
  BY <1>1, <1>2 DEF P!Next, P!Student, P!Work, P!Fault, PracticeWalks

OthersKeep(w) == \A v \in Workers \ {w} : hands'[v] = hands[v]

(* A step that goes on without a job's receipt. *)
Unseen(j) == j \notin receipts \/ j \in misread'

Follows(w) ==
    \/ hands'[w].pc \in {"lost", "failed"}
    \/ hands[w].pc = "claimed" /\ hands'[w].pc = "prepared"
    \/ /\ hands[w].pc = "claimed" /\ hands'[w].pc \in {"preparing", "refused"}
       /\ Unseen(hands[w].job)
    \/ hands[w].pc = "preparing" /\ hands'[w].pc = "prepared"
    \/ /\ hands[w].pc \in {"preparing", "publishing"} /\ hands'[w].pc = "conflict"
       /\ hands[w].pc = "publishing" => Unseen(hands[w].job)
       /\ Len(branch) # saves[hands[w].job].expected \/ saves[hands[w].job].expected # 0
    \/ /\ hands[w].pc \in {"started", "publishing"} /\ hands'[w].pc \in {"found", "published"}
       /\ hands[w].pc = "started" => P!Owns(w)
       /\ hands[w].job \in receipts
    \/ /\ hands[w].pc = "started" /\ hands'[w].pc = "refused"
       /\ Unseen(hands[w].job)
    \/ /\ hands[w].pc = "started" /\ hands'[w].pc = "publishing" /\ P!Owns(w) /\ eligible
       /\ Unseen(hands[w].job)

LEMMA HandMoved ==
    ASSUME hands \in [Workers -> P!Hand], NEW w \in Workers, NEW l, P!Goto(w, l)
    PROVE  OthersKeep(w) /\ hands'[w].job = hands[w].job /\ hands'[w].pc = l
  BY DEF OthersKeep, P!Hand

LEMMA PracticeWalk ==
    ASSUME P!WorkerTypes, NEW w \in Workers, PracticeWalks(w)
    PROVE  /\ UNCHANGED <<eligible, initialized, saves, branch, receipts>>
           /\ misread \subseteq misread' /\ misread' \subseteq misread \union {hands[w].job}
           /\ OthersKeep(w) /\ PracticeBusy(w) /\ hands[w].job \in P!Jobs
           /\ hands'[w].pc \in P!Labels \ {"idle", "dead"} /\ hands'[w].job = hands[w].job
           /\ Follows(w)
<1> USE DEF OthersKeep, Follows, Unseen, PracticeBusy, P!Labels, P!faultVars
<1>0. hands \in [Workers -> P!Hand]
  BY DEF P!WorkerTypes
<1>1. CASE P!Look(w)
  BY <1>0, <1>1, PracticeWorkingJob DEF P!Look
<1>2. CASE P!Prepare(w)
  BY <1>0, <1>2, PracticeWorkingJob DEF P!Prepare
<1>3. CASE P!LockJob(w)
  BY <1>0, <1>3, PracticeWorkingJob DEF P!LockJob
<1>4. CASE P!CommandFails(w)
  BY <1>0, <1>4, PracticeWorkingJob DEF P!CommandFails
<1>5. CASE P!MisreadReceipt(w)
  <2>1. /\ UNCHANGED <<eligible, initialized, saves, branch, receipts>>
        /\ misread' = misread \union {hands[w].job}
        /\ hands[w].pc \in {"claimed", "started"}
    BY <1>5 DEF P!MisreadReceipt
  <2>2. /\ OthersKeep(w) /\ hands'[w].job = hands[w].job
        /\ hands'[w].pc \in {"preparing", "refused", "publishing"}
        /\ hands'[w].pc = "preparing" => hands[w].pc = "claimed"
        /\ hands'[w].pc = "publishing" => hands[w].pc = "started" /\ P!Owns(w) /\ eligible
    <3>1. CASE hands[w].pc = "claimed"
      <4>1. P!Goto(w, IF eligible THEN "preparing" ELSE "refused")
        BY <1>5, <3>1 DEF P!MisreadReceipt
      <4> QED
        BY <1>0, <3>1, <4>1, HandMoved
    <3>2. CASE hands[w].pc = "started"
      <4>1. P!Goto(w, IF eligible THEN "publishing" ELSE "refused") /\ P!Owns(w)
        BY <1>5, <3>2 DEF P!MisreadReceipt
      <4> QED
        BY <1>0, <3>2, <4>1, HandMoved
    <3> QED
      BY <2>1, <3>1, <3>2
  <2>3. hands[w].job \in P!Jobs
    BY <2>1, PracticeWorkingJob
  <2> QED
    BY <2>1, <2>2, <2>3
<1>6. CASE P!MisreadHead(w)
  BY <1>0, <1>6, PracticeWorkingJob DEF P!MisreadHead
<1>7. CASE Refused(w)
  BY <1>0, <1>7, PracticeWorkingJob DEF Refused
<1>8. CASE Misled(w)
  <2>1. /\ UNCHANGED <<eligible, initialized, saves, branch, receipts>>
        /\ misread' = IF hands[w].job \in receipts THEN misread \union {hands[w].job}
                      ELSE misread
        /\ hands[w].pc = "publishing"
    BY <1>8 DEF Misled
  <2>2. /\ OthersKeep(w) /\ hands'[w].job = hands[w].job
        /\ \/ hands'[w].pc = "failed"
           \/ /\ hands'[w].pc = "conflict"
              /\ \/ Len(branch) # saves[hands[w].job].expected
                 \/ saves[hands[w].job].expected # 0
    <3>1. CASE P!Goto(w, "failed")
      BY <1>0, <3>1, HandMoved
    <3>2. CASE /\ P!Goto(w, "conflict")
               /\ \/ Len(branch) # saves[hands[w].job].expected
                  \/ saves[hands[w].job].expected # 0
      BY <1>0, <3>2, HandMoved
    <3> QED
      BY <1>8, <3>1, <3>2 DEF Misled
  <2>3. hands[w].job \in P!Jobs
    BY <2>1, PracticeWorkingJob
  <2>4. misread \subseteq misread' /\ misread' \subseteq misread \union {hands[w].job}
        /\ Unseen(hands[w].job)
    BY <2>1
  <2> QED
    BY <2>1, <2>2, <2>3, <2>4
<1> QED
  BY <1>1, <1>2, <1>3, <1>4, <1>5, <1>6, <1>7, <1>8 DEF PracticeWalks

LEMMA PracticeTypeStep ==
    ASSUME P!PracticeAssumption
    PROVE  P!TypeOK /\ [P!Next]_(P!vars) => P!TypeOK'
<1> SUFFICES ASSUME P!TypeOK, [P!Next]_(P!vars) PROVE P!TypeOK'
  OBVIOUS
<1> USE DEF P!TypeOK
<1>0. CASE UNCHANGED P!vars
  BY <1>0 DEF P!SaveTypes, P!GitTypes, P!WorkerTypes, P!OtherTypes
<1>1. CASE P!Enter
  <2>1. [P!NewJob EXCEPT !.status = "PENDING"] \in P!Row /\ Initialize \in P!Jobs
    <3>1. P!NewJob \in P!Row
      BY P!PracticeAssumption DEF P!NewJob, P!Row
    <3>2. \A r \in P!Row : [r EXCEPT !.status = "PENDING"] \in P!Row
      BY DEF P!Row
    <3> QED
      BY <3>1, <3>2 DEF P!Jobs
  <2>2. P!SaveTypes'
    BY <1>1, <2>1 DEF P!Enter, P!SaveTypes
  <2> QED
    BY <1>1, <2>2 DEF P!Enter, P!GitTypes, P!WorkerTypes, P!OtherTypes
<1>2. ASSUME NEW j \in Saves, P!Save(j) PROVE P!TypeOK'
  <2>1. PICK head \in 1..Len(branch) :
            saves' = [saves EXCEPT ![j].status = "PENDING", ![j].expected = head]
    BY <1>2 DEF P!Save
  <2>2. saves[j] \in P!Row /\ head \in Nat /\ j \in P!Jobs
    BY DEF P!SaveTypes, P!GitTypes, P!Jobs
  <2>3. \A r \in P!Row : [r EXCEPT !.status = "PENDING", !.expected = head] \in P!Row
    BY <2>2 DEF P!Row
  <2>4. saves' = [saves EXCEPT ![j] = [saves[j] EXCEPT !.status = "PENDING", !.expected = head]]
    BY <2>1, <2>2 DEF P!SaveTypes
  <2>5. P!SaveTypes'
    BY <2>2, <2>3, <2>4, PracticeRowUpdated
  <2> QED
    BY <1>2, <2>5 DEF P!Save, P!GitTypes, P!WorkerTypes, P!OtherTypes
<1>3. CASE P!NativePush
  BY <1>3 DEF P!NativePush, P!SaveTypes, P!GitTypes, P!WorkerTypes, P!OtherTypes
<1>4. CASE P!ChangeEligibility
  <2>1. eligible' \in BOOLEAN
    BY <1>4, Zenon DEF P!ChangeEligibility
  <2> QED
    BY <1>4, <2>1 DEF P!ChangeEligibility, P!SaveTypes, P!GitTypes, P!WorkerTypes, P!OtherTypes
<1>5. ASSUME NEW j \in P!Jobs, P!ExpireLease(j) PROVE P!TypeOK'
  <2>1. saves[j] \in P!Row
    BY DEF P!SaveTypes
  <2>2. [saves[j] EXCEPT !.lease = "expired"] \in P!Row
    BY <2>1 DEF P!Row
  <2>3. P!SaveTypes'
    BY <1>5, <2>2, PracticeRowUpdated DEF P!ExpireLease
  <2> QED
    BY <1>5, <2>3, P!PracticeAssumption DEF P!ExpireLease, P!Trouble, P!GitTypes, P!WorkerTypes, P!OtherTypes
<1>6. ASSUME NEW w \in Workers, NEW j \in P!Jobs, P!Claim(w, j) PROVE P!TypeOK'
  <2> DEFINE n == IF saves[j].attempts < GiveUpAt THEN saves[j].attempts + 1
                  ELSE saves[j].attempts
  <2>1. saves[j] \in P!Row
    BY DEF P!SaveTypes
  <2>2. n \in 0..GiveUpAt
    BY <2>1, P!PracticeAssumption DEF P!Row
  <2>3. saves' = [saves EXCEPT ![j].status = "RUNNING", ![j].worker = w, ![j].lease = "held",
                               ![j].attempts = n]
    BY <1>6 DEF P!Claim, P!SaveTypes
  <2> HIDE DEF n
  <2>4. \A r \in P!Row : [r EXCEPT !.status = "RUNNING", !.worker = w, !.lease = "held",
                                 !.attempts = n] \in P!Row
    BY <2>2 DEF P!Row
  <2>5. P!SaveTypes'
    <3>1. saves' = [saves EXCEPT ![j] = [saves[j] EXCEPT !.status = "RUNNING", !.worker = w,
                                                         !.lease = "held", !.attempts = n]]
      BY <2>3 DEF P!SaveTypes
    <3> QED
      BY <2>1, <2>4, <3>1, PracticeRowUpdated
  <2>6. [pc |-> "claimed", job |-> j] \in P!Hand
    BY DEF P!Hand, P!Labels
  <2>7. P!WorkerTypes'
    BY <1>6, <2>6, PracticeHandUpdated, P!PracticeAssumption DEF P!Claim, P!Jobs
  <2> QED
    BY <1>6, <2>5, <2>7 DEF P!Claim, P!GitTypes, P!OtherTypes
<1>7. ASSUME NEW w \in Workers, PracticeWalks(w) PROVE P!TypeOK'
  <2>1. PICK l \in P!Labels \ {"idle", "dead"} : P!Goto(w, l)
    BY <1>7 DEF PracticeWalks, P!Look, P!Prepare, P!LockJob, P!CommandFails, P!MisreadReceipt,
                P!MisreadHead, Refused, Misled, P!Labels
  <2>2. hands[w].pc \notin {"idle", "dead"}
    BY <1>7, PracticeWalk DEF PracticeBusy
  <2>3. P!WorkerTypes'
    BY <2>1, <2>2, PracticeWent
  <2>4. troubles' \in 0..MaxFaults /\ entered' \in BOOLEAN
    <3>1. troubles' = troubles \/ P!Trouble
      BY <1>7 DEF PracticeWalks, P!Look, P!Prepare, P!LockJob, P!CommandFails, P!MisreadReceipt,
                  P!MisreadHead, Refused, Misled, P!faultVars
    <3>2. entered' = entered
      BY <1>7 DEF PracticeWalks, P!Look, P!Prepare, P!LockJob, P!CommandFails, P!MisreadReceipt,
                  P!MisreadHead, Refused, Misled
    <3> QED
      BY <3>1, <3>2, P!PracticeAssumption DEF P!Trouble, P!OtherTypes
  <2> QED
    BY <1>7, <2>3, <2>4, PracticeWalk DEF P!SaveTypes, P!GitTypes, P!OtherTypes
<1>8. ASSUME NEW w \in Workers, P!StartPublishing(w) PROVE P!TypeOK'
  <2>1. hands[w].job \in P!Jobs
    BY <1>8, PracticeWorkingJob DEF P!StartPublishing, PracticeBusy
  <2>2. saves[hands[w].job] \in P!Row
    BY <2>1 DEF P!SaveTypes
  <2>3. [saves[hands[w].job] EXCEPT !.started = TRUE] \in P!Row
    BY <2>2 DEF P!Row
  <2>4. P!SaveTypes'
    BY <1>8, <2>1, <2>3, PracticeRowUpdated DEF P!StartPublishing, P!SaveTypes
  <2>5. P!WorkerTypes'
    BY <1>8, PracticeWent DEF P!StartPublishing, P!Labels
  <2> QED
    BY <1>8, <2>4, <2>5 DEF P!StartPublishing, P!GitTypes, P!OtherTypes
<1>9. ASSUME NEW w \in Workers, Publishes(w) PROVE P!TypeOK'
  <2>1. hands[w].job \in P!Jobs
    BY <1>9, PracticeWorkingJob DEF Publishes, PracticeBusy
  <2>2. P!GitTypes'
    BY <1>9, <2>1 DEF Publishes, P!GitTypes
  <2>3. P!WorkerTypes'
    BY <1>9, PracticeWent DEF Publishes, P!Labels
  <2>4. troubles' \in 0..MaxFaults /\ misread' \subseteq P!Jobs
    BY <1>9, <2>1, P!PracticeAssumption DEF Publishes, P!Trouble, P!OtherTypes
  <2> QED
    BY <1>9, <2>2, <2>3, <2>4 DEF Publishes, P!SaveTypes, P!OtherTypes
<1>10. ASSUME NEW w \in Workers, P!Complete(w) PROVE P!TypeOK'
  <2>1. hands[w].job \in P!Jobs
    BY <1>10, PracticeWorkingJob DEF P!Complete, PracticeBusy
  <2>2. saves[hands[w].job] \in P!Row
    BY <2>1 DEF P!SaveTypes
  <2>3. [saves[hands[w].job] EXCEPT !.status = "SUCCEEDED", !.worker = NoWorker,
                                    !.lease = "none"] \in P!Row
    BY <2>2 DEF P!Row
  <2>4. P!SaveTypes'
    BY <1>10, <2>1, <2>3, PracticeRowUpdated DEF P!Complete
  <2>5. initialized' \in BOOLEAN
    BY <1>10, Zenon DEF P!Complete
  <2>6. P!WorkerTypes'
    BY <1>10, WentIdle DEF P!Complete
  <2> QED
    BY <1>10, <2>4, <2>5, <2>6 DEF P!Complete, P!GitTypes, P!OtherTypes
<1>11. ASSUME NEW w \in Workers, P!Catch(w) PROVE P!TypeOK'
  <2> DEFINE s == P!AfterFailure(hands[w].job, hands[w].pc)
  <2>1. hands[w].job \in P!Jobs /\ s \in {"CONFLICTED", "FAILED", "PENDING"}
    BY <1>11, PracticeWorkingJob DEF P!Catch, PracticeBusy, P!AfterFailure
  <2>2. saves[hands[w].job] \in P!Row
    BY <2>1 DEF P!SaveTypes
  <2>3. \A r \in P!Row : [r EXCEPT !.status = s, !.worker = NoWorker, !.lease = "none"] \in P!Row
    <3> HIDE DEF s
    <3> QED
      BY <2>1 DEF P!Row
  <2>4. P!SaveTypes'
    BY <1>11, <2>1, <2>2, <2>3, PracticeRowUpdated DEF P!Catch, P!SaveTypes
  <2>5. P!WorkerTypes'
    BY <1>11, WentIdle DEF P!Catch
  <2> QED
    BY <1>11, <2>4, <2>5 DEF P!Catch, P!GitTypes, P!OtherTypes
<1>12. ASSUME NEW w \in Workers, P!Crash(w) PROVE P!TypeOK'
  <2>1. P!WorkerTypes'
    BY <1>12, PracticeFreed DEF P!Crash
  <2> QED
    BY <1>12, <2>1, P!PracticeAssumption DEF P!Crash, P!Trouble, P!SaveTypes, P!GitTypes, P!OtherTypes
<1> QED
  BY <1>0, <1>1, <1>2, <1>3, <1>4, <1>5, <1>6, <1>7, <1>8, <1>9, <1>10, <1>11, <1>12, PracticeSteps

(* Every variable keeps its type and its bound, for any saves and workers. *)
THEOREM PracticeTypeCorrect ==
    ASSUME P!PracticeAssumption
    PROVE  P!Spec => []P!TypeOK
<1>1. ASSUME P!Init PROVE P!TypeOK
  <2>1. P!NewJob \in P!Row /\ P!Idle \in P!Hand
    BY P!PracticeAssumption DEF P!NewJob, P!Row, P!Idle, P!Hand, P!Labels
  <2>2. eligible \in BOOLEAN /\ entered \in BOOLEAN /\ initialized \in BOOLEAN
    BY <1>1, Zenon DEF P!Init
  <2> QED
    BY <1>1, <2>1, <2>2, P!PracticeAssumption DEF P!Init, P!TypeOK, P!SaveTypes, P!GitTypes, P!WorkerTypes,
       P!OtherTypes, P!Idle
<1> QED
  BY <1>1, PracticeTypeStep, PTL DEF P!Spec

(* The steps that write a job's row, field by field. *)
Same(j) ==
    /\ saves'[j].status = saves[j].status /\ saves'[j].worker = saves[j].worker
    /\ saves'[j].expected = saves[j].expected /\ saves'[j].started = saves[j].started

LEMMA EnterEffect ==
    ASSUME P!PracticeAssumption,
           P!TypeOK, P!Enter
    PROVE  /\ UNCHANGED <<misread, initialized, branch, receipts, hands>> /\ eligible' = eligible
           /\ saves[Initialize].status \in {"NONE", "FAILED"}
           /\ saves'[Initialize].status = "PENDING" /\ saves'[Initialize].expected = 0
           /\ \A j \in Saves : Same(j)
  BY P!PracticeAssumption DEF P!Enter, P!TypeOK, P!SaveTypes, P!Row, P!Jobs, P!NewJob, Same

LEMMA SaveEffect ==
    ASSUME P!TypeOK, NEW j \in Saves, P!Save(j)
    PROVE  /\ UNCHANGED <<misread, initialized, branch, receipts, hands, eligible>>
           /\ saves[j].status = "NONE"
           /\ saves'[j].status = "PENDING" /\ saves'[j].expected \in Nat \ {0}
           /\ \A k \in P!Jobs \ {j} : Same(k)
<1>1. PICK head \in 1..Len(branch) :
          saves' = [saves EXCEPT ![j].status = "PENDING", ![j].expected = head]
  BY DEF P!Save
<1>2. head \in Nat \ {0} /\ j \in P!Jobs /\ saves \in [P!Jobs -> P!Row]
  BY DEF P!TypeOK, P!GitTypes, P!SaveTypes, P!Jobs
<1>3. saves'[j].status = "PENDING" /\ saves'[j].expected = head
  BY <1>1, <1>2 DEF P!Row
<1> QED
  BY <1>1, <1>2, <1>3 DEF P!Save, Same

LEMMA PracticeExpireEffect ==
    ASSUME P!TypeOK, NEW j \in P!Jobs, P!ExpireLease(j)
    PROVE  /\ UNCHANGED <<misread, initialized, branch, receipts, hands, eligible>>
           /\ \A k \in P!Jobs : Same(k)
  BY DEF P!ExpireLease, P!TypeOK, P!SaveTypes, P!Row, Same

LEMMA PracticeClaimEffect ==
    ASSUME P!TypeOK, NEW w \in Workers, NEW j \in P!Jobs, P!Claim(w, j)
    PROVE  /\ UNCHANGED <<misread, initialized, branch, receipts, eligible>> /\ OthersKeep(w)
           /\ hands[w].pc = "idle" /\ hands'[w].pc = "claimed" /\ hands'[w].job = j
           /\ P!RowFree(j) /\ saves[j].status \in {"PENDING", "RUNNING"}
           /\ saves'[j].status = "RUNNING" /\ saves'[j].worker = w
           /\ saves'[j].expected = saves[j].expected /\ saves'[j].started = saves[j].started
           /\ \A k \in P!Jobs \ {j} : Same(k)
<1> USE DEF P!TypeOK, P!SaveTypes, P!WorkerTypes
<1>1. /\ saves'[j].status = "RUNNING" /\ saves'[j].worker = w
      /\ saves'[j].expected = saves[j].expected /\ saves'[j].started = saves[j].started
  BY DEF P!Claim, P!Row
<1>2. \A k \in P!Jobs \ {j} : Same(k)
  BY DEF P!Claim, Same
<1> QED
  BY <1>1, <1>2 DEF P!Claim, P!Claimable, OthersKeep

LEMMA StartEffect ==
    ASSUME P!TypeOK, NEW w \in Workers, P!StartPublishing(w)
    PROVE  /\ UNCHANGED <<misread, initialized, branch, receipts, eligible>> /\ OthersKeep(w)
           /\ hands[w].pc = "prepared" /\ hands'[w].pc = "started"
           /\ hands'[w].job = hands[w].job
           /\ \A k \in P!Jobs : /\ saves'[k].status = saves[k].status
                                /\ saves'[k].worker = saves[k].worker
                                /\ saves'[k].expected = saves[k].expected
                                /\ saves[k].started => saves'[k].started
           /\ P!Owns(w) => saves'[hands[w].job].started
<1> DEFINE j == hands[w].job
<1>1. j \in P!Jobs /\ saves \in [P!Jobs -> P!Row] /\ hands \in [Workers -> P!Hand]
  BY PracticeWorkingJob DEF P!StartPublishing, PracticeBusy, P!TypeOK, P!SaveTypes, P!WorkerTypes
<1>2. /\ UNCHANGED <<misread, initialized, branch, receipts, eligible>>
      /\ \/ saves' = saves /\ ~P!Owns(w)
         \/ saves' = [saves EXCEPT ![j].started = TRUE]
  BY Zenon DEF P!StartPublishing
<1>3. /\ OthersKeep(w)
      /\ hands[w].pc = "prepared" /\ hands'[w].pc = "started" /\ hands'[w].job = j
  BY <1>1 DEF P!StartPublishing, OthersKeep
<1>4. CASE saves' = [saves EXCEPT ![j].started = TRUE]
  <2>1. saves'[j] = [saves[j] EXCEPT !.started = TRUE] /\ saves[j] \in P!Row
    BY <1>1, <1>4
  <2>2. /\ saves'[j].status = saves[j].status /\ saves'[j].worker = saves[j].worker
        /\ saves'[j].expected = saves[j].expected /\ saves'[j].started
    BY <2>1 DEF P!Row
  <2>3. \A k \in P!Jobs \ {j} : saves'[k] = saves[k]
    BY <1>1, <1>4
  <2> HIDE DEF j
  <2> QED
    BY <1>2, <1>3, <2>2, <2>3 DEF j
<1>5. CASE saves' = saves /\ ~P!Owns(w)
  BY <1>2, <1>3, <1>5
<1> QED
  BY <1>2, <1>4, <1>5

LEMMA CompleteEffect ==
    ASSUME P!TypeOK, NEW w \in Workers, P!Complete(w)
    PROVE  LET j == hands[w].job
           IN  /\ UNCHANGED <<misread, branch, receipts, eligible>> /\ OthersKeep(w)
               /\ initialized' => initialized \/ j = Initialize
               /\ hands[w].pc \in {"published", "found"} /\ hands'[w].pc = "idle"
               /\ j \in P!Jobs
               /\ saves'[j].status = "SUCCEEDED" /\ saves'[j].worker = NoWorker
               /\ saves'[j].expected = saves[j].expected /\ saves'[j].started = saves[j].started
               /\ \A k \in P!Jobs \ {j} : Same(k)
<1> USE DEF P!TypeOK, P!SaveTypes, P!WorkerTypes
<1> DEFINE j == hands[w].job
<1>1. j \in P!Jobs
  BY PracticeWorkingJob DEF P!Complete, PracticeBusy
<1>2. saves' = [saves EXCEPT ![j] = [@ EXCEPT !.status = "SUCCEEDED", !.worker = NoWorker,
                                             !.lease = "none"]]
  BY DEF P!Complete
<1>3. /\ saves'[j].status = "SUCCEEDED" /\ saves'[j].worker = NoWorker
      /\ saves'[j].expected = saves[j].expected /\ saves'[j].started = saves[j].started
  BY <1>1, <1>2 DEF P!Row
<1>4. initialized' => initialized \/ j = Initialize
  BY Zenon DEF P!Complete
<1> HIDE DEF j
<1> QED
  BY <1>1, <1>2, <1>3, <1>4 DEF P!Complete, P!Idle, OthersKeep, Same, j

LEMMA CatchEffect ==
    ASSUME P!TypeOK, NEW w \in Workers, P!Catch(w)
    PROVE  LET j == hands[w].job
           IN  /\ UNCHANGED <<misread, initialized, branch, receipts, eligible>> /\ OthersKeep(w)
               /\ hands[w].pc \in {"conflict", "refused", "lost", "failed"}
               /\ hands'[w].pc = "idle"
               /\ j \in P!Jobs /\ P!RowFree(j)
               /\ \/ ~P!Owns(w) /\ Same(j)
                  \/ /\ P!Owns(w) /\ saves'[j].worker = NoWorker
                     /\ saves'[j].expected = saves[j].expected
                     /\ saves'[j].started = saves[j].started
                     /\ \/ saves'[j].status = "PENDING"
                        \/ saves'[j].status = "CONFLICTED" /\ hands[w].pc = "conflict"
                        \/ /\ saves'[j].status = "FAILED"
                           /\ hands[w].pc = "refused" \/ ~saves[j].started
               /\ \A k \in P!Jobs \ {j} : Same(k)
<1> USE DEF P!TypeOK, P!SaveTypes, P!WorkerTypes
<1> DEFINE j == hands[w].job
           s == P!AfterFailure(j, hands[w].pc)
<1>1. j \in P!Jobs /\ hands[w].pc \in {"conflict", "refused", "lost", "failed"}
  BY PracticeWorkingJob DEF P!Catch, PracticeBusy
<1>2. \/ s = "PENDING"
      \/ s = "CONFLICTED" /\ hands[w].pc = "conflict"
      \/ s = "FAILED" /\ (hands[w].pc = "refused" \/ ~saves[j].started)
  BY <1>1 DEF P!AfterFailure
<1>3. CASE P!Owns(w)
  <2>1. saves' = [saves EXCEPT ![j] = [@ EXCEPT !.status = s, !.worker = NoWorker,
                                               !.lease = "none"]]
    BY <1>3 DEF P!Catch
  <2> HIDE DEF s
  <2>2. /\ saves'[j].status = s /\ saves'[j].worker = NoWorker
        /\ saves'[j].expected = saves[j].expected /\ saves'[j].started = saves[j].started
    BY <1>1, <2>1 DEF P!Row
  <2>3. \A k \in P!Jobs \ {j} : Same(k)
    BY <1>1, <2>1 DEF Same
  <2> QED
    BY <1>1, <1>2, <1>3, <2>2, <2>3 DEF P!Catch, P!Idle, OthersKeep
<1>4. CASE ~P!Owns(w)
  BY <1>1, <1>4 DEF P!Catch, P!Idle, OthersKeep, Same
<1> QED
  BY <1>3, <1>4

LEMMA PublishEffect ==
    ASSUME P!TypeOK, NEW w \in Workers, Publishes(w)
    PROVE  /\ UNCHANGED <<initialized, saves, eligible>> /\ OthersKeep(w)
           /\ misread \subseteq misread'
           /\ hands[w].pc = "publishing" /\ hands'[w].pc \in {"published", "conflict", "failed"}
           /\ hands'[w].pc = "conflict" => hands[w].job \in misread'
           /\ hands'[w].job = hands[w].job /\ hands[w].job \in P!Jobs
           /\ Len(branch) = saves[hands[w].job].expected
           /\ branch' = Append(branch, hands[w].job)
           /\ receipts' = receipts \union {hands[w].job}
<1>1. hands \in [Workers -> P!Hand] /\ hands[w].job \in P!Jobs
  BY PracticeWorkingJob DEF Publishes, PracticeBusy, P!TypeOK, P!WorkerTypes
<1>2. /\ UNCHANGED <<initialized, saves, eligible>>
      /\ hands[w].pc = "publishing" /\ Len(branch) = saves[hands[w].job].expected
      /\ branch' = Append(branch, hands[w].job)
      /\ receipts' = receipts \union {hands[w].job}
  BY DEF Publishes
<1>3. CASE P!Goto(w, "published") /\ UNCHANGED misread
  BY <1>1, <1>2, <1>3 DEF OthersKeep
<1>4. CASE /\ P!Goto(w, "conflict") \/ P!Goto(w, "failed")
           /\ misread' = misread \union {hands[w].job}
  <2>1. OthersKeep(w) /\ hands'[w].job = hands[w].job /\ hands'[w].pc \in {"conflict", "failed"}
    BY <1>1, <1>4, HandMoved
  <2> QED
    BY <1>1, <1>2, <1>4, <2>1
<1> QED
  BY <1>3, <1>4 DEF Publishes

LEMMA PracticeCrashEffect ==
    ASSUME P!TypeOK, NEW w \in Workers, P!Crash(w)
    PROVE  /\ UNCHANGED <<misread, initialized, branch, receipts, eligible, saves>> /\ OthersKeep(w)
           /\ hands'[w].pc = "dead"
  BY DEF P!Crash, P!TypeOK, P!WorkerTypes, P!Idle, OthersKeep

LEMMA BranchAppended ==
    ASSUME P!TypeOK, NEW c \in P!Jobs \union {Native}, branch' = Append(branch, c)
    PROVE  /\ Len(branch) \in Nat /\ DOMAIN branch = 1..Len(branch)
           /\ DOMAIN branch' = 1..(Len(branch) + 1) /\ branch'[Len(branch) + 1] = c
           /\ \A i \in 1..Len(branch) : branch'[i] = branch[i]
           /\ branch' # <<>> /\ (branch = <<>> <=> Len(branch) = 0)
  BY DEF P!TypeOK, P!GitTypes

LEMMA ReceiptOfJob == P!TypeOK => receipts \subseteq P!Jobs
  BY DEF P!TypeOK, P!GitTypes

LEMMA OnBranch == ASSUME P!TypeOK, NEW i \in DOMAIN branch, branch[i] # Native PROVE branch[i] \in P!Jobs
  BY DEF P!TypeOK, P!GitTypes

(***************************************************************************)
(* The invariant.                                                          *)
(***************************************************************************)
InTx(w) == hands[w].pc \in {"publishing", "published", "found"}

(* A transaction holds the row of a job that its worker owns. *)
TxOwns == \A w \in Workers : InTx(w) => P!Owns(w)

(* The initial job expects no branch, and every other one some head. *)
PracticeAsked ==
    /\ \A w \in Workers : PracticeBusy(w) => saves[hands[w].job].status # "NONE"
    /\ saves[Initialize].expected = 0
    /\ \A j \in Saves : saves[j].status # "NONE" => saves[j].expected # 0

ReceiptsTrue ==
    \A j \in receipts :
        /\ saves[j].status # "NONE"
        /\ \/ j \in misread
           \/ saves[j].status \notin {"FAILED", "CONFLICTED"} /\ saves[j].started
        /\ saves[j].expected + 1 \in DOMAIN branch /\ branch[saves[j].expected + 1] = j

BranchTrue ==
    /\ \A i \in DOMAIN branch : branch[i] # Native => branch[i] \in receipts
    /\ branch # <<>> => branch[1] = Initialize

Unread(j) == j \notin receipts \/ j \in misread

(* What a worker knows of its job's receipt. *)
Known ==
    \A w \in Workers :
        /\ hands[w].pc \in {"published", "found"} => hands[w].job \in receipts
        /\ hands[w].pc = "publishing" => eligible
        /\ hands[w].pc \in {"preparing", "refused", "conflict"} /\ P!Owns(w) =>
               Unread(hands[w].job)
        /\ hands[w].pc = "conflict" /\ P!Owns(w) =>
               hands[w].job # Initialize \/ Initialize \in misread
        /\ hands[w].pc \in {"started", "publishing"} /\ P!Owns(w) => saves[hands[w].job].started

Done ==
    /\ \A j \in P!Jobs : saves[j].status = "SUCCEEDED" => j \in receipts
    /\ initialized => Initialize \in receipts
    /\ saves[Initialize].status = "CONFLICTED" => Initialize \in misread

PracticeInv == P!TypeOK /\ TxOwns /\ PracticeAsked /\ ReceiptsTrue /\ BranchTrue /\ Known /\ Done

LEMMA JobOf == ASSUME P!TypeOK, NEW w \in Workers, PracticeBusy(w) PROVE hands[w].job \in P!Jobs
  BY PracticeWorkingJob DEF P!TypeOK

(* A branch with a commit has the initial job's receipt. *)
LEMMA NotBegun ==
    ASSUME P!PracticeAssumption,
           P!TypeOK, BranchTrue, Initialize \notin receipts
    PROVE  branch = <<>> /\ Len(branch) = 0
<1>1. branch \in Seq(P!Jobs \union {Native}) /\ Initialize # Native
  BY P!PracticeAssumption DEF P!TypeOK, P!GitTypes, P!Jobs
<1>2. branch # <<>> => 1 \in DOMAIN branch
  BY <1>1
<1> QED
  BY <1>1, <1>2 DEF BranchTrue

LEMMA TxOwnsStep ==
    ASSUME P!PracticeAssumption
    PROVE  P!TypeOK /\ TxOwns /\ [P!Next]_(P!vars) => TxOwns'
<1> SUFFICES ASSUME P!TypeOK, TxOwns, [P!Next]_(P!vars) PROVE TxOwns'
  OBVIOUS
<1> USE JobOf, OnBranch, ReceiptOfJob, P!PracticeAssumption DEF TxOwns, InTx, PracticeBusy, P!Jobs
<1>0. CASE UNCHANGED P!vars
  BY <1>0
<1>1. CASE P!Enter
  BY <1>1, EnterEffect DEF Same
<1>2. ASSUME NEW j \in Saves, P!Save(j) PROVE TxOwns'
  BY <1>2, SaveEffect DEF Same
<1>3. CASE P!NativePush
  BY <1>3, BranchAppended DEF P!NativePush, P!Pushable
<1>4. CASE P!ChangeEligibility
  BY <1>4 DEF P!ChangeEligibility, P!PolicyFree
<1>5. ASSUME NEW j \in P!Jobs, P!ExpireLease(j) PROVE TxOwns'
  BY <1>5, PracticeExpireEffect DEF Same
<1>6. ASSUME NEW w \in Workers, NEW j \in P!Jobs, P!Claim(w, j) PROVE TxOwns'
  BY <1>6, PracticeClaimEffect DEF OthersKeep, Same, P!RowFree
<1>7. ASSUME NEW w \in Workers, PracticeWalks(w) PROVE TxOwns'
  BY <1>7, PracticeWalk DEF OthersKeep, Follows, P!TypeOK
<1>8. ASSUME NEW w \in Workers, P!StartPublishing(w) PROVE TxOwns'
  BY <1>8, StartEffect DEF OthersKeep
<1>9. ASSUME NEW w \in Workers, Publishes(w) PROVE TxOwns'
  BY <1>9, PublishEffect, BranchAppended DEF OthersKeep
<1>10. ASSUME NEW w \in Workers, P!Complete(w) PROVE TxOwns'
  BY <1>10, CompleteEffect DEF OthersKeep, Same
<1>11. ASSUME NEW w \in Workers, P!Catch(w) PROVE TxOwns'
  BY <1>11, CatchEffect DEF OthersKeep, Same, P!RowFree
<1>12. ASSUME NEW w \in Workers, P!Crash(w) PROVE TxOwns'
  BY <1>12, PracticeCrashEffect DEF OthersKeep
<1> QED
  BY <1>0, <1>1, <1>2, <1>3, <1>4, <1>5, <1>6, <1>7, <1>8, <1>9, <1>10, <1>11, <1>12, PracticeSteps

LEMMA PracticeAskedStep ==
    ASSUME P!PracticeAssumption
    PROVE  P!TypeOK /\ PracticeAsked /\ [P!Next]_(P!vars) => PracticeAsked'
<1> SUFFICES ASSUME P!TypeOK, PracticeAsked, [P!Next]_(P!vars) PROVE PracticeAsked'
  OBVIOUS
<1> USE JobOf, OnBranch, ReceiptOfJob, P!PracticeAssumption DEF PracticeAsked, PracticeBusy, P!Jobs
<1>0. CASE UNCHANGED P!vars
  BY <1>0
<1>1. CASE P!Enter
  BY <1>1, EnterEffect DEF Same
<1>2. ASSUME NEW j \in Saves, P!Save(j) PROVE PracticeAsked'
  BY <1>2, SaveEffect DEF Same
<1>3. CASE P!NativePush
  BY <1>3, BranchAppended DEF P!NativePush, P!Pushable
<1>4. CASE P!ChangeEligibility
  BY <1>4 DEF P!ChangeEligibility, P!PolicyFree
<1>5. ASSUME NEW j \in P!Jobs, P!ExpireLease(j) PROVE PracticeAsked'
  BY <1>5, PracticeExpireEffect DEF Same
<1>6. ASSUME NEW w \in Workers, NEW j \in P!Jobs, P!Claim(w, j) PROVE PracticeAsked'
  BY <1>6, PracticeClaimEffect DEF OthersKeep, Same, P!RowFree
<1>7. ASSUME NEW w \in Workers, PracticeWalks(w) PROVE PracticeAsked'
  BY <1>7, PracticeWalk DEF OthersKeep, Follows, P!TypeOK
<1>8. ASSUME NEW w \in Workers, P!StartPublishing(w) PROVE PracticeAsked'
  BY <1>8, StartEffect DEF OthersKeep
<1>9. ASSUME NEW w \in Workers, Publishes(w) PROVE PracticeAsked'
  BY <1>9, PublishEffect, BranchAppended DEF OthersKeep
<1>10. ASSUME NEW w \in Workers, P!Complete(w) PROVE PracticeAsked'
  BY <1>10, CompleteEffect DEF OthersKeep, Same
<1>11. ASSUME NEW w \in Workers, P!Catch(w) PROVE PracticeAsked'
  BY <1>11, CatchEffect DEF OthersKeep, Same, P!RowFree
<1>12. ASSUME NEW w \in Workers, P!Crash(w) PROVE PracticeAsked'
  BY <1>12, PracticeCrashEffect DEF OthersKeep
<1> QED
  BY <1>0, <1>1, <1>2, <1>3, <1>4, <1>5, <1>6, <1>7, <1>8, <1>9, <1>10, <1>11, <1>12, PracticeSteps

LEMMA ReceiptsTrueStep ==
    ASSUME P!PracticeAssumption
    PROVE  P!TypeOK /\ TxOwns /\ PracticeAsked /\ ReceiptsTrue /\ Known /\ [P!Next]_(P!vars) => ReceiptsTrue'
<1> SUFFICES ASSUME P!TypeOK, TxOwns, PracticeAsked, ReceiptsTrue, Known, [P!Next]_(P!vars) PROVE ReceiptsTrue'
  OBVIOUS
<1> USE JobOf, OnBranch, ReceiptOfJob, P!PracticeAssumption DEF TxOwns, InTx, ReceiptsTrue, Known, Unread, PracticeBusy, P!Jobs
<1>0. CASE UNCHANGED P!vars
  BY <1>0
<1>1. CASE P!Enter
  BY <1>1, EnterEffect DEF Same, PracticeAsked
<1>2. ASSUME NEW j \in Saves, P!Save(j) PROVE ReceiptsTrue'
  BY <1>2, SaveEffect DEF Same
<1>3. CASE P!NativePush
  BY <1>3, BranchAppended DEF P!NativePush, P!Pushable
<1>4. CASE P!ChangeEligibility
  BY <1>4 DEF P!ChangeEligibility, P!PolicyFree
<1>5. ASSUME NEW j \in P!Jobs, P!ExpireLease(j) PROVE ReceiptsTrue'
  BY <1>5, PracticeExpireEffect DEF Same
<1>6. ASSUME NEW w \in Workers, NEW j \in P!Jobs, P!Claim(w, j) PROVE ReceiptsTrue'
  BY <1>6, PracticeClaimEffect DEF OthersKeep, Same, P!RowFree
<1>7. ASSUME NEW w \in Workers, PracticeWalks(w) PROVE ReceiptsTrue'
  BY <1>7, PracticeWalk DEF OthersKeep, Follows, P!TypeOK
<1>8. ASSUME NEW w \in Workers, P!StartPublishing(w) PROVE ReceiptsTrue'
  BY <1>8, StartEffect DEF OthersKeep
<1>9. ASSUME NEW w \in Workers, Publishes(w) PROVE ReceiptsTrue'

  <2> DEFINE p == hands[w].job
  <2>1. /\ p \in P!Jobs /\ saves[p].status = "RUNNING" /\ saves[p].started
        /\ Len(branch) = saves[p].expected /\ receipts' = receipts \union {p}
        /\ saves' = saves /\ misread \subseteq misread'
    BY <1>9, PublishEffect
  <2>2. /\ Len(branch) \in Nat /\ DOMAIN branch = 1..Len(branch)
        /\ DOMAIN branch' = 1..(Len(branch) + 1) /\ branch'[Len(branch) + 1] = p
        /\ \A i \in 1..Len(branch) : branch'[i] = branch[i]
    BY <1>9, <2>1, PublishEffect, BranchAppended
  <2> HIDE DEF p
  <2>3. \A j \in receipts : /\ saves[j].expected + 1 \in DOMAIN branch'
                            /\ branch'[saves[j].expected + 1] = j
    BY <2>2
  <2> QED
    BY <2>1, <2>2, <2>3
<1>10. ASSUME NEW w \in Workers, P!Complete(w) PROVE ReceiptsTrue'
  BY <1>10, CompleteEffect DEF OthersKeep, Same
<1>11. ASSUME NEW w \in Workers, P!Catch(w) PROVE ReceiptsTrue'
  BY <1>11, CatchEffect DEF OthersKeep, Same, P!RowFree
<1>12. ASSUME NEW w \in Workers, P!Crash(w) PROVE ReceiptsTrue'
  BY <1>12, PracticeCrashEffect DEF OthersKeep
<1> QED
  BY <1>0, <1>1, <1>2, <1>3, <1>4, <1>5, <1>6, <1>7, <1>8, <1>9, <1>10, <1>11, <1>12, PracticeSteps

LEMMA BranchTrueStep ==
    ASSUME P!PracticeAssumption
    PROVE  P!TypeOK /\ TxOwns /\ PracticeAsked /\ BranchTrue /\ [P!Next]_(P!vars) => BranchTrue'
<1> SUFFICES ASSUME P!TypeOK, TxOwns, PracticeAsked, BranchTrue, [P!Next]_(P!vars) PROVE BranchTrue'
  OBVIOUS
<1> USE JobOf, OnBranch, ReceiptOfJob, P!PracticeAssumption DEF TxOwns, InTx, PracticeAsked, BranchTrue, PracticeBusy, P!Jobs
<1>0. CASE UNCHANGED P!vars
  BY <1>0
<1>1. CASE P!Enter
  BY <1>1, EnterEffect DEF Same
<1>2. ASSUME NEW j \in Saves, P!Save(j) PROVE BranchTrue'
  BY <1>2, SaveEffect DEF Same
<1>3. CASE P!NativePush
  BY <1>3, BranchAppended DEF P!NativePush, P!Pushable
<1>4. CASE P!ChangeEligibility
  BY <1>4 DEF P!ChangeEligibility, P!PolicyFree
<1>5. ASSUME NEW j \in P!Jobs, P!ExpireLease(j) PROVE BranchTrue'
  BY <1>5, PracticeExpireEffect DEF Same
<1>6. ASSUME NEW w \in Workers, NEW j \in P!Jobs, P!Claim(w, j) PROVE BranchTrue'
  BY <1>6, PracticeClaimEffect DEF OthersKeep, Same, P!RowFree
<1>7. ASSUME NEW w \in Workers, PracticeWalks(w) PROVE BranchTrue'
  BY <1>7, PracticeWalk DEF OthersKeep, Follows, P!TypeOK
<1>8. ASSUME NEW w \in Workers, P!StartPublishing(w) PROVE BranchTrue'
  BY <1>8, StartEffect DEF OthersKeep
<1>9. ASSUME NEW w \in Workers, Publishes(w) PROVE BranchTrue'
  BY <1>9, PublishEffect, BranchAppended DEF OthersKeep
<1>10. ASSUME NEW w \in Workers, P!Complete(w) PROVE BranchTrue'
  BY <1>10, CompleteEffect DEF OthersKeep, Same
<1>11. ASSUME NEW w \in Workers, P!Catch(w) PROVE BranchTrue'
  BY <1>11, CatchEffect DEF OthersKeep, Same, P!RowFree
<1>12. ASSUME NEW w \in Workers, P!Crash(w) PROVE BranchTrue'
  BY <1>12, PracticeCrashEffect DEF OthersKeep
<1> QED
  BY <1>0, <1>1, <1>2, <1>3, <1>4, <1>5, <1>6, <1>7, <1>8, <1>9, <1>10, <1>11, <1>12, PracticeSteps

LEMMA KnownStep ==
    ASSUME P!PracticeAssumption
    PROVE  P!TypeOK /\ TxOwns /\ PracticeAsked /\ ReceiptsTrue /\ BranchTrue /\ Known /\ [P!Next]_(P!vars) => Known'
<1> SUFFICES ASSUME P!TypeOK, TxOwns, PracticeAsked, ReceiptsTrue, BranchTrue, Known, [P!Next]_(P!vars) PROVE Known'
  OBVIOUS
<1> USE JobOf, OnBranch, ReceiptOfJob, P!PracticeAssumption DEF TxOwns, InTx, Known, Unread, PracticeBusy, P!Jobs
<1>0. CASE UNCHANGED P!vars
  BY <1>0
<1>1. CASE P!Enter
  BY <1>1, EnterEffect DEF Same
<1>2. ASSUME NEW j \in Saves, P!Save(j) PROVE Known'
  BY <1>2, SaveEffect DEF Same
<1>3. CASE P!NativePush
  BY <1>3, BranchAppended DEF P!NativePush, P!Pushable
<1>4. CASE P!ChangeEligibility
  BY <1>4 DEF P!ChangeEligibility, P!PolicyFree
<1>5. ASSUME NEW j \in P!Jobs, P!ExpireLease(j) PROVE Known'
  BY <1>5, PracticeExpireEffect DEF Same
<1>6. ASSUME NEW w \in Workers, NEW j \in P!Jobs, P!Claim(w, j) PROVE Known'
  BY <1>6, PracticeClaimEffect DEF OthersKeep, Same, P!RowFree
<1>7. ASSUME NEW w \in Workers, PracticeWalks(w) PROVE Known'
  BY <1>7, PracticeWalk, NotBegun DEF OthersKeep, Follows, Unseen, P!TypeOK, PracticeAsked
<1>8. ASSUME NEW w \in Workers, P!StartPublishing(w) PROVE Known'
  BY <1>8, StartEffect DEF OthersKeep
<1>9. ASSUME NEW w \in Workers, Publishes(w) PROVE Known'
  BY <1>9, PublishEffect, BranchAppended DEF OthersKeep
<1>10. ASSUME NEW w \in Workers, P!Complete(w) PROVE Known'
  BY <1>10, CompleteEffect DEF OthersKeep, Same
<1>11. ASSUME NEW w \in Workers, P!Catch(w) PROVE Known'
  BY <1>11, CatchEffect DEF OthersKeep, Same, P!RowFree
<1>12. ASSUME NEW w \in Workers, P!Crash(w) PROVE Known'
  BY <1>12, PracticeCrashEffect DEF OthersKeep
<1> QED
  BY <1>0, <1>1, <1>2, <1>3, <1>4, <1>5, <1>6, <1>7, <1>8, <1>9, <1>10, <1>11, <1>12, PracticeSteps

LEMMA DoneStep ==
    ASSUME P!PracticeAssumption
    PROVE  P!TypeOK /\ TxOwns /\ Known /\ Done /\ [P!Next]_(P!vars) => Done'
<1> SUFFICES ASSUME P!TypeOK, TxOwns, Known, Done, [P!Next]_(P!vars) PROVE Done'
  OBVIOUS
<1> USE JobOf, OnBranch, ReceiptOfJob, P!PracticeAssumption DEF TxOwns, InTx, Known, Unread, Done, PracticeBusy, P!Jobs
<1>0. CASE UNCHANGED P!vars
  BY <1>0
<1>1. CASE P!Enter
  BY <1>1, EnterEffect DEF Same
<1>2. ASSUME NEW j \in Saves, P!Save(j) PROVE Done'
  BY <1>2, SaveEffect DEF Same
<1>3. CASE P!NativePush
  BY <1>3, BranchAppended DEF P!NativePush, P!Pushable
<1>4. CASE P!ChangeEligibility
  BY <1>4 DEF P!ChangeEligibility, P!PolicyFree
<1>5. ASSUME NEW j \in P!Jobs, P!ExpireLease(j) PROVE Done'
  BY <1>5, PracticeExpireEffect DEF Same
<1>6. ASSUME NEW w \in Workers, NEW j \in P!Jobs, P!Claim(w, j) PROVE Done'
  BY <1>6, PracticeClaimEffect DEF OthersKeep, Same, P!RowFree
<1>7. ASSUME NEW w \in Workers, PracticeWalks(w) PROVE Done'
  BY <1>7, PracticeWalk DEF OthersKeep, Follows, P!TypeOK
<1>8. ASSUME NEW w \in Workers, P!StartPublishing(w) PROVE Done'
  BY <1>8, StartEffect DEF OthersKeep
<1>9. ASSUME NEW w \in Workers, Publishes(w) PROVE Done'
  BY <1>9, PublishEffect, BranchAppended DEF OthersKeep
<1>10. ASSUME NEW w \in Workers, P!Complete(w) PROVE Done'
  BY <1>10, CompleteEffect DEF OthersKeep, Same
<1>11. ASSUME NEW w \in Workers, P!Catch(w) PROVE Done'
  BY <1>11, CatchEffect DEF OthersKeep, Same, P!RowFree
<1>12. ASSUME NEW w \in Workers, P!Crash(w) PROVE Done'
  BY <1>12, PracticeCrashEffect DEF OthersKeep
<1> QED
  BY <1>0, <1>1, <1>2, <1>3, <1>4, <1>5, <1>6, <1>7, <1>8, <1>9, <1>10, <1>11, <1>12, PracticeSteps

-----------------------------------------------------------------------------
(* Theorems. *)

LEMMA PracticeAlwaysInv ==
    ASSUME P!PracticeAssumption
    PROVE  P!Spec => []PracticeInv
<1>1. ASSUME P!Init PROVE TxOwns /\ PracticeAsked /\ ReceiptsTrue /\ BranchTrue /\ Known /\ Done
  <2>1. DOMAIN branch = {} /\ Initialize \in P!Jobs
    BY <1>1 DEF P!Init, P!Jobs
  <2>2. ~initialized
    BY <1>1, Zenon DEF P!Init
  <2>3. /\ \A w \in Workers : hands[w].pc = "idle"
        /\ \A j \in P!Jobs : saves[j].status = "NONE" /\ saves[j].expected = 0
        /\ branch = <<>> /\ receipts = {}
    BY <1>1 DEF P!Init, P!NewJob, P!Idle
  <2> QED
    BY <2>1, <2>2, <2>3 DEF TxOwns, InTx, PracticeAsked, PracticeBusy, ReceiptsTrue, BranchTrue, Known, Done, P!Jobs
<1>2. PracticeInv /\ [P!Next]_(P!vars) => PracticeInv'
  BY PracticeTypeStep, TxOwnsStep, PracticeAskedStep, ReceiptsTrueStep, BranchTrueStep, KnownStep, DoneStep
     DEF PracticeInv
<1> QED
  BY <1>1, <1>2, PracticeTypeCorrect, PracticeTypeStep, PTL DEF P!Spec, PracticeInv

(* What a job is told is what the branch says, whoever claims it after which
   crash, unless its receipt was there and misread; the branch is started by its
   initial job, which never conflicts but for the same reason. *)
THEOREM PracticeConsistentAlways ==
    ASSUME P!PracticeAssumption
    PROVE  P!Spec => []PracticeConsistent
<1>1. PracticeInv => PracticeConsistent
  <2> SUFFICES ASSUME PracticeInv PROVE PracticeConsistent
    OBVIOUS
  <2>1. PracticeToldIsTrue
    <3> SUFFICES ASSUME NEW j \in P!Jobs
                 PROVE  /\ saves[j].status = "SUCCEEDED" =>
                              /\ saves[j].expected + 1 \in DOMAIN branch
                              /\ branch[saves[j].expected + 1] = j
                        /\ saves[j].status \in {"FAILED", "CONFLICTED"} =>
                              (\A i \in DOMAIN branch : branch[i] # j) \/ j \in misread
      BY DEF PracticeToldIsTrue, PracticeInv, P!TypeOK, P!SaveTypes
    <3>1. j # Native
      BY P!PracticeAssumption
    <3> QED
      BY <3>1 DEF PracticeInv, Done, ReceiptsTrue, BranchTrue
  <2>2. Startable
    <3>1. branch = <<>> => DOMAIN branch = {}
      OBVIOUS
    <3> QED
      BY <3>1 DEF PracticeInv, Done, ReceiptsTrue, BranchTrue, Startable
  <2> QED
    BY <2>1, <2>2 DEF PracticeConsistent
<1> QED
  BY <1>1, PracticeAlwaysInv, PTL

(* A job, or a push, adds to the branch only while the student may practise:
   the policy's rows stay locked from the check to the update. *)
THEOREM PublishedWhileEligibleAlways ==
    ASSUME P!PracticeAssumption
    PROVE  P!Spec => PublishedWhileEligible
<1>1. PracticeInv /\ [P!Next]_(P!vars) => [eligible]_branch
  <2> SUFFICES ASSUME PracticeInv, [P!Next]_(P!vars), branch' # branch PROVE eligible
    OBVIOUS
  <2>1. P!NativePush \/ \E w \in Workers : Publishes(w)
    BY PracticeSteps, PracticeWalk, EnterEffect, SaveEffect, PracticeExpireEffect, PracticeClaimEffect, StartEffect,
       CompleteEffect, CatchEffect, PracticeCrashEffect
       DEF PracticeInv, P!TypeOK, P!ChangeEligibility
  <2> QED
    BY <2>1 DEF P!NativePush, Publishes, PracticeInv, Known
<1> QED
  BY <1>1, PracticeAlwaysInv, PTL DEF P!Spec, PublishedWhileEligible
=============================================================================
