------------------------- MODULE SubmissionAttempts -------------------------
(***************************************************************************)
(* The attempts of one student at one activity: how submissions are         *)
(* accepted, counted, replaced and credited                                 *)
(* (src/server/src/modules/submissions/submission.repository.ts,            *)
(* submission.service.ts, submission-credit.ts) while an instructor         *)
(* resolves failures, reviews, releases, closes and archives               *)
(* (src/server/src/modules/activities/activity.repository.ts).              *)
(*                                                                         *)
(* createSubmission is a SERIALIZABLE transaction: the service reads the    *)
(* clock, the transaction takes its snapshot with its first query, before   *)
(* it holds the advisory lock of the scope (Begin), and decides on that     *)
(* snapshot when it commits.  PostgreSQL refuses a commit that read what    *)
(* another serializable transaction has changed since, or that locks a row  *)
(* updated since; the repository then runs it again, on a new snapshot but  *)
(* with the same clock reading.  Instructor operations and archive are READ *)
(* COMMITTED: they see every commit as it happens and conflict with nothing *)
(* but the row they lock.  The student is an active member of an active     *)
(* class.                                                                   *)
(***************************************************************************)
EXTENDS Naturals, SequencesExt

CONSTANTS
    Requests,     \* HTTP requests to create a submission
    KeyOf,        \* the Idempotency-Key header of each
    SourcesOf,    \* the source codes each may carry
    FirstLimit,   \* max_attempts the activity is published with
    LastLimit,    \* bound on it: an instructor may raise it
    Mode,         \* grading mode of the activity
    Scores,       \* final scores a release may record
    FirstDue,     \* due date the activity is published with
    LastDue,      \* bound on it: an instructor may extend it
    MaxTime,      \* bound on the clock
    ClockHeld     \* does no grant expire while a request that saw it is under way?

ASSUME LimitAssumption == /\ FirstLimit \in Nat \ {0} /\ LastLimit \in Nat
                          /\ FirstLimit <= LastLimit
                          /\ FirstDue \in Nat /\ LastDue \in Nat /\ FirstDue <= LastDue
                          /\ MaxTime \in Nat
ASSUME ChoiceAssumption == /\ Mode \in {"GRADED", "COMPLETION"}
                           /\ Scores \subseteq Nat
                           /\ ClockHeld \in BOOLEAN

VARIABLES
    now,        \* the clock
    activity,   \* programming_activities: status, limit of attempts, due date
    subs,       \* the submissions, in order of insertion
    pc,         \* where each request is in createSubmission
    asOf,       \* the clock reading of each request
    snap,       \* the snapshot of each request's transaction
    tries,      \* how often each request's transaction has been rolled back
    answer,     \* what each request was answered, the submission and source it names
    editing,    \* instructor transactions that hold a submission's row lock
    archiving   \* archive holds the activity's row lock, past its first count

vars == <<now, activity, subs, pc, asOf, snap, tries, answer, editing, archiving>>
requestVars == <<pc, asOf, snap, tries, answer>>

(* The code runs a rolled back transaction at most this many times. *)
MaxTries == 3

(* The source a request carries, and what its transaction reads of the scope:
   how many submissions there are, how many count, the grants that can be used,
   the activity.  (Keys and sources never change.) *)
Usable(t) == {i \in DOMAIN subs : /\ subs[i].grant = "GRANTED"
                                  /\ subs[i].replacement = 0
                                  /\ subs[i].expires > t}
Counting == {i \in DOMAIN subs : subs[i].counts}
Snapshot(t, p) == [source |-> p, len |-> Len(subs), counting |-> Cardinality(Counting),
                   grants |-> Usable(t), activity |-> activity]
NoSnap == [source |-> "NONE", len |-> 0, counting |-> 0, grants |-> {},
           activity |-> [status |-> "NONE", limit |-> 0, due |-> 0]]

(* A new row: what createSubmission inserts. *)
NewSubmission(r, n) ==
    [attempt |-> n, key |-> KeyOf[r], source |-> snap[r].source, status |-> "QUEUED",
     counts |-> TRUE, score |-> 0, grant |-> "NONE", expires |-> 0, replacement |-> 0]

Init ==
    /\ now = 0
    /\ activity = [status |-> "PUBLISHED", limit |-> FirstLimit, due |-> FirstDue]
    /\ subs = <<>>
    /\ pc = [r \in Requests |-> "idle"]
    /\ asOf = [r \in Requests |-> 0]
    /\ snap = [r \in Requests |-> NoSnap]
    /\ tries = [r \in Requests |-> 0]
    /\ answer = [r \in Requests |-> <<"NONE", 0, "NONE">>]
    /\ editing = {}
    /\ archiving = FALSE

-----------------------------------------------------------------------------
(* createSubmission.                                                        *)

Begin(r) ==
    /\ pc[r] = "idle"
    /\ pc' = [pc EXCEPT ![r] = "open"]
    /\ asOf' = [asOf EXCEPT ![r] = now]
    /\ \E p \in SourcesOf[r] : snap' = [snap EXCEPT ![r] = Snapshot(now, p)]
    /\ UNCHANGED <<now, activity, subs, tries, answer, editing, archiving>>

(* The row lock on the activity is granted: nobody has updated the row since
   the snapshot and archive does not hold it. *)
ActivityLocked(r) == pc[r] = "open" /\ activity = snap[r].activity /\ ~archiving

(* The submission that was made with the same key, if the snapshot has it. *)
Recorded(r) == {i \in 1..snap[r].len : subs[i].key = KeyOf[r]}
OrdinaryOpen(r) == /\ snap[r].activity.status = "PUBLISHED"
                   /\ asOf[r] < snap[r].activity.due

Answer(r, kind, n) ==
    /\ answer' = [answer EXCEPT ![r] = <<kind, n, snap[r].source>>]
    /\ pc' = [pc EXCEPT ![r] = "done"]
    /\ snap' = [snap EXCEPT ![r] = NoSnap]
    /\ asOf' = [asOf EXCEPT ![r] = 0]
    /\ tries' = [tries EXCEPT ![r] = 0]

(* The key was used before: the same source gets the same submission. *)
Replay(r) ==
    /\ ActivityLocked(r)
    /\ \E i \in Recorded(r) :
          IF subs[i].source = snap[r].source
          THEN Answer(r, "replayed", i)
          ELSE Answer(r, "idempotency_conflict", 0)
    /\ UNCHANGED <<now, activity, subs, editing, archiving>>

Refuse(r) ==
    /\ ActivityLocked(r)
    /\ Recorded(r) = {}
    /\ IF snap[r].grants = {}
       THEN IF ~OrdinaryOpen(r)
            THEN Answer(r, "activity_not_accepting", 0)
            ELSE /\ snap[r].counting >= snap[r].activity.limit
                 /\ Answer(r, "attempt_limit_reached", 0)
       ELSE /\ snap[r].activity.status \notin {"PUBLISHED", "CLOSED"}
            /\ Answer(r, "activity_not_accepting", 0)
    /\ UNCHANGED <<now, activity, subs, editing, archiving>>

(* No serializable transaction of the scope has written since the snapshot.
   Mutant: the isolation level is left at its default. *)
NotIsolated(r) == TRUE
Serializable(r) == Len(subs) = snap[r].len

(* The next attempt number, by the snapshot. *)
NextAttempt(r) == snap[r].len + 1

(* An ordinary attempt.  Mutant: the limit is off by one. *)
CreateOrdinaryOffByOne(r) ==
    /\ ActivityLocked(r)
    /\ Recorded(r) = {}
    /\ snap[r].grants = {}
    /\ OrdinaryOpen(r)
    /\ snap[r].counting <= snap[r].activity.limit
    /\ Serializable(r)
    /\ subs' = Append(subs, NewSubmission(r, NextAttempt(r)))
    /\ Answer(r, "created", Len(subs'))
    /\ UNCHANGED <<now, activity, editing, archiving>>

CreateOrdinary(r) ==
    /\ ActivityLocked(r)
    /\ Recorded(r) = {}
    /\ snap[r].grants = {}
    /\ OrdinaryOpen(r)
    /\ snap[r].counting < snap[r].activity.limit
    /\ Serializable(r)
    /\ subs' = Append(subs, NewSubmission(r, NextAttempt(r)))
    /\ Answer(r, "created", Len(subs'))
    /\ UNCHANGED <<now, activity, editing, archiving>>

(* A replacement: it consumes a grant, past the due date and the close too. *)
CreateReplacement(r) ==
    /\ ActivityLocked(r)
    /\ Recorded(r) = {}
    /\ snap[r].activity.status \in {"PUBLISHED", "CLOSED"}
    /\ Serializable(r)
    /\ \E i \in snap[r].grants :
          subs' = Append([subs EXCEPT ![i].replacement = NextAttempt(r)],
                         NewSubmission(r, NextAttempt(r)))
    /\ Answer(r, "created", Len(subs'))
    /\ UNCHANGED <<now, activity, editing, archiving>>

(* PostgreSQL refuses a transaction whose snapshot is no longer the truth. *)
SerializationFailure(r) ==
    /\ pc[r] = "open"
    /\ snap[r] # Snapshot(asOf[r], snap[r].source)
    /\ IF tries[r] + 1 < MaxTries
       THEN /\ tries' = [tries EXCEPT ![r] = @ + 1]
            /\ snap' = [snap EXCEPT ![r] = Snapshot(asOf[r], snap[r].source)]
            /\ UNCHANGED <<pc, asOf, answer>>
       ELSE Answer(r, "concurrent_conflict", 0)
    /\ UNCHANGED <<now, activity, subs, editing, archiving>>

-----------------------------------------------------------------------------
(* The execution queue, seen from here: see ExecutionQueue.                 *)
Assess(n) ==
    /\ subs[n].status = "QUEUED"
    /\ \E s \in {"ASSESSED", "ASSESSMENT_FAILED"} :
          subs' = [subs EXCEPT ![n].status = s]
    /\ UNCHANGED <<now, activity, requestVars, editing, archiving>>

(* The instructor's transactions lock the submission, check it and the
   activity, and write.  The activity they only read. *)
Edits == {"retry", "close", "grant", "review", "release"}

Editable(n, op) ==
    CASE op \in {"retry", "close", "grant"} ->
            /\ subs[n].status = "ASSESSMENT_FAILED"
            /\ subs[n].grant = "NONE"
            /\ op = "retry" => Mode = "GRADED"
      [] op = "review" ->
            \/ subs[n].status \in {"ASSESSED", "REVIEWED"}
            \/ Mode = "COMPLETION" /\ subs[n].status = "FAILED_RESOLVED"
      [] op = "release" -> subs[n].status = "REVIEWED"

BeginEdit(n, op) ==
    /\ \A e \in editing : e[1] # n
    /\ activity.status # "ARCHIVED"
    /\ Editable(n, op)
    /\ editing' = editing \union {<<n, op>>}
    /\ UNCHANGED <<now, activity, subs, requestVars, archiving>>

(* retryAssessment *)
Retry(n) ==
    /\ <<n, "retry">> \in editing
    /\ subs' = [subs EXCEPT ![n].status = "QUEUED"]

(* resolveFailure, CLOSED_WITHOUT_REPLACEMENT *)
CloseFailure(n) ==
    /\ <<n, "close">> \in editing
    /\ subs' = [subs EXCEPT ![n].status = "FAILED_RESOLVED", ![n].grant = "CLOSED"]

(* resolveFailure, REPLACEMENT_GRANTED: the failed attempt stops counting. *)
GrantReplacement(n) ==
    /\ <<n, "grant">> \in editing
    /\ \E t \in now + 1 .. MaxTime + 1 :
          subs' = [subs EXCEPT ![n].status = "FAILED_RESOLVED", ![n].grant = "GRANTED",
                               ![n].expires = t, ![n].counts = FALSE]

(* saveReview *)
Review(n) ==
    /\ <<n, "review">> \in editing
    /\ subs' = [subs EXCEPT ![n].status = "REVIEWED"]

(* release; a completion release records no score and is credited to nobody. *)
Release(n) ==
    /\ <<n, "release">> \in editing
    /\ \E s \in IF Mode = "GRADED" THEN Scores ELSE {0} :
          subs' = [subs EXCEPT ![n].status = "RELEASED", ![n].score = s]

EndEdit(n) ==
    /\ Retry(n) \/ CloseFailure(n) \/ GrantReplacement(n) \/ Review(n) \/ Release(n)
    /\ editing' = {e \in editing : e[1] # n}
    /\ UNCHANGED <<now, activity, requestVars, archiving>>

-----------------------------------------------------------------------------
(* The activity.                                                            *)

(* update of a published activity: the limit may only rise, the due date only
   be extended. *)
Update ==
    /\ activity.status = "PUBLISHED" /\ ~archiving
    /\ \E l \in activity.limit .. LastLimit, d \in activity.due .. LastDue :
          activity' = [activity EXCEPT !.limit = l, !.due = d]
    /\ UNCHANGED <<now, subs, requestVars, editing, archiving>>

Close ==
    /\ activity.status = "PUBLISHED" /\ ~archiving
    /\ activity' = [activity EXCEPT !.status = "CLOSED"]
    /\ UNCHANGED <<now, subs, requestVars, editing, archiving>>

Reopen ==
    /\ activity.status = "CLOSED" /\ ~archiving
    /\ activity' = [activity EXCEPT !.status = "PUBLISHED"]
    /\ UNCHANGED <<now, subs, requestVars, editing, archiving>>

(* archive locks the activity, counts the unfinished submissions, then the
   open grants, in two statements that see different commits. *)
ArchiveBegin ==
    /\ activity.status \in {"PUBLISHED", "CLOSED"} /\ ~archiving
    /\ \A n \in DOMAIN subs : subs[n].status \in {"RELEASED", "FAILED_RESOLVED"}
    /\ archiving' = TRUE
    /\ UNCHANGED <<now, activity, subs, requestVars, editing>>

(* Mutant: archive does not look at the grants. *)
ArchiveEndUnchecked ==
    /\ archiving
    /\ activity' = [activity EXCEPT !.status = "ARCHIVED"]
    /\ archiving' = FALSE
    /\ UNCHANGED <<now, subs, requestVars, editing>>

ArchiveEnd ==
    /\ archiving
    /\ activity' = IF Usable(now) = {} THEN [activity EXCEPT !.status = "ARCHIVED"]
                                       ELSE activity
    /\ archiving' = FALSE
    /\ UNCHANGED <<now, subs, requestVars, editing>>

(* restore: an activity that was published comes back closed. *)
Restore ==
    /\ activity.status = "ARCHIVED"
    /\ activity' = [activity EXCEPT !.status = "CLOSED"]
    /\ UNCHANGED <<now, subs, requestVars, editing, archiving>>

(* A request that read the clock while a grant was open is still under way. *)
SawOpenGrant ==
    \E r \in Requests, n \in DOMAIN subs :
        /\ pc[r] = "open"
        /\ subs[n].grant = "GRANTED"
        /\ asOf[r] < subs[n].expires /\ subs[n].expires <= now + 1

Tick ==
    /\ now < MaxTime
    /\ ClockHeld => ~SawOpenGrant
    /\ now' = now + 1
    /\ UNCHANGED <<activity, subs, requestVars, editing, archiving>>

-----------------------------------------------------------------------------
Submit(r) ==
    \/ Begin(r)
    \/ Replay(r)
    \/ Refuse(r)
    \/ CreateOrdinary(r)
    \/ CreateReplacement(r)
    \/ SerializationFailure(r)

Next ==
    \/ \E r \in Requests : Submit(r)
    \/ \E n \in DOMAIN subs : \/ Assess(n)
                              \/ \E op \in Edits : BeginEdit(n, op)
                              \/ EndEdit(n)
    \/ Update
    \/ Close
    \/ Reopen
    \/ ArchiveBegin
    \/ ArchiveEnd
    \/ Restore
    \/ Tick

Spec == Init /\ [][Next]_vars

-----------------------------------------------------------------------------
(* selectCreditedReleasedAttempt, one step: the credited attempt so far and
   the next candidate.  Mutant: an equal score goes to the attempt seen first. *)
CreditTieToFirst(policy, c, i) ==
    IF \/ c = 0
       \/ policy = "LATEST" /\ subs[i].attempt > subs[c].attempt
       \/ policy = "HIGHEST" /\ subs[i].score > subs[c].score
    THEN i ELSE c

Credit(policy, c, i) ==
    IF \/ c = 0
       \/ policy = "LATEST" /\ subs[i].attempt > subs[c].attempt
       \/ /\ policy = "HIGHEST"
          /\ \/ subs[i].score > subs[c].score
             \/ subs[i].score = subs[c].score /\ subs[i].attempt > subs[c].attempt
    THEN i ELSE c

(* Its candidates, which the database returns in no particular order. *)
Candidates == {i \in DOMAIN subs : subs[i].status = "RELEASED" /\ Mode = "GRADED"}

Credited(policy, order) == FoldLeft(LAMBDA c, i : Credit(policy, c, i), 0, order)

-----------------------------------------------------------------------------
TypeOK ==
    /\ now \in 0..MaxTime
    /\ activity \in [status : {"PUBLISHED", "CLOSED", "ARCHIVED"},
                     limit : FirstLimit..LastLimit, due : FirstDue..LastDue]
    /\ \A i \in DOMAIN subs :
          /\ subs[i].attempt \in Nat \ {0}
          /\ subs[i].status \in {"QUEUED", "ASSESSED", "ASSESSMENT_FAILED",
                                 "FAILED_RESOLVED", "REVIEWED", "RELEASED"}
          /\ subs[i].grant \in {"NONE", "CLOSED", "GRANTED"}
          /\ subs[i].replacement \in 0..Len(subs)
    /\ pc \in [Requests -> {"idle", "open", "done"}]
    /\ tries \in [Requests -> 0..MaxTries - 1]
    /\ editing \subseteq (DOMAIN subs) \X Edits

(* max_attempts limits the submissions that count, however requests overlap
   and whatever is granted, consumed and updated meanwhile (createSubmission's
   count, its isolation level, resolveFailure's counts_toward_attempt_limit). *)
AttemptLimit == Cardinality(Counting) <= activity.limit

(* Attempt numbers are given out once, although they are computed on a
   snapshot taken before the scope's lock was granted. *)
AttemptNumbersDistinct ==
    \A i, j \in DOMAIN subs : subs[i].attempt = subs[j].attempt => i = j

(* A key is answered with one submission, made from the source it was sent
   with, whether by its first request or by a repetition. *)
KeyNamesOneSubmission ==
    /\ \A i, j \in DOMAIN subs : subs[i].key = subs[j].key => i = j
    /\ \A r \in Requests : answer[r][1] \in {"created", "replayed"} =>
          /\ answer[r][2] \in DOMAIN subs
          /\ subs[answer[r][2]].key = KeyOf[r]
          /\ subs[answer[r][2]].source = answer[r][3]

(* A grant replaces one failed attempt, that no longer counts, by one later
   attempt, and no attempt replaces two. *)
GrantsUsedOnce ==
    \A i \in DOMAIN subs : subs[i].replacement # 0 =>
        /\ subs[i].grant = "GRANTED" /\ ~subs[i].counts
        /\ subs[i].replacement \in i + 1 .. Len(subs)
        /\ \A j \in DOMAIN subs : subs[j].replacement = subs[i].replacement => i = j

(* Attempt numbers, keys and grants are each used once, however requests of a
   student overlap, are repeated and are rolled back; and all variables keep
   their types. *)
UsedOnce == TypeOK /\ AttemptNumbersDistinct /\ KeyNamesOneSubmission /\ GrantsUsedOnce

(* What an archived activity holds is finished: nothing waits for an
   assessment or a person, and no grant can still be used (archive's two
   counts against the transactions they race with). *)
ArchivedIsFinished ==
    activity.status = "ARCHIVED" =>
        /\ \A n \in DOMAIN subs : subs[n].status \in {"RELEASED", "FAILED_RESOLVED"}
        /\ Usable(now) = {}

(* A submission enters a closed activity only as a replacement, and an
   archived one not at all, although the request saw the activity earlier. *)
ClosedTakesReplacements ==
    [][Len(subs') > Len(subs) =>
          /\ activity.status \in {"PUBLISHED", "CLOSED"}
          /\ activity.status = "CLOSED" => \E i \in DOMAIN subs : subs'[i].replacement = Len(subs')
      ]_vars

(* Closing and archiving an activity mean what they say to every request,
   however long it has been under way. *)
ClosingHolds == [][ArchivedIsFinished']_vars /\ ClosedTakesReplacements

(* The credited attempt is the best one by the policy, in whatever order the
   candidates are read. *)
CreditedIsBest ==
    \A policy \in {"LATEST", "HIGHEST"}, order \in SetToSeqs(Candidates) :
        LET c == Credited(policy, order) IN
        /\ c = 0 <=> Candidates = {}
        /\ \A i \in Candidates \ {c} :
              \/ /\ subs[c].attempt > subs[i].attempt
                 /\ policy = "HIGHEST" => subs[c].score >= subs[i].score
              \/ policy = "HIGHEST" /\ subs[c].score > subs[i].score
=============================================================================
