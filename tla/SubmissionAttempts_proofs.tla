---------------------- MODULE SubmissionAttempts_proofs ----------------------
(***************************************************************************)
(* Theorems about SubmissionAttempts, for every set of requests, any keys,  *)
(* sources, limits, due dates and scores.                                   *)
(*                                                                         *)
(* What a request decides on is a snapshot: it commits only if no row was   *)
(* added since, so the number it gives out, the keys it has looked at and   *)
(* the grants it has found are those of now.  What may have changed in      *)
(* between are single rows, by the instructor, who moves an attempt from    *)
(* those that count to those that are replaced: their sum is what the limit *)
(* bounds.  A row lock keeps what its holder has checked true until it      *)
(* writes.                                                                  *)
(*                                                                         *)
(* The attempt that is credited is the result of a fold over the candidates; *)
(* that it is the best one is shown for the first places of an order, by     *)
(* induction over the parts of a finite set.                                 *)
(***************************************************************************)
EXTENDS SubmissionAttempts, FiniteSetTheorems, SequenceTheorems, WellFoundedInduction, TLAPS

USE DEF vars, requestVars

-----------------------------------------------------------------------------
(* Types. *)

Statuses == {"QUEUED", "ASSESSED", "ASSESSMENT_FAILED", "FAILED_RESOLVED", "REVIEWED", "RELEASED"}
RowSources == (UNION {SourcesOf[r] : r \in Requests}) \cup {"NONE"}
Row == [attempt : Nat, key : {KeyOf[r] : r \in Requests}, source : RowSources,
        status : Statuses, counts : BOOLEAN, score : Nat,
        grant : {"NONE", "CLOSED", "GRANTED"}, expires : Nat, replacement : Nat]
SnapType == [source : RowSources, len : Nat, counting : Nat, grants : SUBSET Nat,
             activity : [status : {"NONE", "PUBLISHED", "CLOSED", "ARCHIVED"},
                         limit : Nat, due : Nat]]

RequestTypes ==
    /\ pc \in [Requests -> {"idle", "open", "done"}]
    /\ asOf \in [Requests -> Nat]
    /\ snap \in [Requests -> SnapType]
    /\ tries \in [Requests -> 0..MaxTries - 1]
Types ==
    /\ now \in 0..MaxTime
    /\ activity \in [status : {"PUBLISHED", "CLOSED", "ARCHIVED"},
                     limit : FirstLimit..LastLimit, due : FirstDue..LastDue]
    /\ subs \in Seq(Row)
    /\ archiving \in BOOLEAN
    /\ RequestTypes

(* What a row lock protects: one edit of a row at a time, and what it has
   checked is still so. *)
EditsCurrent ==
    /\ editing \subseteq (DOMAIN subs) \X Edits
    /\ \A d, e \in editing : d[1] = e[1] => d = e
    /\ \A e \in editing : Editable(e[1], e[2])

(* The steps, one by one. *)
LEMMA Steps ==
    ASSUME [Next]_vars
    PROVE  \/ UNCHANGED vars
           \/ \E r \in Requests : \/ Begin(r) \/ Replay(r) \/ Refuse(r) \/ CreateOrdinary(r)
                                  \/ CreateReplacement(r) \/ SerializationFailure(r)
           \/ \E n \in DOMAIN subs : \/ Assess(n) \/ EndEdit(n)
                                     \/ \E op \in Edits : BeginEdit(n, op)
           \/ Update \/ Close \/ Reopen \/ ArchiveBegin \/ ArchiveEnd \/ Restore \/ Tick
  BY DEF Next, Submit

(* A request that is answered forgets what its transaction read. *)
LEMMA AnswerTypes ==
    ASSUME Types, NEW r \in Requests, NEW kind, NEW n, Answer(r, kind, n)
    PROVE  RequestTypes'
<1>1. NoSnap \in SnapType
  BY DEF NoSnap, SnapType, RowSources
<1> QED
  BY <1>1 DEF Answer, Types, RequestTypes, MaxTries

(* What a transaction reads has the type of a snapshot. *)
LEMMA Snapshots ==
    ASSUME Types, NEW t \in Nat, NEW p \in RowSources
    PROVE  /\ Snapshot(t, p) \in SnapType
           /\ IsFiniteSet(Counting) /\ IsFiniteSet(Usable(t))
           /\ Cardinality(Counting) \in Nat /\ Cardinality(Usable(t)) \in Nat
<1>1. DOMAIN subs = 1..Len(subs) /\ Len(subs) \in Nat
  BY LenProperties DEF Types
<1>2. IsFiniteSet(DOMAIN subs)
  BY <1>1, FS_Interval
<1>3. Counting \subseteq DOMAIN subs /\ Usable(t) \subseteq DOMAIN subs
  BY DEF Counting, Usable
<1>4. IsFiniteSet(Counting) /\ IsFiniteSet(Usable(t))
  BY <1>2, <1>3, FS_Subset
<1>5. Cardinality(Counting) \in Nat /\ Cardinality(Usable(t)) \in Nat
  BY <1>4, FS_CardinalityType
<1>6. Usable(t) \in SUBSET Nat
  BY <1>1, <1>3
<1>7. activity \in [status : {"NONE", "PUBLISHED", "CLOSED", "ARCHIVED"}, limit : Nat, due : Nat]
  BY LimitAssumption DEF Types
<1> QED
  BY <1>1, <1>4, <1>5, <1>6, <1>7 DEF Snapshot, SnapType

(* How the steps that write submissions change them. *)
LEMMA EditedRows ==
    ASSUME Types, NEW n \in DOMAIN subs, NEW row \in Row, subs' = [subs EXCEPT ![n] = row]
    PROVE  /\ subs' \in Seq(Row) /\ Len(subs') = Len(subs) /\ DOMAIN subs' = DOMAIN subs
           /\ subs'[n] = row
           /\ \A i \in DOMAIN subs : i # n => subs'[i] = subs[i]
  BY ExceptSeq, LenProperties DEF Types

LEMMA AddedRows ==
    ASSUME NEW s \in Seq(Row), NEW row \in Row, subs' = Append(s, row)
    PROVE  /\ subs' \in Seq(Row) /\ Len(subs') = Len(s) + 1
           /\ DOMAIN subs' = 1..(Len(s) + 1) /\ Len(s) \in Nat
           /\ subs'[Len(s) + 1] = row
           /\ \A i \in 1..Len(s) : subs'[i] = s[i]
  BY AppendProperties, LenProperties

-----------------------------------------------------------------------------
(* The invariant. *)

(* Attempts are numbered in order, and an attempt that does not count is the
   one whose replacement was granted. *)
RowsFit ==
    \A i \in DOMAIN subs :
        /\ subs[i].attempt = i
        /\ subs[i].counts <=> subs[i].grant # "GRANTED"
        /\ subs[i].grant # "GRANTED" => subs[i].replacement = 0

KeysDistinct == \A i, j \in DOMAIN subs : subs[i].key = subs[j].key => i = j

AnswerKinds == {"NONE", "created", "replayed", "idempotency_conflict", "activity_not_accepting",
                "attempt_limit_reached", "concurrent_conflict"}
AnswersStand ==
    /\ answer \in [Requests -> AnswerKinds \X Nat \X RowSources]
    /\ \A r \in Requests : answer[r][1] \in {"created", "replayed"} =>
          /\ answer[r][2] \in DOMAIN subs
          /\ subs[answer[r][2]].key = KeyOf[r]
          /\ subs[answer[r][2]].source = answer[r][3]

(* A replacement comes after what it replaces, and replaces one attempt. *)
ReplacedLater ==
    /\ \A i \in DOMAIN subs : subs[i].replacement # 0 => subs[i].replacement \in i + 1 .. Len(subs)
    /\ \A i, j \in DOMAIN subs :
          subs[i].replacement # 0 /\ subs[j].replacement = subs[i].replacement => i = j

(* A transaction reads what was so: as long as no row was added, the grants it
   has found are still unused. *)
SnapsArePast ==
    \A r \in Requests : pc[r] = "open" =>
        /\ snap[r].len <= Len(subs)
        /\ asOf[r] <= now
        /\ \A i \in snap[r].grants :
              /\ i \in DOMAIN subs
              /\ subs[i].grant = "GRANTED"
              /\ asOf[r] < subs[i].expires
              /\ snap[r].len = Len(subs) => subs[i].replacement = 0

IInv == /\ Types /\ EditsCurrent /\ RowsFit /\ KeysDistinct /\ AnswersStand
        /\ ReplacedLater /\ SnapsArePast

(* While the clock is held, a grant that a request has seen stays open. *)
HeldGrants ==
    \A r \in Requests, n \in DOMAIN subs :
        pc[r] = "open" /\ subs[n].grant = "GRANTED" /\ asOf[r] < subs[n].expires
        => now < subs[n].expires

(* What the limit bounds is the attempts that count and the replacements that
   may still be taken; a transaction has counted at least as many. *)
Total == Cardinality(Counting) + Cardinality(Usable(now))
WithinLimit ==
    /\ Total <= activity.limit
    /\ \A r \in Requests : pc[r] = "open" /\ snap[r].len = Len(subs) =>
          Total <= snap[r].counting + Cardinality(snap[r].grants)

LimitInv == IInv /\ HeldGrants /\ WithinLimit

(* From its first count on, archive finds everything finished. *)
ArchiveKept ==
    /\ archiving => activity.status # "ARCHIVED"
    /\ archiving \/ activity.status = "ARCHIVED" =>
          \A n \in DOMAIN subs : subs[n].status \in {"RELEASED", "FAILED_RESOLVED"}
    /\ activity.status = "ARCHIVED" => Usable(now) = {}

-----------------------------------------------------------------------------
(* What a step does to the submissions: nothing, edit one, or add one. *)

EditsRow(n) ==
    \E row \in Row :
        /\ subs' = [subs EXCEPT ![n] = row]
        /\ row.attempt = subs[n].attempt /\ row.key = subs[n].key
        /\ row.source = subs[n].source /\ row.replacement = subs[n].replacement
        /\ row.counts <=> row.grant # "GRANTED"
        /\ subs[n].grant = "GRANTED" => row.grant = "GRANTED" /\ row.expires = subs[n].expires
        /\ row.grant = "GRANTED" => subs[n].grant = "GRANTED" \/ now < row.expires
EditStep ==
    /\ UNCHANGED <<now, activity, requestVars, archiving>>
    /\ \E n \in DOMAIN subs :
          /\ EditsRow(n)
          /\ \/ Assess(n)
             \/ EndEdit(n)

LEMMA RowsAreTyped ==
    ASSUME Types, NEW n \in DOMAIN subs
    PROVE  subs[n] \in Row /\ n \in 1..Len(subs) /\ Len(subs) \in Nat
  BY ElementOfSeq, LenProperties DEF Types

(* The instructor's operations, and the queue's answer, write one row; only
   the grant of a replacement touches what counts. *)
LEMMA Edited ==
    ASSUME IInv, NEW n \in DOMAIN subs, Assess(n) \/ EndEdit(n)
    PROVE  EditStep
<1>1. subs[n] \in Row
  BY RowsAreTyped DEF IInv
<1>2. subs[n].counts <=> subs[n].grant # "GRANTED"
  BY DEF IInv, RowsFit
<1> SUFFICES EditsRow(n)
  BY DEF Assess, EndEdit, EditStep
<1>3. ASSUME NEW s \in Statuses, subs' = [subs EXCEPT ![n].status = s]
      PROVE  EditsRow(n)
  <2> DEFINE row == [subs[n] EXCEPT !.status = s]
  <2>1. row \in Row /\ subs' = [subs EXCEPT ![n] = row]
    BY <1>1, <1>3 DEF Row
  <2> QED
    BY <1>1, <1>2, <2>1 DEF EditsRow, Row
<1>4. CASE Assess(n) \/ Retry(n) \/ Review(n)
  BY <1>3, <1>4 DEF Assess, Retry, Review, Statuses
<1>5. CASE CloseFailure(n)
  <2> DEFINE row == [subs[n] EXCEPT !.status = "FAILED_RESOLVED", !.grant = "CLOSED"]
  <2>1. row \in Row /\ subs' = [subs EXCEPT ![n] = row]
    BY <1>1, <1>5 DEF Row, CloseFailure, Statuses
  <2>2. subs[n].grant = "NONE"
    BY <1>5 DEF CloseFailure, IInv, EditsCurrent, Editable
  <2> QED
    BY <1>1, <1>2, <2>1, <2>2 DEF EditsRow, Row
<1>6. CASE GrantReplacement(n)
  <2>1. PICK t \in now + 1 .. MaxTime + 1 :
              subs' = [subs EXCEPT ![n].status = "FAILED_RESOLVED", ![n].grant = "GRANTED",
                                   ![n].expires = t, ![n].counts = FALSE]
    BY <1>6 DEF GrantReplacement
  <2>2. t \in Nat /\ now < t
    BY LimitAssumption DEF IInv, Types
  <2> DEFINE row == [subs[n] EXCEPT !.status = "FAILED_RESOLVED", !.grant = "GRANTED",
                                    !.expires = t, !.counts = FALSE]
  <2>3. row \in Row /\ subs' = [subs EXCEPT ![n] = row]
    BY <1>1, <2>1, <2>2 DEF Row, Statuses
  <2>4. subs[n].grant = "NONE"
    BY <1>6 DEF GrantReplacement, IInv, EditsCurrent, Editable
  <2> QED
    BY <1>1, <2>2, <2>3, <2>4 DEF EditsRow, Row
<1>7. CASE Release(n)
  <2>1. PICK s \in (IF Mode = "GRADED" THEN Scores ELSE {0}) :
              subs' = [subs EXCEPT ![n].status = "RELEASED", ![n].score = s]
    BY <1>7 DEF Release
  <2>2. s \in Nat
    BY ChoiceAssumption
  <2> DEFINE row == [subs[n] EXCEPT !.status = "RELEASED", !.score = s]
  <2>3. row \in Row /\ subs' = [subs EXCEPT ![n] = row]
    BY <1>1, <2>1, <2>2 DEF Row, Statuses
  <2> QED
    BY <1>1, <1>2, <2>3 DEF EditsRow, Row
<1> QED
  BY <1>4, <1>5, <1>6, <1>7 DEF EndEdit

(* A new attempt: the old rows stay as they are, except that one grant may
   name the new row as its replacement. *)
AddsRow(r, s) ==
    /\ s \in Seq(Row) /\ Len(s) = Len(subs)
    /\ subs' = Append(s, NewSubmission(r, Len(subs) + 1))
    /\ snap[r].len = Len(subs) /\ Recorded(r) = {} /\ ActivityLocked(r)
    /\ Answer(r, "created", Len(subs'))
    /\ UNCHANGED <<now, activity, editing, archiving>>
    /\ \/ s = subs /\ CreateOrdinary(r)
       \/ /\ snap[r].activity.status \in {"PUBLISHED", "CLOSED"}
          /\ \E i \in snap[r].grants : s = [subs EXCEPT ![i].replacement = Len(subs) + 1]

LEMMA Added ==
    ASSUME IInv, NEW r \in Requests, CreateOrdinary(r) \/ CreateReplacement(r)
    PROVE  \E s \in Seq(Row) : AddsRow(r, s)
<1>1. Len(subs) \in Nat /\ subs \in Seq(Row)
  BY LenProperties DEF IInv, Types
<1>2. CASE CreateOrdinary(r)
  BY <1>1, <1>2 DEF CreateOrdinary, AddsRow, Serializable, NextAttempt
<1>3. CASE CreateReplacement(r)
  <2>1. PICK i \in snap[r].grants :
              subs' = Append([subs EXCEPT ![i].replacement = Len(subs) + 1],
                             NewSubmission(r, Len(subs) + 1))
    BY <1>3 DEF CreateReplacement, Serializable, NextAttempt
  <2>2. i \in DOMAIN subs
    BY <1>3 DEF CreateReplacement, ActivityLocked, IInv, SnapsArePast
  <2> DEFINE row == [subs[i] EXCEPT !.replacement = Len(subs) + 1]
             s == [subs EXCEPT ![i] = row]
  <2> HIDE DEF row
  <2>5. subs[i] \in Row
    BY <2>2, RowsAreTyped DEF IInv
  <2>6. Len(subs) + 1 \in Nat
    BY <1>1
  <2>3. row \in Row
    BY <2>5, <2>6 DEF row, Row
  <2>4. s \in Seq(Row) /\ Len(s) = Len(subs)
    BY <1>1, <2>2, <2>3, ExceptSeq
  <2> QED
    BY <1>3, <2>1, <2>4 DEF CreateReplacement, AddsRow, Serializable, row
<1> QED
  BY <1>2, <1>3

(* The rows after a new attempt. *)
LEMMA AfterAdd ==
    ASSUME IInv, NEW r \in Requests, NEW s \in Seq(Row), AddsRow(r, s)
    PROVE  /\ subs' \in Seq(Row) /\ Len(subs') = Len(subs) + 1 /\ Len(subs) \in Nat
           /\ DOMAIN subs = 1..Len(subs) /\ DOMAIN subs' = 1..(Len(subs) + 1)
           /\ subs'[Len(subs) + 1] = NewSubmission(r, Len(subs) + 1)
           /\ \A i \in DOMAIN subs :
                 /\ subs'[i].attempt = subs[i].attempt /\ subs'[i].key = subs[i].key
                 /\ subs'[i].source = subs[i].source /\ subs'[i].counts = subs[i].counts
                 /\ subs'[i].grant = subs[i].grant /\ subs'[i].expires = subs[i].expires
                 /\ subs'[i].status = subs[i].status
           /\ \/ \A i \in DOMAIN subs : subs'[i] = subs[i]
              \/ \E i \in DOMAIN subs :
                    /\ i \in snap[r].grants
                    /\ subs[i].replacement = 0 /\ subs[i].grant = "GRANTED"
                    /\ asOf[r] < subs[i].expires
                    /\ subs'[i].replacement = Len(subs) + 1
                    /\ \A j \in DOMAIN subs \ {i} : subs'[j] = subs[j]
<1> DEFINE row == NewSubmission(r, Len(subs) + 1)
<1>1. Len(subs) \in Nat /\ DOMAIN subs = 1..Len(subs) /\ Len(s) = Len(subs)
  BY LenProperties DEF IInv, Types, AddsRow
<1>2. snap[r].source \in RowSources
  BY DEF IInv, Types, RequestTypes, SnapType
<1>3. row \in Row
  BY <1>1, <1>2 DEF NewSubmission, Row, Statuses
<1>4. subs' = Append(s, row)
  BY DEF AddsRow
<1>5. /\ subs' \in Seq(Row) /\ Len(subs') = Len(subs) + 1
      /\ DOMAIN subs' = 1..(Len(subs) + 1)
      /\ subs'[Len(subs) + 1] = row
      /\ \A i \in DOMAIN subs : subs'[i] = s[i]
  BY <1>1, <1>3, <1>4, AddedRows
<1>6. CASE s = subs
  BY <1>1, <1>5, <1>6
<1>7. ASSUME NEW i \in snap[r].grants, s = [subs EXCEPT ![i].replacement = Len(subs) + 1]
      PROVE  /\ i \in DOMAIN subs /\ subs[i].replacement = 0 /\ subs[i].grant = "GRANTED"
             /\ asOf[r] < subs[i].expires
             /\ s[i] = [subs[i] EXCEPT !.replacement = Len(subs) + 1]
             /\ \A j \in DOMAIN subs \ {i} : s[j] = subs[j]
  BY <1>7 DEF AddsRow, ActivityLocked, IInv, SnapsArePast
<1>8. ASSUME NEW i \in snap[r].grants, s = [subs EXCEPT ![i].replacement = Len(subs) + 1]
      PROVE  /\ s[i].replacement = Len(subs) + 1
             /\ s[i].attempt = subs[i].attempt /\ s[i].key = subs[i].key
             /\ s[i].source = subs[i].source /\ s[i].counts = subs[i].counts
             /\ s[i].grant = subs[i].grant /\ s[i].expires = subs[i].expires
             /\ s[i].status = subs[i].status
  BY <1>7, <1>8, RowsAreTyped DEF IInv, Row
<1>9. CASE \E i \in snap[r].grants : s = [subs EXCEPT ![i].replacement = Len(subs) + 1]
  <2>1. PICK i \in snap[r].grants : s = [subs EXCEPT ![i].replacement = Len(subs) + 1]
    BY <1>9
  <2>2. /\ i \in DOMAIN subs /\ subs[i].replacement = 0 /\ subs[i].grant = "GRANTED"
        /\ asOf[r] < subs[i].expires
        /\ \A j \in DOMAIN subs \ {i} : s[j] = subs[j]
    BY <1>7, <2>1
  <2>3. /\ s[i].replacement = Len(subs) + 1
        /\ s[i].attempt = subs[i].attempt /\ s[i].key = subs[i].key
        /\ s[i].source = subs[i].source /\ s[i].counts = subs[i].counts
        /\ s[i].grant = subs[i].grant /\ s[i].expires = subs[i].expires
        /\ s[i].status = subs[i].status
    BY <1>8, <2>1
  <2>4. \A j \in DOMAIN subs :
              /\ s[j].attempt = subs[j].attempt /\ s[j].key = subs[j].key
              /\ s[j].source = subs[j].source /\ s[j].counts = subs[j].counts
              /\ s[j].grant = subs[j].grant /\ s[j].expires = subs[j].expires
              /\ s[j].status = subs[j].status
    BY <2>2, <2>3
  <2>5. /\ \A j \in DOMAIN subs \ {i} : subs'[j] = subs[j]
        /\ subs'[i] = s[i]
    BY <1>5, <2>2
  <2>6. \A j \in DOMAIN subs :
              /\ subs'[j].attempt = subs[j].attempt /\ subs'[j].key = subs[j].key
              /\ subs'[j].source = subs[j].source /\ subs'[j].counts = subs[j].counts
              /\ subs'[j].grant = subs[j].grant /\ subs'[j].expires = subs[j].expires
              /\ subs'[j].status = subs[j].status
    BY <1>5, <2>4
  <2>7. /\ i \in DOMAIN subs /\ i \in snap[r].grants
        /\ subs[i].replacement = 0 /\ subs[i].grant = "GRANTED"
        /\ asOf[r] < subs[i].expires
        /\ subs'[i].replacement = Len(subs) + 1
        /\ \A j \in DOMAIN subs \ {i} : subs'[j] = subs[j]
    BY <2>2, <2>3, <2>5
  <2> QED
    BY <1>1, <1>5, <2>6, <2>7
<1> QED
  BY <1>6, <1>9 DEF AddsRow

-----------------------------------------------------------------------------
(* The invariant holds at every step. *)

(* What a step that leaves the submissions alone may do. *)
RequestStep(r) == Begin(r) \/ Replay(r) \/ Refuse(r) \/ SerializationFailure(r)
ActivityStep == Update \/ Close \/ Reopen \/ ArchiveBegin \/ ArchiveEnd \/ Restore \/ Tick

LEMMA Kinds ==
    ASSUME IInv, [Next]_vars
    PROVE  \/ UNCHANGED vars
           \/ EditStep
           \/ \E r \in Requests, s \in Seq(Row) : AddsRow(r, s)
           \/ \E r \in Requests : RequestStep(r)
           \/ \E n \in DOMAIN subs, op \in Edits : BeginEdit(n, op)
           \/ ActivityStep
<1>1. ASSUME NEW r \in Requests, CreateOrdinary(r) \/ CreateReplacement(r)
      PROVE  \E s \in Seq(Row) : AddsRow(r, s)
  BY <1>1, Added
<1>2. ASSUME NEW n \in DOMAIN subs, Assess(n) \/ EndEdit(n)
      PROVE  EditStep
  BY <1>2, Edited
<1> QED
  BY <1>1, <1>2, Steps DEF RequestStep, ActivityStep

LEMMA InitIInv == ASSUME Init PROVE IInv
<1>1. NoSnap \in SnapType
  BY DEF NoSnap, SnapType, RowSources
<1>2. subs \in Seq(Row) /\ DOMAIN subs = {} /\ Len(subs) = 0
  BY EmptySeq DEF Init
<1>3. Types
  <2>1. RequestTypes
    BY <1>1 DEF Init, RequestTypes, MaxTries
  <2>2. FirstLimit \in FirstLimit..LastLimit /\ FirstDue \in FirstDue..LastDue /\ 0 \in 0..MaxTime
    BY LimitAssumption
  <2> QED
    BY <1>2, <2>1, <2>2 DEF Init, Types
<1>4. AnswersStand
  BY DEF Init, AnswersStand, AnswerKinds, RowSources
<1> QED
  BY <1>2, <1>3, <1>4 DEF Init, IInv, EditsCurrent, RowsFit, KeysDistinct, ReplacedLater,
                          SnapsArePast

(* The rows a step edits keep their number. *)
LEMMA SameLength ==
    ASSUME IInv, EditStep
    PROVE  /\ subs' \in Seq(Row) /\ Len(subs') = Len(subs) /\ DOMAIN subs' = DOMAIN subs
           /\ \A i \in DOMAIN subs :
                 /\ subs'[i].attempt = subs[i].attempt /\ subs'[i].key = subs[i].key
                 /\ subs'[i].source = subs[i].source
                 /\ subs'[i].replacement = subs[i].replacement
                 /\ subs'[i].counts <=> subs'[i].grant # "GRANTED"
                 /\ subs[i].grant = "GRANTED" =>
                       subs'[i].grant = "GRANTED" /\ subs'[i].expires = subs[i].expires
                 /\ subs'[i].grant = "GRANTED" =>
                       subs[i].grant = "GRANTED" \/ now < subs'[i].expires
           /\ \E n \in DOMAIN subs : \A i \in DOMAIN subs \ {n} : subs'[i] = subs[i]
<1>1. PICK n \in DOMAIN subs : EditsRow(n)
  BY DEF EditStep
<1>2. PICK row \in Row :
        /\ subs' = [subs EXCEPT ![n] = row]
        /\ row.attempt = subs[n].attempt /\ row.key = subs[n].key
        /\ row.source = subs[n].source /\ row.replacement = subs[n].replacement
        /\ row.counts <=> row.grant # "GRANTED"
        /\ subs[n].grant = "GRANTED" => row.grant = "GRANTED" /\ row.expires = subs[n].expires
        /\ row.grant = "GRANTED" => subs[n].grant = "GRANTED" \/ now < row.expires
  BY <1>1 DEF EditsRow
<1>3. /\ subs' \in Seq(Row) /\ Len(subs') = Len(subs) /\ DOMAIN subs' = DOMAIN subs
      /\ subs'[n] = row
      /\ \A i \in DOMAIN subs : i # n => subs'[i] = subs[i]
  BY <1>2, EditedRows DEF IInv
<1>4. \A i \in DOMAIN subs : subs[i].counts <=> subs[i].grant # "GRANTED"
  BY DEF IInv, RowsFit
<1> QED
  BY <1>2, <1>3, <1>4

LEMMA TypesStep == ASSUME IInv, [Next]_vars PROVE Types'
<1>1. CASE UNCHANGED vars
  BY <1>1 DEF IInv, Types, RequestTypes
<1>2. CASE EditStep
  BY <1>2, SameLength DEF EditStep, IInv, Types, RequestTypes
<1>3. ASSUME NEW r \in Requests, NEW s \in Seq(Row), AddsRow(r, s)
      PROVE  Types'
  <2>1. RequestTypes'
    BY <1>3, AnswerTypes DEF AddsRow, IInv
  <2> QED
    BY <1>3, <2>1, AfterAdd DEF AddsRow, IInv, Types
<1>4. ASSUME NEW r \in Requests, RequestStep(r)
      PROVE  Types'
  <2>1. UNCHANGED <<now, activity, subs, archiving>>
    BY <1>4 DEF RequestStep, Begin, Replay, Refuse, SerializationFailure
  <2>2. CASE Begin(r)
    <3>1. PICK p \in SourcesOf[r] : snap' = [snap EXCEPT ![r] = Snapshot(now, p)]
      BY <2>2 DEF Begin
    <3>2. p \in RowSources /\ now \in Nat
      BY LimitAssumption DEF RowSources, IInv, Types
    <3>3. Snapshot(now, p) \in SnapType
      BY <3>2, Snapshots DEF IInv
    <3> QED
      BY <2>1, <2>2, <3>1, <3>2, <3>3 DEF Begin, IInv, Types, RequestTypes
  <2>3. ASSUME \E kind, n : Answer(r, kind, n)
        PROVE  Types'
    <3>1. RequestTypes'
      BY <2>3, AnswerTypes DEF IInv
    <3> QED
      BY <2>1, <3>1 DEF IInv, Types
  <2>4. CASE SerializationFailure(r)
    <3>1. CASE tries[r] + 1 < MaxTries
      <4>1. snap[r].source \in RowSources /\ asOf[r] \in Nat /\ tries[r] \in Nat
        BY DEF IInv, Types, RequestTypes, SnapType
      <4>2. Snapshot(asOf[r], snap[r].source) \in SnapType
        BY <4>1, Snapshots DEF IInv
      <4>3. tries[r] + 1 \in 0..MaxTries - 1
        BY <3>1, <4>1 DEF MaxTries
      <4>4. /\ tries' = [tries EXCEPT ![r] = tries[r] + 1]
            /\ snap' = [snap EXCEPT ![r] = Snapshot(asOf[r], snap[r].source)]
            /\ UNCHANGED <<pc, asOf>>
        BY <2>4, <3>1 DEF SerializationFailure
      <4> QED
        BY <2>1, <4>2, <4>3, <4>4 DEF IInv, Types, RequestTypes
    <3> QED
      BY <2>3, <2>4, <3>1 DEF SerializationFailure
  <2> QED
    BY <1>4, <2>2, <2>3, <2>4 DEF RequestStep, Replay, Refuse
<1>5. ASSUME NEW n \in DOMAIN subs, NEW op \in Edits, BeginEdit(n, op)
      PROVE  Types'
  BY <1>5 DEF BeginEdit, IInv, Types, RequestTypes
<1>6. CASE ActivityStep
  <2>1. UNCHANGED <<subs, requestVars>>
    BY <1>6 DEF ActivityStep, Update, Close, Reopen, ArchiveBegin, ArchiveEnd, Restore, Tick
  <2>2. archiving' \in BOOLEAN
    BY <1>6, Zenon DEF ActivityStep, Update, Close, Reopen, ArchiveBegin, ArchiveEnd, Restore,
                       Tick, IInv, Types
  <2>4. (now' = now) \/ (now < MaxTime /\ now' = now + 1)
    BY <1>6 DEF ActivityStep, Update, Close, Reopen, ArchiveBegin, ArchiveEnd, Restore, Tick
  <2>5. now' \in 0..MaxTime
    BY <2>4, LimitAssumption DEF IInv, Types
  <2>3. activity' \in [status : {"PUBLISHED", "CLOSED", "ARCHIVED"},
                       limit : FirstLimit..LastLimit, due : FirstDue..LastDue]
    <3>1. activity.limit \in FirstLimit..LastLimit /\ activity.due \in FirstDue..LastDue
      BY DEF IInv, Types
    <3>2. CASE Update
      <4>1. PICK l \in activity.limit .. LastLimit, d \in activity.due .. LastDue :
                  activity' = [activity EXCEPT !.limit = l, !.due = d]
        BY <3>2 DEF Update
      <4>2. l \in FirstLimit..LastLimit /\ d \in FirstDue..LastDue
        BY <3>1, LimitAssumption
      <4> QED
        BY <4>1, <4>2 DEF IInv, Types
    <3> QED
      BY <1>6, <3>2 DEF ActivityStep, Close, Reopen, ArchiveBegin, ArchiveEnd, Restore, Tick,
                        IInv, Types
  <2> QED
    BY <2>1, <2>2, <2>3, <2>5 DEF IInv, Types, RequestTypes
<1> QED
  BY Kinds, <1>1, <1>2, <1>3, <1>4, <1>5, <1>6

LEMMA EditsStep == ASSUME IInv, [Next]_vars PROVE EditsCurrent'
<1>1. CASE UNCHANGED <<subs, editing>>
  BY <1>1 DEF IInv, EditsCurrent, Editable
<1>2. ASSUME NEW n \in DOMAIN subs, Assess(n) \/ EndEdit(n), EditStep
      PROVE  EditsCurrent'
  <2>1. DOMAIN subs' = DOMAIN subs
    BY <1>2, SameLength
  <2>2. \A i \in DOMAIN subs \ {n} : subs'[i] = subs[i]
    BY <1>2 DEF Assess, EndEdit, Retry, CloseFailure, GrantReplacement, Review, Release
  <2>3. editing' \subseteq editing /\ \A e \in editing' : e[1] # n
    <3>1. CASE EndEdit(n)
      BY <3>1 DEF EndEdit
    <3>2. CASE Assess(n)
      <4>1. subs[n].status = "QUEUED" /\ editing' = editing
        BY <3>2 DEF Assess
      <4>2. \A op \in Edits : ~Editable(n, op)
        BY <4>1 DEF Editable, Edits
      <4> QED
        BY <4>1, <4>2 DEF IInv, EditsCurrent
    <3> QED
      BY <1>2, <3>1, <3>2
  <2>4. \A e \in editing' : /\ e \in (DOMAIN subs) \X Edits /\ e[1] \in DOMAIN subs \ {n}
                            /\ Editable(e[1], e[2])
    BY <2>3 DEF IInv, EditsCurrent
  <2>5. \A e \in editing' : Editable(e[1], e[2])'
    BY <2>2, <2>4 DEF Editable
  <2> QED
    BY <2>1, <2>3, <2>4, <2>5 DEF IInv, EditsCurrent
<1>3. ASSUME NEW r \in Requests, NEW s \in Seq(Row), AddsRow(r, s)
      PROVE  EditsCurrent'
  <2>1. DOMAIN subs \subseteq DOMAIN subs' /\ editing' = editing
    BY <1>3, AfterAdd DEF AddsRow
  <2>2. \A i \in DOMAIN subs : subs'[i].status = subs[i].status /\ subs'[i].grant = subs[i].grant
    BY <1>3, AfterAdd
  <2>3. \A e \in editing : e[1] \in DOMAIN subs /\ Editable(e[1], e[2])
    BY DEF IInv, EditsCurrent
  <2>4. \A e \in editing : Editable(e[1], e[2])'
    BY <2>2, <2>3 DEF Editable
  <2> QED
    BY <2>1, <2>4 DEF IInv, EditsCurrent
<1>4. ASSUME NEW n \in DOMAIN subs, NEW op \in Edits, BeginEdit(n, op)
      PROVE  EditsCurrent'
  <2>1. /\ editing' = editing \union {<<n, op>>} /\ subs' = subs
        /\ Editable(n, op) /\ \A e \in editing : e[1] # n
    BY <1>4 DEF BeginEdit
  <2>2. \A e \in editing' : Editable(e[1], e[2])
    BY <2>1 DEF IInv, EditsCurrent
  <2>3. \A e \in editing' : Editable(e[1], e[2])'
    BY <2>1, <2>2 DEF Editable
  <2> QED
    BY <2>1, <2>3 DEF IInv, EditsCurrent
<1>5. ASSUME NEW r \in Requests, RequestStep(r)
      PROVE  UNCHANGED <<subs, editing>>
  BY <1>5 DEF RequestStep, Begin, Replay, Refuse, SerializationFailure
<1>6. CASE ActivityStep
  BY <1>1, <1>6 DEF ActivityStep, Update, Close, Reopen, ArchiveBegin, ArchiveEnd, Restore, Tick
<1>7. CASE EditStep
  BY <1>2, <1>7 DEF EditStep
<1> QED
  BY Kinds, <1>1, <1>3, <1>4, <1>5, <1>6, <1>7

LEMMA RowsStep == ASSUME IInv, [Next]_vars PROVE RowsFit' /\ KeysDistinct' /\ ReplacedLater'
<1>1. CASE UNCHANGED subs
  BY <1>1 DEF IInv, RowsFit, KeysDistinct, ReplacedLater
<1>2. CASE EditStep
  <2>1. /\ Len(subs') = Len(subs) /\ DOMAIN subs' = DOMAIN subs
        /\ \A i \in DOMAIN subs :
              /\ subs'[i].attempt = subs[i].attempt /\ subs'[i].key = subs[i].key
              /\ subs'[i].replacement = subs[i].replacement
              /\ subs'[i].counts <=> subs'[i].grant # "GRANTED"
              /\ subs[i].grant = "GRANTED" => subs'[i].grant = "GRANTED"
    BY <1>2, SameLength
  <2>2. RowsFit'
    BY <2>1 DEF IInv, RowsFit
  <2>3. KeysDistinct'
    BY <2>1 DEF IInv, KeysDistinct
  <2>4. ReplacedLater'
    BY <2>1 DEF IInv, ReplacedLater
  <2> QED
    BY <2>2, <2>3, <2>4
<1>3. ASSUME NEW r \in Requests, NEW s \in Seq(Row), AddsRow(r, s)
      PROVE  RowsFit' /\ KeysDistinct' /\ ReplacedLater'
  <2> DEFINE n == Len(subs) + 1
  <2>1. /\ Len(subs') = n /\ Len(subs) \in Nat
        /\ DOMAIN subs = 1..Len(subs) /\ DOMAIN subs' = 1..n
        /\ subs'[n] = NewSubmission(r, n)
        /\ \A i \in DOMAIN subs :
              /\ subs'[i].attempt = subs[i].attempt /\ subs'[i].key = subs[i].key
              /\ subs'[i].counts = subs[i].counts /\ subs'[i].grant = subs[i].grant
        /\ \/ \A i \in DOMAIN subs : subs'[i] = subs[i]
           \/ \E i \in DOMAIN subs :
                 /\ subs[i].replacement = 0 /\ subs[i].grant = "GRANTED"
                 /\ subs'[i].replacement = n
                 /\ \A j \in DOMAIN subs \ {i} : subs'[j] = subs[j]
    BY <1>3, AfterAdd
  <2> HIDE DEF n
  <2>2. n = Len(subs) + 1 /\ n \notin DOMAIN subs /\ DOMAIN subs' = DOMAIN subs \union {n}
    BY <2>1 DEF n
  <2>3. subs'[n].attempt = n /\ subs'[n].key = KeyOf[r] /\ subs'[n].counts = TRUE
        /\ subs'[n].grant = "NONE" /\ subs'[n].replacement = 0
    BY <2>1 DEF NewSubmission
  <2>4. \A i \in DOMAIN subs : subs[i].key # KeyOf[r]
    <3>1. snap[r].len = Len(subs) /\ Recorded(r) = {}
      BY <1>3 DEF AddsRow
    <3> QED
      BY <2>1, <3>1 DEF Recorded
  <2>5. \A i \in DOMAIN subs : /\ subs[i].replacement \in Nat /\ i \in Nat
                               /\ subs[i].replacement # 0 => subs[i].replacement \in i + 1 .. Len(subs)
    BY <2>1, RowsAreTyped DEF IInv, Row, ReplacedLater
  <2>6. KeysDistinct'
    BY <2>1, <2>2, <2>3, <2>4 DEF IInv, KeysDistinct
  <2>7. CASE \A i \in DOMAIN subs : subs'[i] = subs[i]
    <3>1. RowsFit'
      BY <2>2, <2>3, <2>7 DEF IInv, RowsFit
    <3>3. \A j \in DOMAIN subs' :
             subs'[j].replacement # 0 =>
                j \in DOMAIN subs /\ subs'[j].replacement = subs[j].replacement
      BY <2>2, <2>3, <2>7
    <3>4. \A j \in DOMAIN subs' : subs'[j].replacement # 0 => subs'[j].replacement \in j + 1 .. Len(subs')
      BY <2>1, <2>2, <2>5, <3>3
    <3>5. \A j, k \in DOMAIN subs' :
             subs'[j].replacement # 0 /\ subs'[k].replacement = subs'[j].replacement => j = k
      BY <3>3 DEF IInv, ReplacedLater
    <3>2. ReplacedLater'
      BY <3>4, <3>5 DEF ReplacedLater
    <3> QED
      BY <2>6, <3>1, <3>2
  <2>8. ASSUME NEW i \in DOMAIN subs,
               subs[i].replacement = 0, subs[i].grant = "GRANTED", subs'[i].replacement = n,
               \A j \in DOMAIN subs \ {i} : subs'[j] = subs[j]
        PROVE  RowsFit' /\ KeysDistinct' /\ ReplacedLater'
    <3>1. RowsFit'
      <4>1. \A j \in DOMAIN subs : subs'[j].grant # "GRANTED" => subs'[j].replacement = 0
        BY <2>1, <2>8 DEF IInv, RowsFit
      <4>2. \A j \in DOMAIN subs : /\ subs'[j].attempt = j
                                   /\ subs'[j].counts <=> subs'[j].grant # "GRANTED"
        BY <2>1 DEF IInv, RowsFit
      <4> QED
        BY <2>2, <2>3, <4>1, <4>2 DEF RowsFit
    <3>2. \A j \in DOMAIN subs' :
             subs'[j].replacement # 0 =>
                \/ j = i /\ subs'[j].replacement = n
                \/ j \in DOMAIN subs \ {i} /\ subs'[j].replacement = subs[j].replacement
      BY <2>2, <2>3, <2>8
    <3>3. \A j \in DOMAIN subs' : subs'[j].replacement # 0 => subs'[j].replacement \in j + 1 .. Len(subs')
      BY <2>1, <2>2, <2>5, <3>2
    <3>4. \A j \in DOMAIN subs : subs[j].replacement # n
      BY <2>1, <2>2, <2>5
    <3>5. \A j, k \in DOMAIN subs' :
             subs'[j].replacement # 0 /\ subs'[k].replacement = subs'[j].replacement => j = k
      BY <3>2, <3>4 DEF IInv, ReplacedLater
    <3> QED
      BY <2>6, <3>1, <3>3, <3>5 DEF ReplacedLater
  <2> QED
    BY <2>1, <2>7, <2>8
<1>4. ASSUME NEW r \in Requests, RequestStep(r)
      PROVE  UNCHANGED subs
  BY <1>4 DEF RequestStep, Begin, Replay, Refuse, SerializationFailure
<1>5. ASSUME NEW n \in DOMAIN subs, NEW op \in Edits, BeginEdit(n, op)
      PROVE  UNCHANGED subs
  BY <1>5 DEF BeginEdit
<1>6. CASE ActivityStep
  BY <1>1, <1>6 DEF ActivityStep, Update, Close, Reopen, ArchiveBegin, ArchiveEnd, Restore, Tick
<1> QED
  BY Kinds, <1>1, <1>2, <1>3, <1>4, <1>5, <1>6

LEMMA AnswersStep == ASSUME IInv, [Next]_vars PROVE AnswersStand'
<1>1. CASE UNCHANGED <<subs, answer>>
  BY <1>1 DEF IInv, AnswersStand
<1>2. CASE EditStep
  <2>1. /\ answer' = answer /\ DOMAIN subs' = DOMAIN subs
        /\ \A i \in DOMAIN subs : subs'[i].key = subs[i].key /\ subs'[i].source = subs[i].source
    BY <1>2, SameLength DEF EditStep
  <2> QED
    BY <2>1 DEF IInv, AnswersStand
<1>3. ASSUME NEW r \in Requests
      PROVE  snap[r].source \in RowSources
  BY DEF IInv, Types, RequestTypes, SnapType
<1>4. ASSUME NEW r \in Requests, NEW s \in Seq(Row), AddsRow(r, s)
      PROVE  AnswersStand'
  <2>1. /\ Len(subs') = Len(subs) + 1 /\ Len(subs) \in Nat
        /\ DOMAIN subs = 1..Len(subs) /\ DOMAIN subs' = 1..(Len(subs) + 1)
        /\ subs'[Len(subs) + 1] = NewSubmission(r, Len(subs) + 1)
        /\ \A i \in DOMAIN subs : subs'[i].key = subs[i].key /\ subs'[i].source = subs[i].source
    BY <1>4, AfterAdd
  <2>2. answer' = [answer EXCEPT ![r] = <<"created", Len(subs'), snap[r].source>>]
    BY <1>4 DEF AddsRow, Answer
  <2>3. /\ Len(subs') \in Nat /\ Len(subs') \in DOMAIN subs' /\ DOMAIN subs \subseteq DOMAIN subs'
        /\ subs'[Len(subs')].key = KeyOf[r] /\ subs'[Len(subs')].source = snap[r].source
    BY <2>1 DEF NewSubmission
  <2>4. answer' \in [Requests -> AnswerKinds \X Nat \X RowSources]
    BY <1>3, <2>2, <2>3 DEF IInv, AnswersStand, AnswerKinds
  <2> QED
    BY <2>1, <2>2, <2>3, <2>4 DEF IInv, AnswersStand
<1>5. ASSUME NEW r \in Requests, RequestStep(r)
      PROVE  AnswersStand'
  <2>1. subs' = subs
    BY <1>5 DEF RequestStep, Begin, Replay, Refuse, SerializationFailure
  <2>2. ASSUME NEW kind \in AnswerKinds \ {"created", "replayed"}, Answer(r, kind, 0)
        PROVE  AnswersStand'
    BY <1>3, <2>1, <2>2 DEF Answer, IInv, AnswersStand
  <2>3. ASSUME NEW i \in Recorded(r), subs[i].source = snap[r].source, pc[r] = "open",
               Answer(r, "replayed", i)
        PROVE  AnswersStand'
    <3>1. snap[r].len <= Len(subs) /\ snap[r].len \in Nat /\ DOMAIN subs = 1..Len(subs) /\ Len(subs) \in Nat
      BY <2>3, LenProperties DEF IInv, SnapsArePast, Types, RequestTypes, SnapType
    <3>2. i \in Nat /\ i \in DOMAIN subs /\ subs[i].key = KeyOf[r]
      BY <3>1 DEF Recorded
    <3> QED
      BY <1>3, <2>1, <2>3, <3>2 DEF Answer, IInv, AnswersStand, AnswerKinds
  <2>4. CASE UNCHANGED answer
    BY <1>1, <2>1, <2>4
  <2>5. CASE Replay(r)
    BY <2>2, <2>3, <2>5 DEF Replay, ActivityLocked, AnswerKinds
  <2>6. CASE Refuse(r)
    BY <2>2, <2>6 DEF Refuse, AnswerKinds
  <2>7. CASE SerializationFailure(r)
    BY <2>2, <2>4, <2>7 DEF SerializationFailure, AnswerKinds
  <2> QED
    BY <1>5, <2>4, <2>5, <2>6, <2>7 DEF RequestStep, Begin
<1>6. ASSUME NEW n \in DOMAIN subs, NEW op \in Edits, BeginEdit(n, op)
      PROVE  AnswersStand'
  BY <1>1, <1>6 DEF BeginEdit
<1>7. CASE ActivityStep
  BY <1>1, <1>7 DEF ActivityStep, Update, Close, Reopen, ArchiveBegin, ArchiveEnd, Restore, Tick
<1> QED
  BY Kinds, <1>1, <1>2, <1>4, <1>5, <1>6, <1>7

(* What a transaction reads now is past as soon as it has read it. *)
LEMMA FreshSnapshot ==
    ASSUME IInv, NEW t \in Nat, t <= now, NEW p, NEW shot, shot = Snapshot(t, p)
    PROVE  /\ shot.len = Len(subs)
           /\ \A i \in shot.grants : /\ i \in DOMAIN subs /\ subs[i].grant = "GRANTED"
                                     /\ t < subs[i].expires /\ subs[i].replacement = 0
<1>1. \A i \in DOMAIN subs : subs[i].expires \in Nat
  BY RowsAreTyped DEF IInv, Row
<1> QED
  BY <1>1 DEF Snapshot, Usable

LEMMA SnapsStep == ASSUME IInv, [Next]_vars PROVE SnapsArePast'
<1> DEFINE Past(r) ==
        /\ snap[r].len <= Len(subs)
        /\ asOf[r] <= now
        /\ \A i \in snap[r].grants :
              /\ i \in DOMAIN subs
              /\ subs[i].grant = "GRANTED"
              /\ asOf[r] < subs[i].expires
              /\ snap[r].len = Len(subs) => subs[i].replacement = 0
<1>0. SnapsArePast <=> \A r \in Requests : pc[r] = "open" => Past(r)
  BY DEF SnapsArePast
<1>1. CASE UNCHANGED <<subs, now, requestVars>>
  BY <1>1 DEF IInv, SnapsArePast
<1>2. CASE EditStep
  <2>1. /\ Len(subs') = Len(subs) /\ DOMAIN subs' = DOMAIN subs
        /\ \A i \in DOMAIN subs :
              /\ subs'[i].replacement = subs[i].replacement
              /\ subs[i].grant = "GRANTED" =>
                    subs'[i].grant = "GRANTED" /\ subs'[i].expires = subs[i].expires
        /\ UNCHANGED <<now, requestVars>>
    BY <1>2, SameLength DEF EditStep
  <2> QED
    BY <2>1 DEF IInv, SnapsArePast
<1>3. \A r \in Requests : /\ snap[r].len \in Nat /\ asOf[r] \in Nat /\ now \in Nat
                          /\ Len(subs) \in Nat
  BY LenProperties, LimitAssumption DEF IInv, Types, RequestTypes, SnapType
<1>4. ASSUME NEW r \in Requests, NEW s \in Seq(Row), AddsRow(r, s)
      PROVE  SnapsArePast'
  <2>1. /\ Len(subs') = Len(subs) + 1
        /\ DOMAIN subs \subseteq DOMAIN subs'
        /\ \A i \in DOMAIN subs :
              subs'[i].grant = subs[i].grant /\ subs'[i].expires = subs[i].expires
    BY <1>4, AfterAdd
  <2>2. /\ UNCHANGED now
        /\ \A q \in Requests : pc'[q] = "open" =>
              pc[q] = "open" /\ snap'[q] = snap[q] /\ asOf'[q] = asOf[q]
    BY <1>4 DEF AddsRow, Answer, IInv, Types, RequestTypes
  <2>3. \A q \in Requests : pc'[q] = "open" => snap'[q].len <= Len(subs') /\ snap'[q].len # Len(subs')
    BY <1>3, <2>1, <2>2 DEF IInv, SnapsArePast
  <2> QED
    BY <2>1, <2>2, <2>3 DEF IInv, SnapsArePast
<1>5. ASSUME NEW r \in Requests, RequestStep(r)
      PROVE  SnapsArePast'
  <2>1. subs' = subs /\ now' = now
    BY <1>5 DEF RequestStep, Begin, Replay, Refuse, SerializationFailure
  <2>2. ASSUME \A q \in Requests \ {r} : pc'[q] = pc[q] /\ snap'[q] = snap[q] /\ asOf'[q] = asOf[q],
               pc'[r] = "open" => Past(r)'
        PROVE  SnapsArePast'
    BY <2>1, <2>2 DEF IInv, SnapsArePast
  <2> HIDE DEF Past
  <2>3. ASSUME \E kind, n : Answer(r, kind, n)
        PROVE  SnapsArePast'
    BY <2>2, <2>3 DEF Answer, IInv, Types, RequestTypes
  <2>4. ASSUME NEW t \in Nat, NEW p, t <= now, asOf'[r] = t, snap'[r] = Snapshot(t, p)
        PROVE  Past(r)'
    <3>1. /\ snap'[r].len = Len(subs)
          /\ \A i \in snap'[r].grants : /\ i \in DOMAIN subs /\ subs[i].grant = "GRANTED"
                                        /\ t < subs[i].expires /\ subs[i].replacement = 0
      BY <2>4, FreshSnapshot
    <3> QED
      BY <1>3, <2>1, <2>4, <3>1 DEF Past
  <2>5. CASE Begin(r)
    <3>1. PICK p \in SourcesOf[r] : snap' = [snap EXCEPT ![r] = Snapshot(now, p)]
      BY <2>5 DEF Begin
    <3>2. /\ asOf'[r] = now /\ snap'[r] = Snapshot(now, p)
          /\ \A q \in Requests \ {r} : pc'[q] = pc[q] /\ snap'[q] = snap[q] /\ asOf'[q] = asOf[q]
      BY <2>5, <3>1 DEF Begin, IInv, Types, RequestTypes
    <3>3. now <= now
      BY <1>3
    <3> QED
      BY <1>3, <2>2, <2>4, <3>2, <3>3
  <2>6. CASE SerializationFailure(r)
    <3>1. CASE tries[r] + 1 < MaxTries
      <4>1. /\ pc[r] = "open"
            /\ snap' = [snap EXCEPT ![r] = Snapshot(asOf[r], snap[r].source)]
            /\ UNCHANGED <<pc, asOf>>
        BY <2>6, <3>1 DEF SerializationFailure
      <4>2. /\ snap'[r] = Snapshot(asOf[r], snap[r].source)
            /\ asOf[r] \in Nat /\ asOf[r] <= now /\ asOf'[r] = asOf[r]
            /\ \A q \in Requests \ {r} : pc'[q] = pc[q] /\ snap'[q] = snap[q] /\ asOf'[q] = asOf[q]
        BY <1>3, <4>1 DEF IInv, SnapsArePast, Types, RequestTypes
      <4> QED
        BY <2>2, <2>4, <4>2
    <3> QED
      BY <2>3, <2>6, <3>1 DEF SerializationFailure
  <2> QED
    BY <1>5, <2>3, <2>5, <2>6 DEF RequestStep, Replay, Refuse
<1>6. ASSUME NEW n \in DOMAIN subs, NEW op \in Edits, BeginEdit(n, op)
      PROVE  SnapsArePast'
  BY <1>1, <1>6 DEF BeginEdit
<1>7. CASE ActivityStep
  <2>1. CASE Tick
    <3>1. UNCHANGED <<subs, requestVars>> /\ now' = now + 1
      BY <2>1 DEF Tick
    <3> QED
      BY <1>3, <3>1 DEF IInv, SnapsArePast
  <2> QED
    BY <1>1, <1>7, <2>1 DEF ActivityStep, Update, Close, Reopen, ArchiveBegin, ArchiveEnd, Restore
<1> QED
  BY Kinds, <1>1, <1>2, <1>4, <1>5, <1>6, <1>7

(* The invariant, for every value of the constants. *)
LEMMA IInvAlways == Spec => []IInv
<1>1. ASSUME IInv, [Next]_vars
      PROVE  IInv'
  BY <1>1, TypesStep, EditsStep, RowsStep, AnswersStep, SnapsStep DEF IInv
<1> QED
  BY InitIInv, <1>1, PTL DEF Spec

LEMMA InvImpliesUsedOnce == ASSUME IInv PROVE UsedOnce
<1>1. Len(subs) \in Nat /\ DOMAIN subs = 1..Len(subs)
  BY LenProperties DEF IInv, Types
<1>2. TypeOK
  <2>1. \A i \in DOMAIN subs :
          /\ subs[i].attempt \in Nat \ {0}
          /\ subs[i].status \in Statuses
          /\ subs[i].grant \in {"NONE", "CLOSED", "GRANTED"}
    BY <1>1, RowsAreTyped DEF IInv, Row, RowsFit
  <2>2. \A i \in DOMAIN subs : subs[i].replacement \in 0..Len(subs)
    BY <1>1, RowsAreTyped DEF IInv, Row, ReplacedLater
  <2> QED
    BY <2>1, <2>2 DEF TypeOK, IInv, Types, RequestTypes, EditsCurrent, Statuses
<1>3. AttemptNumbersDistinct
  BY DEF IInv, RowsFit, AttemptNumbersDistinct
<1>4. KeyNamesOneSubmission
  BY DEF IInv, KeysDistinct, AnswersStand, KeyNamesOneSubmission
<1>5. GrantsUsedOnce
  BY DEF IInv, RowsFit, ReplacedLater, GrantsUsedOnce
<1> QED
  BY <1>2, <1>3, <1>4, <1>5 DEF UsedOnce

(* All variables keep their types. *)
THEOREM TypeCorrect == Spec => []TypeOK
  BY IInvAlways, InvImpliesUsedOnce, PTL DEF UsedOnce

(* Attempt numbers, keys and grants are each used once, whatever requests
   overlap, are repeated or rolled back, whatever the instructor does
   meanwhile and however the clock runs: createSubmission's counts, its key
   lookup and its consumption of a grant, under its isolation level. *)
THEOREM UsedOnceAlways == Spec => []UsedOnce
  BY IInvAlways, InvImpliesUsedOnce, PTL

-----------------------------------------------------------------------------
(* The limit: what the steps do to the attempts that count and to the grants
   that can be used. *)

LEMMA Counts ==
    ASSUME IInv
    PROVE  /\ IsFiniteSet(Counting) /\ IsFiniteSet(Usable(now))
           /\ Cardinality(Counting) \in Nat /\ Cardinality(Usable(now)) \in Nat
           /\ Counting \subseteq DOMAIN subs /\ Usable(now) \subseteq DOMAIN subs
           /\ Counting = {i \in DOMAIN subs : subs[i].grant # "GRANTED"}
           /\ Total \in Nat
<1>1. "NONE" \in RowSources /\ now \in Nat
  BY LimitAssumption DEF RowSources, IInv, Types
<1>2. /\ IsFiniteSet(Counting) /\ IsFiniteSet(Usable(now))
      /\ Cardinality(Counting) \in Nat /\ Cardinality(Usable(now)) \in Nat
  BY <1>1, Snapshots DEF IInv
<1>3. Counting = {i \in DOMAIN subs : subs[i].grant # "GRANTED"}
  BY DEF IInv, RowsFit, Counting
<1>4. Counting \subseteq DOMAIN subs /\ Usable(now) \subseteq DOMAIN subs
  BY DEF Counting, Usable
<1> QED
  BY <1>2, <1>3, <1>4 DEF Total

(* An edit moves a row, at most, from the attempts that count to the grants. *)
LEMMA EditTotal == ASSUME IInv, EditStep, IInv' PROVE Total' = Total
<1>1. PICK n \in DOMAIN subs : \A i \in DOMAIN subs \ {n} : subs'[i] = subs[i]
  BY SameLength
<1>2. /\ DOMAIN subs' = DOMAIN subs /\ now' = now
      /\ subs'[n].replacement = subs[n].replacement
      /\ subs[n].grant = "GRANTED" =>
            subs'[n].grant = "GRANTED" /\ subs'[n].expires = subs[n].expires
      /\ subs'[n].grant = "GRANTED" => subs[n].grant = "GRANTED" \/ now < subs'[n].expires
  BY SameLength DEF EditStep
<1>3. /\ Counting = {i \in DOMAIN subs : subs[i].grant # "GRANTED"}
      /\ Counting' = {i \in DOMAIN subs : subs'[i].grant # "GRANTED"}
  BY <1>2 DEF IInv, RowsFit, Counting
<1>4. CASE subs[n].grant = "GRANTED" \/ subs'[n].grant # "GRANTED"
  <2>1. Counting' = Counting
    BY <1>1, <1>2, <1>3, <1>4
  <2>2. Usable(now)' = Usable(now)
    BY <1>1, <1>2, <1>4 DEF Usable
  <2> QED
    BY <2>1, <2>2 DEF Total
<1>5. CASE subs[n].grant # "GRANTED" /\ subs'[n].grant = "GRANTED"
  <2>1. n \in Counting /\ Counting' = Counting \ {n}
    BY <1>1, <1>2, <1>3, <1>5
  <2>2. subs[n].replacement = 0 /\ now < subs'[n].expires
    BY <1>2, <1>5 DEF IInv, RowsFit
  <2>3. subs'[n].expires > now' /\ subs'[n].replacement = 0
    <3>1. now \in Nat /\ subs'[n].expires \in Nat
      <4>1. subs' \in Seq(Row) /\ now \in Nat
        BY LimitAssumption DEF IInv, Types
      <4>2. subs'[n] \in Row
        BY <1>2, <4>1, ElementOfSeq, LenProperties
      <4> QED
        BY <4>1, <4>2 DEF Row
    <3> QED
      BY <1>2, <2>2, <3>1
  <2>4. n \notin Usable(now) /\ Usable(now)' = Usable(now) \union {n}
    BY <1>1, <1>2, <1>5, <2>3 DEF Usable
  <2>5. Cardinality(Counting') = Cardinality(Counting) - 1
    BY <2>1, Counts, FS_RemoveElement
  <2>6. Cardinality(Usable(now)') = Cardinality(Usable(now)) + 1
    BY <2>4, Counts, FS_AddElement
  <2> QED
    BY <2>5, <2>6, Counts DEF Total
<1> QED
  BY <1>4, <1>5

(* An ordinary attempt adds one; a replacement takes the place of its grant,
   if that is still open. *)
LEMMA AddTotal ==
    ASSUME IInv, IInv', HeldGrants, NEW r \in Requests, NEW s \in Seq(Row), AddsRow(r, s)
    PROVE  \/ Total' = Total
           \/ CreateOrdinary(r) /\ Total' = Total + 1
<1> DEFINE n == Len(subs) + 1
<1>1. /\ Len(subs) \in Nat /\ DOMAIN subs = 1..Len(subs) /\ DOMAIN subs' = 1..n
      /\ subs'[n] = NewSubmission(r, n)
      /\ \A i \in DOMAIN subs :
            subs'[i].grant = subs[i].grant /\ subs'[i].expires = subs[i].expires
      /\ \/ \A i \in DOMAIN subs : subs'[i] = subs[i]
         \/ \E i \in DOMAIN subs :
               /\ i \in snap[r].grants
               /\ subs[i].replacement = 0 /\ subs[i].grant = "GRANTED"
               /\ asOf[r] < subs[i].expires
               /\ subs'[i].replacement = n
               /\ \A j \in DOMAIN subs \ {i} : subs'[j] = subs[j]
  BY AfterAdd
<1>2. n \notin DOMAIN subs /\ DOMAIN subs' = DOMAIN subs \union {n} /\ now' = now /\ n # 0
  BY <1>1 DEF AddsRow
<1> HIDE DEF n
<1>3. subs'[n].grant = "NONE" /\ subs'[n].counts = TRUE
  BY <1>1 DEF NewSubmission
<1>4. Counting' = Counting \union {n} /\ n \notin Counting
  <2>1. /\ Counting = {i \in DOMAIN subs : subs[i].grant # "GRANTED"}
        /\ Counting' = {i \in DOMAIN subs' : subs'[i].grant # "GRANTED"}
    BY DEF IInv, RowsFit, Counting
  <2> QED
    BY <1>1, <1>2, <1>3, <2>1
<1>5. Cardinality(Counting') = Cardinality(Counting) + 1
  BY <1>4, Counts, FS_AddElement
<1>6. ASSUME NEW i \in DOMAIN subs, subs[i].replacement = 0, subs[i].grant = "GRANTED",
             asOf[r] < subs[i].expires, subs'[i].replacement = n,
             \A j \in DOMAIN subs \ {i} : subs'[j] = subs[j]
      PROVE  Total' = Total
  <2>1. now < subs[i].expires
    BY <1>6 DEF HeldGrants, AddsRow, ActivityLocked
  <2>2. subs[i].expires > now
    <3>1. now \in Nat /\ subs[i].expires \in Nat
      BY RowsAreTyped, LimitAssumption DEF IInv, Types, Row
    <3> QED
      BY <2>1, <3>1
  <2>3. i \in Usable(now) /\ Usable(now)' = Usable(now) \ {i}
    <3>1. i \in Usable(now)
      BY <1>6, <2>2 DEF Usable
    <3>2. n \notin Usable(now)' /\ i \notin Usable(now)'
      BY <1>2, <1>3, <1>6 DEF Usable
    <3>3. ASSUME NEW j \in DOMAIN subs, j # i
          PROVE  j \in Usable(now)' <=> j \in Usable(now)
      BY <1>2, <1>6, <3>3 DEF Usable
    <3>4. Usable(now) \subseteq DOMAIN subs /\ Usable(now)' \subseteq DOMAIN subs'
      BY DEF Usable
    <3> QED
      BY <1>2, <3>1, <3>2, <3>3, <3>4
  <2>4. Cardinality(Usable(now)') = Cardinality(Usable(now)) - 1
    BY <2>3, Counts, FS_RemoveElement
  <2> QED
    BY <1>5, <2>4, Counts DEF Total
<1>7. CASE s = subs /\ CreateOrdinary(r)
  <2>1. \A i \in DOMAIN subs : subs'[i] = subs[i]
    <3>1. subs' = Append(subs, NewSubmission(r, Len(subs) + 1))
      BY <1>7 DEF AddsRow
    <3> QED
      BY <1>1, <3>1 DEF IInv, Types
  <2>2. Usable(now)' = Usable(now)
    BY <1>1, <1>2, <1>3, <2>1 DEF Usable
  <2> QED
    BY <1>5, <1>7, <2>2, Counts DEF Total
<1>8. CASE \E i \in snap[r].grants : s = [subs EXCEPT ![i].replacement = Len(subs) + 1]
  <2>1. ~ \A i \in DOMAIN subs : subs'[i] = subs[i]
    <3>1. PICK i \in snap[r].grants : s = [subs EXCEPT ![i].replacement = Len(subs) + 1]
      BY <1>8
    <3>2. i \in DOMAIN subs /\ subs[i].replacement = 0 /\ subs[i] \in Row
      BY RowsAreTyped DEF AddsRow, ActivityLocked, IInv, SnapsArePast
    <3>3. s[i].replacement = n
      BY <3>1, <3>2 DEF IInv, Types, Row, n
    <3>4. subs' = Append(s, NewSubmission(r, Len(subs) + 1)) /\ Len(s) = Len(subs)
      BY DEF AddsRow
    <3>5. subs'[i] = s[i]
      BY <1>1, <3>2, <3>4
    <3> QED
      BY <1>2, <3>2, <3>3, <3>5
  <2> QED
    BY <1>1, <1>6, <2>1
<1> QED
  BY <1>7, <1>8 DEF AddsRow

LEMMA HeldStep ==
    ASSUME ClockHeld, IInv, IInv', HeldGrants, [Next]_vars
    PROVE  HeldGrants'
<1>1. CASE UNCHANGED <<subs, now, requestVars>>
  BY <1>1 DEF HeldGrants
<1>2. \A r \in Requests : asOf[r] \in Nat /\ now \in Nat
  BY LimitAssumption DEF IInv, Types, RequestTypes
<1>3. /\ \A n \in DOMAIN subs : subs[n].expires \in Nat
      /\ \A n \in DOMAIN subs' : subs'[n].expires \in Nat
  <2>1. \A n \in DOMAIN subs : subs[n] \in Row
    BY RowsAreTyped DEF IInv
  <2>2. subs' \in Seq(Row)
    BY DEF IInv, Types
  <2>3. \A n \in DOMAIN subs' : subs'[n] \in Row
    BY <2>2, ElementOfSeq, LenProperties
  <2> QED
    BY <2>1, <2>3 DEF Row
<1>4. CASE EditStep
  <2>1. /\ DOMAIN subs' = DOMAIN subs /\ UNCHANGED <<now, requestVars>>
        /\ \A i \in DOMAIN subs :
              /\ subs[i].grant = "GRANTED" =>
                    subs'[i].grant = "GRANTED" /\ subs'[i].expires = subs[i].expires
              /\ subs'[i].grant = "GRANTED" =>
                    subs[i].grant = "GRANTED" \/ now < subs'[i].expires
    BY <1>4, SameLength DEF EditStep
  <2> QED
    BY <2>1 DEF HeldGrants
<1>5. ASSUME NEW r \in Requests, NEW s \in Seq(Row), AddsRow(r, s)
      PROVE  HeldGrants'
  <2>1. /\ Len(subs) \in Nat /\ DOMAIN subs = 1..Len(subs) /\ DOMAIN subs' = 1..(Len(subs) + 1)
        /\ subs'[Len(subs) + 1] = NewSubmission(r, Len(subs) + 1)
        /\ \A i \in DOMAIN subs :
              subs'[i].grant = subs[i].grant /\ subs'[i].expires = subs[i].expires
    BY <1>5, AfterAdd
  <2>2. \A i \in DOMAIN subs' : subs'[i].grant = "GRANTED" =>
           i \in DOMAIN subs /\ subs[i].grant = "GRANTED" /\ subs'[i].expires = subs[i].expires
    BY <2>1 DEF NewSubmission
  <2>3. /\ now' = now
        /\ \A q \in Requests : pc'[q] = "open" => pc[q] = "open" /\ asOf'[q] = asOf[q]
    BY <1>5 DEF AddsRow, Answer, IInv, Types, RequestTypes
  <2> QED
    BY <2>2, <2>3 DEF HeldGrants
<1>6. ASSUME NEW r \in Requests, RequestStep(r)
      PROVE  HeldGrants'
  <2>1. subs' = subs /\ now' = now
    BY <1>6 DEF RequestStep, Begin, Replay, Refuse, SerializationFailure
  <2>2. \A q \in Requests : pc'[q] = "open" =>
           \/ pc[q] = "open" /\ asOf'[q] = asOf[q]
           \/ asOf'[q] = now
    BY <1>6 DEF RequestStep, Begin, Replay, Refuse, SerializationFailure, Answer, IInv, Types,
                RequestTypes
  <2> QED
    BY <2>1, <2>2 DEF HeldGrants
<1>7. ASSUME NEW n \in DOMAIN subs, NEW op \in Edits, BeginEdit(n, op)
      PROVE  HeldGrants'
  BY <1>1, <1>7 DEF BeginEdit
<1>8. CASE Tick
  <2>1. UNCHANGED <<subs, requestVars>> /\ now' = now + 1 /\ ~SawOpenGrant
    BY <1>8 DEF Tick
  <2> QED
    BY <1>2, <1>3, <2>1 DEF HeldGrants, SawOpenGrant
<1>9. CASE ActivityStep
  BY <1>1, <1>8, <1>9 DEF ActivityStep, Update, Close, Reopen, ArchiveBegin, ArchiveEnd, Restore
<1> QED
  BY Kinds, <1>1, <1>4, <1>5, <1>6, <1>7, <1>9

(* A transaction counts at least what counts and is granted now. *)
LEMMA SnapshotCounts ==
    ASSUME IInv, NEW t \in Nat, t <= now, NEW p
    PROVE  Total <= Snapshot(t, p).counting + Cardinality(Snapshot(t, p).grants)
<1>1. "NONE" \in RowSources /\ now \in Nat
  BY LimitAssumption DEF RowSources, IInv, Types
<1>2. \A i \in DOMAIN subs : subs[i].expires \in Nat
  BY RowsAreTyped DEF IInv, Row
<1>3. Usable(now) \subseteq Usable(t)
  BY <1>1, <1>2 DEF Usable
<1>4. IsFiniteSet(Usable(t)) /\ Cardinality(Usable(t)) \in Nat
  BY <1>1, Snapshots DEF IInv
<1>5. Cardinality(Usable(now)) <= Cardinality(Usable(t))
  BY <1>3, <1>4, FS_Subset
<1>6. Snapshot(t, p).counting = Cardinality(Counting) /\ Snapshot(t, p).grants = Usable(t)
  BY DEF Snapshot
<1> QED
  BY <1>4, <1>5, <1>6, Counts DEF Total

(* The grants a transaction has found are among the rows. *)
LEMMA GrantsFinite ==
    ASSUME IInv, NEW r \in Requests, pc[r] = "open"
    PROVE  Cardinality(snap[r].grants) \in Nat
<1>1. snap[r].grants \subseteq DOMAIN subs
  BY DEF IInv, SnapsArePast
<1>2. DOMAIN subs = 1..Len(subs) /\ Len(subs) \in Nat
  BY LenProperties DEF IInv, Types
<1>3. IsFiniteSet(DOMAIN subs)
  BY <1>2, FS_Interval
<1> QED
  BY <1>1, <1>3, FS_Subset, FS_CardinalityType

(* A step that leaves the requests alone and creates nothing. *)
LEMMA LimitKept ==
    ASSUME IInv, NEW total \in Nat, total <= Total, WithinLimit,
           NEW limit \in Nat, limit >= activity.limit
    PROVE  /\ total <= limit
           /\ \A r \in Requests : pc[r] = "open" /\ snap[r].len = Len(subs) =>
                 total <= snap[r].counting + Cardinality(snap[r].grants)
<1>1. Total \in Nat /\ activity.limit \in Nat
  BY Counts, LimitAssumption DEF IInv, Types
<1>2. total <= limit
  BY <1>1 DEF WithinLimit
<1>3. ASSUME NEW r \in Requests, pc[r] = "open", snap[r].len = Len(subs)
      PROVE  total <= snap[r].counting + Cardinality(snap[r].grants)
  <2>1. Total <= snap[r].counting + Cardinality(snap[r].grants)
    BY <1>3 DEF WithinLimit
  <2>2. Cardinality(snap[r].grants) \in Nat /\ snap[r].counting \in Nat
    BY <1>3, GrantsFinite DEF IInv, Types, RequestTypes, SnapType
  <2> QED
    BY <1>1, <2>1, <2>2
<1> QED
  BY <1>2, <1>3

LEMMA LimitStep ==
    ASSUME IInv, IInv', HeldGrants, WithinLimit, [Next]_vars
    PROVE  WithinLimit'
<1>1. Total \in Nat /\ activity.limit \in Nat /\ activity.limit >= activity.limit /\ Total <= Total
  BY Counts, LimitAssumption DEF IInv, Types
<1>2. Total <= activity.limit
      /\ \A r \in Requests : pc[r] = "open" /\ snap[r].len = Len(subs) =>
            Total <= snap[r].counting + Cardinality(snap[r].grants)
  BY DEF WithinLimit
<1>3. CASE UNCHANGED <<subs, now, requestVars>> /\ activity'.limit >= activity.limit
  <2>1. Total' = Total
    BY <1>3 DEF Total, Counting, Usable
  <2>2. activity'.limit \in Nat
    BY LimitAssumption DEF IInv, Types
  <2>3. Total <= activity'.limit
    BY <1>1, <1>2, <1>3, <2>2
  <2> QED
    BY <1>2, <1>3, <2>1, <2>3 DEF WithinLimit
<1>4. CASE EditStep
  <2>1. Total' = Total /\ Len(subs') = Len(subs) /\ UNCHANGED <<activity, requestVars>>
    BY <1>4, EditTotal, SameLength DEF EditStep
  <2> QED
    BY <1>2, <2>1 DEF WithinLimit
<1>5. ASSUME NEW r \in Requests, NEW s \in Seq(Row), AddsRow(r, s)
      PROVE  WithinLimit'
  <2>1. activity' = activity /\ Total' <= activity.limit
    <3>1. activity' = activity
      BY <1>5 DEF AddsRow
    <3>2. CASE Total' = Total
      BY <1>2, <3>1, <3>2
    <3>3. CASE CreateOrdinary(r) /\ Total' = Total + 1
      <4>1. /\ pc[r] = "open" /\ snap[r].len = Len(subs) /\ snap[r].grants = {}
            /\ snap[r].counting < activity.limit
        BY <3>3 DEF CreateOrdinary, ActivityLocked, Serializable
      <4>2. Total <= snap[r].counting + 0
        BY <1>2, <4>1, FS_EmptySet
      <4>3. snap[r].counting \in Nat
        BY DEF IInv, Types, RequestTypes, SnapType
      <4> QED
        BY <1>1, <3>1, <3>3, <4>1, <4>2, <4>3
    <3> QED
      BY <1>5, <3>2, <3>3, AddTotal
  <2>2. \A q \in Requests : pc'[q] = "open" => pc[q] = "open" /\ snap'[q] = snap[q]
    BY <1>5 DEF AddsRow, Answer, IInv, Types, RequestTypes
  <2>3. Len(subs') = Len(subs) + 1 /\ Len(subs) \in Nat
    BY <1>5, AfterAdd
  <2>4. \A q \in Requests : pc'[q] = "open" => snap'[q].len <= Len(subs) /\ snap'[q].len \in Nat
    BY <2>2 DEF IInv, SnapsArePast, Types, RequestTypes, SnapType
  <2>5. \A q \in Requests : pc'[q] = "open" => snap'[q].len # Len(subs')
    BY <2>3, <2>4
  <2> QED
    BY <2>1, <2>5 DEF WithinLimit
<1>6. ASSUME NEW r \in Requests, RequestStep(r)
      PROVE  WithinLimit'
  <2>1. UNCHANGED <<subs, now, activity>>
    BY <1>6 DEF RequestStep, Begin, Replay, Refuse, SerializationFailure
  <2>2. Total' = Total
    BY <2>1 DEF Total, Counting, Usable
  <2>3. \A q \in Requests : pc'[q] = "open" =>
           \/ pc[q] = "open" /\ snap'[q] = snap[q]
           \/ \E t \in Nat : \E p : t <= now /\ snap'[q] = Snapshot(t, p)
    <3>1. asOf[r] \in Nat /\ now \in Nat /\ now <= now
      BY LimitAssumption DEF IInv, Types, RequestTypes
    <3>2. \A q \in Requests \ {r} : pc'[q] = pc[q] /\ snap'[q] = snap[q]
      BY <1>6 DEF RequestStep, Begin, Replay, Refuse, SerializationFailure, Answer, IInv, Types,
                  RequestTypes
    <3>3. ASSUME \E kind, n : Answer(r, kind, n)
          PROVE  pc'[r] = "done"
      BY <3>3 DEF Answer, IInv, Types, RequestTypes
    <3>4. CASE Begin(r)
      <4>1. \E p : snap'[r] = Snapshot(now, p)
        BY <3>4 DEF Begin, IInv, Types, RequestTypes
      <4> QED
        BY <3>1, <3>2, <4>1
    <3>5. CASE SerializationFailure(r)
      <4>1. CASE tries[r] + 1 < MaxTries
        <5>1. snap'[r] = Snapshot(asOf[r], snap[r].source) /\ asOf[r] <= now
          BY <3>5, <4>1 DEF SerializationFailure, IInv, SnapsArePast, Types, RequestTypes
        <5> QED
          BY <3>1, <3>2, <5>1
      <4> QED
        BY <3>2, <3>3, <3>5, <4>1 DEF SerializationFailure
    <3>6. CASE Replay(r) \/ Refuse(r)
      BY <3>2, <3>3, <3>6 DEF Replay, Refuse
    <3> QED
      BY <1>6, <3>4, <3>5, <3>6 DEF RequestStep
  <2>4. \A t \in Nat : \A p : t <= now =>
           Total <= Snapshot(t, p).counting + Cardinality(Snapshot(t, p).grants)
    BY SnapshotCounts
  <2> QED
    BY <1>2, <2>1, <2>2, <2>3, <2>4 DEF WithinLimit
<1>7. ASSUME NEW n \in DOMAIN subs, NEW op \in Edits, BeginEdit(n, op)
      PROVE  WithinLimit'
  BY <1>1, <1>3, <1>7 DEF BeginEdit
<1>8. CASE Tick
  <2>1. UNCHANGED <<subs, activity, requestVars>> /\ now' = now + 1
    BY <1>8 DEF Tick
  <2>2. \A i \in DOMAIN subs : subs[i].expires \in Nat
    BY RowsAreTyped DEF IInv, Row
  <2>3. now \in Nat
    BY LimitAssumption DEF IInv, Types
  <2>4. Usable(now)' \subseteq Usable(now) /\ Counting' = Counting
    BY <2>1, <2>2, <2>3 DEF Usable, Counting
  <2>5. Cardinality(Usable(now)') \in Nat /\ Cardinality(Usable(now)') <= Cardinality(Usable(now))
    BY <2>4, Counts, FS_Subset, FS_CardinalityType
  <2>6. Total' \in Nat /\ Total' <= Total
    BY <2>4, <2>5, Counts DEF Total
  <2> QED
    BY <1>1, <2>1, <2>6, LimitKept DEF WithinLimit
<1>9. CASE Update
  <2>1. PICK l \in activity.limit .. LastLimit, d \in activity.due .. LastDue :
              activity' = [activity EXCEPT !.limit = l, !.due = d]
    BY <1>9 DEF Update
  <2>2. activity'.limit = l /\ l >= activity.limit
    BY <1>1, <2>1, LimitAssumption DEF IInv, Types
  <2> QED
    BY <1>3, <1>9, <2>2 DEF Update
<1>10. CASE ActivityStep
  BY <1>1, <1>3, <1>8, <1>9, <1>10 DEF ActivityStep, Close, Reopen, ArchiveBegin, ArchiveEnd,
                                       Restore, IInv, Types
<1>11. CASE UNCHANGED vars
  BY <1>1, <1>3, <1>11
<1> QED
  BY Kinds, <1>4, <1>5, <1>6, <1>7, <1>10, <1>11

(* max_attempts limits the submissions that count, for every limit, number of
   requests and due date, if no grant expires while a request that saw it is
   under way: createSubmission's count on its snapshot, and resolveFailure's
   and createSubmission's exchange of an attempt for a grant. *)
THEOREM AttemptLimitAlways == ClockHeld /\ Spec => []AttemptLimit
<1> SUFFICES ASSUME ClockHeld
             PROVE  Spec => []AttemptLimit
  OBVIOUS
<1>1. ASSUME Init
      PROVE  LimitInv
  <2>1. IInv
    BY <1>1, InitIInv
  <2>2. DOMAIN subs = {} /\ now \in Nat /\ \A r \in Requests : pc[r] # "open"
    BY <1>1 DEF Init
  <2>3. Counting = {} /\ Usable(now) = {}
    BY <2>2 DEF Counting, Usable
  <2>4. Total = 0
    BY <2>3, FS_EmptySet DEF Total
  <2>5. activity.limit \in Nat
    BY <2>1, LimitAssumption DEF IInv, Types
  <2> QED
    BY <2>1, <2>2, <2>4, <2>5 DEF LimitInv, HeldGrants, WithinLimit
<1>2. ASSUME LimitInv, [Next]_vars
      PROVE  LimitInv'
  <2>1. IInv'
    BY <1>2, TypesStep, EditsStep, RowsStep, AnswersStep, SnapsStep DEF IInv, LimitInv
  <2> QED
    BY <1>2, <2>1, HeldStep, LimitStep DEF LimitInv
<1>3. ASSUME LimitInv
      PROVE  AttemptLimit
  <2>1. Total <= activity.limit /\ activity.limit \in Nat
    BY <1>3, LimitAssumption DEF LimitInv, WithinLimit, IInv, Types
  <2> QED
    BY <1>3, <2>1, Counts DEF LimitInv, Total, AttemptLimit
<1> QED
  BY <1>1, <1>2, <1>3, PTL DEF Spec

-----------------------------------------------------------------------------
(* Closing and archiving. *)

Finished == \A n \in DOMAIN subs : subs[n].status \in {"RELEASED", "FAILED_RESOLVED"}

(* Nothing that is finished is edited. *)
LEMMA FinishedIsLeftAlone ==
    ASSUME IInv, Finished, Mode = "GRADED"
    PROVE  ~EditStep
<1>1. ASSUME NEW n \in DOMAIN subs, Assess(n)
      PROVE  FALSE
  BY <1>1 DEF Assess, Finished
<1>2. ASSUME NEW n \in DOMAIN subs, EndEdit(n)
      PROVE  FALSE
  <2>1. PICK op \in Edits : <<n, op>> \in editing
    BY <1>2 DEF EndEdit, Retry, CloseFailure, GrantReplacement, Review, Release, Edits
  <2>2. Editable(n, op)
    BY <2>1 DEF IInv, EditsCurrent
  <2>3. subs[n].status # "ASSESSMENT_FAILED" /\ subs[n].status \notin {"ASSESSED", "REVIEWED"}
    BY DEF Finished
  <2> QED
    BY <2>2, <2>3 DEF Editable, Edits
<1> QED
  BY <1>1, <1>2 DEF EditStep

(* A submission enters an activity that is open or closed, while nobody is
   archiving it, and a closed one as a replacement. *)
LEMMA Adding ==
    ASSUME IInv, NEW r \in Requests, NEW s \in Seq(Row), AddsRow(r, s)
    PROVE  /\ ~archiving /\ activity.status \in {"PUBLISHED", "CLOSED"}
           /\ UNCHANGED <<activity, archiving>>
           /\ activity.status = "CLOSED" =>
                 \E i \in DOMAIN subs : subs'[i].replacement = Len(subs')
<1>1. CASE CreateOrdinary(r)
  BY <1>1 DEF CreateOrdinary, OrdinaryOpen, ActivityLocked, AddsRow
<1>2. CASE ~CreateOrdinary(r)
  <2>1. ~archiving /\ activity.status \in {"PUBLISHED", "CLOSED"} /\ UNCHANGED <<activity, archiving>>
    BY <1>2 DEF AddsRow, ActivityLocked
  <2>2. PICK i \in snap[r].grants : s = [subs EXCEPT ![i].replacement = Len(subs) + 1]
    BY <1>2 DEF AddsRow
  <2>3. i \in DOMAIN subs /\ subs[i] \in Row
    BY RowsAreTyped DEF AddsRow, ActivityLocked, IInv, SnapsArePast
  <2>4. s[i].replacement = Len(subs) + 1
    BY <2>2, <2>3 DEF IInv, Types, Row
  <2>5. subs' = Append(s, NewSubmission(r, Len(subs) + 1)) /\ Len(s) = Len(subs)
    BY DEF AddsRow
  <2>6. Len(subs) \in Nat /\ DOMAIN subs = 1..Len(subs) /\ Len(subs') = Len(subs) + 1
    BY AfterAdd
  <2>7. subs'[i] = s[i]
    BY <2>3, <2>5, <2>6
  <2> QED
    BY <2>1, <2>3, <2>4, <2>6, <2>7
<1> QED
  BY <1>1, <1>2

LEMMA ArchiveStep ==
    ASSUME Mode = "GRADED", IInv, IInv', ArchiveKept, [Next]_vars
    PROVE  ArchiveKept'
<1>1. CASE UNCHANGED <<subs, now, activity, archiving>>
  BY <1>1 DEF ArchiveKept, Usable
<1>2. CASE EditStep
  <2>1. UNCHANGED <<now, activity, archiving>> /\ ~Finished
    BY <1>2, FinishedIsLeftAlone DEF EditStep
  <2> QED
    BY <2>1 DEF ArchiveKept, Finished
<1>3. ASSUME NEW r \in Requests, NEW s \in Seq(Row), AddsRow(r, s)
      PROVE  ArchiveKept'
  <2>1. ~archiving /\ activity.status # "ARCHIVED" /\ UNCHANGED <<activity, archiving>>
    BY <1>3, Adding
  <2> QED
    BY <2>1 DEF ArchiveKept
<1>4. ASSUME NEW r \in Requests, RequestStep(r)
      PROVE  ArchiveKept'
  BY <1>1, <1>4 DEF RequestStep, Begin, Replay, Refuse, SerializationFailure
<1>5. ASSUME NEW n \in DOMAIN subs, NEW op \in Edits, BeginEdit(n, op)
      PROVE  ArchiveKept'
  BY <1>1, <1>5 DEF BeginEdit
<1>6. CASE Tick
  <2>1. UNCHANGED <<subs, activity, archiving>> /\ now' = now + 1
    BY <1>6 DEF Tick
  <2>2. \A i \in DOMAIN subs : subs[i].expires \in Nat
    BY RowsAreTyped DEF IInv, Row
  <2>3. now \in Nat
    BY LimitAssumption DEF IInv, Types
  <2>4. Usable(now)' \subseteq Usable(now)
    BY <2>1, <2>2, <2>3 DEF Usable
  <2> QED
    BY <2>1, <2>4 DEF ArchiveKept
<1>7. CASE Update \/ Close \/ Restore
  <2>1. UNCHANGED <<subs, now, archiving>> /\ ~archiving /\ activity'.status # "ARCHIVED"
    BY <1>7 DEF Update, Close, Restore, ArchiveKept, IInv, Types
  <2> QED
    BY <2>1 DEF ArchiveKept
<1>8. CASE Reopen
  <2>1. UNCHANGED <<subs, now, archiving>> /\ ~archiving /\ activity'.status # "ARCHIVED"
    BY <1>8 DEF Reopen, IInv, Types
  <2> QED
    BY <2>1 DEF ArchiveKept
<1>9. CASE ArchiveBegin
  BY <1>9 DEF ArchiveBegin, ArchiveKept
<1>10. CASE ArchiveEnd
  <2>1. /\ UNCHANGED <<subs, now>> /\ archiving /\ ~archiving'
        /\ activity'.status = "ARCHIVED" => Usable(now) = {}
    BY <1>10 DEF ArchiveEnd, ArchiveKept
  <2>2. Usable(now)' = Usable(now)
    BY <2>1 DEF Usable
  <2> QED
    BY <2>1, <2>2 DEF ArchiveKept
<1> QED
  BY Kinds, <1>1, <1>2, <1>3, <1>4, <1>5, <1>6, <1>7, <1>8, <1>9, <1>10 DEF ActivityStep

(* Where a submission enters, in any mode and however the clock runs: a
   request that saw the activity open finds the lock on its row taken, or
   changed, if it has been closed or archived since. *)
THEOREM ClosedTakesReplacementsAlways == Spec => ClosedTakesReplacements
<1>1. ASSUME IInv, [Next]_vars, Len(subs') > Len(subs)
      PROVE  /\ activity.status \in {"PUBLISHED", "CLOSED"}
             /\ activity.status = "CLOSED" => \E i \in DOMAIN subs : subs'[i].replacement = Len(subs')
  <2>1. Len(subs) \in Nat
    BY LenProperties DEF IInv, Types
  <2>2. subs' # subs /\ ~EditStep
    BY <1>1, <2>1, SameLength
  <2>3. PICK r \in Requests, s \in Seq(Row) : AddsRow(r, s)
    BY <1>1, <2>2, Kinds DEF RequestStep, Begin, Replay, Refuse, SerializationFailure, BeginEdit,
       ActivityStep, Update, Close, Reopen, ArchiveBegin, ArchiveEnd, Restore, Tick
  <2> QED
    BY <1>1, <2>3, Adding
<1>2. IInv /\ [Next]_vars => [Len(subs') > Len(subs) =>
          /\ activity.status \in {"PUBLISHED", "CLOSED"}
          /\ activity.status = "CLOSED" => \E i \in DOMAIN subs : subs'[i].replacement = Len(subs')]_vars
  BY <1>1
<1> QED
  BY <1>2, IInvAlways, PTL DEF Spec, ClosedTakesReplacements

(* Closing and archiving a graded activity mean what they say to every
   request, and what the instructor has begun is finished before the archive,
   which counts in two statements and locks no submission.  (In an activity
   that is marked for completion a review of a resolved failure can slip in
   between archive's counts and its update.) *)
THEOREM ClosingHoldsAlways == Mode = "GRADED" /\ Spec => ClosingHolds
<1> SUFFICES ASSUME Mode = "GRADED"
             PROVE  Spec => ClosingHolds
  OBVIOUS
<1>1. Init => ArchiveKept
  BY DEF Init, ArchiveKept
<1>2. IInv /\ IInv' /\ ArchiveKept /\ [Next]_vars => ArchiveKept'
  BY ArchiveStep
<1>3. ArchiveKept => ArchivedIsFinished
  BY DEF ArchiveKept, ArchivedIsFinished
<1>4. Spec => []ArchiveKept
  BY <1>1, <1>2, IInvAlways, PTL DEF Spec
<1>5. Spec => [][ArchivedIsFinished']_vars
  BY <1>3, <1>4, PTL
<1> QED
  BY <1>5, ClosedTakesReplacementsAlways, PTL DEF ClosingHolds

-----------------------------------------------------------------------------
(* Finite folds: what FoldLeft computes over any number of elements. *)

(* Among naturals there is a least one. *)
LEMMA Least ==
    ASSUME NEW T \in SUBSET Nat, T # {}
    PROVE  \E m \in T : \A n \in T : m <= n
<1> DEFINE Less == {p \in Nat \X Nat : p[1] < p[2]}
<1>1. Less = OpToRel(<, Nat)
  BY DEF OpToRel
<1>2. IsWellFoundedOn(Less, Nat)
  BY <1>1, NatLessThanWellFounded, Zenon
<1>3. \E m \in T : \A n \in T : ~(<<n, m>> \in Less)
  <2> HIDE DEF Less
  <2> QED BY <1>2, WFMin
<1>4. PICK m \in T : \A n \in T : ~(<<n, m>> \in Less)
  BY <1>3
<1>5. \A n \in T : ~(n < m)
  BY <1>4
<1> QED BY <1>5

(* Sizes of the parts of a finite set. *)
LEMMA PartSizes ==
    ASSUME NEW S, IsFiniteSet(S), NEW T \in SUBSET S
    PROVE  /\ IsFiniteSet(T) /\ Cardinality(T) \in Nat
           /\ Cardinality(T) = 0 <=> T = {}
           /\ \A x \in T : Cardinality(T \ {x}) = Cardinality(T) - 1
BY FS_Subset, FS_CardinalityType, FS_EmptySet, FS_RemoveElement

(* Induction over the parts of a finite set: what holds of a part whenever it
   holds of that part without any one element, holds of all. *)
LEMMA PartInduction ==
    ASSUME NEW S, IsFiniteSet(S), NEW G,
           \A T \in SUBSET S : (\A x \in T : T \ {x} \in G) => T \in G
    PROVE  \A T \in SUBSET S : T \in G
<1> DEFINE Bad == {T \in SUBSET S : T \notin G}
           Sizes == {Cardinality(T) : T \in Bad}
<1> SUFFICES ASSUME Bad # {} PROVE FALSE
  OBVIOUS
<1>1. Sizes \in SUBSET Nat /\ Sizes # {}
  BY PartSizes
<1>2. PICK m \in Sizes : \A n \in Sizes : m <= n
  <2> HIDE DEF Sizes
  <2> QED BY <1>1, Least
<1>3. PICK T \in Bad : Cardinality(T) = m
  OBVIOUS
<1>4. PICK x \in T : T \ {x} \notin G
  BY <1>3
<1>5. T \ {x} \in Bad /\ Cardinality(T \ {x}) = Cardinality(T) - 1
  BY <1>4, PartSizes
<1>6. Cardinality(T \ {x}) \in Sizes /\ Cardinality(T) \in Nat
  BY <1>5, PartSizes
<1>7. m <= Cardinality(T \ {x})
  BY <1>2, <1>6
<1> HIDE DEF Bad, Sizes
<1> QED BY <1>3, <1>5, <1>6, <1>7

(* CountingUp up from 0 meets every natural. *)
LEMMA CountingUp ==
    ASSUME NEW T, 0 \in T, \A n \in T : n + 1 \in T
    PROVE  \A n \in Nat : n \in T
<1> DEFINE Missed == {n \in Nat : n \notin T}
<1> SUFFICES ASSUME Missed # {} PROVE FALSE
  BY Zenon
<1>1. Missed \in SUBSET Nat
  OBVIOUS
<1>2. PICK m \in Missed : \A n \in Missed : m <= n
  <2> HIDE DEF Missed
  <2> QED BY <1>1, Least
<1>3. m \in Nat /\ m \notin T /\ m # 0
  BY Zenon
<1> DEFINE k == m - 1
<1>4. k \in Nat /\ k + 1 = m /\ ~(m <= k)
  BY <1>3
<1>5. k \in T
  <2> HIDE DEF k
  <2>1. k \notin Missed
    BY <1>2, <1>4, Zenon
  <2> QED BY <2>1, <1>4, Zenon
<1>6. k + 1 \in T
  BY <1>5, Zenon
<1> QED
  <2> HIDE DEF k
  <2> QED BY <1>3, <1>4, <1>6, Zenon

\* The recursion of MapThenFoldSet, as functions: ch chooses an element of each
\* part, op makes a value of a part and the value of what the element leaves of it.
Chooses(ch, S) == \A T \in SUBSET S : T # {} => ch[T] \in T
Makes(op, S, V) == \A T \in SUBSET S : \A v \in V : op[T][v] \in V
FoldOf(g, S, base, ch, op) ==
    g = [T \in SUBSET S |-> IF T = {} THEN base ELSE op[T][g[T \ {ch[T]}]]]

(* This recursion defines something. *)
LEMMA FoldExists ==
    ASSUME NEW S, IsFiniteSet(S), NEW V, NEW base \in V,
           NEW ch, Chooses(ch, S), NEW op, Makes(op, S, V)
    PROVE  \E g \in [SUBSET S -> V] : FoldOf(g, S, base, ch, op)
<1> USE DEF Chooses, Makes
<1> DEFINE Small(n) == {T \in SUBSET S : Cardinality(T) <= n}
           Folds(n, g) ==
               g = [T \in Small(n) |-> IF T = {} THEN base ELSE op[T][g[T \ {ch[T]}]]]
           Good == {n \in Nat : \E g \in [Small(n) -> V] : Folds(n, g)}
<1>1. 0 \in Good
  <2> DEFINE g == [T \in Small(0) |-> base]
  <2>1. \A T \in Small(0) : T = {}
    BY PartSizes
  <2>2. Folds(0, g) /\ g \in [Small(0) -> V]
    BY <2>1
  <2> QED BY <2>2
<1>2. \A n \in Good : n + 1 \in Good
  <2> SUFFICES ASSUME NEW n \in Good PROVE n + 1 \in Good
    OBVIOUS
  <2>1. PICK g \in [Small(n) -> V] : Folds(n, g)
    OBVIOUS
  <2> DEFINE h == [T \in Small(n + 1) |-> IF T = {} THEN base ELSE op[T][g[T \ {ch[T]}]]]
  <2>2. ASSUME NEW T \in Small(n + 1), T # {} PROVE T \ {ch[T]} \in Small(n)
    <3>1. T \in SUBSET S /\ Cardinality(T) <= n + 1 /\ ch[T] \in T
      BY <2>2
    <3>2. Cardinality(T) \in Nat /\ Cardinality(T \ {ch[T]}) = Cardinality(T) - 1
      BY <3>1, PartSizes
    <3> QED BY <3>1, <3>2
  <2>3. h \in [Small(n + 1) -> V]
    BY <2>1, <2>2
  <2>4. ASSUME NEW T \in Small(n) PROVE T \in Small(n + 1) /\ h[T] = g[T]
    <3>1. T \in SUBSET S /\ Cardinality(T) \in Nat /\ Cardinality(T) <= n
      BY PartSizes
    <3>2. T \in Small(n + 1)
      BY <3>1
    <3>3. g[T] = IF T = {} THEN base ELSE op[T][g[T \ {ch[T]}]]
      BY <2>1, Zenon
    <3> QED BY <3>2, <3>3, Zenon
  <2>5. Folds(n + 1, h)
    <3> HIDE DEF Small
    <3> QED BY <2>2, <2>4, Zenon
  <2> HIDE DEF h, Folds, Small
  <2> QED BY <2>3, <2>5
<1>3. \A n \in Nat : n \in Good
  <2> HIDE DEF Good
  <2> QED BY <1>1, <1>2, CountingUp
<1>4. Small(Cardinality(S)) = SUBSET S
  BY FS_Subset
<1>5. Cardinality(S) \in Good
  BY <1>3, FS_CardinalityType
<1>6. PICK g \in [Small(Cardinality(S)) -> V] : Folds(Cardinality(S), g)
  BY <1>5
<1>7. g \in [SUBSET S -> V] /\ FoldOf(g, S, base, ch, op)
  BY <1>4, <1>6, Zenon DEF FoldOf
<1> QED BY <1>7

-----------------------------------------------------------------------------
(* The credited attempt. *)

(* Max of some of the first n places is one of them. *)
LEMMA MaxChosen ==
    ASSUME NEW n \in Nat, NEW T \in SUBSET (1..n), T # {}
    PROVE  Max(T) \in T
<1> DEFINE Gaps == {n - x : x \in T}
<1>1. Gaps \in SUBSET Nat /\ Gaps # {}
  OBVIOUS
<1>2. PICK m \in Gaps : \A g \in Gaps : m <= g
  <2> HIDE DEF Gaps
  <2> QED BY <1>1, Least
<1>3. PICK x \in T : m = n - x
  OBVIOUS
<1>4. \A y \in T : x >= y
  <2> SUFFICES ASSUME NEW y \in T PROVE x >= y
    OBVIOUS
  <2>1. n - y \in Gaps
    OBVIOUS
  <2>2. n - x <= n - y
    BY <1>2, <1>3, <2>1
  <2>3. x \in Nat /\ y \in Nat
    OBVIOUS
  <2> QED BY <2>2, <2>3
<1> QED BY <1>4, Zenon DEF Max

\* An attempt is better than another by the policy; the fold, as a function; and
\* what it is to be the best of some places of an order.
Better(policy, c, i) ==
    \/ /\ subs[c].attempt > subs[i].attempt
       /\ policy = "HIGHEST" => subs[c].score >= subs[i].score
    \/ policy = "HIGHEST" /\ subs[c].score > subs[i].score
Runs(g, policy, order) ==
    g = [T \in SUBSET (DOMAIN order) |->
           IF T = {} THEN 0 ELSE Credit(policy, g[T \ {Max(T)}], order[Max(T)])]
BestOf(policy, order, T, c) ==
    IF T = {} THEN c = 0
    ELSE /\ \E k \in T : c = order[k]
         /\ \A k \in T : order[k] = c \/ Better(policy, c, order[k])

(* An order of the candidates lists each of them, and nothing else. *)
LEMMA Orders ==
    ASSUME subs \in Seq(Row), NEW order \in SetToSeqs(Candidates)
    PROVE  /\ DOMAIN order = 1..Cardinality(Candidates) /\ Cardinality(Candidates) \in Nat
           /\ \A i : i \in Candidates <=> \E k \in DOMAIN order : order[k] = i
           /\ Candidates \subseteq DOMAIN subs
<1> DEFINE n == Cardinality(Candidates)
<1>1. Candidates \subseteq DOMAIN subs /\ IsFiniteSet(DOMAIN subs)
  <2>1. DOMAIN subs = 1..Len(subs) /\ Len(subs) \in Nat
    OBVIOUS
  <2>2. IsFiniteSet(1..Len(subs))
    BY <2>1, FS_Interval
  <2> QED BY <2>1, <2>2 DEF Candidates
<1>2. IsFiniteSet(Candidates) /\ n \in Nat
  BY <1>1, FS_Subset, FS_CardinalityType
<1>3. order \in [1..n -> Candidates] /\ \A i, j \in 1..n : i # j => order[i] # order[j]
  BY Zenon DEF SetToSeqs
<1>4. order \in Injection(1..n, Candidates)
  BY <1>3 DEF Injection, IsInjective
<1>5. IsFiniteSet(1..n) /\ Cardinality(1..n) = n
  <2> HIDE DEF n
  <2> QED BY <1>2, FS_Interval
<1>6. order \in Surjection(1..n, Candidates)
  BY <1>2, <1>4, <1>5, FS_Injection
<1> QED BY <1>1, <1>2, <1>3, <1>6 DEF Surjection

(* Credited runs through the order, one candidate after the other. *)
LEMMA FoldRuns ==
    ASSUME subs \in Seq(Row), NEW policy, NEW order \in SetToSeqs(Candidates)
    PROVE  \E g : Runs(g, policy, order) /\ Credited(policy, order) = g[DOMAIN order]
<1> DEFINE S == DOMAIN order
           ch == [T \in SUBSET S |-> Max(T)]
           op == [T \in SUBSET S |-> [v \in Nat |-> IF T = {} THEN 0 ELSE Credit(policy, v, order[Max(T)])]]
           g == CHOOSE g : Runs(g, policy, order)
<1>1. S = 1..Cardinality(Candidates) /\ Cardinality(Candidates) \in Nat /\ \A k \in S : order[k] \in Nat
  <2>1. DOMAIN subs \subseteq Nat
    OBVIOUS
  <2> QED BY <2>1, Orders
<1>2. \A T \in SUBSET S : T # {} => Max(T) \in T
  BY <1>1, MaxChosen
<1>3. Chooses(ch, S)
  BY <1>2 DEF Chooses
<1>4. Makes(op, S, Nat)
  BY <1>1, <1>2 DEF Makes, Credit
<1>5. IsFiniteSet(S)
  BY <1>1, FS_Interval
<1>6. \E h \in [SUBSET S -> Nat] : FoldOf(h, S, 0, ch, op)
  <2> HIDE DEF S, ch, op
  <2> QED BY <1>3, <1>4, <1>5, FoldExists
<1>7. PICK h \in [SUBSET S -> Nat] : FoldOf(h, S, 0, ch, op)
  BY <1>6
<1>8. \A T \in SUBSET S : T # {} =>
        op[T][h[T \ {ch[T]}]] = Credit(policy, h[T \ {Max(T)}], order[Max(T)])
  BY <1>2
<1>9. Runs(h, policy, order)
  BY <1>7, <1>8, Zenon DEF Runs, FoldOf
<1>10. Runs(g, policy, order)
  BY <1>9, Zenon
<1>11. Credited(policy, order) = g[S]
  BY Zenon DEF Credited, FoldLeft, MapThenFoldSet, Runs
<1> QED BY <1>10, <1>11

(* The best so far and the next attempt give the best. *)
LEMMA CreditStep ==
    ASSUME IInv, NEW policy \in {"LATEST", "HIGHEST"}, NEW order \in SetToSeqs(Candidates),
           NEW T \in SUBSET (DOMAIN order), NEW x \in T, NEW c, BestOf(policy, order, T \ {x}, c)
    PROVE  BestOf(policy, order, T, Credit(policy, c, order[x]))
<1>1. subs \in Seq(Row) /\ \A i, j \in DOMAIN subs : subs[i].attempt = subs[j].attempt => i = j
  BY InvImpliesUsedOnce DEF IInv, Types, UsedOnce, AttemptNumbersDistinct
<1>2. \A k \in DOMAIN order : order[k] \in DOMAIN subs /\ order[k] # 0
  BY <1>1, Orders
<1>3. \A i \in DOMAIN subs : subs[i].attempt \in Nat /\ subs[i].score \in Nat
  <2>1. \A i \in DOMAIN subs : subs[i] \in Row
    BY <1>1
  <2> QED BY <2>1 DEF Row
<1>4. CASE c = 0
  <2>1. T \ {x} = {}
    BY <1>2, <1>4 DEF BestOf
  <2>2. T = {x} /\ Credit(policy, c, order[x]) = order[x]
    BY <1>4, <2>1 DEF Credit
  <2> QED BY <2>2 DEF BestOf
<1>5. CASE c # 0
  <2>1. /\ \E k \in T \ {x} : c = order[k]
        /\ \A k \in T \ {x} : order[k] = c \/ Better(policy, c, order[k])
    BY <1>5 DEF BestOf
  <2>2. c \in DOMAIN subs /\ order[x] \in DOMAIN subs
    BY <1>2, <2>1
  <2> DEFINE d == Credit(policy, c, order[x])
  <2>3. /\ d = c \/ d = order[x]
        /\ d = c \/ Better(policy, d, c)
        /\ d = order[x] \/ Better(policy, d, order[x])
    BY <1>1, <1>3, <1>5, <2>2 DEF Credit, Better
  <2>4. ASSUME NEW k \in T \ {x} PROVE order[k] = d \/ Better(policy, d, order[k])
    <3>1. order[k] \in DOMAIN subs /\ d \in DOMAIN subs
      BY <1>2, <2>2, <2>3
    <3> HIDE DEF d
    <3>2. \A p, q, r \in DOMAIN subs : Better(policy, p, q) /\ Better(policy, q, r) => Better(policy, p, r)
      BY <1>3 DEF Better
    <3> QED BY <2>1, <2>2, <2>3, <3>1, <3>2
  <2> HIDE DEF d
  <2> QED BY <2>1, <2>3, <2>4 DEF BestOf, d
<1> QED BY <1>4, <1>5

(* selectCreditedReleasedAttempt credits the best of the released attempts by the
   policy, the latest or the highest score with ties to the later attempt, in
   whatever order the rows are read and however many there are: none is better
   than the one it ends with, which is none only when nothing is released. *)
THEOREM CreditedIsBestAlways == Spec => []CreditedIsBest
<1>1. ASSUME IInv, NEW policy \in {"LATEST", "HIGHEST"}, NEW order \in SetToSeqs(Candidates)
      PROVE  BestOf(policy, order, DOMAIN order, Credited(policy, order))
  <2>1. subs \in Seq(Row)
    BY <1>1 DEF IInv, Types
  <2>2. PICK g : Runs(g, policy, order) /\ Credited(policy, order) = g[DOMAIN order]
    BY <2>1, FoldRuns
  <2>3. DOMAIN order = 1..Cardinality(Candidates) /\ Cardinality(Candidates) \in Nat
    BY <2>1, Orders
  <2> DEFINE G == {T \in SUBSET (DOMAIN order) : BestOf(policy, order, T, g[T])}
  <2>4. ASSUME NEW T \in SUBSET (DOMAIN order), \A x \in T : T \ {x} \in G PROVE T \in G
    <3>1. g[T] = IF T = {} THEN 0 ELSE Credit(policy, g[T \ {Max(T)}], order[Max(T)])
      BY <2>2, Zenon DEF Runs
    <3>2. CASE T = {}
      BY <3>1, <3>2 DEF BestOf
    <3>3. CASE T # {}
      <4>1. Max(T) \in T
        BY <2>3, <3>3, MaxChosen
      <4>2. BestOf(policy, order, T \ {Max(T)}, g[T \ {Max(T)}])
        BY <2>4, <4>1
      <4> QED BY <1>1, <3>1, <3>3, <4>1, <4>2, CreditStep
    <3> QED BY <3>2, <3>3
  <2>5. IsFiniteSet(DOMAIN order)
    BY <2>3, FS_Interval
  <2>6. \A T \in SUBSET (DOMAIN order) : T \in G
    <3> DEFINE S == DOMAIN order
    <3> HIDE DEF G, S
    <3> QED BY <2>4, <2>5, PartInduction DEF S
  <2> QED BY <2>2, <2>6
<1>2. IInv => CreditedIsBest
  <2> SUFFICES ASSUME IInv, NEW policy \in {"LATEST", "HIGHEST"}, NEW order \in SetToSeqs(Candidates)
               PROVE  LET c == Credited(policy, order) IN
                      /\ c = 0 <=> Candidates = {}
                      /\ \A i \in Candidates \ {c} : Better(policy, c, i)
    BY Zenon DEF CreditedIsBest, Better
  <2>1. /\ subs \in Seq(Row)
        /\ BestOf(policy, order, DOMAIN order, Credited(policy, order))
    BY <1>1 DEF IInv, Types
  <2>2. /\ \A i : i \in Candidates <=> \E k \in DOMAIN order : order[k] = i
        /\ Candidates \subseteq DOMAIN subs /\ 0 \notin DOMAIN subs
    BY <2>1, Orders
  <2> QED BY <2>1, <2>2 DEF BestOf
<1> QED BY <1>2, IInvAlways, PTL
=============================================================================
