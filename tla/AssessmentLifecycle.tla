------------------------ MODULE AssessmentLifecycle ------------------------
(***************************************************************************)
(* What the execution queue promises to the people who look at a target,   *)
(* with no jobs, workers, leases or attempts: each target moves along the  *)
(* lifecycle of its kind, a result is recorded exactly when a target       *)
(* finishes and never again, and an accepted target does not stay in the   *)
(* queue, unless it was put there when no attempt is left for it, ever.    *)
(* ExecutionQueue implements this specification.                           *)
(***************************************************************************)
EXTENDS Integers, FiniteSets

CONSTANTS
    Targets,     \* submissions, practice runs and review runs
    Mode,        \* Mode[t]: GRADED or COMPLETION submission, PRACTICE or REVIEW run
    Authors,     \* who may produce a result
    NoAuthor     \* no result recorded

VARIABLES
    life,        \* status of each target
    result,      \* who produced its result
    spent        \* targets that no attempt is left for, whatever anybody allows

lifeVars == <<life, result, spent>>

Statuses ==
    {"ABSENT", "QUEUED", "ASSESSING", "ASSESSED", "ASSESSMENT_FAILED",
     "FAILED_RESOLVED", "REVIEWED", "RELEASED",
     "RUNNING", "SUCCEEDED", "FAILED", "TIMEOUT"}

(* The moves of a submission, up to the end of its assessment. *)
AssessmentMoves ==
    {<<"ABSENT", "QUEUED">>, <<"QUEUED", "ASSESSING">>, <<"ASSESSING", "QUEUED">>,
     <<"ASSESSING", "ASSESSED">>, <<"ASSESSING", "ASSESSMENT_FAILED">>,
     <<"ASSESSMENT_FAILED", "FAILED_RESOLVED">>}

ReviewMoves == {<<"ASSESSED", "REVIEWED">>, <<"REVIEWED", "RELEASED">>}

Moves(t) ==
    CASE Mode[t] = "GRADED" ->
            AssessmentMoves \union ReviewMoves
                \union {<<"ASSESSMENT_FAILED", "QUEUED">>}
      [] Mode[t] = "COMPLETION" ->
            AssessmentMoves \union ReviewMoves
                \union {<<"FAILED_RESOLVED", "REVIEWED">>}
      [] OTHER ->
            {<<"ABSENT", "QUEUED">>, <<"QUEUED", "RUNNING">>, <<"RUNNING", "QUEUED">>}
                \union {<<"RUNNING", s>> : s \in {"SUCCEEDED", "TIMEOUT", "FAILED"}}
                \union {<<s, "ABSENT">> : s \in {"SUCCEEDED", "TIMEOUT", "FAILED"}}

InProgress == {"ASSESSING", "RUNNING"}
WithResult == {"ASSESSED", "SUCCEEDED", "TIMEOUT"}

Init == /\ life = [t \in Targets |-> "ABSENT"]
        /\ result = [t \in Targets |-> NoAuthor]
        /\ spent = {}

Finishes(t) == life[t] \in InProgress /\ life'[t] \in WithResult

(* Several targets may fail in one step (a sweep of expired leases), but at
   most one starts and at most one finishes.  A spent target stays in the
   queue for good if somebody puts it there. *)
Next ==
    /\ life' \in [Targets -> Statuses]
    /\ result' \in [Targets -> Authors \union {NoAuthor}]
    /\ spent \subseteq spent' /\ spent' \subseteq Targets
    /\ \A t \in spent : life[t] = "QUEUED" => life'[t] = "QUEUED"
    /\ \A t \in Targets :
           /\ life'[t] = life[t] \/ <<life[t], life'[t]>> \in Moves(t)
           /\ IF Finishes(t)
              THEN result[t] = NoAuthor /\ result'[t] \in Authors
              ELSE result'[t] = result[t]
    /\ \A s, t \in Targets :
           \/ s = t
           \/ life'[s] \notin InProgress \/ life'[s] = life[s]
           \/ life'[t] \notin InProgress \/ life'[t] = life[t]
    /\ \A s, t \in Targets : Finishes(s) /\ Finishes(t) => s = t

Safety == Init /\ [][Next]_lifeVars

Ended == {"ASSESSED", "ASSESSMENT_FAILED", "FAILED_RESOLVED", "REVIEWED", "RELEASED",
          "SUCCEEDED", "TIMEOUT", "FAILED", "ABSENT"}

(* A queued target leaves the queue for good or is handed to a person; or it
   is a submission that was retried when it was spent. *)
Progress ==
    \A t \in Targets : life[t] = "QUEUED" ~>
        \/ life[t] \in Ended
        \/ life[t] = "QUEUED" /\ t \in spent /\ Mode[t] = "GRADED"

Spec == Safety /\ Progress
=============================================================================
