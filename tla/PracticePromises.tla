-------------------------- MODULE PracticePromises --------------------------
(***************************************************************************)
(* What a student is promised of a practice workspace, said of the state   *)
(* that is shown to him: the status of his jobs and the branch.  Practice  *)
(* is the mechanism that keeps it.                                         *)
(***************************************************************************)
EXTENDS Naturals, Sequences

CONSTANT
    Initialize    \* the job that starts the branch

VARIABLES
    eligible,     \* what practiceEligible answers
    initialized,  \* the workspace has its initializedAt
    saves,        \* activity_practice_git_jobs
    branch,       \* practice/<id>: the origins of its commits
    misread       \* jobs whose receipt was there and was read as absent

(* What a job is told is what happened, whoever claims it after which crash: it
   has SUCCEEDED only with its commit on the branch, after the head its editor
   showed, and FAILED or CONFLICTED only without, unless a Git command that read
   its receipt failed, which the writer takes for no receipt. *)
PracticeToldIsTrue ==
    \A j \in DOMAIN saves :
        /\ saves[j].status = "SUCCEEDED" =>
              LET n == saves[j].expected + 1 IN n \in DOMAIN branch /\ branch[n] = j
        /\ saves[j].status \in {"FAILED", "CONFLICTED"} =>
              j \notin {branch[i] : i \in DOMAIN branch} \/ j \in misread

(* The branch is started by its initial job and by nothing else, so that job,
   which enter does not queue again after a conflict, never conflicts unless its
   receipt was misread: who may practise comes to a workspace. *)
Startable ==
    /\ saves[Initialize].status = "CONFLICTED" => Initialize \in misread
    /\ initialized => branch # <<>> /\ branch[1] = Initialize

(* Jobs and branch agree, and the branch can be started. *)
PracticeConsistent == PracticeToldIsTrue /\ Startable

(* A job, or a push, adds to the branch only while the student may practise. *)
PublishedWhileEligible == [][eligible]_branch
=============================================================================
