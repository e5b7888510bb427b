--------------------------- MODULE Collaboration ----------------------------
(***************************************************************************)
(* The project task of a class, the teams its students form around their   *)
(* class-project repositories, the invitations into those teams, and the   *)
(* review of the repositories: repository.repository.ts with the guards of *)
(* repository.service.ts, project-task.repository.ts, and the gates of     *)
(* class.repository.ts.                                                    *)
(*                                                                         *)
(* Everything that writes repositories, teams and invitations runs at      *)
(* SERIALIZABLE, so that those transactions are atomic steps of each       *)
(* other.  The task, the class and the class membership are written at     *)
(* READ COMMITTED, which serializable transactions do not conflict with:   *)
(* a collaboration call goes by the task, the class, the membership and    *)
(* the clock it saw when it began.  view is such a call under way; it ends *)
(* with the operation it turns out to be.  One is enough, as the other     *)
(* serializable transactions take place at once.  The call fails, and      *)
(* changes nothing, where PostgreSQL refuses it: FOR UPDATE of a row that  *)
(* changed since the call began, and a foreign key to a row that was       *)
(* locked FOR UPDATE and changed.                                          *)
(*                                                                         *)
(* A team is named by its lead, who owns the repository and never leaves.  *)
(* Only PENDING invitations are kept.  A form that is stale (updatedAt)    *)
(* only refuses, so versions are left out; a feedback draft is its status. *)
(***************************************************************************)
EXTENDS Integers, FiniteSets

CONSTANTS
    Students, MaxTeamSize,
    ClockHeld   \* no invitation runs out by its seven days under a call

ASSUME CollaborationAssumption ==
    IsFiniteSet(Students) /\ MaxTeamSize \in Nat \ {0} /\ ClockHeld \in BOOLEAN

VARIABLES
    class,      \* status of the class
    task,       \* status of its project task
    due,        \* the deadline of the task has passed
    enrolled,   \* ACTIVE students with an ACTIVE membership of the class
    repo,       \* [Students -> the repository of the team this student leads]
    team,       \* [Students -> [Students -> team_members.status]]
    member,     \* [Students -> [Students -> repository_members.status]]
    pending,    \* pairs (lead, invitee) with a PENDING invitation
    lapsed,     \* those of them whose expiresAt has passed
    workspace,  \* students with a class workspace
    view        \* what a collaboration call under way goes by

rc == <<class, task, due, enrolled, lapsed>>
rows == <<repo, team, member, pending, workspace>>
vars == <<rc, rows, view>>

Reviews == {"WORKING", "READY_FOR_REVIEW", "CHANGES_REQUESTED", "APPROVED"}
Repository == [status : {"NONE", "ACTIVE", "ARCHIVED"}, review : Reviews, draft : BOOLEAN]
NoRepository == [status |-> "NONE", review |-> "WORKING", draft |-> FALSE]
Membership == {"NONE", "ACTIVE", "REMOVED"}

\* What a call sees that begins now.  The flags say what happened to the rows
\* of the task and the class afterwards: changed, or changed under FOR UPDATE.
Now == [under |-> FALSE, class |-> class, task |-> task, due |-> due,
        enrolled |-> enrolled, lapsed |-> lapsed,
        taskChanged |-> FALSE, taskFenced |-> FALSE, classChanged |-> FALSE]

NoView == [under |-> FALSE]
Views == {Now} \cup (IF view = NoView THEN {} ELSE {view})

\* The operation of v has committed; what else is under way goes on.
Done(v) == view' = IF v.under THEN NoView ELSE view
Touch(v, f) == IF v = NoView THEN v ELSE [v EXCEPT ![f] = TRUE]

TypeOK ==
    /\ class \in {"ACTIVE", "ARCHIVED"} /\ due \in BOOLEAN
    /\ task \in {"DRAFT", "PUBLISHED", "CLOSED", "ARCHIVED"}
    /\ enrolled \subseteq Students /\ workspace \subseteq Students
    /\ repo \in [Students -> Repository]
    /\ team \in [Students -> [Students -> Membership]]
    /\ member \in [Students -> [Students -> Membership]]
    /\ lapsed \subseteq pending /\ pending \subseteq Students \X Students

Init ==
    /\ class = "ACTIVE" /\ task = "DRAFT" /\ due = FALSE
    /\ enrolled = Students
    /\ repo = [o \in Students |-> NoRepository]
    /\ team = [o \in Students |-> [s \in Students |-> "NONE"]]
    /\ member = team
    /\ pending = {} /\ lapsed = {} /\ workspace = {}
    /\ view = NoView

-----------------------------------------------------------------------------
(* What the calls go by.                                                   *)

\* isCutoff: students may no longer act on the task.
Cutoff(v) == v.task # "PUBLISHED" \/ v.due
Open(v) == v.class = "ACTIVE" /\ ~Cutoff(v)

ActiveIn(o) == {s \in Students : team[o][s] = "ACTIVE"}
InATeam(s) == \E o \in Students : s \in ActiveIn(o)

\* Invitations of a team that are PENDING and unexpired by the clock of v.
Live(v, o) == {i \in pending \ v.lapsed : i[1] = o}

\* isOwner with the class membership canView requires.
OwnerMay(v, o) == repo[o].status # "NONE" /\ o \in v.enrolled

\* membershipInvariantBroken, over the project repositories.
Broken ==
    \E o \in Students : repo[o].status # "NONE" /\ (team[o] # member[o] \/ team[o][o] # "ACTIVE")

Join(o, s) ==
    /\ team' = [team EXCEPT ![o][s] = "ACTIVE"]
    /\ member' = [member EXCEPT ![o][s] = "ACTIVE"]

\* A new invitation of the same pair is not the one that had run out.
Renewed(v, i) == IF v = NoView THEN v ELSE [v EXCEPT !.lapsed = @ \ {i}]

-----------------------------------------------------------------------------
(* Repositories and teams.                                                 *)

CreateClassProject(v, o) ==
    /\ Open(v) /\ o \in v.enrolled /\ ~InATeam(o) /\ ~v.taskChanged
    /\ repo' = [repo EXCEPT ![o] = [NoRepository EXCEPT !.status = "ACTIVE"]]
    /\ Join(o, o)
    /\ UNCHANGED <<rc, pending, workspace>> /\ Done(v)

\* Mutant: the class row is not locked.
CreateClassWorkspaceUnlocked(v, s) ==
    /\ v.class = "ACTIVE" /\ s \in v.enrolled \ workspace
    /\ workspace' = workspace \cup {s}
    /\ UNCHANGED <<rc, repo, team, member, pending>> /\ Done(v)

\* The class row is locked FOR UPDATE, which fails if it changed meanwhile.
CreateClassWorkspace(v, s) ==
    /\ v.class = "ACTIVE" /\ s \in v.enrolled \ workspace /\ ~v.classChanged
    /\ workspace' = workspace \cup {s}
    /\ UNCHANGED <<rc, repo, team, member, pending>> /\ Done(v)

\* The service decides by the cutoff it read who may do this, the owner or the
\* instructor; the transaction looks at neither the task nor the clock again.
RemoveMember(v, o, s) ==
    /\ v.class = "ACTIVE" /\ (Cutoff(v) \/ OwnerMay(v, o))
    /\ repo[o].status = "ACTIVE" /\ s # o /\ member[o][s] = "ACTIVE"
    /\ team' = [team EXCEPT ![o][s] = "REMOVED"]
    /\ member' = [member EXCEPT ![o][s] = "REMOVED"]
    /\ UNCHANGED <<rc, repo, pending, workspace>> /\ Done(v)

Returning(v, o, s) ==
    /\ v.class = "ACTIVE" /\ (Cutoff(v) \/ OwnerMay(v, o))
    /\ repo[o].status = "ACTIVE" /\ member[o][s] = "REMOVED" /\ s \in v.enrolled

\* Mutant: places promised to pending invitations are not counted.
ReactivateMemberUncounted(v, o, s) ==
    /\ Returning(v, o, s) /\ ~InATeam(s)
    /\ Cardinality(ActiveIn(o)) < MaxTeamSize
    /\ Join(o, s) /\ UNCHANGED <<rc, repo, pending, workspace>> /\ Done(v)

ReactivateMember(v, o, s) ==
    /\ Returning(v, o, s) /\ ~InATeam(s)
    /\ Cardinality(ActiveIn(o)) + Cardinality(Live(v, o)) < MaxTeamSize
    /\ Join(o, s) /\ UNCHANGED <<rc, repo, pending, workspace>> /\ Done(v)

-----------------------------------------------------------------------------
(* Invitations.                                                            *)

\* createInvitation first expires what has run out for the whole task; that is
\* kept when the invitation itself is refused.  No invitation outlives the
\* deadline, even one that is made by a call that began before it.
Invitable(v, o, s) ==
    /\ s \in v.enrolled /\ ~InATeam(s) /\ member[o][s] # "ACTIVE"
    /\ \A p \in Students : <<p, s>> \notin pending \ v.lapsed
    /\ Cardinality(ActiveIn(o)) + Cardinality(Live(v, o)) < MaxTeamSize

CreateInvitation(v, o, s) ==
    LET swept == pending \ v.lapsed
        new == IF Invitable(v, o, s) THEN {<<o, s>>} ELSE {}
    IN  /\ OwnerMay(v, o) /\ Open(v) /\ repo[o].status = "ACTIVE" /\ ~v.taskFenced
        /\ pending' = swept \cup new
        /\ lapsed' = (lapsed \cap swept) \cup (IF due THEN new ELSE {})
        /\ view' = IF v.under THEN NoView
                   ELSE IF new = {} THEN view ELSE Renewed(view, <<o, s>>)
        /\ UNCHANGED <<class, task, due, enrolled, repo, team, member, workspace>>

Resolve(v, o, s) ==
    /\ pending' = pending \ {<<o, s>>} /\ lapsed' = lapsed \ {<<o, s>>}
    /\ UNCHANGED <<class, task, due, enrolled, repo, workspace>> /\ Done(v)

\* expirePendingInvitations of the call that finds its invitation expired.
ExpireInvitation(v, o, s) ==
    /\ <<o, s>> \in pending \cap v.lapsed
    /\ Resolve(v, o, s) /\ UNCHANGED <<team, member>>

AcceptInvitation(v, o, s) ==
    /\ <<o, s>> \in Live(v, o) /\ Open(v) /\ repo[o].status = "ACTIVE"
    /\ s \in v.enrolled /\ ~InATeam(s)
    /\ Cardinality(ActiveIn(o)) < MaxTeamSize
    /\ Join(o, s) /\ Resolve(v, o, s)

DeclineInvitation(v, o, s) ==
    /\ <<o, s>> \in Live(v, o) /\ ~Cutoff(v)
    /\ Resolve(v, o, s) /\ UNCHANGED <<team, member>>

\* The owner while the task is open, the instructor after the cutoff.
RevokeInvitation(v, o, s) ==
    /\ <<o, s>> \in Live(v, o) /\ (Cutoff(v) \/ OwnerMay(v, o))
    /\ Resolve(v, o, s) /\ UNCHANGED <<team, member>>

-----------------------------------------------------------------------------
(* Review.                                                                 *)

Review(v, o, review, draft) ==
    /\ repo' = [repo EXCEPT ![o].review = review, ![o].draft = draft]
    /\ UNCHANGED <<rc, team, member, pending, workspace>> /\ Done(v)

ReadyForReview(v, o) ==
    /\ OwnerMay(v, o) /\ Open(v) /\ repo[o].status = "ACTIVE"
    /\ repo[o].review \in {"WORKING", "CHANGES_REQUESTED"}
    /\ Review(v, o, "READY_FOR_REVIEW", repo[o].draft)

CreateFeedbackDraft(v, o) ==
    /\ repo[o].status = "ACTIVE" /\ ~repo[o].draft
    /\ Review(v, o, repo[o].review, TRUE)

RequestChanges(v, o) ==
    /\ Open(v) /\ repo[o].status = "ACTIVE" /\ repo[o].review = "READY_FOR_REVIEW"
    /\ repo[o].draft
    /\ Review(v, o, "CHANGES_REQUESTED", FALSE)

\* Also after the deadline and while the task is CLOSED; release says whether a
\* feedback draft goes with it.
Approve(v, o, release) ==
    /\ v.class = "ACTIVE" /\ v.task # "ARCHIVED"
    /\ repo[o].status = "ACTIVE" /\ repo[o].review = "READY_FOR_REVIEW"
    /\ release => repo[o].draft
    /\ Review(v, o, "APPROVED", repo[o].draft /\ ~release)

ArchiveRepository(v, o) ==
    /\ repo[o].status = "ACTIVE" /\ repo[o].review = "APPROVED" /\ Live(v, o) = {}
    /\ repo' = [repo EXCEPT ![o].status = "ARCHIVED"]
    /\ UNCHANGED <<rc, team, member, pending, workspace>> /\ Done(v)

RestoreRepository(v, o) ==
    /\ repo[o].status = "ARCHIVED" /\ v.task # "ARCHIVED" /\ v.class # "ARCHIVED"
    /\ repo' = [repo EXCEPT ![o].status = "ACTIVE"]
    /\ UNCHANGED <<rc, team, member, pending, workspace>> /\ Done(v)

-----------------------------------------------------------------------------
(* The task, the class and its members, at READ COMMITTED.                 *)

PublishTask ==
    /\ class = "ACTIVE" /\ task = "DRAFT" /\ ~due
    /\ task' = "PUBLISHED" /\ view' = Touch(view, "taskChanged")
    /\ UNCHANGED <<class, due, enrolled, lapsed, rows>>

CloseTask ==
    /\ class = "ACTIVE" /\ task = "PUBLISHED"
    /\ task' = "CLOSED" /\ view' = Touch(view, "taskChanged")
    /\ UNCHANGED <<class, due, enrolled, lapsed, rows>>

\* No project work of the class is unfinished by the clock of now.
Settled == pending \subseteq lapsed /\
           \A o \in Students : repo[o].status = "ACTIVE" => repo[o].review = "APPROVED"

\* Mutant: the task row is not locked, so inserts that refer to it do not wait.
ArchiveTaskUnlocked ==
    /\ class = "ACTIVE" /\ task = "CLOSED" /\ Settled /\ ~Broken
    /\ task' = "ARCHIVED" /\ view' = Touch(view, "taskChanged")
    /\ UNCHANGED <<class, due, enrolled, lapsed, rows>>

\* The task row is locked FOR UPDATE before the blockers are counted.
ArchiveTask ==
    /\ class = "ACTIVE" /\ task = "CLOSED" /\ Settled /\ ~Broken
    /\ task' = "ARCHIVED"
    /\ view' = Touch(Touch(view, "taskChanged"), "taskFenced")
    /\ UNCHANGED <<class, due, enrolled, lapsed, rows>>

RestoreTask ==
    /\ class = "ACTIVE" /\ task = "ARCHIVED"
    /\ task' = "CLOSED" /\ view' = Touch(view, "taskChanged")
    /\ UNCHANGED <<class, due, enrolled, lapsed, rows>>

\* The gates on activities and submissions of archive come on top of these.
ArchiveClass ==
    /\ class = "ACTIVE" /\ Settled /\ ~Broken
    /\ class' = "ARCHIVED" /\ view' = Touch(view, "classChanged")
    /\ UNCHANGED <<task, due, enrolled, lapsed, rows>>

RestoreClass ==
    /\ class = "ARCHIVED"
    /\ class' = "ACTIVE" /\ view' = Touch(view, "classChanged")
    /\ UNCHANGED <<task, due, enrolled, lapsed, rows>>

\* transition of class-member.repository.ts: the teams are not touched.
ChangeMembership(s) ==
    /\ class = "ACTIVE"
    /\ enrolled' = IF s \in enrolled THEN enrolled \ {s} ELSE enrolled \cup {s}
    /\ UNCHANGED <<class, task, due, lapsed, rows, view>>

\* Time: an invitation runs out after seven days, all of them at the deadline.
Lapse(i) ==
    /\ i \in pending \ lapsed /\ (ClockHeld => view = NoView)
    /\ lapsed' = lapsed \cup {i}
    /\ UNCHANGED <<class, task, due, enrolled, rows, view>>

Deadline ==
    /\ ~due /\ due' = TRUE /\ lapsed' = pending
    /\ UNCHANGED <<class, task, enrolled, rows, view>>

\* A collaboration call reads the clock and takes the snapshot of its transaction.
Begin ==
    /\ view = NoView /\ view' = [Now EXCEPT !.under = TRUE]
    /\ UNCHANGED <<rc, rows>>

Collaborate(v) ==
    \E o \in Students :
        \/ CreateClassProject(v, o) \/ CreateClassWorkspace(v, o)
        \/ ReadyForReview(v, o) \/ CreateFeedbackDraft(v, o) \/ RequestChanges(v, o)
        \/ \E release \in BOOLEAN : Approve(v, o, release)
        \/ ArchiveRepository(v, o) \/ RestoreRepository(v, o)
        \/ \E s \in Students \ {o} :
              \/ RemoveMember(v, o, s) \/ ReactivateMember(v, o, s)
              \/ CreateInvitation(v, o, s) \/ ExpireInvitation(v, o, s)
              \/ AcceptInvitation(v, o, s) \/ DeclineInvitation(v, o, s)
              \/ RevokeInvitation(v, o, s)

Next ==
    \/ \E v \in Views : Collaborate(v)
    \/ PublishTask \/ CloseTask \/ ArchiveTask \/ RestoreTask
    \/ ArchiveClass \/ RestoreClass \/ Deadline \/ Begin
    \/ \E s \in Students : ChangeMembership(s)
    \/ \E i \in pending : Lapse(i)

Spec == Init /\ [][Next]_vars

-----------------------------------------------------------------------------
(* Properties.                                                             *)

\* A team never has more students than the task allows, and, where no invitation
\* runs out under a call, its students and the invitations it has out never exceed
\* that number either, whatever order invitations, acceptances, expiries, removals
\* and reactivations come in (repository.repository.ts:1097, :1163, :1220).  A call
\* that accepts an invitation just before it runs out may find its place promised
\* to somebody else: the last invitation is then refused.
TeamCapacity ==
    \A o \in Students :
        /\ Cardinality(ActiveIn(o)) <= MaxTeamSize
        /\ ClockHeld =>
             Cardinality(ActiveIn(o)) + Cardinality({i \in pending \ lapsed : i[1] = o})
                 <= MaxTeamSize

\* A student is active in at most one team of the task, whether as a lead, as an
\* invited member or as a member who was removed and taken back.
OneTeamPerStudent ==
    \A s \in Students : Cardinality({o \in Students : s \in ActiveIn(o)}) <= 1

\* A team is neither too large nor shares a student with another; and all
\* variables keep their types.
SeatsRespected == TypeOK /\ TeamCapacity /\ OneTeamPerStudent

\* An archived task has no invitation out and no repository that still waits for
\* its review: a call that began while the task was open does not add one
\* (project-task.repository.ts archive locks the row its inserts refer to).
ArchivedTaskSettled == task = "ARCHIVED" => Settled

\* A repository is archived with its review approved and no invitation out, and
\* stays so: nothing reopens the review of an approved repository.
ArchivedRepositorySettled ==
    \A o \in Students : repo[o].status = "ARCHIVED" =>
        repo[o].review = "APPROVED" /\ \A i \in pending \ lapsed : i[1] # o

\* The workspaces of an archived class do not become more, also when the call
\* that creates one began before the class was archived: it locks the class row.
\* createClassProject and createInvitation do not, so such a call may still give
\* an archived class a team, a repository or an invitation.
NoWorkspaceAfterArchive ==
    [][\A s \in workspace' \ workspace : class = "ACTIVE"]_vars

\* What archiving closes, per level: an archived task and an archived repository
\* have nothing pending, however late a call; an archived class gains no
\* workspace, which is all that can be said of it (see above).
ArchivesStand ==
    /\ [](ArchivedTaskSettled /\ ArchivedRepositorySettled)
    /\ NoWorkspaceAfterArchive
=============================================================================
