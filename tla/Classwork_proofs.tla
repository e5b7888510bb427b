------------------------- MODULE Classwork_proofs ---------------------------
(***************************************************************************)
(* Theorems about the work of a class: Collaboration, for any students and *)
(* any size of a team, and below WeightedGrading, for any budget and any   *)
(* number of weights, and ActivityAuthoring, for any calls and inputs that *)
(* the schemas accept.                                                     *)
(*                                                                         *)
(* Collaboration.  Every call is Sound: what it takes for run out has run  *)
(* out, and the rows it locked are as it saw them; so what it judged by    *)
(* them still holds when it writes.  Founded ties the tables together: a   *)
(* repository exists as long as its lead is in its team, and the two       *)
(* tables of members agree. SizeInv bounds the teams under any timing;     *)
(* PromiseInv bounds members and live invitations together, as long as no  *)
(* invitation runs out under a call.                                       *)
(*                                                                         *)
(* WeightedGrading.  A sum is a fold over a finite domain; what it adds up *)
(* to is shown by induction over the parts of the domain.                  *)
(*                                                                         *)
(* ActivityAuthoring.  What a call found stands as long as the row has the *)
(* version it expects; Graded says of the row how its points fit together, *)
(* Drawn of a call that what it is about to write was divided for the row  *)
(* of that version.                                                        *)
(***************************************************************************)
EXTENDS Collaboration, ActivityPromises, FiniteSetTheorems, WellFoundedInduction,
        TLAPS

CONSTANTS Authors, Drafts, Edits, TestLists, MaxVersion
VARIABLES topic, call, input, seen, cases

\* The class is the same in both modules.
A == INSTANCE ActivityAuthoring

-----------------------------------------------------------------------------
(* The inductive invariant.                                                *)

\* What a call goes by: a snapshot of the task, the class and the clock.
Call == [under : BOOLEAN, class : {"ACTIVE", "ARCHIVED"},
         task : {"DRAFT", "PUBLISHED", "CLOSED", "ARCHIVED"}, due : BOOLEAN,
         enrolled : SUBSET Students, lapsed : SUBSET (Students \X Students),
         taskChanged : BOOLEAN, taskFenced : BOOLEAN, classChanged : BOOLEAN]

\* The invitations of a team that are out by the clock of now.
Out(o) == {i \in pending \ lapsed : i[1] = o}

\* What a call may rely on, however old its snapshot is: what it takes for run
\* out has run out, and the rows it locked are as it saw them.
Sound(v) ==
    /\ v \in Call
    /\ v.lapsed \cap pending \subseteq lapsed
    /\ ~v.taskChanged => v.task = task
    /\ ~v.taskFenced /\ task = "ARCHIVED" => v.task = "ARCHIVED"
    /\ ~v.classChanged => v.class = class

ViewSound == view # NoView => view.under /\ Sound(view)

\* The deadline takes every invitation with it.
DueIsFinal == due => lapsed = pending

\* A repository that exists has its lead, who never leaves; before that there is
\* nobody in its team and nobody invited.  Both tables of members agree.
Founded ==
    /\ member = team
    /\ \A o \in Students :
         IF repo[o].status = "NONE"
         THEN /\ \A s \in Students : team[o][s] = "NONE"
              /\ \A i \in pending : i[1] # o
         ELSE team[o][o] = "ACTIVE"

OneTeam ==
    \A o, p, s \in Students : team[o][s] = "ACTIVE" /\ team[p][s] = "ACTIVE" => o = p

Archived == ArchivedTaskSettled /\ ArchivedRepositorySettled

IInv ==
    /\ TypeOK /\ Founded
    /\ DueIsFinal /\ ViewSound
    /\ OneTeam /\ Archived

\* A call sees what has run out, as nothing runs out under it but by the deadline.
ClockSeen == ~due /\ view # NoView => lapsed \subseteq view.lapsed

SizeInv == IInv /\ \A o \in Students : Cardinality(ActiveIn(o)) <= MaxTeamSize

PromiseInv ==
    /\ SizeInv
    /\ ClockSeen
    /\ \A o \in Students : Cardinality(ActiveIn(o)) + Cardinality(Out(o)) <= MaxTeamSize
-----------------------------------------------------------------------------
(* Calls and steps.                                                        *)

USE DEF vars, rc, rows

\* Every call, whether it began earlier or begins now, may rely on what it sees.
LEMMA CallsSound ==
    ASSUME TypeOK, ViewSound, NEW v \in Views
    PROVE  Sound(v)
<1>1. CASE v = Now
  <2>1. Now \in Call
    BY DEF TypeOK, Now, Call
  <2>. QED BY <1>1, <2>1 DEF Sound, Now
<1>2. CASE v = view /\ view # NoView
  BY <1>2 DEF ViewSound
<1>. QED BY <1>1, <1>2 DEF Views

\* What a call sees out is more than what is.
LEMMA OutIsLive ==
    ASSUME NEW v, Sound(v), NEW o
    PROVE  Out(o) \subseteq Live(v, o)
BY DEF Sound, Out, Live

\* An operation that committed leaves the call under way as it was, or was it.
LEMMA DoneKeeps ==
    ASSUME NEW v, Done(v)
    PROVE  view' = NoView \/ view' = view
BY DEF Done

\* One repository's review or status moves on; an approved review stays.
Reviewed(v, o, r) ==
    /\ r \in Repository /\ repo[o].status # "NONE" /\ r.status # "NONE"
    /\ repo[o].review = "APPROVED" => r.review = "APPROVED"
    /\ r.status = "ARCHIVED" => r.review = "APPROVED" /\ Live(v, o) = {}
    /\ repo' = [repo EXCEPT ![o] = r]
    /\ UNCHANGED <<rc, team, member, pending, workspace>> /\ Done(v)

LEMMA ReviewSteps ==
    ASSUME TypeOK, NEW v, NEW o \in Students,
           \/ ReadyForReview(v, o) \/ CreateFeedbackDraft(v, o) \/ RequestChanges(v, o)
           \/ \E release \in BOOLEAN : Approve(v, o, release)
           \/ ArchiveRepository(v, o) \/ RestoreRepository(v, o)
    PROVE  \E r : Reviewed(v, o, r)
<1>0. repo \in [Students -> Repository] /\ repo[o] \in Repository
  BY DEF TypeOK
<1>1. ASSUME NEW review \in Reviews, NEW draft \in BOOLEAN, Review(v, o, review, draft),
             repo[o].status = "ACTIVE", repo[o].review = "APPROVED" => review = "APPROVED"
      PROVE  \E r : Reviewed(v, o, r)
  <2>. DEFINE r == [repo[o] EXCEPT !.review = review, !.draft = draft]
  <2>1. r \in Repository /\ r.status = "ACTIVE" /\ r.review = review
    BY <1>0, <1>1 DEF Repository
  <2>2. repo' = [repo EXCEPT ![o] = r]
    BY <1>0, <1>1 DEF Review, Repository
  <2>3. Reviewed(v, o, r)
    BY <1>1, <2>1, <2>2 DEF Reviewed, Review
  <2>. QED BY <2>3
<1>2. ASSUME ReadyForReview(v, o) PROVE \E r : Reviewed(v, o, r)
  BY <1>0, <1>1, <1>2 DEF ReadyForReview, Reviews, Repository
<1>3. ASSUME CreateFeedbackDraft(v, o) PROVE \E r : Reviewed(v, o, r)
  BY <1>0, <1>1, <1>3 DEF CreateFeedbackDraft, Repository
<1>4. ASSUME RequestChanges(v, o) PROVE \E r : Reviewed(v, o, r)
  BY <1>0, <1>1, <1>4 DEF RequestChanges, Reviews, Repository
<1>5. ASSUME NEW release \in BOOLEAN, Approve(v, o, release) PROVE \E r : Reviewed(v, o, r)
  BY <1>0, <1>1, <1>5 DEF Approve, Reviews, Repository
<1>6. ASSUME NEW goal \in {"ACTIVE", "ARCHIVED"}, repo[o].status # "NONE",
             repo' = [repo EXCEPT ![o].status = goal],
             goal = "ARCHIVED" => repo[o].review = "APPROVED" /\ Live(v, o) = {},
             UNCHANGED <<rc, team, member, pending, workspace>>, Done(v)
      PROVE  \E r : Reviewed(v, o, r)
  <2>. DEFINE r == [repo[o] EXCEPT !.status = goal]
  <2>1. r \in Repository /\ r.status = goal /\ r.review = repo[o].review
    BY <1>0 DEF Repository
  <2>2. repo' = [repo EXCEPT ![o] = r]
    BY <1>0, <1>6 DEF Repository
  <2>3. Reviewed(v, o, r)
    BY <1>6, <2>1, <2>2 DEF Reviewed
  <2>. QED BY <2>3
<1>7. ASSUME ArchiveRepository(v, o) PROVE \E r : Reviewed(v, o, r)
  BY <1>6, <1>7 DEF ArchiveRepository
<1>8. ASSUME RestoreRepository(v, o) PROVE \E r : Reviewed(v, o, r)
  BY <1>6, <1>8 DEF RestoreRepository
<1>. QED BY <1>2, <1>3, <1>4, <1>5, <1>7, <1>8

\* An invitation is answered, taken back or found to have run out.
Withdrawn(v, o, s) == Resolve(v, o, s) /\ UNCHANGED <<team, member>>

\* The task or the class gets another status.
Ruled ==
    \/ PublishTask \/ CloseTask \/ ArchiveTask \/ RestoreTask \/ ArchiveClass \/ RestoreClass

\* The kinds of steps there are.
LEMMA Kinds ==
    ASSUME TypeOK, Next
    PROVE  \/ \E v \in Views, o \in Students :
                 \/ CreateClassProject(v, o) \/ CreateClassWorkspace(v, o)
                 \/ \E r : Reviewed(v, o, r)
                 \/ \E s \in Students \ {o} :
                       \/ RemoveMember(v, o, s) \/ ReactivateMember(v, o, s)
                       \/ CreateInvitation(v, o, s) \/ AcceptInvitation(v, o, s)
                       \/ Withdrawn(v, o, s)
           \/ Ruled \/ Deadline \/ Begin
           \/ \E s \in Students : ChangeMembership(s)
           \/ \E i \in pending : Lapse(i)
<1>1. ASSUME NEW v \in Views, NEW o \in Students, NEW s \in Students \ {o},
             \/ ExpireInvitation(v, o, s) \/ DeclineInvitation(v, o, s)
             \/ RevokeInvitation(v, o, s)
      PROVE  Withdrawn(v, o, s)
  BY <1>1 DEF ExpireInvitation, DeclineInvitation, RevokeInvitation, Withdrawn
<1>2. ASSUME NEW v \in Views, Collaborate(v)
      PROVE  \E o \in Students :
                 \/ CreateClassProject(v, o) \/ CreateClassWorkspace(v, o)
                 \/ \E r : Reviewed(v, o, r)
                 \/ \E s \in Students \ {o} :
                       \/ RemoveMember(v, o, s) \/ ReactivateMember(v, o, s)
                       \/ CreateInvitation(v, o, s) \/ AcceptInvitation(v, o, s)
                       \/ Withdrawn(v, o, s)
  <2>1. PICK o \in Students :
          \/ CreateClassProject(v, o) \/ CreateClassWorkspace(v, o)
          \/ ReadyForReview(v, o) \/ CreateFeedbackDraft(v, o) \/ RequestChanges(v, o)
          \/ \E release \in BOOLEAN : Approve(v, o, release)
          \/ ArchiveRepository(v, o) \/ RestoreRepository(v, o)
          \/ \E s \in Students \ {o} :
                \/ RemoveMember(v, o, s) \/ ReactivateMember(v, o, s)
                \/ CreateInvitation(v, o, s) \/ ExpireInvitation(v, o, s)
                \/ AcceptInvitation(v, o, s) \/ DeclineInvitation(v, o, s)
                \/ RevokeInvitation(v, o, s)
    BY <1>2 DEF Collaborate
  <2>. QED BY <2>1, <1>1, ReviewSteps
<1>. QED BY <1>2 DEF Next, Ruled


-----------------------------------------------------------------------------
(* The invariant under any timing.                                         *)

USE CollaborationAssumption

LEMMA InitIInv == Init => IInv
<1>. SUFFICES ASSUME Init PROVE IInv
  OBVIOUS
<1>1. TypeOK
  BY DEF Init, TypeOK, NoRepository, Repository, Reviews, Membership
<1>2. Founded /\ DueIsFinal /\ ViewSound /\ OneTeam /\ Archived
  BY DEF Init, Founded, DueIsFinal, ViewSound, OneTeam, Archived, ArchivedTaskSettled,
         ArchivedRepositorySettled, NoRepository
<1>. QED BY <1>1, <1>2 DEF IInv

\* Operations that touch neither clock nor invitations leave calls sound.
LEMMA QuietViews ==
    ASSUME ViewSound, UNCHANGED <<class, task, pending, lapsed>>,
           view' = NoView \/ view' = view
    PROVE  ViewSound'
<1>1. NoView' = NoView
  BY DEF NoView
<1>. QED BY <1>1 DEF ViewSound, Sound, Call

\* Somebody joins a team who is in none.
LEMMA JoinStep ==
    ASSUME TypeOK, Founded, OneTeam, NEW o \in Students, NEW s \in Students,
           Join(o, s), ~InATeam(s)
    PROVE  /\ team' \in [Students -> [Students -> Membership]] /\ member' = team'
           /\ OneTeam'
           /\ \A p, q \in Students :
                team'[p][q] = IF p = o /\ q = s THEN "ACTIVE" ELSE team[p][q]
<1>1. \A p, q \in Students : team'[p][q] = IF p = o /\ q = s THEN "ACTIVE" ELSE team[p][q]
  BY DEF Join, TypeOK
<1>2. team' \in [Students -> [Students -> Membership]] /\ member' = team'
  BY DEF Join, TypeOK, Founded, Membership
<1>3. OneTeam'
  BY <1>1 DEF OneTeam, InATeam, ActiveIn
<1>. QED BY <1>1, <1>2, <1>3

LEMMA FoundingStep ==
    ASSUME IInv, NEW v \in Views, NEW o \in Students, CreateClassProject(v, o)
    PROVE  IInv'
<1>1. Sound(v)
  BY CallsSound DEF IInv
<1>2. task # "ARCHIVED"
  BY <1>1 DEF CreateClassProject, Open, Cutoff, Sound
<1>3. repo[o].status = "NONE"
  BY DEF CreateClassProject, InATeam, ActiveIn, IInv, Founded
<1>4. /\ team' \in [Students -> [Students -> Membership]] /\ member' = team' /\ OneTeam'
      /\ \A p, q \in Students :
           team'[p][q] = IF p = o /\ q = o THEN "ACTIVE" ELSE team[p][q]
  BY JoinStep DEF CreateClassProject, IInv
<1>5. repo' \in [Students -> Repository] /\ repo'[o].status = "ACTIVE"
      /\ \A p \in Students \ {o} : repo'[p] = repo[p]
  BY DEF CreateClassProject, IInv, TypeOK, NoRepository, Repository, Reviews
<1>6. TypeOK'
  BY <1>4, <1>5 DEF IInv, TypeOK, CreateClassProject
<1>7. Founded'
  <2>1. team'[o][o] = "ACTIVE" /\ \A p \in Students \ {o}, q \in Students : team'[p][q] = team[p][q]
    BY <1>4
  <2>2. pending' = pending
    BY DEF CreateClassProject
  <2>3. ASSUME NEW p \in Students
        PROVE  IF repo'[p].status = "NONE"
               THEN /\ \A s \in Students : team'[p][s] = "NONE"
                    /\ \A i \in pending' : i[1] # p
               ELSE team'[p][p] = "ACTIVE"
    <3>1. CASE p = o
      BY <1>5, <2>1, <3>1
    <3>2. CASE p # o
      <4>1. repo'[p] = repo[p] /\ \A s \in Students : team'[p][s] = team[p][s]
        BY <1>5, <2>1, <3>2
      <4>. QED BY <2>2, <4>1 DEF IInv, Founded
    <3>. QED BY <3>1, <3>2
  <2>. QED BY <1>4, <2>3 DEF Founded
<1>8. DueIsFinal' /\ ViewSound'
  BY QuietViews, DoneKeeps DEF IInv, DueIsFinal, CreateClassProject
<1>9. Archived'
  BY <1>2, <1>5 DEF IInv, Archived, ArchivedTaskSettled, ArchivedRepositorySettled,
                    CreateClassProject
<1>. QED BY <1>4, <1>6, <1>7, <1>8, <1>9 DEF IInv

LEMMA WorkspaceStep ==
    ASSUME IInv, NEW v \in Views, NEW o \in Students, CreateClassWorkspace(v, o)
    PROVE  IInv'
<1>1. UNCHANGED <<rc, repo, team, member, pending>> /\ workspace' = workspace \cup {o}
  BY DEF CreateClassWorkspace
<1>2. TypeOK' /\ Founded' /\ DueIsFinal' /\ OneTeam'
  BY <1>1 DEF IInv, TypeOK, Founded, DueIsFinal, OneTeam
<1>3. ViewSound'
  BY <1>1, QuietViews, DoneKeeps DEF IInv, CreateClassWorkspace
<1>4. Archived'
  BY <1>1 DEF IInv, Archived, ArchivedTaskSettled, Settled, ArchivedRepositorySettled
<1>. QED BY <1>2, <1>3, <1>4 DEF IInv

LEMMA ReviewStep ==
    ASSUME IInv, NEW v \in Views, NEW o \in Students, NEW r, Reviewed(v, o, r)
    PROVE  IInv'
<1>1. /\ UNCHANGED <<rc, team, member, pending, workspace>>
      /\ repo'[o] = r /\ \A p \in Students \ {o} : repo'[p] = repo[p]
      /\ repo' \in [Students -> Repository]
  BY DEF Reviewed, IInv, TypeOK
<1>2. TypeOK' /\ DueIsFinal' /\ OneTeam'
  BY <1>1 DEF IInv, TypeOK, DueIsFinal, OneTeam
<1>3. Founded'
  BY <1>1 DEF IInv, Founded, Reviewed
<1>4. ViewSound'
  BY <1>1, QuietViews, DoneKeeps DEF IInv, Reviewed
<1>5. Out(o) \subseteq Live(v, o)
  BY CallsSound, OutIsLive DEF IInv
<1>6. ArchivedTaskSettled'
  BY <1>1 DEF IInv, Archived, ArchivedTaskSettled, Settled, ArchivedRepositorySettled,
              Reviewed, TypeOK, Repository
<1>7. ArchivedRepositorySettled'
  BY <1>1, <1>5 DEF IInv, Archived, ArchivedRepositorySettled, Reviewed, Out
<1>. QED BY <1>2, <1>3, <1>4, <1>6, <1>7 DEF IInv, Archived

LEMMA RemoveStep ==
    ASSUME IInv, NEW v \in Views, NEW o \in Students, NEW s \in Students \ {o},
           RemoveMember(v, o, s)
    PROVE  /\ IInv'
           /\ \A p, q \in Students :
                team'[p][q] = IF p = o /\ q = s THEN "REMOVED" ELSE team[p][q]
<1>1. /\ UNCHANGED <<rc, repo, pending, workspace>>
      /\ team' \in [Students -> [Students -> Membership]] /\ member' = team'
      /\ \A p, q \in Students :
           team'[p][q] = IF p = o /\ q = s THEN "REMOVED" ELSE team[p][q]
  BY DEF RemoveMember, IInv, TypeOK, Founded, Membership
<1>2. TypeOK' /\ DueIsFinal'
  BY <1>1 DEF IInv, TypeOK, DueIsFinal
<1>3. Founded' /\ OneTeam'
  BY <1>1 DEF IInv, Founded, OneTeam, RemoveMember
<1>4. ViewSound'
  BY <1>1, QuietViews, DoneKeeps DEF IInv, RemoveMember
<1>5. Archived'
  BY <1>1 DEF IInv, Archived, ArchivedTaskSettled, Settled, ArchivedRepositorySettled
<1>. QED BY <1>1, <1>2, <1>3, <1>4, <1>5 DEF IInv

LEMMA ReactivateStep ==
    ASSUME IInv, NEW v \in Views, NEW o \in Students, NEW s \in Students \ {o},
           ReactivateMember(v, o, s)
    PROVE  /\ IInv'
           /\ \A p, q \in Students :
                team'[p][q] = IF p = o /\ q = s THEN "ACTIVE" ELSE team[p][q]
<1>1. /\ UNCHANGED <<rc, repo, pending, workspace>> /\ repo[o].status = "ACTIVE"
      /\ Join(o, s) /\ ~InATeam(s)
  BY DEF ReactivateMember, Returning
<1>2. /\ team' \in [Students -> [Students -> Membership]] /\ member' = team' /\ OneTeam'
      /\ \A p, q \in Students :
           team'[p][q] = IF p = o /\ q = s THEN "ACTIVE" ELSE team[p][q]
  BY <1>1, JoinStep DEF IInv
<1>3. TypeOK' /\ DueIsFinal'
  BY <1>1, <1>2 DEF IInv, TypeOK, DueIsFinal
<1>4. Founded'
  BY <1>1, <1>2 DEF IInv, Founded
<1>5. ViewSound'
  BY <1>1, QuietViews, DoneKeeps DEF IInv, ReactivateMember
<1>6. Archived'
  BY <1>1 DEF IInv, Archived, ArchivedTaskSettled, Settled, ArchivedRepositorySettled
<1>. QED BY <1>2, <1>3, <1>4, <1>5, <1>6 DEF IInv


\* Invitations that are gone are gone for every call.
LEMMA FewerPending ==
    ASSUME ViewSound, UNCHANGED <<class, task>>, view' = NoView \/ view' = view,
           pending' \subseteq pending, lapsed \cap pending' \subseteq lapsed'
    PROVE  ViewSound'
<1>1. NoView' = NoView
  BY DEF NoView
<1>. QED BY <1>1 DEF ViewSound, Sound, Call

LEMMA CreateInvitationStep ==
    ASSUME IInv, NEW v \in Views, NEW o \in Students, NEW s \in Students \ {o},
           CreateInvitation(v, o, s)
    PROVE  IInv' /\ task # "ARCHIVED"
<1>. DEFINE swept == pending \ v.lapsed
            new == IF Invitable(v, o, s) THEN {<<o, s>>} ELSE {}
<1>1. /\ UNCHANGED <<class, task, due, enrolled, repo, team, member, workspace>>
      /\ pending' = swept \cup new
      /\ lapsed' = (lapsed \cap swept) \cup (IF due THEN new ELSE {})
      /\ view' = IF v.under THEN NoView
                 ELSE IF new = {} THEN view ELSE Renewed(view, <<o, s>>)
      /\ repo[o].status = "ACTIVE" /\ Open(v) /\ ~v.taskFenced
  BY DEF CreateInvitation
<1>2. Sound(v) /\ new \subseteq {<<o, s>>}
  BY CallsSound DEF IInv
<1>3. task # "ARCHIVED"
  BY <1>1, <1>2 DEF Open, Cutoff, Sound
<1>4. TypeOK'
  BY <1>1, <1>2 DEF IInv, TypeOK
<1>5. Founded' /\ OneTeam'
  <2>1. \A i \in pending' : i \in pending \/ i[1] = o
    BY <1>1, <1>2
  <2>. QED BY <1>1, <2>1 DEF IInv, Founded, OneTeam
<1>6. DueIsFinal'
  BY <1>1 DEF IInv, DueIsFinal
<1>7. ViewSound'
  <2>1. NoView' = NoView
    BY DEF NoView
  <2>2. CASE v.under
    BY <1>1, <2>1, <2>2 DEF ViewSound
  <2>3. CASE ~v.under /\ new = {}
    <3>1. view' = view /\ pending' \subseteq pending /\ lapsed \cap pending' \subseteq lapsed'
      BY <1>1, <2>3
    <3>. QED BY <1>1, <3>1, FewerPending DEF IInv
  <2>4. CASE ~v.under /\ new # {} /\ view # NoView
    <3>1. new = {<<o, s>>} /\ view' = [view EXCEPT !.lapsed = @ \ {<<o, s>>}]
      BY <1>1, <2>4 DEF Renewed
    <3>2. Sound(view) /\ view.under
      BY <2>4 DEF IInv, ViewSound
    <3>3. view' \in Call /\ view'.lapsed = view.lapsed \ {<<o, s>>} /\ view'.under
          /\ view'.task = view.task /\ view'.class = view.class
          /\ view'.taskChanged = view.taskChanged /\ view'.taskFenced = view.taskFenced
          /\ view'.classChanged = view.classChanged
      BY <3>1, <3>2 DEF Sound, Call
    <3>4. view'.lapsed \cap pending' \subseteq lapsed'
      BY <1>1, <3>1, <3>2, <3>3 DEF Sound
    <3>5. Call' = Call
      BY DEF Call
    <3>6. Sound(view)'
      BY <1>1, <3>2, <3>3, <3>4, <3>5 DEF Sound
    <3>. QED BY <3>3, <3>6 DEF ViewSound
  <2>5. CASE ~v.under /\ new # {} /\ view = NoView
    BY <1>1, <2>1, <2>5 DEF Renewed, ViewSound
  <2>. QED BY <2>2, <2>3, <2>4, <2>5
<1>8. Archived'
  <2>1. \A i \in pending' \ lapsed' : i \in pending \ lapsed \/ i[1] = o
    BY <1>1, <1>2
  <2>. QED BY <1>1, <1>3, <2>1 DEF IInv, Archived, ArchivedTaskSettled, ArchivedRepositorySettled
<1>. QED BY <1>3, <1>4, <1>5, <1>6, <1>7, <1>8 DEF IInv

LEMMA WithdrawnStep ==
    ASSUME IInv, NEW v \in Views, NEW o \in Students, NEW s \in Students \ {o},
           Withdrawn(v, o, s)
    PROVE  IInv'
<1>1. /\ UNCHANGED <<class, task, due, enrolled, repo, team, member, workspace>>
      /\ pending' = pending \ {<<o, s>>} /\ lapsed' = lapsed \ {<<o, s>>}
  BY DEF Withdrawn, Resolve
<1>2. TypeOK' /\ DueIsFinal' /\ OneTeam' /\ Founded'
  BY <1>1 DEF IInv, TypeOK, DueIsFinal, OneTeam, Founded
<1>3. ViewSound'
  BY <1>1, FewerPending, DoneKeeps DEF IInv, Withdrawn, Resolve
<1>4. Archived'
  BY <1>1 DEF IInv, Archived, ArchivedTaskSettled, Settled, ArchivedRepositorySettled
<1>. QED BY <1>2, <1>3, <1>4 DEF IInv

LEMMA AcceptStep ==
    ASSUME IInv, NEW v \in Views, NEW o \in Students, NEW s \in Students \ {o},
           AcceptInvitation(v, o, s)
    PROVE  /\ IInv'
           /\ \A p, q \in Students :
                team'[p][q] = IF p = o /\ q = s THEN "ACTIVE" ELSE team[p][q]
<1>1. /\ UNCHANGED <<class, task, due, enrolled, repo, workspace>>
      /\ pending' = pending \ {<<o, s>>} /\ lapsed' = lapsed \ {<<o, s>>}
      /\ repo[o].status = "ACTIVE" /\ Join(o, s) /\ ~InATeam(s)
  BY DEF AcceptInvitation, Resolve
<1>2. /\ team' \in [Students -> [Students -> Membership]] /\ member' = team' /\ OneTeam'
      /\ \A p, q \in Students :
           team'[p][q] = IF p = o /\ q = s THEN "ACTIVE" ELSE team[p][q]
  BY <1>1, JoinStep DEF IInv
<1>3. TypeOK' /\ DueIsFinal'
  BY <1>1, <1>2 DEF IInv, TypeOK, DueIsFinal
<1>4. Founded'
  BY <1>1, <1>2 DEF IInv, Founded
<1>5. ViewSound'
  BY <1>1, FewerPending, DoneKeeps DEF IInv, AcceptInvitation, Resolve
<1>6. Archived'
  BY <1>1 DEF IInv, Archived, ArchivedTaskSettled, Settled, ArchivedRepositorySettled
<1>. QED BY <1>2, <1>3, <1>4, <1>5, <1>6 DEF IInv

\* The rows of the task and the class change: calls under way learn of it by the
\* locks they need.
LEMMA RuledStep ==
    ASSUME IInv, Ruled
    PROVE  IInv'
<1>1. UNCHANGED <<due, enrolled, lapsed, rows>>
  BY DEF Ruled, PublishTask, CloseTask, ArchiveTask, RestoreTask, ArchiveClass, RestoreClass
<1>2. class' \in {"ACTIVE", "ARCHIVED"} /\ task' \in {"DRAFT", "PUBLISHED", "CLOSED", "ARCHIVED"}
  BY DEF Ruled, PublishTask, CloseTask, ArchiveTask, RestoreTask, ArchiveClass, RestoreClass,
         IInv, TypeOK
<1>3. TypeOK' /\ Founded' /\ DueIsFinal' /\ OneTeam'
  BY <1>1, <1>2 DEF IInv, TypeOK, Founded, DueIsFinal, OneTeam
<1>4. task' = "ARCHIVED" => Settled
  BY DEF Ruled, PublishTask, CloseTask, ArchiveTask, RestoreTask, ArchiveClass, RestoreClass,
         IInv, Archived, ArchivedTaskSettled
<1>5. Archived'
  BY <1>1, <1>4 DEF IInv, Archived, ArchivedTaskSettled, Settled, ArchivedRepositorySettled
<1>6. ViewSound'
  <2>0. NoView' = NoView /\ Call' = Call
    BY DEF NoView, Call
  <2>1. CASE view = NoView
    BY <2>0, <2>1 DEF Ruled, PublishTask, CloseTask, ArchiveTask, RestoreTask, ArchiveClass,
                      RestoreClass, Touch, ViewSound
  <2>2. CASE view # NoView
    <3>0. Sound(view) /\ view.under /\ view \in Call
      BY <2>2 DEF IInv, ViewSound, Sound
    <3>1. ASSUME view' = [view EXCEPT !.taskChanged = TRUE], task' # "ARCHIVED", class' = class
          PROVE  ViewSound'
      BY <1>1, <2>0, <3>0, <3>1 DEF ViewSound, Sound, Call
    <3>2. ASSUME ArchiveTask PROVE ViewSound'
      <4>1. [view EXCEPT !.taskChanged = TRUE] # NoView
        <5>1. [view EXCEPT !.taskChanged = TRUE].under = TRUE
          BY <3>0 DEF Call
        <5>. QED BY <5>1 DEF NoView
      <4>2. view' = [[view EXCEPT !.taskChanged = TRUE] EXCEPT !.taskFenced = TRUE]
            /\ class' = class
        BY <2>2, <3>2, <4>1 DEF ArchiveTask, Touch
      <4>. QED BY <1>1, <2>0, <3>0, <4>2 DEF ViewSound, Sound, Call
    <3>3. ASSUME PublishTask \/ CloseTask \/ RestoreTask PROVE ViewSound'
      BY <2>2, <3>1, <3>3 DEF PublishTask, CloseTask, RestoreTask, Touch
    <3>4. ASSUME ArchiveClass \/ RestoreClass PROVE ViewSound'
      <4>1. view' = [view EXCEPT !.classChanged = TRUE] /\ task' = task
        BY <2>2, <3>4 DEF ArchiveClass, RestoreClass, Touch
      <4>. QED BY <1>1, <2>0, <3>0, <4>1 DEF ViewSound, Sound, Call
    <3>. QED BY <3>2, <3>3, <3>4 DEF Ruled
  <2>. QED BY <2>1, <2>2
<1>. QED BY <1>3, <1>5, <1>6 DEF IInv

\* Time passes, students come and go, a call begins.
LEMMA OtherStep ==
    ASSUME IInv,
           \/ Deadline \/ Begin
           \/ \E s \in Students : ChangeMembership(s)
           \/ \E i \in pending : Lapse(i)
    PROVE  IInv'
<1>0. lapsed \subseteq pending /\ enrolled \subseteq Students /\ due \in BOOLEAN
      /\ (due => lapsed = pending)
  BY DEF IInv, TypeOK, DueIsFinal
<1>1. /\ UNCHANGED <<class, task, rows>> /\ lapsed \subseteq lapsed' /\ lapsed' \subseteq pending
      /\ enrolled' \subseteq Students /\ due' \in BOOLEAN /\ (due' => lapsed' = pending)
  <2>1. CASE Deadline
    BY <1>0, <2>1 DEF Deadline
  <2>2. CASE Begin
    BY <1>0, <2>2 DEF Begin
  <2>3. ASSUME NEW s \in Students, ChangeMembership(s)
        PROVE  /\ UNCHANGED <<class, task, rows, lapsed, due>> /\ enrolled' \subseteq Students
    BY <1>0, <2>3 DEF ChangeMembership
  <2>4. ASSUME NEW i \in pending, Lapse(i)
        PROVE  /\ UNCHANGED <<class, task, rows, enrolled, due>> /\ ~due
               /\ lapsed' = lapsed \cup {i}
    BY <1>0, <2>4 DEF Lapse
  <2>. QED BY <1>0, <2>1, <2>2, <2>3, <2>4
<1>2. TypeOK' /\ Founded' /\ DueIsFinal' /\ OneTeam'
  BY <1>1 DEF IInv, TypeOK, Founded, DueIsFinal, OneTeam
<1>3. Archived'
  BY <1>1 DEF IInv, Archived, ArchivedTaskSettled, Settled, ArchivedRepositorySettled
<1>4. ViewSound'
  <2>0. NoView' = NoView /\ Call' = Call
    BY DEF NoView, Call
  <2>1. CASE view' = view
    BY <1>1, <2>0, <2>1 DEF IInv, ViewSound, Sound
  <2>2. CASE Begin
    <3>1. Now \in Call
      BY DEF IInv, TypeOK, Now, Call
    <3>2. view' = [Now EXCEPT !.under = TRUE] /\ UNCHANGED <<rc, rows>>
      BY <2>2 DEF Begin
    <3>3. view' \in Call /\ view'.under /\ view'.lapsed = lapsed /\ view'.task = task
          /\ view'.class = class
      BY <3>1, <3>2 DEF Call, Now
    <3>. QED BY <2>0, <3>2, <3>3 DEF ViewSound, Sound
  <2>3. view' = view \/ Begin
    BY DEF Deadline, ChangeMembership, Lapse
  <2>. QED BY <2>1, <2>2, <2>3
<1>. QED BY <1>2, <1>3, <1>4 DEF IInv

LEMMA StepIInv == IInv /\ [Next]_vars => IInv'
<1>1. ASSUME IInv, Next PROVE IInv'
  <2>1. \/ \E v \in Views, o \in Students :
                 \/ CreateClassProject(v, o) \/ CreateClassWorkspace(v, o)
                 \/ \E r : Reviewed(v, o, r)
                 \/ \E s \in Students \ {o} :
                       \/ RemoveMember(v, o, s) \/ ReactivateMember(v, o, s)
                       \/ CreateInvitation(v, o, s) \/ AcceptInvitation(v, o, s)
                       \/ Withdrawn(v, o, s)
        \/ Ruled \/ Deadline \/ Begin
        \/ \E s \in Students : ChangeMembership(s)
        \/ \E i \in pending : Lapse(i)
    BY <1>1, Kinds DEF IInv
  <2>. QED BY <1>1, <2>1, FoundingStep, WorkspaceStep, ReviewStep, RemoveStep, ReactivateStep,
              CreateInvitationStep, AcceptStep, WithdrawnStep, RuledStep, OtherStep
<1>2. ASSUME IInv, UNCHANGED vars PROVE IInv'
  <2>1. UNCHANGED <<class, task, due, enrolled, lapsed, repo, team, member, pending, workspace, view>>
    BY <1>2
  <2>2. TypeOK' /\ Founded' /\ DueIsFinal' /\ OneTeam'
    BY <1>2, <2>1 DEF IInv, TypeOK, Founded, DueIsFinal, OneTeam
  <2>3. Archived'
    BY <1>2, <2>1 DEF IInv, Archived, ArchivedTaskSettled, Settled, ArchivedRepositorySettled
  <2>4. ViewSound'
    BY <1>2, <2>1, QuietViews DEF IInv
  <2>. QED BY <2>2, <2>3, <2>4 DEF IInv
<1>. QED BY <1>1, <1>2


-----------------------------------------------------------------------------
(* The size of a team.                                                     *)

LEMMA Finite ==
    ASSUME TypeOK, NEW o
    PROVE  /\ IsFiniteSet(ActiveIn(o)) /\ Cardinality(ActiveIn(o)) \in Nat
           /\ IsFiniteSet(pending) /\ IsFiniteSet(Out(o)) /\ Cardinality(Out(o)) \in Nat
<1>1. IsFiniteSet(Students)
  OBVIOUS
<1>2. ActiveIn(o) \subseteq Students
  BY DEF ActiveIn
<1>3. IsFiniteSet(ActiveIn(o))
  BY <1>1, <1>2, FS_Subset
<1>4. IsFiniteSet(Students \X Students)
  BY <1>1, FS_Product
<1>5. pending \subseteq Students \X Students /\ Out(o) \subseteq pending
  BY DEF TypeOK, Out
<1>6. IsFiniteSet(pending)
  BY <1>4, <1>5, FS_Subset
<1>7. IsFiniteSet(Out(o))
  BY <1>5, <1>6, FS_Subset
<1>. QED BY <1>3, <1>6, <1>7, FS_CardinalityType

\* The team of o with one more student.
LEMMA OneMore ==
    ASSUME TypeOK, NEW o \in Students, NEW s \in Students,
           \A p, q \in Students :
                team'[p][q] = IF p = o /\ q = s THEN "ACTIVE" ELSE team[p][q]
    PROVE  /\ Cardinality(ActiveIn(o)') <= Cardinality(ActiveIn(o)) + 1
           /\ \A p \in Students \ {o} : ActiveIn(p)' = ActiveIn(p)
<1>1. ActiveIn(o)' = ActiveIn(o) \cup {s}
  BY DEF ActiveIn
<1>2. \A p \in Students \ {o} : ActiveIn(p)' = ActiveIn(p)
  BY DEF ActiveIn
<1>3. Cardinality(ActiveIn(o) \cup {s}) <= Cardinality(ActiveIn(o)) + 1
  <2>1. Cardinality(ActiveIn(o) \cup {s}) =
          IF s \in ActiveIn(o) THEN Cardinality(ActiveIn(o)) ELSE Cardinality(ActiveIn(o)) + 1
    BY Finite, FS_AddElement
  <2>. QED BY <2>1, Finite
<1>. QED BY <1>1, <1>2, <1>3

\* A team of one student less.
LEMMA OneFewer ==
    ASSUME TypeOK, NEW o \in Students, NEW s \in Students,
           \A p, q \in Students :
                team'[p][q] = IF p = o /\ q = s THEN "REMOVED" ELSE team[p][q]
    PROVE  \A p \in Students : Cardinality(ActiveIn(p)') <= Cardinality(ActiveIn(p))
<1>. SUFFICES ASSUME NEW p \in Students
              PROVE  Cardinality(ActiveIn(p)') <= Cardinality(ActiveIn(p))
  OBVIOUS
<1>1. ActiveIn(p)' \subseteq ActiveIn(p)
  BY DEF ActiveIn
<1>. QED BY <1>1, Finite, FS_Subset

\* A team is founded by its lead alone.
LEMMA LeadAlone ==
    ASSUME IInv, NEW v \in Views, NEW o \in Students, CreateClassProject(v, o)
    PROVE  /\ ActiveIn(o)' = {o} /\ ActiveIn(o) = {} /\ Out(o)' = {}
           /\ \A p \in Students \ {o} : ActiveIn(p)' = ActiveIn(p)
           /\ \A p : Out(p)' = Out(p)
<1>1. repo[o].status = "NONE"
  BY DEF CreateClassProject, InATeam, ActiveIn, IInv, Founded
<1>2. UNCHANGED <<pending, lapsed>>
  BY DEF CreateClassProject
<1>3. \A p, q \in Students : team'[p][q] = IF p = o /\ q = o THEN "ACTIVE" ELSE team[p][q]
  BY DEF CreateClassProject, Join, IInv, TypeOK
<1>4. (\A s \in Students : team[o][s] = "NONE") /\ (\A i \in pending : i[1] # o)
  BY <1>1 DEF IInv, Founded
<1>5. ActiveIn(o)' = {o} /\ ActiveIn(o) = {}
  BY <1>3, <1>4 DEF ActiveIn
<1>6. \A p \in Students \ {o} : ActiveIn(p)' = ActiveIn(p)
  BY <1>3 DEF ActiveIn
<1>7. Out(o)' = {} /\ \A p : Out(p)' = Out(p)
  BY <1>2, <1>4 DEF Out
<1>. QED BY <1>5, <1>6, <1>7

LEMMA StepSize == SizeInv /\ [Next]_vars => SizeInv'
<1>. SUFFICES ASSUME SizeInv, [Next]_vars
              PROVE  \A p \in Students : Cardinality(ActiveIn(p)') <= MaxTeamSize
  BY StepIInv DEF SizeInv, ActiveIn
<1>0. IInv /\ TypeOK /\ \A p \in Students : Cardinality(ActiveIn(p)) <= MaxTeamSize
  BY DEF SizeInv, IInv
<1>1. ASSUME team' = team PROVE \A p \in Students : Cardinality(ActiveIn(p)') <= MaxTeamSize
  <2>1. \A p : ActiveIn(p)' = ActiveIn(p)
    BY <1>1 DEF ActiveIn
  <2>. QED BY <2>1, <1>0
<1>2. ASSUME NEW v \in Views, NEW o \in Students, CreateClassProject(v, o)
      PROVE  \A p \in Students : Cardinality(ActiveIn(p)') <= MaxTeamSize
  <2>1. ActiveIn(o)' = {o} /\ \A p \in Students \ {o} : ActiveIn(p)' = ActiveIn(p)
    BY <1>0, <1>2, LeadAlone
  <2>2. Cardinality({o}) = 1
    BY FS_Singleton
  <2>. QED BY <1>0, <2>1, <2>2
<1>3. ASSUME NEW v \in Views, NEW o \in Students, NEW s \in Students \ {o},
             ReactivateMember(v, o, s) \/ AcceptInvitation(v, o, s)
      PROVE  \A p \in Students : Cardinality(ActiveIn(p)') <= MaxTeamSize
  <2>1. \A p, q \in Students : team'[p][q] = IF p = o /\ q = s THEN "ACTIVE" ELSE team[p][q]
    BY <1>0, <1>3, ReactivateStep, AcceptStep
  <2>2. Cardinality(ActiveIn(o)) < MaxTeamSize
    <3>1. CASE AcceptInvitation(v, o, s)
      BY <3>1 DEF AcceptInvitation
    <3>2. CASE ReactivateMember(v, o, s)
      <4>1. Cardinality(ActiveIn(o)) + Cardinality(Live(v, o)) < MaxTeamSize
        BY <3>2 DEF ReactivateMember
      <4>2. Cardinality(Live(v, o)) \in Nat
        <5>1. Live(v, o) \subseteq pending /\ IsFiniteSet(pending)
          BY <1>0, Finite DEF Live
        <5>2. IsFiniteSet(Live(v, o))
          BY <5>1, FS_Subset
        <5>. QED BY <5>2, FS_CardinalityType
      <4>. QED BY <4>1, <4>2, <1>0, Finite
    <3>. QED BY <1>3, <3>1, <3>2
  <2>3. Cardinality(ActiveIn(o)') <= Cardinality(ActiveIn(o)) + 1
        /\ \A p \in Students \ {o} : ActiveIn(p)' = ActiveIn(p)
    BY <1>0, <2>1, OneMore
  <2>4. Cardinality(ActiveIn(o)) \in Nat /\ Cardinality(ActiveIn(o)') \in Nat
    <3>1. TypeOK'
      BY <1>0, StepIInv DEF IInv
    <3>2. IsFiniteSet(ActiveIn(o)')
      <4>1. ActiveIn(o)' \subseteq Students
        BY DEF ActiveIn
      <4>. QED BY <4>1, FS_Subset
    <3>. QED BY <1>0, <3>2, Finite, FS_CardinalityType
  <2>5. Cardinality(ActiveIn(o)') <= MaxTeamSize
    BY <2>2, <2>3, <2>4
  <2>. QED BY <1>0, <2>3, <2>5
<1>4. ASSUME NEW v \in Views, NEW o \in Students, NEW s \in Students \ {o}, RemoveMember(v, o, s)
      PROVE  \A p \in Students : Cardinality(ActiveIn(p)') <= MaxTeamSize
  <2>1. \A p \in Students : Cardinality(ActiveIn(p)') <= Cardinality(ActiveIn(p))
    <3>1. \A p, q \in Students : team'[p][q] = IF p = o /\ q = s THEN "REMOVED" ELSE team[p][q]
      BY <1>0, <1>4, RemoveStep
    <3>2. s \in Students
      OBVIOUS
    <3>. QED BY <1>0, <3>1, <3>2, OneFewer
  <2>2. \A p \in Students : Cardinality(ActiveIn(p)') \in Nat /\ Cardinality(ActiveIn(p)) \in Nat
    <3>1. \A p \in Students : ActiveIn(p)' \subseteq Students
      BY DEF ActiveIn
    <3>2. \A p \in Students : IsFiniteSet(ActiveIn(p)')
      BY <3>1, FS_Subset
    <3>. QED BY <3>2, <1>0, Finite, FS_CardinalityType
  <2>. QED BY <2>1, <2>2, <1>0
<1>5. CASE UNCHANGED vars
  BY <1>1, <1>5
<1>6. CASE Next
  <2>1. \/ \E v \in Views, o \in Students :
                 \/ CreateClassProject(v, o) \/ CreateClassWorkspace(v, o)
                 \/ \E r : Reviewed(v, o, r)
                 \/ \E s \in Students \ {o} :
                       \/ RemoveMember(v, o, s) \/ ReactivateMember(v, o, s)
                       \/ CreateInvitation(v, o, s) \/ AcceptInvitation(v, o, s)
                       \/ Withdrawn(v, o, s)
        \/ Ruled \/ Deadline \/ Begin
        \/ \E s \in Students : ChangeMembership(s)
        \/ \E i \in pending : Lapse(i)
    BY <1>0, <1>6, Kinds
  <2>2. ASSUME NEW v \in Views, NEW o \in Students, NEW s \in Students, NEW r, NEW i,
               \/ CreateClassWorkspace(v, o) \/ Reviewed(v, o, r)
               \/ CreateInvitation(v, o, s) \/ Withdrawn(v, o, s)
               \/ Deadline \/ Begin \/ ChangeMembership(s) \/ Lapse(i)
        PROVE  team' = team
    BY <2>2 DEF CreateClassWorkspace, Reviewed, CreateInvitation, Withdrawn, Deadline, Begin,
                ChangeMembership, Lapse
  <2>3. Ruled => team' = team
    BY DEF Ruled, PublishTask, CloseTask, ArchiveTask, RestoreTask, ArchiveClass, RestoreClass
  <2>4. ASSUME NEW v \in Views, NEW o \in Students,
                 \/ CreateClassProject(v, o) \/ CreateClassWorkspace(v, o)
                 \/ \E r : Reviewed(v, o, r)
                 \/ \E s \in Students \ {o} :
                       \/ RemoveMember(v, o, s) \/ ReactivateMember(v, o, s)
                       \/ CreateInvitation(v, o, s) \/ AcceptInvitation(v, o, s)
                       \/ Withdrawn(v, o, s)
        PROVE  \A p \in Students : Cardinality(ActiveIn(p)') <= MaxTeamSize
    BY <2>4, <2>2, <1>1, <1>2, <1>3, <1>4
  <2>5. ASSUME \/ Ruled \/ Deadline \/ Begin
               \/ \E s \in Students : ChangeMembership(s)
               \/ \E i \in pending : Lapse(i)
        PROVE  team' = team
    BY <2>5, <2>3 DEF Deadline, Begin, ChangeMembership, Lapse
  <2>. QED BY <2>1, <2>4, <2>5, <1>1
<1>. QED BY <1>5, <1>6


\* What is promised: places of the team and invitations that are out.
LEMMA StepPromise ==
    ASSUME ClockHeld, PromiseInv, [Next]_vars
    PROVE  PromiseInv'
<1>. DEFINE Seats(o) == Cardinality(ActiveIn(o)) + Cardinality(Out(o))
            WithinSize(o) == Seats(o)' <= MaxTeamSize
<1>0. /\ IInv /\ TypeOK /\ SizeInv /\ ClockSeen
      /\ \A o \in Students : Seats(o) <= MaxTeamSize
  BY DEF PromiseInv, SizeInv, IInv
<1>. SUFFICES ClockSeen' /\ \A p \in Students : WithinSize(p)
  <2>1. SizeInv'
    BY <1>0, StepSize
  <2>. QED BY <2>1 DEF PromiseInv
<1>a. IInv' /\ TypeOK'
  <2>1. IInv'
    BY <1>0, StepIInv
  <2>. QED BY <2>1 DEF IInv
<1>b. /\ \A o : Cardinality(ActiveIn(o)) \in Nat /\ Cardinality(Out(o)) \in Nat
      /\ \A o : IsFiniteSet(Out(o)) /\ IsFiniteSet(ActiveIn(o)) /\ IsFiniteSet(pending)
  BY <1>0, Finite
<1>c. \A o : IsFiniteSet(Out(o)') /\ IsFiniteSet(ActiveIn(o)')
             /\ Cardinality(ActiveIn(o)') \in Nat /\ Cardinality(Out(o)') \in Nat
  <2>1. IsFiniteSet(Students \X Students)
    BY FS_Product
  <2>2. \A o : ActiveIn(o)' \subseteq Students /\ Out(o)' \subseteq Students \X Students
    BY <1>a DEF ActiveIn, Out, TypeOK
  <2>3. \A o : IsFiniteSet(Out(o)') /\ IsFiniteSet(ActiveIn(o)')
    BY <2>1, <2>2, FS_Subset
  <2>. QED BY <2>3, FS_CardinalityType
\* Nobody joins and nothing new is out.
<1>1. ASSUME NEW o \in Students, Out(o)' \subseteq Out(o),
             Cardinality(ActiveIn(o)') <= Cardinality(ActiveIn(o))
      PROVE  WithinSize(o)
  <2>1. Cardinality(Out(o)') <= Cardinality(Out(o))
    BY <1>b, <1>1, FS_Subset
  <2>2. Seats(o) <= MaxTeamSize
    BY <1>0
  <2>. QED BY <1>1, <1>b, <1>c, <2>1, <2>2
<1>2. ASSUME UNCHANGED <<due, lapsed>>, view' = NoView \/ view' = view PROVE ClockSeen'
  <2>1. NoView' = NoView
    BY DEF NoView
  <2>. QED BY <1>0, <1>2, <2>1 DEF ClockSeen
\* A call sees out what is, before the deadline.
<1>3. ASSUME NEW v \in Views, NEW o, ~due PROVE Live(v, o) = Out(o)
  <2>1. lapsed \subseteq v.lapsed
    BY <1>0, <1>3 DEF ClockSeen, Views, Now
  <2>. QED BY <1>0, <2>1, CallsSound, OutIsLive DEF IInv, Live, Out, Sound
<1>4. ASSUME NEW v \in Views, NEW o \in Students, CreateClassProject(v, o)
      PROVE  ClockSeen' /\ \A p \in Students : WithinSize(p)
  <2>1. /\ ActiveIn(o)' = {o} /\ Out(o)' = {}
        /\ \A p \in Students \ {o} : ActiveIn(p)' = ActiveIn(p)
        /\ \A p : Out(p)' = Out(p)
    BY <1>0, <1>4, LeadAlone
  <2>2. Cardinality({o}) = 1 /\ Cardinality({}) = 0
    BY FS_Singleton, FS_EmptySet
  <2>3. WithinSize(o)
    BY <2>1, <2>2
  <2>4. \A p \in Students \ {o} : WithinSize(p)
    BY <2>1, <1>0
  <2>5. ClockSeen'
    BY <1>2, <1>4, DoneKeeps DEF CreateClassProject
  <2>. QED BY <2>3, <2>4, <2>5
<1>5. ASSUME NEW v \in Views, NEW o \in Students, NEW s \in Students \ {o},
             RemoveMember(v, o, s)
      PROVE  ClockSeen' /\ \A p \in Students : WithinSize(p)
  <2>1. \A p, q \in Students : team'[p][q] = IF p = o /\ q = s THEN "REMOVED" ELSE team[p][q]
    BY <1>0, <1>5, RemoveStep
  <2>2. s \in Students
    OBVIOUS
  <2>3. \A p \in Students : Cardinality(ActiveIn(p)') <= Cardinality(ActiveIn(p))
    BY <1>0, <2>1, <2>2, OneFewer
  <2>4. UNCHANGED <<due, pending, lapsed>> /\ Done(v)
    BY <1>5 DEF RemoveMember
  <2>5. \A p : Out(p)' = Out(p)
    BY <2>4 DEF Out
  <2>. QED BY <1>1, <1>2, <2>3, <2>4, <2>5, DoneKeeps
<1>6. ASSUME NEW v \in Views, NEW o \in Students, NEW s \in Students \ {o},
             ReactivateMember(v, o, s)
      PROVE  ClockSeen' /\ \A p \in Students : WithinSize(p)
  <2>1. \A p, q \in Students : team'[p][q] = IF p = o /\ q = s THEN "ACTIVE" ELSE team[p][q]
    BY <1>0, <1>6, ReactivateStep
  <2>2. /\ Cardinality(ActiveIn(o)') <= Cardinality(ActiveIn(o)) + 1
        /\ \A p \in Students \ {o} : ActiveIn(p)' = ActiveIn(p)
    BY <1>0, <2>1, OneMore
  <2>3. /\ UNCHANGED <<due, pending, lapsed>> /\ Done(v)
        /\ Cardinality(ActiveIn(o)) + Cardinality(Live(v, o)) < MaxTeamSize
    BY <1>6 DEF ReactivateMember, Returning
  <2>4. \A p : Out(p)' = Out(p)
    BY <2>3 DEF Out
  <2>5. Cardinality(Out(o)) <= Cardinality(Live(v, o)) /\ Cardinality(Live(v, o)) \in Nat
    <3>1. Out(o) \subseteq Live(v, o)
      BY <1>0, CallsSound, OutIsLive DEF IInv
    <3>2. Live(v, o) \subseteq pending
      BY DEF Live
    <3>3. IsFiniteSet(Live(v, o))
      BY <1>b, <3>2, FS_Subset
    <3>. QED BY <3>1, <3>3, FS_Subset, FS_CardinalityType
  <2>6. WithinSize(o)
    BY <1>b, <1>c, <2>2, <2>3, <2>4, <2>5
  <2>7. \A p \in Students \ {o} : WithinSize(p)
    BY <1>0, <2>2, <2>4
  <2>. QED BY <1>2, <2>3, <2>6, <2>7, DoneKeeps
<1>7. ASSUME NEW v \in Views, NEW o \in Students, NEW s \in Students \ {o},
             AcceptInvitation(v, o, s)
      PROVE  ClockSeen' /\ \A p \in Students : WithinSize(p)
  <2>1. \A p, q \in Students : team'[p][q] = IF p = o /\ q = s THEN "ACTIVE" ELSE team[p][q]
    BY <1>0, <1>7, AcceptStep
  <2>2. /\ Cardinality(ActiveIn(o)') <= Cardinality(ActiveIn(o)) + 1
        /\ \A p \in Students \ {o} : ActiveIn(p)' = ActiveIn(p)
    BY <1>0, <2>1, OneMore
  <2>3. /\ due' = due /\ Done(v) /\ <<o, s>> \in Live(v, o)
        /\ pending' = pending \ {<<o, s>>} /\ lapsed' = lapsed \ {<<o, s>>}
        /\ Cardinality(ActiveIn(o)) < MaxTeamSize
    BY <1>7 DEF AcceptInvitation, Resolve
  <2>4. \A p : Out(p)' = Out(p) \ {<<o, s>>}
    BY <2>3 DEF Out
  <2>5. WithinSize(o)
    <3>1. CASE due
      <4>1. Out(o) = {}
        BY <1>0, <3>1 DEF IInv, DueIsFinal, Out
      <4>2. Cardinality(Out(o)') = 0
        BY <2>4, <4>1, FS_EmptySet
      <4>. QED BY <1>b, <1>c, <2>2, <2>3, <4>2
    <3>2. CASE ~due
      <4>1. <<o, s>> \in Out(o)
        BY <1>3, <2>3, <3>2
      <4>2. Cardinality(Out(o)') = Cardinality(Out(o)) - 1
        BY <1>b, <2>4, <4>1, FS_RemoveElement
      <4>3. Seats(o) <= MaxTeamSize
        BY <1>0
      <4>. QED BY <1>b, <1>c, <2>2, <4>2, <4>3
    <3>. QED BY <3>1, <3>2
  <2>6. \A p \in Students \ {o} : WithinSize(p)
    <3>. SUFFICES ASSUME NEW p \in Students \ {o} PROVE WithinSize(p)
      OBVIOUS
    <3>1. Cardinality(ActiveIn(p)') <= Cardinality(ActiveIn(p))
      BY <1>b, <2>2
    <3>. QED BY <1>1, <2>4, <3>1
  <2>7. ClockSeen'
    <3>1. NoView' = NoView
      BY DEF NoView
    <3>. QED BY <1>0, <2>3, <3>1, DoneKeeps DEF ClockSeen
  <2>. QED BY <2>5, <2>6, <2>7
<1>8. ASSUME NEW v \in Views, NEW o \in Students, NEW s \in Students \ {o},
             CreateInvitation(v, o, s)
      PROVE  ClockSeen' /\ \A p \in Students : WithinSize(p)
  <2>. DEFINE swept == pending \ v.lapsed
              new == IF Invitable(v, o, s) THEN {<<o, s>>} ELSE {}
  <2>1. /\ UNCHANGED <<due, team>>
        /\ pending' = swept \cup new
        /\ lapsed' = (lapsed \cap swept) \cup (IF due THEN new ELSE {})
        /\ view' = IF v.under THEN NoView
                   ELSE IF new = {} THEN view ELSE Renewed(view, <<o, s>>)
    BY <1>8 DEF CreateInvitation
  <2>2. Sound(v)
    BY <1>0, CallsSound DEF IInv
  <2>3. \A p : ActiveIn(p)' = ActiveIn(p)
    BY <2>1 DEF ActiveIn
  <2>4. \A p : Out(p)' \subseteq Out(p) \cup {i \in new : i[1] = p}
    BY <2>1, <2>2 DEF Out, Sound
  <2>5. \A p \in Students : WithinSize(p)
    <3>. SUFFICES ASSUME NEW p \in Students PROVE WithinSize(p)
      OBVIOUS
    <3>1. CASE p # o \/ new = {}
      <4>1. Out(p)' \subseteq Out(p)
        BY <2>4, <3>1
      <4>2. Cardinality(ActiveIn(p)') <= Cardinality(ActiveIn(p))
        BY <1>b, <2>3
      <4>. QED BY <1>1, <4>1, <4>2
    <3>2. CASE p = o /\ new # {}
      <4>1. Cardinality(ActiveIn(o)) + Cardinality(Live(v, o)) < MaxTeamSize
            /\ new = {<<o, s>>}
        BY <3>2 DEF Invitable
      <4>2. Out(o)' \subseteq Live(v, o) \cup {<<o, s>>}
        BY <2>2, <2>4, <4>1, OutIsLive
      <4>3. IsFiniteSet(Live(v, o))
        <5>1. Live(v, o) \subseteq pending
          BY DEF Live
        <5>. QED BY <1>b, <5>1, FS_Subset
      <4>4. /\ IsFiniteSet(Live(v, o) \cup {<<o, s>>})
            /\ Cardinality(Live(v, o) \cup {<<o, s>>}) =
                 IF <<o, s>> \in Live(v, o) THEN Cardinality(Live(v, o))
                 ELSE Cardinality(Live(v, o)) + 1
        BY <4>3, FS_AddElement
      <4>5. Cardinality(Out(o)') <= Cardinality(Live(v, o) \cup {<<o, s>>})
        BY <4>2, <4>4, FS_Subset
      <4>6. Cardinality(Live(v, o)) \in Nat
        BY <4>3, FS_CardinalityType
      <4>. QED BY <1>b, <1>c, <2>3, <3>2, <4>1, <4>4, <4>5, <4>6
    <3>. QED BY <3>1, <3>2
  <2>6. ClockSeen'
    <3>0. NoView' = NoView
      BY DEF NoView
    <3>1. CASE due
      BY <2>1, <3>1 DEF ClockSeen
    <3>2. CASE ~due
      <4>1. lapsed \subseteq v.lapsed
        BY <1>0, <3>2 DEF ClockSeen, Views, Now
      <4>2. lapsed' = {}
        BY <2>1, <3>2, <4>1
      <4>. QED BY <4>2 DEF ClockSeen
    <3>. QED BY <3>1, <3>2
  <2>. QED BY <2>5, <2>6
\* Steps of nobody's team.
<1>9. ASSUME team' = team, \A p : Out(p)' \subseteq Out(p)
      PROVE  \A p \in Students : WithinSize(p)
  <2>1. \A p : ActiveIn(p)' = ActiveIn(p)
    BY <1>9 DEF ActiveIn
  <2>. QED BY <1>1, <1>9, <1>b, <2>1
<1>10. ASSUME NEW v \in Views, NEW o \in Students, NEW s \in Students \ {o}, Withdrawn(v, o, s)
       PROVE  ClockSeen' /\ \A p \in Students : WithinSize(p)
  <2>1. /\ due' = due /\ team' = team /\ Done(v)
        /\ pending' = pending \ {<<o, s>>} /\ lapsed' = lapsed \ {<<o, s>>}
    BY <1>10 DEF Withdrawn, Resolve
  <2>2. \A p : Out(p)' \subseteq Out(p)
    BY <2>1 DEF Out
  <2>3. ClockSeen'
    <3>1. NoView' = NoView
      BY DEF NoView
    <3>. QED BY <1>0, <2>1, <3>1, DoneKeeps DEF ClockSeen
  <2>. QED BY <1>9, <2>1, <2>2, <2>3
<1>11. ASSUME UNCHANGED <<due, team, pending, lapsed>>, view' = NoView \/ view' = view
       PROVE  ClockSeen' /\ \A p \in Students : WithinSize(p)
  <2>1. \A p : Out(p)' = Out(p)
    BY <1>11 DEF Out
  <2>. QED BY <1>2, <1>9, <1>11, <2>1
<1>12. ASSUME NEW v \in Views, NEW o \in Students, NEW r,
              CreateClassWorkspace(v, o) \/ Reviewed(v, o, r)
       PROVE  ClockSeen' /\ \A p \in Students : WithinSize(p)
  BY <1>11, <1>12, DoneKeeps DEF CreateClassWorkspace, Reviewed
<1>13. ASSUME Ruled PROVE ClockSeen' /\ \A p \in Students : WithinSize(p)
  <2>1. UNCHANGED <<due, team, pending, lapsed>>
    BY <1>13 DEF Ruled, PublishTask, CloseTask, ArchiveTask, RestoreTask, ArchiveClass,
                 RestoreClass
  <2>2. \A p : Out(p)' = Out(p)
    BY <2>1 DEF Out
  <2>3. ClockSeen'
    <3>0. NoView' = NoView
      BY DEF NoView
    <3>1. CASE view = NoView
      <4>1. view' = view
        BY <1>13, <3>1 DEF Ruled, PublishTask, CloseTask, ArchiveTask, RestoreTask,
                           ArchiveClass, RestoreClass, Touch
      <4>. QED BY <1>2, <2>1, <4>1
    <3>2. CASE view # NoView
      <4>1. view \in Call
        BY <1>0, <3>2 DEF IInv, ViewSound, Sound
      <4>2. \A w \in Call :
              /\ Touch(w, "taskChanged") \in Call
              /\ Touch(w, "taskChanged").lapsed = w.lapsed
              /\ Touch(w, "taskFenced").lapsed = w.lapsed
              /\ Touch(w, "classChanged").lapsed = w.lapsed
        <5>. SUFFICES ASSUME NEW w \in Call
                      PROVE  /\ Touch(w, "taskChanged") \in Call
                             /\ Touch(w, "taskChanged").lapsed = w.lapsed
                             /\ Touch(w, "taskFenced").lapsed = w.lapsed
                             /\ Touch(w, "classChanged").lapsed = w.lapsed
          OBVIOUS
        <5>1. CASE w = NoView
          BY <5>1 DEF Touch
        <5>2. CASE w # NoView
          <6>1. /\ [w EXCEPT !.taskChanged = TRUE] \in Call
                /\ [w EXCEPT !.taskChanged = TRUE].lapsed = w.lapsed
            BY DEF Call
          <6>2. /\ [w EXCEPT !.taskFenced = TRUE].lapsed = w.lapsed
                /\ [w EXCEPT !.classChanged = TRUE].lapsed = w.lapsed
            BY DEF Call
          <6>. QED BY <5>2, <6>1, <6>2 DEF Touch
        <5>. QED BY <5>1, <5>2
      <4>3. view'.lapsed = view.lapsed
        BY <1>13, <4>1, <4>2 DEF Ruled, PublishTask, CloseTask, ArchiveTask, RestoreTask,
                                 ArchiveClass, RestoreClass
      <4>. QED BY <1>0, <2>1, <3>2, <4>3 DEF ClockSeen
    <3>. QED BY <3>1, <3>2
  <2>. QED BY <1>9, <2>1, <2>2, <2>3
<1>14. ASSUME \/ Deadline \/ Begin
              \/ \E s \in Students : ChangeMembership(s)
              \/ \E i \in pending : Lapse(i)
       PROVE  ClockSeen' /\ \A p \in Students : WithinSize(p)
  <2>0. NoView' = NoView
    BY DEF NoView
  <2>1. team' = team /\ pending' = pending /\ lapsed \subseteq lapsed'
    BY <1>0, <1>14 DEF Deadline, Begin, ChangeMembership, Lapse, TypeOK
  <2>2. \A p : Out(p)' \subseteq Out(p)
    BY <2>1 DEF Out
  <2>3. ASSUME Deadline PROVE ClockSeen'
    BY <2>3 DEF Deadline, ClockSeen
  <2>4. ASSUME Begin PROVE ClockSeen'
    <3>1. lapsed' = lapsed /\ view' = [Now EXCEPT !.under = TRUE]
      BY <2>4 DEF Begin
    <3>2. view'.lapsed = lapsed
      BY <3>1 DEF Now
    <3>. QED BY <3>1, <3>2 DEF ClockSeen
  <2>5. ASSUME NEW s \in Students, ChangeMembership(s) PROVE ClockSeen'
    BY <1>2, <2>5 DEF ChangeMembership
  <2>6. ASSUME NEW i \in pending, Lapse(i) PROVE ClockSeen'
    BY <2>0, <2>6 DEF Lapse, ClockSeen
  <2>7. ClockSeen'
    BY <1>14, <2>3, <2>4, <2>5, <2>6
  <2>. QED BY <1>9, <2>1, <2>2, <2>7
<1>15. CASE UNCHANGED vars
  BY <1>11, <1>15
<1>16. CASE Next
  <2>1. \/ \E v \in Views, o \in Students :
                 \/ CreateClassProject(v, o) \/ CreateClassWorkspace(v, o)
                 \/ \E r : Reviewed(v, o, r)
                 \/ \E s \in Students \ {o} :
                       \/ RemoveMember(v, o, s) \/ ReactivateMember(v, o, s)
                       \/ CreateInvitation(v, o, s) \/ AcceptInvitation(v, o, s)
                       \/ Withdrawn(v, o, s)
        \/ Ruled \/ Deadline \/ Begin
        \/ \E s \in Students : ChangeMembership(s)
        \/ \E i \in pending : Lapse(i)
    BY <1>0, <1>16, Kinds
  <2>. QED BY <2>1, <1>4, <1>5, <1>6, <1>7, <1>8, <1>10, <1>12, <1>13, <1>14
<1>. QED BY <1>15, <1>16


-----------------------------------------------------------------------------
(* The theorems.                                                           *)

\* The invariant holds in every reachable state, under any timing.
THEOREM Invariant == Spec => []SizeInv
<1>1. Init => SizeInv
  <2>. SUFFICES ASSUME Init PROVE SizeInv
    OBVIOUS
  <2>1. IInv
    BY InitIInv
  <2>2. \A o \in Students : ActiveIn(o) = {}
    BY DEF Init, ActiveIn
  <2>. QED BY <2>1, <2>2, FS_EmptySet DEF SizeInv
<1>. QED BY <1>1, StepSize, PTL DEF Spec

\* All variables keep their types, whatever calls, rulings and clocks interleave.
THEOREM TypeCorrect == Spec => []TypeOK
<1>1. SizeInv => TypeOK
  BY DEF SizeInv, IInv
<1>. QED BY <1>1, Invariant, PTL

LEMMA OneTeamCounted == IInv => OneTeamPerStudent
<1>. SUFFICES ASSUME IInv, NEW s \in Students
              PROVE  Cardinality({o \in Students : s \in ActiveIn(o)}) <= 1
  BY DEF OneTeamPerStudent
<1>1. CASE {o \in Students : s \in ActiveIn(o)} = {}
  BY <1>1, FS_EmptySet
<1>2. ASSUME NEW o \in Students, s \in ActiveIn(o)
      PROVE  Cardinality({p \in Students : s \in ActiveIn(p)}) <= 1
  <2>1. {p \in Students : s \in ActiveIn(p)} = {o}
    BY <1>2 DEF IInv, OneTeam, ActiveIn
  <2>. QED BY <2>1, FS_Singleton
<1>. QED BY <1>1, <1>2

\* A team is never larger than the task allows and shares no student with another;
\* where no invitation runs out under a call, the places that invitations promise
\* are there too (createInvitation, acceptInvitation and transitionMember of
\* repository.repository.ts, each deciding by a clock and a task read earlier).
THEOREM SeatsRespectedAlways == Spec => []SeatsRespected
<1>1. CASE ClockHeld
  <2>1. Init => PromiseInv
    <3>. SUFFICES ASSUME Init PROVE PromiseInv
      OBVIOUS
    <3>1. IInv
      BY InitIInv
    <3>2. \A o \in Students : ActiveIn(o) = {} /\ Out(o) = {}
      BY DEF Init, ActiveIn, Out
    <3>3. ClockSeen
      BY DEF Init, ClockSeen
    <3>. QED BY <3>1, <3>2, <3>3, FS_EmptySet DEF PromiseInv, SizeInv
  <2>2. PromiseInv /\ [Next]_vars => PromiseInv'
    BY <1>1, StepPromise
  <2>3. PromiseInv => SeatsRespected
    BY OneTeamCounted DEF PromiseInv, SizeInv, IInv, SeatsRespected, TeamCapacity, Out
  <2>. QED BY <2>1, <2>2, <2>3, PTL DEF Spec
<1>2. CASE ~ClockHeld
  <2>1. SizeInv => SeatsRespected
    BY <1>2, OneTeamCounted DEF SizeInv, IInv, SeatsRespected, TeamCapacity
  <2>. QED BY <2>1, Invariant, PTL
<1>. QED BY <1>1, <1>2

\* The workspaces of a class do not become more once it is archived: a call that
\* began before fails at the lock of the class row (createClassWorkspace).
THEOREM NoWorkspaceAfterArchiveAlways == Spec => NoWorkspaceAfterArchive
<1>. DEFINE Closed == \A s \in workspace' \ workspace : class = "ACTIVE"
<1>1. IInv /\ Next => Closed
  <2>. SUFFICES ASSUME IInv, Next PROVE Closed
    OBVIOUS
  <2>1. ASSUME NEW v \in Views, NEW o \in Students, CreateClassWorkspace(v, o)
        PROVE  class = "ACTIVE"
    BY <2>1, CallsSound DEF IInv, CreateClassWorkspace, Sound
  <2>2. ASSUME NEW v \in Views, NEW o \in Students, NEW s \in Students, NEW r, NEW i,
               \/ CreateClassProject(v, o) \/ Reviewed(v, o, r)
               \/ RemoveMember(v, o, s) \/ ReactivateMember(v, o, s)
               \/ CreateInvitation(v, o, s) \/ AcceptInvitation(v, o, s)
               \/ Withdrawn(v, o, s)
        PROVE  workspace' = workspace
    BY <2>2 DEF CreateClassProject, Reviewed, RemoveMember, ReactivateMember, CreateInvitation,
                AcceptInvitation, Withdrawn, Resolve
  <2>3. ASSUME \/ Ruled \/ Deadline \/ Begin
               \/ \E s \in Students : ChangeMembership(s)
               \/ \E i \in pending : Lapse(i)
        PROVE  workspace' = workspace
    BY <2>3 DEF Ruled, PublishTask, CloseTask, ArchiveTask, RestoreTask, ArchiveClass,
                RestoreClass, Deadline, Begin, ChangeMembership, Lapse
  <2>4. ASSUME NEW v \in Views, NEW o \in Students,
                 \/ CreateClassProject(v, o) \/ CreateClassWorkspace(v, o)
                 \/ \E r : Reviewed(v, o, r)
                 \/ \E s \in Students \ {o} :
                       \/ RemoveMember(v, o, s) \/ ReactivateMember(v, o, s)
                       \/ CreateInvitation(v, o, s) \/ AcceptInvitation(v, o, s)
                       \/ Withdrawn(v, o, s)
        PROVE  Closed
    BY <2>4, <2>1, <2>2
  <2>. QED BY <2>3, <2>4, Kinds DEF IInv
<1>2. SizeInv /\ [Next]_vars => [Closed]_vars
  BY <1>1 DEF SizeInv
<1>. QED BY <1>2, Invariant, PTL DEF Spec, NoWorkspaceAfterArchive

\* An archived task (by the lock archive takes on the row that new repositories
\* and invitations refer to) and an archived repository have nothing pending, and
\* an archived class gains no workspace.
THEOREM ArchivesStandAlways == Spec => ArchivesStand
<1>1. SizeInv => ArchivedTaskSettled /\ ArchivedRepositorySettled
  BY DEF SizeInv, IInv, Archived
<1>. QED BY <1>1, Invariant, NoWorkspaceAfterArchiveAlways, PTL DEF ArchivesStand

-----------------------------------------------------------------------------
(***************************************************************************)
(* WeightedGrading: sums of points, and how points are divided.            *)
(*                                                                         *)
(* Total is a fold over a domain, one element after the other.  Sums are   *)
(* proved about by induction over the parts of that domain, which the      *)
(* least number principle gives without an operator as a parameter.        *)
(***************************************************************************)
(* Among naturals there is a least one. *)
LEMMA Least ==
    ASSUME NEW T \in SUBSET Nat, T # {}
    PROVE  \E m \in T : \A n \in T : m <= n
<1> DEFINE Less == {p \in Nat \X Nat : p[1] < p[2]}
<1>1. Less = OpToRel(<, Nat)
  BY DEF OpToRel
<1>2. IsWellFoundedOn(Less, Nat)
  BY <1>1, NatLessThanWellFounded, Zenon
<1>3. \E m \in T : \A n \in T : ~(<<n, m>> \in Less)
  <2> HIDE DEF Less
  <2> QED BY <1>2, WFMin
<1>4. PICK m \in T : \A n \in T : ~(<<n, m>> \in Less)
  BY <1>3
<1>5. \A n \in T : ~(n < m)
  BY <1>4
<1> QED BY <1>5

(* Sizes of the parts of a finite set. *)
LEMMA PartSizes ==
    ASSUME NEW S, IsFiniteSet(S), NEW T \in SUBSET S
    PROVE  /\ IsFiniteSet(T) /\ Cardinality(T) \in Nat
           /\ Cardinality(T) = 0 <=> T = {}
           /\ \A x \in T : Cardinality(T \ {x}) = Cardinality(T) - 1
BY FS_Subset, FS_CardinalityType, FS_EmptySet, FS_RemoveElement

(* Induction over the parts of a finite set: what holds of a part whenever it
   holds of that part without any one element, holds of all. *)
LEMMA PartInduction ==
    ASSUME NEW S, IsFiniteSet(S), NEW G,
           \A T \in SUBSET S : (\A x \in T : T \ {x} \in G) => T \in G
    PROVE  \A T \in SUBSET S : T \in G
<1> DEFINE Bad == {T \in SUBSET S : T \notin G}
           Sizes == {Cardinality(T) : T \in Bad}
<1> SUFFICES ASSUME Bad # {} PROVE FALSE
  OBVIOUS
<1>1. Sizes \in SUBSET Nat /\ Sizes # {}
  BY PartSizes
<1>2. PICK m \in Sizes : \A n \in Sizes : m <= n
  <2> HIDE DEF Sizes
  <2> QED BY <1>1, Least
<1>3. PICK T \in Bad : Cardinality(T) = m
  OBVIOUS
<1>4. PICK x \in T : T \ {x} \notin G
  BY <1>3
<1>5. T \ {x} \in Bad /\ Cardinality(T \ {x}) = Cardinality(T) - 1
  BY <1>4, PartSizes
<1>6. Cardinality(T \ {x}) \in Sizes /\ Cardinality(T) \in Nat
  BY <1>5, PartSizes
<1>7. m <= Cardinality(T \ {x})
  BY <1>2, <1>6
<1> HIDE DEF Bad, Sizes
<1> QED BY <1>3, <1>5, <1>6, <1>7

LEMMA Counting ==
    ASSUME NEW T \in SUBSET Nat, 0 \in T, \A n \in T : n + 1 \in T
    PROVE  T = Nat
<1> SUFFICES ASSUME Nat \ T # {} PROVE FALSE
  OBVIOUS
<1>1. PICK m \in Nat \ T : \A n \in Nat \ T : m <= n
  BY Least
<1>2. m # 0 /\ m - 1 \in Nat /\ ~(m <= m - 1)
  BY <1>1
<1>3. m - 1 \in T
  BY <1>1, <1>2
<1> QED BY <1>1, <1>2, <1>3

\* The recursion of MapThenFoldSet, as functions: ch chooses an element of each
\* part, op makes a value of a part and the value of what the element leaves of it.
Chooses(ch, S) == \A T \in SUBSET S : T # {} => ch[T] \in T
Makes(op, S, V) == \A T \in SUBSET S : \A v \in V : op[T][v] \in V
FoldOf(g, S, base, ch, op) ==
    g = [T \in SUBSET S |-> IF T = {} THEN base ELSE op[T][g[T \ {ch[T]}]]]

(* This recursion defines something. *)
LEMMA FoldExists ==
    ASSUME NEW S, IsFiniteSet(S), NEW V, NEW base \in V,
           NEW ch, Chooses(ch, S), NEW op, Makes(op, S, V)
    PROVE  \E g \in [SUBSET S -> V] : FoldOf(g, S, base, ch, op)
<1> USE DEF Chooses, Makes
<1> DEFINE Small(n) == {T \in SUBSET S : Cardinality(T) <= n}
           Folds(n, g) ==
               g = [T \in Small(n) |-> IF T = {} THEN base ELSE op[T][g[T \ {ch[T]}]]]
           Good == {n \in Nat : \E g \in [Small(n) -> V] : Folds(n, g)}
<1>1. 0 \in Good
  <2> DEFINE g == [T \in Small(0) |-> base]
  <2>1. \A T \in Small(0) : T = {}
    BY PartSizes
  <2>2. Folds(0, g) /\ g \in [Small(0) -> V]
    BY <2>1
  <2> QED BY <2>2
<1>2. \A n \in Good : n + 1 \in Good
  <2> SUFFICES ASSUME NEW n \in Good PROVE n + 1 \in Good
    OBVIOUS
  <2>1. PICK g \in [Small(n) -> V] : Folds(n, g)
    OBVIOUS
  <2> DEFINE h == [T \in Small(n + 1) |-> IF T = {} THEN base ELSE op[T][g[T \ {ch[T]}]]]
  <2>2. ASSUME NEW T \in Small(n + 1), T # {} PROVE T \ {ch[T]} \in Small(n)
    <3>1. T \in SUBSET S /\ Cardinality(T) <= n + 1 /\ ch[T] \in T
      BY <2>2
    <3>2. Cardinality(T) \in Nat /\ Cardinality(T \ {ch[T]}) = Cardinality(T) - 1
      BY <3>1, PartSizes
    <3> QED BY <3>1, <3>2
  <2>3. h \in [Small(n + 1) -> V]
    BY <2>1, <2>2
  <2>4. ASSUME NEW T \in Small(n) PROVE T \in Small(n + 1) /\ h[T] = g[T]
    <3>1. T \in SUBSET S /\ Cardinality(T) \in Nat /\ Cardinality(T) <= n
      BY PartSizes
    <3>2. T \in Small(n + 1)
      BY <3>1
    <3>3. g[T] = IF T = {} THEN base ELSE op[T][g[T \ {ch[T]}]]
      BY <2>1, Zenon
    <3> QED BY <3>2, <3>3, Zenon
  <2>5. Folds(n + 1, h)
    <3> HIDE DEF Small
    <3> QED BY <2>2, <2>4, Zenon
  <2> HIDE DEF h, Folds, Small
  <2> QED BY <2>3, <2>5
<1>3. Good = Nat
  <2> HIDE DEF Good
  <2>1. Good \in SUBSET Nat
    BY DEF Good
  <2> QED BY <2>1, <1>1, <1>2, Counting
<1>4. Small(Cardinality(S)) = SUBSET S
  BY FS_Subset
<1>5. Cardinality(S) \in Good
  BY <1>3, FS_CardinalityType
<1>6. PICK g \in [Small(Cardinality(S)) -> V] : Folds(Cardinality(S), g)
  BY <1>5
<1>7. g \in [SUBSET S -> V] /\ FoldOf(g, S, base, ch, op)
  BY <1>4, <1>6, Zenon DEF FoldOf
<1> QED BY <1>7

-----------------------------------------------------------------------------
(* Sums. *)

\* The element a sum takes next, and a part of a function.
Picked(T) == CHOOSE x \in T : TRUE
Part(f, T) == [i \in T |-> f[i]]
Sums(g, f, S) == g = [T \in SUBSET S |-> IF T = {} THEN 0
                                        ELSE f[Picked(T)] + g[T \ {Picked(T)}]]

LEMMA SumsExist ==
    ASSUME NEW f, IsFiniteSet(DOMAIN f), \A i \in DOMAIN f : f[i] \in Int
    PROVE  \E g \in [SUBSET (DOMAIN f) -> Int] : Sums(g, f, DOMAIN f)
<1> DEFINE S == DOMAIN f
           ch == [T \in SUBSET S |-> Picked(T)]
           op == [T \in SUBSET S |-> [v \in Int |-> IF T = {} THEN 0 ELSE f[Picked(T)] + v]]
<1>1. \A T \in SUBSET S : T # {} => Picked(T) \in T
  BY DEF Picked
<1>2. Makes(op, S, Int)
  BY <1>1 DEF Makes
<1>3. Chooses(ch, S)
  BY <1>1 DEF Chooses
<1>4. PICK g \in [SUBSET S -> Int] : FoldOf(g, S, 0, ch, op)
  <2>1. IsFiniteSet(S) /\ 0 \in Int
    OBVIOUS
  <2> HIDE DEF S, ch, op
  <2> QED BY <1>2, <1>3, <2>1, FoldExists
<1>5. \A T \in SUBSET S : T # {} => op[T][g[T \ {ch[T]}]] = f[Picked(T)] + g[T \ {Picked(T)}]
  BY <1>1
<1>6. Sums(g, f, S)
  BY <1>4, <1>5, Zenon DEF Sums, FoldOf
<1> QED BY <1>6

LEMMA TotalIsSum ==
    ASSUME NEW f, IsFiniteSet(DOMAIN f), \A i \in DOMAIN f : f[i] \in Int
    PROVE  \E g \in [SUBSET (DOMAIN f) -> Int] : Sums(g, f, DOMAIN f) /\ Total(f) = g[DOMAIN f]
<1> DEFINE g == CHOOSE g : Sums(g, f, DOMAIN f)
<1>1. Sums(g, f, DOMAIN f)
  BY SumsExist, Zenon
<1>2. Total(f) = g[DOMAIN f]
  BY Zenon DEF Total, FoldFunction, FoldFunctionOnSet, MapThenFoldSet, Sums, Picked
<1>3. g \in [SUBSET (DOMAIN f) -> Int]
  <2> DEFINE G == {T \in SUBSET (DOMAIN f) : g[T] \in Int}
  <2>1. ASSUME NEW T \in SUBSET (DOMAIN f), \A x \in T : T \ {x} \in G PROVE T \in G
    <3> HIDE DEF g
    <3>1. g[T] = IF T = {} THEN 0 ELSE f[Picked(T)] + g[T \ {Picked(T)}]
      BY <1>1, Zenon DEF Sums
    <3>2. T # {} => Picked(T) \in T
      BY DEF Picked
    <3> QED BY <2>1, <3>1, <3>2
  <2>2. \A T \in SUBSET (DOMAIN f) : T \in G
    <3> HIDE DEF G
    <3> QED BY <2>1, PartInduction
  <2>3. DOMAIN g = SUBSET (DOMAIN f) /\ g = [T \in DOMAIN g |-> g[T]]
    <3> HIDE DEF g
    <3> QED BY <1>1 DEF Sums
  <2> HIDE DEF g
  <2> QED BY <2>2, <2>3
<1> QED BY <1>1, <1>2, <1>3

\* Whole numbers, finitely many; and what a sum of parts of them is, whichever
\* element is taken first.
Numbers(f) == IsFiniteSet(DOMAIN f) /\ \A i \in DOMAIN f : f[i] \in Int
SumOf(g, f) ==
    /\ g \in [SUBSET (DOMAIN f) -> Int]
    /\ g[{}] = 0
    /\ \A T \in SUBSET (DOMAIN f) : \A y \in T : g[T] = f[y] + g[T \ {y}]

LEMMA SumAnyOrder ==
    ASSUME NEW f, Numbers(f), NEW g \in [SUBSET (DOMAIN f) -> Int], Sums(g, f, DOMAIN f)
    PROVE  SumOf(g, f)
<1> DEFINE S == DOMAIN f
           G == {T \in SUBSET S : \A y \in T : g[T] = f[y] + g[T \ {y}]}
<1>1. g[{}] = 0
  BY Zenon DEF Sums
<1>2. ASSUME NEW T \in SUBSET S, T # {}
      PROVE  Picked(T) \in T /\ g[T] = f[Picked(T)] + g[T \ {Picked(T)}]
  <2>1. Picked(T) \in T
    BY <1>2 DEF Picked
  <2>2. g[T] = IF T = {} THEN 0 ELSE f[Picked(T)] + g[T \ {Picked(T)}]
    BY Zenon DEF Sums
  <2> QED BY <1>2, <2>1, <2>2
<1>3. ASSUME NEW T \in SUBSET S, \A x \in T : T \ {x} \in G PROVE T \in G
  <2> SUFFICES ASSUME NEW y \in T PROVE g[T] = f[y] + g[T \ {y}]
    OBVIOUS
  <2> DEFINE c == Picked(T)
  <2>1. c \in T /\ g[T] = f[c] + g[T \ {c}]
    BY <1>2
  <2>2. CASE c = y
    BY <2>1, <2>2
  <2>3. CASE c # y
    <3>1. g[T \ {c}] = f[y] + g[(T \ {c}) \ {y}]
      BY <1>3, <2>1, <2>3
    <3>2. (T \ {c}) \ {y} = (T \ {y}) \ {c} /\ (T \ {c}) \ {y} \in SUBSET S
      OBVIOUS
    <3>3. g[T \ {y}] = f[c] + g[(T \ {c}) \ {y}]
      BY <1>3, <2>1, <2>3, <3>2
    <3>4. f[c] \in Int /\ f[y] \in Int /\ g[(T \ {c}) \ {y}] \in Int
      BY <2>1, <3>2 DEF Numbers
    <3> QED BY <2>1, <3>1, <3>3, <3>4
  <2> QED BY <2>2, <2>3
<1>4. \A T \in SUBSET S : T \in G
  <2>1. IsFiniteSet(S)
    BY DEF Numbers
  <2> HIDE DEF G, S
  <2> QED BY <1>3, <2>1, PartInduction
<1> QED BY <1>1, <1>4 DEF SumOf

(* What Total computes, and of parts too. *)
LEMMA TotalSums ==
    ASSUME NEW f, Numbers(f)
    PROVE  \E g : SumOf(g, f) /\ Total(f) = g[DOMAIN f]
<1>1. PICK g \in [SUBSET (DOMAIN f) -> Int] : Sums(g, f, DOMAIN f) /\ Total(f) = g[DOMAIN f]
  BY TotalIsSum DEF Numbers
<1> QED BY <1>1, SumAnyOrder

LEMMA TotalParts ==
    ASSUME NEW f, Numbers(f)
    PROVE  \E g : /\ SumOf(g, f) /\ Total(f) = g[DOMAIN f]
                  /\ \A T \in SUBSET (DOMAIN f) : Total(Part(f, T)) = g[T]
<1>1. PICK g : SumOf(g, f) /\ Total(f) = g[DOMAIN f]
  BY TotalSums
<1>2. ASSUME NEW T \in SUBSET (DOMAIN f) PROVE Total(Part(f, T)) = g[T]
  <2> DEFINE p == Part(f, T)
  <2>1. Numbers(p) /\ DOMAIN p = T /\ \A i \in T : p[i] = f[i]
    BY FS_Subset DEF Numbers, Part
  <2>2. PICK h : SumOf(h, p) /\ Total(p) = h[T]
    <3> HIDE DEF p
    <3> QED BY <2>1, TotalSums
  <2> DEFINE G == {U \in SUBSET T : h[U] = g[U]}
  <2>3. ASSUME NEW U \in SUBSET T, \A x \in U : U \ {x} \in G PROVE U \in G
    <3>1. CASE U = {}
      BY <1>1, <2>2, <3>1 DEF SumOf
    <3>2. CASE U # {}
      <4>1. PICK y \in U : TRUE
        BY <3>2
      <4>2. h[U] = p[y] + h[U \ {y}]
        <5> HIDE DEF p
        <5> QED BY <2>1, <2>2 DEF SumOf
      <4>3. g[U] = f[y] + g[U \ {y}]
        BY <1>1 DEF SumOf
      <4>4. p[y] = f[y] /\ h[U \ {y}] = g[U \ {y}]
        BY <2>1, <2>3
      <4> HIDE DEF p
      <4> QED BY <4>2, <4>3, <4>4
    <3> QED BY <3>1, <3>2
  <2>4. \A U \in SUBSET T : U \in G
    <3>1. IsFiniteSet(T)
      BY <2>1 DEF Numbers
    <3> HIDE DEF G
    <3> QED BY <2>3, <3>1, PartInduction
  <2> QED BY <2>2, <2>4
<1> QED BY <1>1, <1>2

LEMMA TotalInt ==
    ASSUME NEW f, Numbers(f)
    PROVE  Total(f) \in Int
<1>1. PICK g : SumOf(g, f) /\ Total(f) = g[DOMAIN f]
  BY TotalSums
<1> QED BY <1>1 DEF SumOf

LEMMA TotalNat ==
    ASSUME NEW f, Numbers(f), \A i \in DOMAIN f : f[i] >= 0
    PROVE  Total(f) \in Nat
<1>1. PICK g : SumOf(g, f) /\ Total(f) = g[DOMAIN f]
  BY TotalSums
<1> DEFINE G == {T \in SUBSET (DOMAIN f) : g[T] >= 0}
<1>2. ASSUME NEW T \in SUBSET (DOMAIN f), \A x \in T : T \ {x} \in G PROVE T \in G
  <2>1. CASE T = {}
    BY <1>1, <2>1 DEF SumOf
  <2>2. CASE T # {}
    <3>1. PICK y \in T : TRUE
      BY <2>2
    <3>2. g[T] = f[y] + g[T \ {y}] /\ g[T \ {y}] \in Int
      BY <1>1 DEF SumOf
    <3>3. g[T \ {y}] >= 0 /\ f[y] >= 0 /\ f[y] \in Int
      BY <1>2 DEF Numbers
    <3> QED BY <3>2, <3>3
  <2> QED BY <2>1, <2>2
<1>3. \A T \in SUBSET (DOMAIN f) : T \in G
  <2>1. IsFiniteSet(DOMAIN f)
    BY DEF Numbers
  <2> HIDE DEF G
  <2> QED BY <1>2, <2>1, PartInduction
<1> QED BY <1>1, <1>3, TotalInt

(* A sum of multiples of two functions. *)
LEMMA TotalLinear ==
    ASSUME NEW f, NEW e, NEW h, Numbers(f), Numbers(e), Numbers(h), NEW k \in Int,
           DOMAIN e = DOMAIN f, DOMAIN h = DOMAIN f,
           \A i \in DOMAIN f : f[i] = k * e[i] + h[i]
    PROVE  Total(f) = k * Total(e) + Total(h)
<1>1. PICK g : SumOf(g, f) /\ Total(f) = g[DOMAIN f]
  BY TotalSums
<1>2. PICK ge : SumOf(ge, e) /\ Total(e) = ge[DOMAIN f]
  BY TotalSums
<1>3. PICK gh : SumOf(gh, h) /\ Total(h) = gh[DOMAIN f]
  BY TotalSums
<1> DEFINE G == {T \in SUBSET (DOMAIN f) : g[T] = k * ge[T] + gh[T]}
<1>4. ASSUME NEW T \in SUBSET (DOMAIN f), \A x \in T : T \ {x} \in G PROVE T \in G
  <2>1. CASE T = {}
    BY <1>1, <1>2, <1>3, <2>1 DEF SumOf
  <2>2. CASE T # {}
    <3>1. PICK y \in T : TRUE
      BY <2>2
    <3> DEFINE U == T \ {y}
    <3>2. /\ g[T] = f[y] + g[U] /\ ge[T] = e[y] + ge[U] /\ gh[T] = h[y] + gh[U]
          /\ g[U] \in Int /\ ge[U] \in Int /\ gh[U] \in Int
      BY <1>1, <1>2, <1>3 DEF SumOf
    <3>3. g[U] = k * ge[U] + gh[U]
      BY <1>4
    <3>4. f[y] = k * e[y] + h[y] /\ e[y] \in Int /\ h[y] \in Int
      BY DEF Numbers
    <3> HIDE DEF U
    <3>5. k * (e[y] + ge[U]) = k * e[y] + k * ge[U]
      BY <3>2, <3>4
    <3>6. g[T] = k * ge[T] + gh[T]
      BY <3>2, <3>3, <3>4, <3>5
    <3> QED BY <3>6
  <2> QED BY <2>1, <2>2
<1>5. \A T \in SUBSET (DOMAIN f) : T \in G
  <2>1. IsFiniteSet(DOMAIN f)
    BY DEF Numbers
  <2> HIDE DEF G
  <2> QED BY <1>4, <2>1, PartInduction
<1> QED BY <1>1, <1>2, <1>3, <1>5

LEMMA TotalOneOut ==
    ASSUME NEW f, Numbers(f), NEW y \in DOMAIN f
    PROVE  Total(f) = f[y] + Total(Part(f, DOMAIN f \ {y}))
<1>1. PICK g : /\ SumOf(g, f) /\ Total(f) = g[DOMAIN f]
               /\ \A T \in SUBSET (DOMAIN f) : Total(Part(f, T)) = g[T]
  BY TotalParts
<1> QED BY <1>1 DEF SumOf

(* What is zero adds nothing. *)
LEMMA TotalDrops ==
    ASSUME NEW f, Numbers(f), NEW S \in SUBSET (DOMAIN f), \A i \in DOMAIN f \ S : f[i] = 0
    PROVE  Total(f) = Total(Part(f, S))
<1>1. PICK g : /\ SumOf(g, f) /\ Total(f) = g[DOMAIN f]
               /\ \A T \in SUBSET (DOMAIN f) : Total(Part(f, T)) = g[T]
  BY TotalParts
<1> DEFINE G == {T \in SUBSET (DOMAIN f) : g[T] = g[T \cap S]}
<1>2. ASSUME NEW T \in SUBSET (DOMAIN f), \A x \in T : T \ {x} \in G PROVE T \in G
  <2>1. CASE T \subseteq S
    <3>1. T \cap S = T
      BY <2>1
    <3> QED BY <3>1
  <2>2. CASE ~(T \subseteq S)
    <3>1. PICK y \in T : y \notin S
      BY <2>2
    <3>2. g[T] = f[y] + g[T \ {y}] /\ g[T \ {y}] \in Int
      BY <1>1 DEF SumOf
    <3>3. f[y] = 0
      BY <3>1
    <3>4. g[T \ {y}] = g[(T \ {y}) \cap S]
      BY <1>2
    <3>5. (T \ {y}) \cap S = T \cap S
      BY <3>1
    <3>6. g[T] = g[T \ {y}]
      BY <3>2, <3>3
    <3> QED BY <3>4, <3>5, <3>6
  <2> QED BY <2>1, <2>2
<1>3. \A T \in SUBSET (DOMAIN f) : T \in G
  <2>1. IsFiniteSet(DOMAIN f)
    BY DEF Numbers
  <2> HIDE DEF G
  <2> QED BY <1>2, <2>1, PartInduction
<1>4. g[DOMAIN f] = g[DOMAIN f \cap S] /\ DOMAIN f \cap S = S
  BY <1>3
<1> QED BY <1>1, <1>4

(* A sum of ones and zeros counts. *)
Marks(D, S) == [i \in D |-> IF i \in S THEN 1 ELSE 0]
LEMMA TotalCounts ==
    ASSUME NEW D, IsFiniteSet(D), NEW S \in SUBSET D
    PROVE  Numbers(Marks(D, S)) /\ Total(Marks(D, S)) = Cardinality(S)
<1> DEFINE f == Marks(D, S)
<1>1. Numbers(f) /\ DOMAIN f = D
  BY DEF Numbers, Marks
<1>2. PICK g : SumOf(g, f) /\ Total(f) = g[D]
  <2> HIDE DEF f
  <2> QED BY <1>1, TotalSums
<1> DEFINE G == {T \in SUBSET D : g[T] = Cardinality(T \cap S)}
<1>3. ASSUME NEW T \in SUBSET D, \A x \in T : T \ {x} \in G PROVE T \in G
  <2>1. CASE T = {}
    <3>1. T \cap S = {}
      BY <2>1
    <3> QED BY <1>2, <2>1, <3>1, FS_EmptySet DEF SumOf
  <2>2. CASE T # {}
    <3>1. PICK y \in T : TRUE
      BY <2>2
    <3>2. g[T] = f[y] + g[T \ {y}]
      <4> HIDE DEF f
      <4> QED BY <1>1, <1>2 DEF SumOf
    <3>3. g[T \ {y}] = Cardinality((T \cap S) \ {y})
      <4>1. (T \ {y}) \cap S = (T \cap S) \ {y}
        OBVIOUS
      <4>2. g[T \ {y}] = Cardinality((T \ {y}) \cap S)
        BY <1>3
      <4> QED BY <4>1, <4>2
    <3>4. T \cap S \in SUBSET D
      OBVIOUS
    <3>5. /\ IsFiniteSet(T \cap S) /\ Cardinality(T \cap S) \in Nat
          /\ Cardinality((T \cap S) \ {y})
               = IF y \in T \cap S THEN Cardinality(T \cap S) - 1 ELSE Cardinality(T \cap S)
      BY <3>4, FS_Subset, FS_CardinalityType, FS_RemoveElement
    <3>6. f[y] = IF y \in T \cap S THEN 1 ELSE 0
      BY DEF Marks
    <3> HIDE DEF f
    <3>7. g[T] = Cardinality(T \cap S)
      BY <3>2, <3>3, <3>5, <3>6
    <3> QED BY <3>7
  <2> QED BY <2>1, <2>2
<1>4. \A T \in SUBSET D : T \in G
  <2> HIDE DEF G
  <2> QED BY <1>3, PartInduction
<1>5. g[D] = Cardinality(D \cap S) /\ D \cap S = S
  BY <1>4
<1> QED BY <1>1, <1>2, <1>5

LEMMA TotalZero ==
    ASSUME NEW f, Numbers(f), \A i \in DOMAIN f : f[i] = 0
    PROVE  Total(f) = 0
<1>1. PICK g : /\ SumOf(g, f)
               /\ \A T \in SUBSET (DOMAIN f) : Total(Part(f, T)) = g[T]
  BY TotalParts
<1>2. Total(f) = Total(Part(f, {}))
  BY TotalDrops
<1> QED BY <1>1, <1>2 DEF SumOf

LEMMA TotalAtMost ==
    ASSUME NEW f, NEW h, Numbers(f), Numbers(h), DOMAIN h = DOMAIN f,
           \A i \in DOMAIN f : f[i] <= h[i]
    PROVE  Total(f) <= Total(h)
<1> DEFINE d == [i \in DOMAIN f |-> h[i] - f[i]]
<1>1. Numbers(d) /\ DOMAIN d = DOMAIN f /\ \A i \in DOMAIN d : d[i] >= 0
  BY DEF Numbers
<1>2. \A i \in DOMAIN h : h[i] = 1 * f[i] + d[i]
  BY DEF Numbers
<1> HIDE DEF d
<1>3. Total(h) = 1 * Total(f) + Total(d)
  BY <1>1, <1>2, TotalLinear
<1>4. Total(d) \in Nat /\ Total(f) \in Int
  BY <1>1, TotalNat, TotalInt
<1> QED BY <1>3, <1>4

-----------------------------------------------------------------------------
(* Largest remainders. *)

\* Weights: naturals, in an order.  The parts of Distribute, as functions.
Weights(w) == Numbers(w) /\ DOMAIN w \subseteq Nat /\ \A i \in DOMAIN w : w[i] >= 0
Floors(budget, w) == [i \in DOMAIN w |-> (budget * w[i]) \div Total(w)]
Rests(budget, w) == [i \in DOMAIN w |-> (budget * w[i]) % Total(w)]
Earlier(rest, i) == {j \in DOMAIN rest : rest[j] > rest[i] \/ (rest[j] = rest[i] /\ j < i)}
Chosen(rest, left) == {i \in DOMAIN rest : Cardinality(Earlier(rest, i)) < left}

(* Each has a rank of its own: as many are taken as there is left, if there are
   so many. *)
LEMMA ChosenCount ==
    ASSUME NEW rest, Numbers(rest), DOMAIN rest \subseteq Nat,
           NEW left \in Nat, left <= Cardinality(DOMAIN rest)
    PROVE  Cardinality(Chosen(rest, left)) = left
<1> DEFINE D == DOMAIN rest
           n == Cardinality(D)
           rank == [i \in D |-> Cardinality(Earlier(rest, i))]
<1>1. IsFiniteSet(D) /\ n \in Nat
  BY FS_CardinalityType DEF Numbers
<1>2. ASSUME NEW i \in D
      PROVE  /\ Earlier(rest, i) \in SUBSET (D \ {i})
             /\ IsFiniteSet(Earlier(rest, i)) /\ rank[i] \in 0..n - 1
  <2>1. Earlier(rest, i) \in SUBSET (D \ {i})
    BY DEF Earlier, Numbers
  <2>2. IsFiniteSet(D \ {i}) /\ Cardinality(D \ {i}) = n - 1
    BY <1>1, FS_RemoveElement
  <2>3. IsFiniteSet(Earlier(rest, i)) /\ Cardinality(Earlier(rest, i)) <= n - 1
    BY <2>1, <2>2, FS_Subset
  <2>4. Cardinality(Earlier(rest, i)) \in Nat
    BY <2>3, FS_CardinalityType
  <2> QED BY <1>1, <2>1, <2>3, <2>4
<1>3. ASSUME NEW i \in D, NEW j \in D, j \in Earlier(rest, i) PROVE rank[j] < rank[i]
  <2>1. Earlier(rest, j) \subseteq Earlier(rest, i)
    <3> SUFFICES ASSUME NEW k \in Earlier(rest, j) PROVE k \in Earlier(rest, i)
      OBVIOUS
    <3>1. rest[k] \in Int /\ rest[j] \in Int /\ rest[i] \in Int /\ k \in D
      BY DEF Earlier, Numbers
    <3>2. k \in Nat /\ j \in Nat /\ i \in Nat
      BY <3>1
    <3> QED BY <1>3, <3>1, <3>2 DEF Earlier
  <2>2. j \notin Earlier(rest, j)
    BY <1>2
  <2>3. Earlier(rest, j) # Earlier(rest, i)
    BY <1>3, <2>2
  <2>4. /\ Cardinality(Earlier(rest, j)) <= Cardinality(Earlier(rest, i))
        /\ Cardinality(Earlier(rest, j)) # Cardinality(Earlier(rest, i))
    BY <1>2, <2>1, <2>3, FS_Subset
  <2>5. rank[j] \in Nat /\ rank[i] \in Nat
    BY <1>1, <1>2
  <2> QED BY <2>4, <2>5
<1>4. ASSUME NEW i \in D, NEW j \in D, i # j PROVE rank[i] # rank[j]
  <2>1. rest[i] \in Int /\ rest[j] \in Int /\ i \in Nat /\ j \in Nat
    BY DEF Numbers
  <2>2. j \in Earlier(rest, i) \/ i \in Earlier(rest, j)
    BY <1>4, <2>1 DEF Earlier
  <2>3. rank[i] \in Int /\ rank[j] \in Int
    BY <1>2
  <2> HIDE DEF rank
  <2> QED BY <1>3, <2>2, <2>3
<1>5. rank \in Injection(D, 0..n - 1)
  <2>1. rank \in [D -> 0..n - 1]
    BY <1>2
  <2> HIDE DEF rank
  <2> QED BY <1>4, <2>1 DEF Injection, IsInjective
<1>6. IsFiniteSet(0..n - 1) /\ Cardinality(0..n - 1) = n
  <2>1. n \in Nat /\ 0 \in Int /\ n - 1 \in Int
    BY <1>1
  <2> HIDE DEF n
  <2>2. Cardinality(0..n - 1) = IF 0 > n - 1 THEN 0 ELSE n - 1 - 0 + 1
    BY <2>1, FS_Interval
  <2>3. IsFiniteSet(0..n - 1)
    BY <2>1, FS_Interval
  <2> QED BY <2>1, <2>2, <2>3
<1>7. rank \in Surjection(D, 0..n - 1)
  <2> HIDE DEF rank
  <2> QED BY <1>5, <1>6, FS_Injection
<1> DEFINE C == Chosen(rest, left)
           f == [i \in C |-> rank[i]]
<1>8. C = {i \in D : rank[i] < left}
  BY DEF Chosen
<1>9. f \in Bijection(C, 0..left - 1)
  <2>1. ASSUME NEW i \in C PROVE f[i] \in 0..left - 1
    BY <1>2, <1>8
  <2>2. ASSUME NEW i \in C, NEW j \in C, i # j PROVE f[i] # f[j]
    BY <1>4, <1>8, <2>2
  <2>3. ASSUME NEW k \in 0..left - 1 PROVE \E i \in C : f[i] = k
    <3>1. k \in 0..n - 1
      BY <1>1
    <3>2. PICK i \in D : rank[i] = k
      BY <1>7, <3>1 DEF Surjection
    <3> QED BY <1>8, <3>2
  <2>4. f \in [C -> 0..left - 1]
    BY <2>1
  <2> HIDE DEF f, C
  <2> QED BY <2>2, <2>3, <2>4 DEF Bijection, Injection, Surjection, IsInjective
<1>10. IsFiniteSet(C)
  <2>1. C \subseteq D
    BY <1>8
  <2> HIDE DEF C
  <2> QED BY <1>1, <2>1, FS_Subset
<1>11. Cardinality(0..left - 1) = left
  BY FS_Interval
<1> HIDE DEF f, C, rank, D, n
<1>12. Cardinality(0..left - 1) = Cardinality(C)
  BY <1>9, <1>10, FS_Bijection DEF ExistsBijection
<1> QED BY <1>11, <1>12 DEF C

LEMMA Divided ==
    ASSUME NEW a \in Nat, NEW b \in Nat \ {0}
    PROVE  /\ a \div b \in Nat /\ a % b \in 0..b - 1
           /\ a = b * (a \div b) + (a % b)
OBVIOUS

(* What the floors leave over is no more than there are remainders. *)
LEMMA LeftOver ==
    ASSUME NEW budget \in Nat, NEW w, Weights(w), Total(w) > 0
    PROVE  LET floor == Floors(budget, w)
               rest == Rests(budget, w)
               left == budget - Total(floor)
           IN  /\ Weights(floor) /\ Weights(rest)
               /\ \A i \in DOMAIN w : /\ rest[i] < Total(w)
                                      /\ budget * w[i] = Total(w) * floor[i] + rest[i]
               /\ left \in Nat
               /\ left <= Cardinality({i \in DOMAIN w : rest[i] > 0})
<1> DEFINE D == DOMAIN w
           sum == Total(w)
           floor == Floors(budget, w)
           rest == Rests(budget, w)
           left == budget - Total(floor)
           P == {i \in D : rest[i] > 0}
           whole == [i \in D |-> budget * w[i]]
           top == [i \in D |-> IF i \in P THEN sum - 1 ELSE 0]
           none == [i \in D |-> 0]
<1>1. IsFiniteSet(D) /\ D \subseteq Nat /\ (\A i \in D : w[i] \in Nat) /\ sum \in Nat \ {0}
  BY TotalInt DEF Weights, Numbers
<1>2. ASSUME NEW i \in D
      PROVE  /\ floor[i] \in Nat /\ rest[i] \in 0..sum - 1
             /\ budget * w[i] = sum * floor[i] + rest[i]
  <2>1. w[i] \in Nat /\ budget * w[i] \in Nat
    BY <1>1
  <2>2. floor[i] = (budget * w[i]) \div sum /\ rest[i] = (budget * w[i]) % sum
    BY DEF Floors, Rests
  <2> HIDE DEF floor, rest, sum
  <2> QED BY <1>1, <2>1, <2>2, Divided
<1>3. DOMAIN floor = D /\ DOMAIN rest = D
  BY DEF Floors, Rests
<1>4. Weights(floor) /\ Weights(rest)
  <2> HIDE DEF floor, rest, sum
  <2> QED BY <1>1, <1>2, <1>3 DEF Weights, Numbers
<1>5. \A i \in D : whole[i] \in Int /\ whole[i] = budget * w[i] + none[i] /\ none[i] = 0
  BY <1>1
<1>6. \A i \in D : whole[i] = sum * floor[i] + rest[i]
  BY <1>2
<1>7. P \in SUBSET D /\ IsFiniteSet(P) /\ Cardinality(P) \in Nat
  <2>1. P \in SUBSET D
    OBVIOUS
  <2> HIDE DEF P
  <2> QED BY <1>1, <2>1, FS_Subset, FS_CardinalityType
<1>8. \A i \in D : /\ top[i] \in Int /\ rest[i] <= top[i]
                   /\ top[i] = (sum - 1) * Marks(D, P)[i] + none[i]
  BY <1>1, <1>2 DEF Marks
<1>9. DOMAIN whole = D /\ DOMAIN top = D /\ DOMAIN none = D /\ DOMAIN Marks(D, P) = D
  BY DEF Marks
<1> HIDE DEF D, sum, floor, rest, P, whole, top, none
<1>10. Numbers(whole) /\ Numbers(top) /\ Numbers(none) /\ Numbers(w)
  BY <1>1, <1>5, <1>8, <1>9 DEF Numbers, D
<1>11. Total(none) = 0
  BY <1>5, <1>9, <1>10, TotalZero
<1>12. Total(whole) = budget * sum
  <2>1. Total(whole) = budget * Total(w) + Total(none)
    BY <1>5, <1>9, <1>10, TotalLinear DEF D
  <2> QED BY <1>1, <1>11, <2>1 DEF sum
<1>13. Total(whole) = sum * Total(floor) + Total(rest)
  <2>1. Numbers(floor) /\ Numbers(rest) /\ sum \in Int
    BY <1>1, <1>4 DEF Weights
  <2> QED BY <1>3, <1>6, <1>9, <1>10, <2>1, TotalLinear
<1>14. Total(rest) \in Nat /\ Total(floor) \in Nat
  BY <1>4, TotalNat DEF Weights
<1>15. Total(rest) <= (sum - 1) * Cardinality(P)
  <2>1. Total(rest) <= Total(top)
    BY <1>3, <1>4, <1>8, <1>9, <1>10, TotalAtMost DEF Weights
  <2>2. Numbers(Marks(D, P)) /\ Total(Marks(D, P)) = Cardinality(P)
    BY <1>1, <1>7, TotalCounts
  <2>3. Total(top) = (sum - 1) * Total(Marks(D, P)) + Total(none)
    <3>1. sum - 1 \in Int
      BY <1>1
    <3> QED BY <1>8, <1>9, <1>10, <2>2, <3>1, TotalLinear
  <2> QED BY <1>1, <1>7, <1>11, <2>1, <2>2, <2>3
<1>16. left \in Int /\ sum * left = Total(rest)
  <2>1. sum * (budget - Total(floor)) = sum * budget - sum * Total(floor)
    BY <1>1, <1>14
  <2> QED BY <1>1, <1>12, <1>13, <1>14, <2>1
<1> HIDE DEF left
<1>17. left >= 0
  BY <1>1, <1>14, <1>16
<1>18. left <= Cardinality(P)
  <2> SUFFICES ASSUME left >= Cardinality(P) + 1 PROVE FALSE
    BY <1>7, <1>16
  <2>1. sum * left >= sum * (Cardinality(P) + 1)
    BY <1>1, <1>7, <1>16
  <2>2. sum * (Cardinality(P) + 1) = (sum - 1) * Cardinality(P) + Cardinality(P) + sum
    BY <1>1, <1>7
  <2>3. sum * left \in Int /\ (sum - 1) * Cardinality(P) \in Int
    BY <1>1, <1>7, <1>16
  <2> QED BY <1>1, <1>7, <1>15, <1>16, <2>1, <2>2, <2>3
<1>19. /\ Weights(floor) /\ Weights(rest)
       /\ \A i \in D : rest[i] < sum /\ budget * w[i] = sum * floor[i] + rest[i]
       /\ left \in Nat /\ left <= Cardinality(P)
  BY <1>1, <1>2, <1>4, <1>16, <1>17, <1>18
<1> QED BY <1>19, Zenon DEF D, sum, floor, rest, left, P

(* distributePoints gives every weight its share, to less than a cent, and
   exactly the budget in all: for every budget and any weights. *)
THEOREM DistributeIsFair ==
    ASSUME NEW budget \in Nat, NEW w, Weights(w)
    PROVE  /\ Weights(Distribute(budget, w)) /\ DOMAIN Distribute(budget, w) = DOMAIN w
           /\ FairShares(budget, w, Distribute(budget, w))
<1> DEFINE D == DOMAIN w
           sum == Total(w)
           floor == Floors(budget, w)
           rest == Rests(budget, w)
           left == budget - Total(floor)
           P == {i \in D : rest[i] > 0}
           C == Chosen(rest, left)
           s == Distribute(budget, w)
<1>1. IsFiniteSet(D) /\ D \subseteq Nat /\ (\A i \in D : w[i] \in Nat) /\ sum \in Nat
  BY TotalNat DEF Weights, Numbers
<1>2. DOMAIN floor = D /\ DOMAIN rest = D
  BY DEF Floors, Rests
<1>3. s = [i \in D |-> IF sum = 0 THEN 0 ELSE floor[i] + IF i \in C THEN 1 ELSE 0]
  <2>1. \A i \in D : Earlier(rest, i) = {j \in D : \/ (budget * w[j]) % sum > (budget * w[i]) % sum
                                                  \/ /\ (budget * w[j]) % sum = (budget * w[i]) % sum
                                                     /\ j < i}
    BY DEF Earlier, Rests
  <2>2. \A i \in D : i \in C <=> Cardinality(Earlier(rest, i)) < left
    BY <1>2 DEF Chosen
  <2>3. \A i \in D : floor[i] = (budget * w[i]) \div sum
    BY DEF Floors
  <2>4. left = budget - Total([i \in D |-> (budget * w[i]) \div sum])
    BY DEF Floors
  <2> QED BY <2>1, <2>2, <2>3, <2>4 DEF Distribute
<1>4. CASE sum = 0
  <2>1. s = [i \in D |-> 0]
    BY <1>3, <1>4
  <2> HIDE DEF s
  <2> QED BY <1>1, <1>4, <2>1 DEF Weights, Numbers, FairShares, s
<1>5. CASE sum # 0
  <2>1. /\ Weights(floor) /\ Weights(rest)
        /\ \A i \in D : rest[i] < sum /\ budget * w[i] = sum * floor[i] + rest[i]
        /\ left \in Nat /\ left <= Cardinality(P)
    <3>1. sum > 0
      BY <1>1, <1>5
    <3> QED BY <3>1, LeftOver
  <2>2. \A i \in D : s[i] = floor[i] + Marks(D, C)[i]
    BY <1>3, <1>5 DEF Marks
  <2>3. DOMAIN s = D /\ P \in SUBSET D /\ DOMAIN Marks(D, C) = D
    BY <1>3 DEF Marks
  <2>4. C \in SUBSET D
    BY <1>2 DEF Chosen
  <2>5. \A i \in D : i \in C <=> Cardinality(Earlier(rest, i)) < left
    BY <1>2 DEF Chosen
  <2>6. ASSUME NEW i \in D PROVE rest[i] \in Nat /\ floor[i] \in Nat /\ w[i] \in Nat
    <3> HIDE DEF rest, floor
    <3> QED BY <1>1, <1>2, <2>1 DEF Weights, Numbers
  <2>7. ASSUME NEW i \in C PROVE rest[i] > 0
    <3> SUFFICES ASSUME rest[i] = 0 PROVE FALSE
      BY <2>4, <2>6
    <3>1. P \subseteq Earlier(rest, i) /\ Earlier(rest, i) \in SUBSET D
      BY <1>2 DEF Earlier
    <3> HIDE DEF P, C, rest, floor, left, D, sum
    <3>2. /\ Cardinality(P) <= Cardinality(Earlier(rest, i))
          /\ Cardinality(Earlier(rest, i)) \in Nat /\ Cardinality(P) \in Nat
      BY <1>1, <2>3, <3>1, FS_Subset, FS_CardinalityType
    <3>3. Cardinality(Earlier(rest, i)) < left
      BY <2>4, <2>5
    <3> QED BY <2>1, <3>2, <3>3
  <2> HIDE DEF C, rest, floor, left, D, sum, s, P
  <2>8. Cardinality(C) = left
    <3>1. Cardinality(P) <= Cardinality(D) /\ Cardinality(P) \in Nat /\ Cardinality(D) \in Nat
      BY <1>1, <2>3, FS_Subset, FS_CardinalityType
    <3>2. Numbers(rest) /\ DOMAIN rest \subseteq Nat /\ left <= Cardinality(DOMAIN rest)
      BY <1>2, <2>1, <3>1 DEF Weights
    <3> QED BY <2>1, <3>2, ChosenCount DEF C
  <2>9. Numbers(Marks(D, C)) /\ Total(Marks(D, C)) = left
    BY <1>1, <2>4, <2>8, TotalCounts
  <2>10. Weights(s)
    <3>1. \A i \in D : Marks(D, C)[i] \in Nat
      BY DEF Marks
    <3>2. \A i \in D : s[i] \in Nat
      BY <2>2, <2>6, <3>1
    <3>3. DOMAIN s \subseteq Nat /\ IsFiniteSet(DOMAIN s) /\ \A i \in DOMAIN s : s[i] \in Nat
      BY <1>1, <2>3, <3>2
    <3> QED BY <3>3 DEF Weights, Numbers
  <2>11. Total(s) = budget
    <3>1. Numbers(s) /\ Numbers(floor) /\ Total(floor) \in Int
      BY <2>1, <2>10, TotalInt DEF Weights
    <3>2. \A i \in D : s[i] = 1 * floor[i] + Marks(D, C)[i]
      BY <2>2, <2>6
    <3>3. Total(s) = 1 * Total(floor) + Total(Marks(D, C))
      BY <1>2, <2>3, <2>9, <3>1, <3>2, TotalLinear
    <3> QED BY <2>1, <2>9, <3>1, <3>3 DEF left
  <2>12. ASSUME NEW i \in D
         PROVE  s[i] * sum - budget * w[i] < sum /\ budget * w[i] - s[i] * sum < sum
    <3>1. budget * w[i] = sum * floor[i] + rest[i] /\ rest[i] < sum
      BY <2>1
    <3>2. CASE i \in C
      <4>1. s[i] = floor[i] + 1 /\ rest[i] > 0
        BY <2>2, <2>7, <3>2 DEF Marks
      <4>2. (floor[i] + 1) * sum = sum * floor[i] + sum /\ sum * floor[i] \in Nat
        BY <1>1, <2>6
      <4> QED BY <1>1, <2>6, <3>1, <4>1, <4>2
    <3>3. CASE i \notin C
      <4>1. s[i] = floor[i]
        BY <2>2, <2>6, <3>3 DEF Marks
      <4>2. floor[i] * sum = sum * floor[i] /\ sum * floor[i] \in Nat
        BY <1>1, <2>6
      <4> QED BY <1>1, <2>6, <3>1, <4>1, <4>2, <1>5
    <3> QED BY <3>2, <3>3
  <2>13. FairShares(budget, w, s)
    BY <2>11, <2>12 DEF FairShares, D, sum
  <2> QED BY <2>3, <2>10, <2>13 DEF s, D
<1> QED BY <1>4, <1>5

-----------------------------------------------------------------------------
(***************************************************************************)
(* ActivityAuthoring, for any calls, definitions, edits and test cases and *)
(* any number of versions.                                                 *)
(*                                                                         *)
(* Standing is the reason: as long as the row has the version a call       *)
(* expects, all that its service and its transaction found is still so,    *)
(* because no content changes without the version, and versions only grow. *)
(***************************************************************************)
LEMMA FieldNames ==
    /\ A!Frozen \subseteq A!Fields
    /\ {"mode", "total", "config", "period", "rubric", "topic", "due", "limit"} \subseteq A!Fields
    /\ "due" \notin A!Frozen /\ "limit" \notin A!Frozen /\ "topic" \notin A!Frozen
BY DEF A!Frozen, A!Fields

(* What the schemas let through, as far as the page reaches. *)
LEMMA EditsValid ==
    ASSUME A!InputAssumption, NEW f \in Edits
    PROVE  /\ DOMAIN f \subseteq A!Fields
           /\ "due" \in DOMAIN f => f["due"] \in Nat
           /\ "limit" \in DOMAIN f => f["limit"] \in Nat
BY Z3 DEF A!InputAssumption, A!ValidField

LEMMA DraftsValid ==
    ASSUME A!InputAssumption, NEW d \in Drafts
    PROVE  /\ DOMAIN d = A!Fields /\ d["due"] \in Nat /\ d["limit"] \in Nat
BY FieldNames DEF A!InputAssumption, A!ValidField

(***************************************************************************)
(* What the steps of a call do.                                            *)
(***************************************************************************)
(* The other calls are left alone. *)
Others(a) ==
    \A b \in Authors \ {a} : /\ call'[b] = call[b] /\ input'[b] = input[b]
                             /\ seen'[b] = seen[b] /\ cases'[b] = cases[b]

LEMMA OverEffect ==
    ASSUME A!CallTypes, NEW a \in Authors, A!Over(a)
    PROVE  A!CallTypes' /\ Others(a) /\ call'[a] = A!Idle
<1>1. A!Idle \in A!Call
  BY DEF A!Idle, A!Call, A!Statuses
<1>2. call' \in [Authors -> A!Call] /\ call'[a] = A!Idle
  BY <1>1 DEF A!Over, A!CallTypes
<1>3. DOMAIN input' = Authors /\ DOMAIN seen' = Authors /\ DOMAIN cases' = Authors
  BY DEF A!Over, A!CallTypes
<1>4. Others(a)
  BY DEF A!Over, A!CallTypes, Others
<1>5. A!Idle.op = "none"
  BY DEF A!Idle
<1> QED
  BY <1>2, <1>3, <1>4, <1>5 DEF A!CallTypes, Others

LEMMA AskEffect ==
    ASSUME A!CallTypes, A!RowTypes, NEW a \in Authors, NEW op \in A!Operations, NEW pc \in {"read", "write"},
           NEW current \in A!Statuses, NEW fields, NEW list, A!Ask(a, op, pc, current, fields, list),
           op = "create" => fields \in Drafts, op = "update" => fields \in Edits
    PROVE  /\ A!CallTypes' /\ Others(a)
           /\ call'[a] = [op |-> op, pc |-> pc, expected |-> version, current |-> current,
                          published |-> FALSE]
           /\ input'[a] = fields
           /\ UNCHANGED <<class, topic, status, version, published, definition, tests>>
<1> DEFINE new == [op |-> op, pc |-> pc, expected |-> version, current |-> current, published |-> FALSE]
<1>1. new \in A!Call /\ new.op = op
  BY DEF A!Call, A!RowTypes
<1> HIDE DEF new
<1>2. call' = [call EXCEPT ![a] = new]
  BY DEF A!Ask, new
<1>3. call' \in [Authors -> A!Call] /\ call'[a] = new
  BY <1>1, <1>2 DEF A!CallTypes
<1>4. /\ DOMAIN input' = Authors /\ DOMAIN seen' = Authors /\ DOMAIN cases' = Authors
      /\ input'[a] = fields
  BY DEF A!Ask, A!CallTypes
<1>5. Others(a)
  BY <1>2 DEF A!Ask, A!CallTypes, Others
<1>6. A!CallTypes'
  BY <1>1, <1>3, <1>4, <1>5 DEF A!CallTypes, Others
<1> QED
  BY <1>3, <1>4, <1>5, <1>6 DEF A!Ask, A!activity, new

(* The status that an operation asks the row to have. *)
Named(a) ==
    /\ call[a].op \in {"publish", "replace"} => call[a].current = "DRAFT"
    /\ call[a].op = "close" => call[a].current = "PUBLISHED"
    /\ call[a].op = "reopen" => call[a].current = "CLOSED"
    /\ call[a].op = "restore" => call[a].current = "ARCHIVED"
    /\ call[a].op = "archive" => call[a].current # "NONE"

LEMMA AsksEffect ==
    ASSUME A!CallTypes, A!RowTypes, NEW a \in Authors, A!Asks(a)
    PROVE  /\ A!CallTypes' /\ Others(a)
           /\ UNCHANGED <<class, topic, status, version, published, definition, tests>>
           /\ call'[a].expected = version
           /\ \/ call'[a].op \in {"update", "publish", "restore", "replace", "create"} /\ call'[a].pc = "read"
              \/ call'[a].op \in {"close", "reopen", "archive"}
           /\ Named(a)'
           /\ call'[a].op = "update" => status' = call'[a].current /\ A!MayUpdate(input[a])'
<1> USE DEF Named, A!Operations, A!Statuses
<1>1. CASE A!AskCreate(a)
  <2>1. PICK d \in Drafts : A!Ask(a, "create", "read", "NONE", d, <<>>)
    BY <1>1 DEF A!AskCreate
  <2> QED
    BY <2>1, AskEffect
<1>2. CASE A!AskUpdate(a)
  <2>1. PICK f \in Edits : A!MayUpdate(f) /\ A!Ask(a, "update", "read", status, f, <<>>)
    BY <1>2 DEF A!AskUpdate
  <2>2. status \in A!Statuses
    BY DEF A!RowTypes
  <2>3. /\ A!CallTypes' /\ Others(a)
        /\ call'[a] = [op |-> "update", pc |-> "read", expected |-> version, current |-> status,
                       published |-> FALSE]
        /\ input'[a] = f
        /\ UNCHANGED <<class, topic, status, version, published, definition, tests>>
    BY <2>1, <2>2, AskEffect
  <2>4. A!MayUpdate(input[a])'
    BY <2>1, <2>3 DEF A!MayUpdate
  <2> QED
    BY <2>3, <2>4
<1>3. CASE A!AskReplace(a)
  <2>1. PICK t \in TestLists : A!Ask(a, "replace", "read", "DRAFT", Null, t)
    BY <1>3 DEF A!AskReplace
  <2> QED
    BY <2>1, AskEffect
<1>4. CASE A!AskPublish(a)
  BY <1>4, AskEffect DEF A!AskPublish
<1>5. CASE A!AskClose(a)
  BY <1>5, AskEffect DEF A!AskClose
<1>6. CASE A!AskReopen(a)
  BY <1>6, AskEffect DEF A!AskReopen
<1>7. CASE A!AskArchive(a)
  BY <1>7, AskEffect DEF A!AskArchive, A!RowTypes
<1>8. CASE A!AskRestore(a)
  BY <1>8, AskEffect DEF A!AskRestore
<1> QED
  BY <1>1, <1>2, <1>3, <1>4, <1>5, <1>6, <1>7, <1>8 DEF A!Asks


LEMMA ReadsEffect ==
    ASSUME A!CallTypes, A!RowTypes, NEW a \in Authors, A!Reads(a)
    PROVE  /\ A!CallTypes' /\ Others(a)
           /\ UNCHANGED <<class, topic, status, version, published, definition, tests>>
           /\ call[a].pc # "idle" /\ call'[a].pc # "idle"
           /\ UNCHANGED <<call[a].op, call[a].expected, call[a].current, input[a]>>
           /\ \/ call[a].op = "update" /\ seen'[a] = definition
              \/ call[a].op = "update" /\ call[a].pc = "tests" /\ seen'[a] = seen[a]
              \/ call[a].op = "publish" /\ call'[a].pc = "tests" /\ seen'[a] = definition
              \/ /\ call[a].op = "publish" /\ call[a].pc = "tests" /\ call'[a].pc = "write"
                 /\ A!Publishable(seen[a], tests)
              \/ call[a].op = "restore" /\ call'[a].published = published
              \/ call[a].op \in {"replace", "create"}
<1>0. /\ call[a] \in A!Call
      /\ \A n \in {"tests", "write"} : \A p \in BOOLEAN :
           /\ [call[a] EXCEPT !.pc = n] \in A!Call
           /\ [call[a] EXCEPT !.pc = n, !.published = p] \in A!Call
  BY DEF A!CallTypes, A!Call
<1> DEFINE Effect(n) ==
      /\ A!CallTypes' /\ Others(a)
      /\ UNCHANGED <<class, topic, status, version, published, definition, tests>>
      /\ UNCHANGED <<call[a].op, call[a].expected, call[a].current, input[a]>>
      /\ call'[a].pc = n
<1>1. ASSUME NEW op, NEW n \in {"tests", "write"}, A!Read(a, op, n)
      PROVE  Effect(n) /\ call[a].op = op /\ seen'[a] = definition /\ call'[a].published = published
  <2>1. published \in BOOLEAN
    BY DEF A!RowTypes
  <2>2. call' = [call EXCEPT ![a] = [call[a] EXCEPT !.pc = n, !.published = published]]
    BY <1>1 DEF A!Read
  <2>3. call' \in [Authors -> A!Call] /\ call'[a] = [call[a] EXCEPT !.pc = n, !.published = published]
    BY <1>0, <2>1, <2>2 DEF A!CallTypes
  <2>4. /\ DOMAIN input' = Authors /\ DOMAIN seen' = Authors /\ DOMAIN cases' = Authors
        /\ input'[a] = input[a] /\ seen'[a] = definition
    BY <1>1 DEF A!Read, A!CallTypes
  <2>5. Others(a)
    BY <1>1, <2>2 DEF A!Read, A!CallTypes, Others
  <2>6. /\ call'[a].op = call[a].op /\ call'[a].expected = call[a].expected
        /\ call'[a].current = call[a].current /\ call'[a].pc = n /\ call'[a].published = published
    BY <1>0, <2>3 DEF A!Call
  <2>7. A!CallTypes'
    BY <2>3, <2>4, <2>5, <2>6 DEF A!CallTypes, Others
  <2> QED
    BY <1>1, <2>4, <2>5, <2>6, <2>7 DEF A!Read, A!At, A!activity
<1>2. ASSUME call' = [call EXCEPT ![a].pc = "write"],
             DOMAIN seen' = Authors, DOMAIN cases' = Authors,
             \A b \in Authors \ {a} : seen'[b] = seen[b] /\ cases'[b] = cases[b],
             UNCHANGED <<class, topic, A!activity, input>>
      PROVE  Effect("write")
  <2>1. call' \in [Authors -> A!Call] /\ call'[a] = [call[a] EXCEPT !.pc = "write"]
    BY <1>0, <1>2, published \in BOOLEAN DEF A!CallTypes, A!RowTypes
  <2>2. Others(a) /\ DOMAIN input' = Authors
    BY <1>2 DEF A!CallTypes, Others
  <2>3. /\ call'[a].op = call[a].op /\ call'[a].expected = call[a].expected
        /\ call'[a].current = call[a].current /\ call'[a].pc = "write"
    BY <1>0, <2>1 DEF A!Call
  <2>4. A!CallTypes'
    BY <1>2, <2>1, <2>2, <2>3 DEF A!CallTypes, Others
  <2> QED
    BY <1>2, <2>2, <2>3, <2>4 DEF A!activity
<1>3. CASE A!ReadToUpdate(a)
  <2>1. A!Read(a, "update", "tests")
    BY <1>3 DEF A!ReadToUpdate
  <2> QED
    BY <2>1, <1>1 DEF A!Read, A!At
<1>4. CASE A!ReadToPublish(a)
  <2>1. A!Read(a, "publish", "tests")
    BY <1>4 DEF A!ReadToPublish
  <2> QED
    BY <2>1, <1>1 DEF A!Read, A!At
<1>5. CASE A!ReadToRestore(a)
  <2>1. A!Read(a, "restore", "write")
    BY <1>5 DEF A!ReadToRestore
  <2> QED
    BY <2>1, <1>1 DEF A!Read, A!At
<1>6. CASE A!ReadToReplace(a)
  <2>1. A!Read(a, "replace", "write")
    BY <1>6 DEF A!ReadToReplace
  <2> QED
    BY <2>1, <1>1 DEF A!Read, A!At
<1>7. CASE A!ReadTestsToPublish(a)
  <2>1. DOMAIN seen' = Authors /\ DOMAIN cases' = Authors
    BY <1>7 DEF A!ReadTestsToPublish, A!CallTypes
  <2>2. \A b \in Authors \ {a} : seen'[b] = seen[b] /\ cases'[b] = cases[b]
    BY <1>7 DEF A!ReadTestsToPublish, A!CallTypes
  <2>3. Effect("write")
    BY <1>2, <1>7, <2>1, <2>2 DEF A!ReadTestsToPublish
  <2> QED
    BY <1>7, <2>3 DEF A!ReadTestsToPublish, A!At
<1>8. CASE A!ReadTestsToUpdate(a)
  <2>1. DOMAIN seen' = Authors /\ DOMAIN cases' = Authors /\ seen'[a] = seen[a]
    BY <1>8 DEF A!ReadTestsToUpdate, A!CallTypes
  <2>2. \A b \in Authors \ {a} : seen'[b] = seen[b] /\ cases'[b] = cases[b]
    BY <1>8 DEF A!ReadTestsToUpdate, A!CallTypes
  <2>3. Effect("write")
    BY <1>2, <1>8, <2>1, <2>2 DEF A!ReadTestsToUpdate
  <2> QED
    BY <1>8, <2>1, <2>3 DEF A!ReadTestsToUpdate, A!At
<1>9. CASE A!CreateRead(a)
  <2>1. DOMAIN seen' = Authors /\ DOMAIN cases' = Authors
    BY <1>9 DEF A!CreateRead, A!CallTypes
  <2>2. \A b \in Authors \ {a} : seen'[b] = seen[b] /\ cases'[b] = cases[b]
    BY <1>9 DEF A!CreateRead
  <2>3. Effect("write")
    BY <1>2, <1>9, <2>1, <2>2 DEF A!CreateRead
  <2> QED
    BY <1>9, <2>3 DEF A!CreateRead, A!At
<1> QED
  BY <1>3, <1>4, <1>5, <1>6, <1>7, <1>8, <1>9 DEF A!Reads

LEMMA WritesEffect ==
    ASSUME A!CallTypes, A!RowTypes, NEW a \in Authors, A!Writes(a)
    PROVE  /\ A!CallTypes' /\ Others(a) /\ call'[a] = A!Idle
           /\ version' = version + 1
           /\ call[a].pc = "write"
           /\ UNCHANGED <<class, topic>>
           /\ \/ A!Cas(a)
              \/ call[a].op = "create" /\ A!CreateInsert(a)
<1>1. A!Over(a)
  BY DEF A!Writes, A!Write, A!WriteUpdate, A!WriteTests, A!WritePublish, A!WriteClose, A!WriteReopen, A!WriteArchive,
     A!WriteRestore, A!CreateInsert
<1>2. A!CallTypes' /\ Others(a) /\ call'[a] = A!Idle
  BY <1>1, OverEffect
<1> QED
  BY <1>2 DEF A!Writes, A!Write, A!WriteUpdate, A!WriteTests, A!WritePublish, A!WriteClose, A!WriteReopen, A!WriteArchive,
     A!WriteRestore, A!CreateInsert, A!At, A!NextUpdatedAt


(***************************************************************************)
(* The invariant.                                                          *)
(***************************************************************************)
PublishedStatus == published => status \in {"PUBLISHED", "CLOSED", "ARCHIVED"}
CompletionHasNoRubric == definition["mode"] = "COMPLETION" => definition["rubric"] = Null

(* What call a relies on as long as the version is the one it expects. *)
Fresh(a) ==
    /\ call[a].op = "update" =>
         /\ status = call[a].current
         /\ A!MayUpdate(input[a])
         /\ call[a].pc # "read" => seen[a] = definition
    /\ call[a].op = "publish" =>
         /\ call[a].pc = "tests" => seen[a] = definition
         /\ call[a].pc = "write" => A!Publishable(definition, tests)
    /\ call[a].op = "restore" /\ call[a].pc = "write" => call[a].published = published
Standing(a) ==
    call[a].pc # "idle" =>
      /\ call[a].expected <= version
      /\ Named(a)
      /\ call[a].expected = version => Fresh(a)
CallsStand == \A a \in Authors : Standing(a)

ActivityIInv == /\ A!RowTypes
                /\ A!CallTypes
                /\ PublishedStatus
                /\ CompletionHasNoRubric
                /\ CallsStand
                /\ A!PublishedIsSound

(***************************************************************************)
(* An update of a published activity.                                      *)
(***************************************************************************)
LEMMA UpdateEffect ==
    ASSUME A!InputAssumption,
           ActivityIInv, NEW a \in Authors, A!WriteUpdate(a)
    PROVE  /\ DOMAIN definition' = A!Fields
           /\ definition'["due"] \in Nat /\ definition'["limit"] \in Nat
           /\ CompletionHasNoRubric'
           /\ status # "NONE"
           /\ published =>
                /\ tests' = tests
                /\ \A x \in A!Frozen : definition'[x] = definition[x]
                /\ definition'["due"] >= definition["due"]
                /\ definition'["limit"] >= definition["limit"]
<1> DEFINE f == input[a]
           d == A!Merge(f, definition)
           rubric == IF d["mode"] = "COMPLETION" THEN Null
                     ELSE IF A!Derives(a) THEN A!DerivedRubric(d["total"], d["config"])
                     ELSE d["rubric"]
<1>1. /\ call[a].op = "update" /\ call[a].pc = "write"
      /\ status = call[a].current /\ version = call[a].expected
  BY DEF A!WriteUpdate, A!Write, A!At, A!Cas
<1>2. A!MayUpdate(f) /\ seen[a] = definition
  BY <1>1 DEF ActivityIInv, CallsStand, Standing, Fresh
<1>3. f \in Edits
  BY <1>1 DEF ActivityIInv, A!CallTypes
<1>4. /\ DOMAIN f \subseteq A!Fields
      /\ "due" \in DOMAIN f => f["due"] \in Nat
      /\ "limit" \in DOMAIN f => f["limit"] \in Nat
  BY <1>3, EditsValid
<1>5. /\ DOMAIN definition = A!Fields
      /\ status # "NONE"
      /\ definition["due"] \in Nat /\ definition["limit"] \in Nat
  BY <1>2 DEF ActivityIInv, A!RowTypes, A!MayUpdate
<1>6. /\ DOMAIN d = A!Fields
      /\ \A x \in A!Fields : d[x] = IF x \in DOMAIN f THEN f[x] ELSE definition[x]
  BY <1>5, Zenon DEF A!Merge
<1>7. A!Merged(a) = d
  BY <1>2 DEF A!Merged
<1>8. definition' = [d EXCEPT !["rubric"] = rubric]
  BY <1>7 DEF A!WriteUpdate, A!UpdatedDefinition
<1> HIDE DEF f, d, rubric
<1>9. /\ DOMAIN definition' = A!Fields
      /\ definition'["rubric"] = rubric
      /\ \A x \in A!Fields \ {"rubric"} : definition'[x] = d[x]
  BY <1>6, <1>8, FieldNames
<1>10. definition'["due"] \in Nat /\ definition'["limit"] \in Nat
  BY <1>4, <1>5, <1>6, <1>9, FieldNames
<1>11. CompletionHasNoRubric'
  <2>1. definition'["mode"] = d["mode"]
    BY <1>9, FieldNames
  <2> QED
    BY <2>1, <1>9 DEF CompletionHasNoRubric, rubric
<1>12. ASSUME published
       PROVE  /\ tests' = tests
              /\ \A x \in A!Frozen : definition'[x] = definition[x]
              /\ definition'["due"] >= definition["due"]
              /\ definition'["limit"] >= definition["limit"]
  <2>1. status \in {"PUBLISHED", "CLOSED"}
    BY <1>2, <1>12 DEF ActivityIInv, PublishedStatus, A!MayUpdate
  <2>2. DOMAIN f \intersect A!Frozen = {}
    BY <1>2, <2>1, FieldNames DEF A!MayUpdate
  <2>3. \A x \in A!Frozen : d[x] = definition[x]
    BY <1>6, <2>2, FieldNames
  <2>4. ~A!Regrades(a) /\ ~A!Derives(a)
    BY <1>1, <2>1 DEF A!Regrades, A!Derives
  <2>5. d["mode"] = definition["mode"] /\ d["rubric"] = definition["rubric"]
    BY <2>3 DEF A!Frozen
  <2>6. rubric = definition["rubric"]
    BY <2>4, <2>5 DEF rubric, ActivityIInv, CompletionHasNoRubric
  <2>7. \A x \in A!Frozen : definition'[x] = definition[x]
    BY <1>9, <2>3, <2>6, FieldNames
  <2>8. tests' = tests
    BY <1>2, <1>7, <2>4, <2>5 DEF A!WriteUpdate, A!UpdatedTests
  <2>9. definition'["due"] = d["due"] /\ definition'["limit"] = d["limit"]
    BY <1>9, FieldNames
  <2>10. /\ "due" \in DOMAIN f => f["due"] >= definition["due"]
         /\ "limit" \in DOMAIN f => f["limit"] >= definition["limit"]
    BY <1>2, <2>1, FieldNames DEF A!MayUpdate, A!Given
  <2>11. d["due"] >= definition["due"] /\ d["limit"] >= definition["limit"]
    BY <1>5, <1>6, <2>10, FieldNames
  <2> QED
    BY <2>7, <2>8, <2>9, <2>11
<1> QED
  BY <1>5, <1>9, <1>10, <1>11, <1>12

(***************************************************************************)
(* What a call relies on, while it waits.                                  *)
(***************************************************************************)
SameCall(b) == /\ call'[b] = call[b] /\ input'[b] = input[b] /\ seen'[b] = seen[b]

LEMMA StandingKept ==
    ASSUME NEW b \in Authors, Standing(b), SameCall(b),
           UNCHANGED <<status, version, published, definition, tests>>
    PROVE  Standing(b)'
<1>1. Named(b)' <=> Named(b)
  BY DEF Named, SameCall
<1>2. A!MayUpdate(input[b])' <=> A!MayUpdate(input[b])
  BY DEF A!MayUpdate, SameCall
<1>3. Fresh(b) => Fresh(b)'
  BY <1>2 DEF Fresh, SameCall
<1> QED
  BY <1>1, <1>3 DEF Standing, SameCall

LEMMA StandingOutdated ==
    ASSUME A!RowTypes, A!CallTypes, NEW b \in Authors, Standing(b), SameCall(b), version' = version + 1
    PROVE  Standing(b)'
<1>1. Named(b)' <=> Named(b)
  BY DEF Named, SameCall
<1>2. call[b].expected \in Nat /\ version \in Nat
  BY DEF A!RowTypes, A!CallTypes, A!Call
<1>3. call[b].pc # "idle" => call[b].expected <= version' /\ call[b].expected # version'
  BY <1>2 DEF Standing
<1> QED
  BY <1>1, <1>3 DEF Standing, SameCall

LEMMA OthersStand ==
    ASSUME A!RowTypes, A!CallTypes, CallsStand, NEW a \in Authors, Others(a), Standing(a)',
           \/ UNCHANGED <<status, version, published, definition, tests>>
           \/ version' = version + 1
    PROVE  CallsStand'
<1> SUFFICES ASSUME NEW b \in Authors PROVE Standing(b)'
  BY DEF CallsStand
<1>1. CASE b = a
  BY <1>1
<1>2. CASE b # a
  <2>1. SameCall(b) /\ Standing(b)
    BY <1>2 DEF Others, SameCall, CallsStand
  <2> QED
    BY <2>1, StandingKept, StandingOutdated
<1> QED
  BY <1>1, <1>2

LEMMA IdleStands ==
    ASSUME NEW a \in Authors, call'[a] = A!Idle
    PROVE  Standing(a)'
BY DEF Standing, A!Idle

LEMMA RowKept ==
    ASSUME ActivityIInv, UNCHANGED <<status, version, published, definition, tests>>,
           class' \in {"ACTIVE", "ARCHIVED"}, topic' \in BOOLEAN
    PROVE  A!RowTypes' /\ PublishedStatus' /\ CompletionHasNoRubric' /\ A!PublishedIsSound'
<1>1. A!RowTypes'
  BY DEF ActivityIInv, A!RowTypes
<1>2. PublishedStatus' /\ CompletionHasNoRubric'
  BY DEF ActivityIInv, PublishedStatus, CompletionHasNoRubric
<1>3. A!PublishedIsSound'
  BY DEF ActivityIInv, A!PublishedIsSound, A!Publishable
<1> QED
  BY <1>1, <1>2, <1>3

(***************************************************************************)
(* The steps.                                                              *)
(***************************************************************************)
LEMMA AsksKeep ==
    ASSUME ActivityIInv, NEW a \in Authors, A!Asks(a)
    PROVE  ActivityIInv'
<1> USE DEF ActivityIInv
<1>1. /\ A!CallTypes' /\ Others(a)
      /\ UNCHANGED <<class, topic, status, version, published, definition, tests>>
      /\ call'[a].expected = version
      /\ \/ call'[a].op \in {"update", "publish", "restore", "replace", "create"} /\ call'[a].pc = "read"
         \/ call'[a].op \in {"close", "reopen", "archive"}
      /\ Named(a)'
      /\ call'[a].op = "update" => status' = call'[a].current /\ A!MayUpdate(input[a])'
  BY AsksEffect
<1>2. Fresh(a)'
  BY <1>1 DEF Fresh
<1>3. version' \in Nat /\ call'[a].expected <= version'
  BY <1>1 DEF A!RowTypes
<1>4. Standing(a)'
  BY <1>1, <1>2, <1>3 DEF Standing
<1>5. CallsStand'
  BY <1>1, <1>4, OthersStand
<1>6. A!RowTypes' /\ PublishedStatus' /\ CompletionHasNoRubric' /\ A!PublishedIsSound'
  BY <1>1, RowKept DEF A!RowTypes
<1> QED
  BY <1>1, <1>5, <1>6

LEMMA ReadsKeep ==
    ASSUME ActivityIInv, NEW a \in Authors, A!Reads(a)
    PROVE  ActivityIInv'
<1>1. /\ A!RowTypes /\ A!CallTypes /\ CallsStand
      /\ Standing(a)
  BY DEF ActivityIInv, CallsStand
<1>2. /\ A!CallTypes' /\ Others(a)
      /\ UNCHANGED <<class, topic, status, version, published, definition, tests>>
      /\ call[a].pc # "idle" /\ call'[a].pc # "idle"
      /\ UNCHANGED <<call[a].op, call[a].expected, call[a].current, input[a]>>
      /\ \/ call[a].op = "update" /\ seen'[a] = definition
         \/ call[a].op = "update" /\ call[a].pc = "tests" /\ seen'[a] = seen[a]
         \/ call[a].op = "publish" /\ call'[a].pc = "tests" /\ seen'[a] = definition
         \/ /\ call[a].op = "publish" /\ call[a].pc = "tests" /\ call'[a].pc = "write"
            /\ A!Publishable(seen[a], tests)
         \/ call[a].op = "restore" /\ call'[a].published = published
         \/ call[a].op \in {"replace", "create"}
  BY <1>1, ReadsEffect
<1>3. Named(a)' <=> Named(a)
  BY <1>2 DEF Named
<1>4. A!MayUpdate(input[a])' <=> A!MayUpdate(input[a])
  BY <1>2 DEF A!MayUpdate
<1>5. A!Publishable(definition, tests)' <=> A!Publishable(definition, tests)
  BY <1>2 DEF A!Publishable
<1>6. ASSUME Fresh(a) PROVE Fresh(a)'
  <2>1. CASE call[a].op = "update"
    <3>1. seen'[a] = definition
      BY <1>2, <1>6, <2>1 DEF Fresh
    <3> QED
      BY <1>2, <1>4, <1>6, <2>1, <3>1 DEF Fresh
  <2>2. CASE call[a].op = "publish"
    BY <1>2, <1>5, <1>6, <2>2 DEF Fresh
  <2>3. CASE call[a].op = "restore"
    BY <1>2, <2>3 DEF Fresh
  <2>4. CASE call[a].op \in {"replace", "create"}
    BY <1>2, <2>4 DEF Fresh
  <2> QED
    BY <1>2, <2>1, <2>2, <2>3, <2>4
<1>7. Standing(a)'
  BY <1>1, <1>2, <1>3, <1>6 DEF Standing
<1>8. CallsStand'
  BY <1>1, <1>2, <1>7, OthersStand
<1>9. A!RowTypes' /\ PublishedStatus' /\ CompletionHasNoRubric' /\ A!PublishedIsSound'
  BY <1>1, <1>2, RowKept DEF A!RowTypes
<1> QED
  BY <1>2, <1>8, <1>9 DEF ActivityIInv

(* What a write of a call leaves of the row. *)
RowSound ==
    /\ A!RowTypes' /\ PublishedStatus' /\ CompletionHasNoRubric' /\ A!PublishedIsSound'
    /\ PublicationStands

LEMMA StatusWritten ==
    ASSUME ActivityIInv, NEW a \in Authors, A!Writes(a), status # "NONE", status' \in A!Statuses \ {"NONE"},
           published' \in BOOLEAN, published => published',
           published' => status' \in {"PUBLISHED", "CLOSED", "ARCHIVED"} /\ A!Publishable(definition, tests),
           UNCHANGED <<definition, tests>>
    PROVE  RowSound
<1>1. /\ version' = version + 1 /\ class' = class /\ topic' = topic
      /\ A!RowTypes /\ CompletionHasNoRubric
  BY WritesEffect DEF ActivityIInv
<1>2. A!RowTypes'
  BY <1>1 DEF A!RowTypes
<1>3. PublishedStatus' /\ CompletionHasNoRubric'
  BY <1>1 DEF PublishedStatus, CompletionHasNoRubric
<1>4. A!PublishedIsSound'
  BY DEF A!PublishedIsSound, A!Publishable
<1>5. PublicationStands
  BY <1>1 DEF PublicationStands, A!RowTypes
<1> QED
  BY <1>2, <1>3, <1>4, <1>5 DEF RowSound

LEMMA WritesKeep ==
    ASSUME A!InputAssumption,
           ActivityIInv, NEW a \in Authors, A!Writes(a)
    PROVE  ActivityIInv' /\ RowSound /\ version' > version
<1>1. /\ A!RowTypes /\ A!CallTypes /\ CallsStand /\ PublishedStatus /\ CompletionHasNoRubric
      /\ Standing(a) /\ version \in Nat
  BY DEF ActivityIInv, CallsStand, A!RowTypes
<1>2. /\ A!CallTypes' /\ Others(a) /\ call'[a] = A!Idle /\ version' = version + 1
      /\ call[a].pc = "write" /\ UNCHANGED <<class, topic>>
      /\ A!Cas(a) \/ (call[a].op = "create" /\ A!CreateInsert(a))
  BY <1>1, WritesEffect
<1>3. Standing(a)'
  BY <1>2, IdleStands
<1>4. CallsStand'
  BY <1>1, <1>2, <1>3, OthersStand
<1>5. A!Cas(a) => status = call[a].current /\ Named(a) /\ Fresh(a)
  BY <1>1, <1>2 DEF A!Cas, Standing
<1>6. published => A!PublishedIsSound /\ A!Publishable(definition, tests)
  BY DEF ActivityIInv, A!PublishedIsSound
<1>7. status \in A!Statuses /\ published \in BOOLEAN
  BY <1>1 DEF A!RowTypes
<1>8. RowSound
  <2>1. CASE A!WriteUpdate(a)
    <3>1. /\ DOMAIN definition' = A!Fields
          /\ definition'["due"] \in Nat /\ definition'["limit"] \in Nat
          /\ CompletionHasNoRubric'
          /\ status # "NONE"
          /\ published =>
               /\ tests' = tests
               /\ \A x \in A!Frozen : definition'[x] = definition[x]
               /\ definition'["due"] >= definition["due"]
               /\ definition'["limit"] >= definition["limit"]
      BY <2>1, UpdateEffect
    <3>2. status' = status /\ published' = published
      BY <2>1 DEF A!WriteUpdate
    <3>3. A!RowTypes' /\ PublishedStatus'
      BY <1>1, <1>2, <3>1, <3>2 DEF A!RowTypes, PublishedStatus
    <3>4. published => \A x \in {"mode", "total", "rubric", "period"} : definition'[x] = definition[x]
      BY <3>1 DEF A!Frozen
    <3>5. A!PublishedIsSound'
      BY <1>6, <3>1, <3>2, <3>4 DEF A!PublishedIsSound, A!Publishable
    <3>6. PublicationStands
      BY <1>1, <3>1, <3>2 DEF PublicationStands, PublishedStatus, Frozen, A!Frozen
    <3> QED
      BY <3>1, <3>3, <3>5, <3>6 DEF RowSound
  <2>2. CASE A!WriteTests(a)
    <3>1. status = "DRAFT" /\ UNCHANGED <<status, published, definition>>
      BY <1>5, <2>2 DEF A!WriteTests, A!Write, A!At, Named
    <3>2. ~published
      BY <1>1, <3>1 DEF PublishedStatus
    <3>3. A!RowTypes'
      BY <1>1, <1>2, <3>1 DEF A!RowTypes
    <3> QED
      BY <1>1, <3>1, <3>2, <3>3 DEF RowSound, PublishedStatus, CompletionHasNoRubric, A!PublishedIsSound,
         PublicationStands
  <2>3. CASE A!WritePublish(a)
    <3>1. call[a].op = "publish" /\ A!Cas(a)
      BY <2>3 DEF A!WritePublish, A!Write, A!At
    <3>2. status # "NONE" /\ A!Publishable(definition, tests)
      BY <1>2, <1>5, <3>1 DEF Named, Fresh
    <3> QED
      BY <2>3, <3>2, StatusWritten DEF A!WritePublish, A!Statuses
  <2>4. CASE A!WriteClose(a)
    <3>1. status = "PUBLISHED"
      BY <1>5, <2>4 DEF A!WriteClose, A!Write, A!At, Named
    <3> QED
      BY <1>6, <1>7, <2>4, <3>1, StatusWritten DEF A!WriteClose, A!Statuses
  <2>5. CASE A!WriteReopen(a)
    <3>1. status = "CLOSED"
      BY <1>5, <2>5 DEF A!WriteReopen, A!Write, A!At, Named
    <3> QED
      BY <1>6, <1>7, <2>5, <3>1, StatusWritten DEF A!WriteReopen, A!Statuses
  <2>6. CASE A!WriteArchive(a)
    <3>1. status # "NONE"
      BY <1>5, <2>6 DEF A!WriteArchive, A!Write, A!At, Named
    <3> QED
      BY <1>6, <1>7, <2>6, <3>1, StatusWritten DEF A!WriteArchive, A!Statuses
  <2>7. CASE A!WriteRestore(a)
    <3>1. status = "ARCHIVED" /\ call[a].published = published
      BY <1>2, <1>5, <2>7 DEF A!WriteRestore, A!Write, A!At, Named, Fresh
    <3> QED
      BY <1>6, <1>7, <2>7, <3>1, StatusWritten DEF A!WriteRestore, A!Statuses
  <2>8. CASE A!CreateInsert(a)
    <3> DEFINE d == input[a]
               rubric == A!CreatedDefinition(d)["rubric"]
    <3>1. call[a].op = "create" /\ status = "NONE"
      BY <2>8 DEF A!CreateInsert, A!At
    <3>0. call[a].op = "create" => input[a] \in Drafts
      BY <1>1 DEF A!CallTypes
    <3>1a. d \in Drafts
      BY <3>0, <3>1
    <3>2. DOMAIN d = A!Fields /\ d["due"] \in Nat /\ d["limit"] \in Nat
      BY <3>1a, DraftsValid
    <3>3. definition' = A!CreatedDefinition(d) /\ status' = "DRAFT" /\ published' = published
      BY <2>8 DEF A!CreateInsert
    <3>4. /\ DOMAIN definition' = A!Fields
          /\ \A x \in A!Fields \ {"rubric"} : definition'[x] = d[x]
          /\ d["mode"] = "COMPLETION" => definition'["rubric"] = Null
      BY <3>2, <3>3, FieldNames DEF A!CreatedDefinition
    <3>5. ~published
      BY <1>1, <3>1 DEF PublishedStatus
    <3>6. A!RowTypes'
      BY <1>1, <1>2, <3>2, <3>3, <3>4, FieldNames DEF A!RowTypes, A!Statuses
    <3>7. CompletionHasNoRubric'
      BY <3>4, FieldNames DEF CompletionHasNoRubric
    <3> QED
      BY <3>3, <3>5, <3>6, <3>7 DEF RowSound, PublishedStatus, A!PublishedIsSound, PublicationStands
  <2> QED
    BY <2>1, <2>2, <2>3, <2>4, <2>5, <2>6, <2>7, <2>8 DEF A!Writes
<1> QED
  BY <1>1, <1>2, <1>4, <1>8 DEF ActivityIInv, RowSound

LEMMA RefuseKeeps ==
    ASSUME ActivityIInv, NEW a \in Authors, A!Refuse(a)
    PROVE  ActivityIInv'
<1>1. A!RowTypes /\ A!CallTypes /\ CallsStand
  BY DEF ActivityIInv
<1>2. A!Over(a) /\ UNCHANGED <<class, topic, status, version, published, definition, tests>>
  BY DEF A!Refuse, A!activity
<1>3. A!CallTypes' /\ Others(a) /\ call'[a] = A!Idle
  BY <1>1, <1>2, OverEffect
<1>4. Standing(a)'
  BY <1>3, IdleStands
<1>5. CallsStand'
  BY <1>1, <1>2, <1>3, <1>4, OthersStand
<1> QED
  BY <1>1, <1>2, <1>3, <1>5, RowKept DEF ActivityIInv, A!RowTypes

LEMMA RestKeeps ==
    ASSUME ActivityIInv, UNCHANGED <<A!activity, A!calls>>, class' \in {"ACTIVE", "ARCHIVED"}, topic' \in BOOLEAN
    PROVE  ActivityIInv'
<1>1. /\ UNCHANGED <<status, version, published, definition, tests>>
      /\ UNCHANGED <<call, input, seen, cases>>
  BY DEF A!activity, A!calls
<1>2. A!CallTypes'
  BY <1>1 DEF ActivityIInv, A!CallTypes
<1>3. \A b \in Authors : SameCall(b) /\ Standing(b)
  BY <1>1 DEF ActivityIInv, CallsStand, SameCall
<1>4. CallsStand'
  BY <1>1, <1>3, StandingKept DEF CallsStand
<1> QED
  BY <1>1, <1>2, <1>4, RowKept DEF ActivityIInv

LEMMA RemoveTopicKeeps ==
    ASSUME ActivityIInv, A!RemoveTopic
    PROVE  /\ ActivityIInv'
           /\ PublicationStands
           /\ \/ UNCHANGED A!activity
              \/ version' > version
<1>1. /\ topic' = FALSE /\ UNCHANGED <<class, status, published, tests, A!calls>>
      /\ \/ UNCHANGED <<version, definition>>
         \/ /\ version' = version + 1
            /\ definition' = [definition EXCEPT !["topic"] = FALSE]
  BY DEF A!RemoveTopic, A!TopicGone, A!NextUpdatedAt
<1>2. A!RowTypes /\ A!CallTypes /\ CallsStand /\ PublishedStatus /\ CompletionHasNoRubric
  BY DEF ActivityIInv
<1>3. CASE UNCHANGED <<version, definition>>
  <2>1. UNCHANGED <<A!activity, A!calls>>
    BY <1>1, <1>3 DEF A!activity
  <2>2. ActivityIInv'
    BY <1>1, <1>2, <2>1, RestKeeps DEF A!RowTypes
  <2>3. PublicationStands
    BY <1>1, <1>2, <1>3 DEF PublicationStands, PublishedStatus, A!RowTypes
  <2> QED
    BY <2>1, <2>2, <2>3
<1>4. CASE version' = version + 1 /\ definition' = [definition EXCEPT !["topic"] = FALSE]
  <2>1. /\ DOMAIN definition' = DOMAIN definition
        /\ DOMAIN definition = A!Fields
        /\ \A x \in A!Fields \ {"topic"} : definition'[x] = definition[x]
    BY <1>2, <1>4 DEF A!RowTypes
  <2>2. A!RowTypes'
    <3>1. definition'["due"] = definition["due"] /\ definition'["limit"] = definition["limit"]
      BY <2>1, FieldNames
    <3>2. version' \in Nat
      BY <1>2, <1>4 DEF A!RowTypes
    <3> QED
      BY <1>1, <1>2, <2>1, <3>1, <3>2 DEF A!RowTypes
  <2>3. \A x \in {"mode", "total", "rubric", "period", "due", "limit"} \union A!Frozen :
          definition'[x] = definition[x]
    BY <2>1, FieldNames
  <2>4. PublishedStatus' /\ CompletionHasNoRubric'
    BY <1>1, <1>2, <2>3 DEF PublishedStatus, CompletionHasNoRubric
  <2>5. A!PublishedIsSound'
    BY <1>1, <2>3 DEF ActivityIInv, A!PublishedIsSound, A!Publishable
  <2>6. A!CallTypes' /\ UNCHANGED <<call, input, seen, cases>>
    BY <1>1, <1>2 DEF A!CallTypes, A!calls
  <2>7. \A b \in Authors : SameCall(b) /\ Standing(b)
    BY <1>2, <2>6 DEF CallsStand, SameCall
  <2>8. CallsStand'
    BY <1>2, <1>4, <2>7, StandingOutdated DEF CallsStand
  <2>9. PublicationStands
    <3>1. published => status \notin {"NONE", "DRAFT"} /\ definition["due"] \in Nat /\ definition["limit"] \in Nat
      BY <1>2 DEF PublishedStatus, A!RowTypes
    <3>2. /\ \A x \in A!Frozen : definition'[x] = definition[x]
          /\ definition'["due"] = definition["due"] /\ definition'["limit"] = definition["limit"]
      BY <2>3
    <3> QED
      BY <1>1, <3>1, <3>2 DEF PublicationStands, Frozen, A!Frozen
  <2> QED
    BY <1>2, <1>4, <2>2, <2>4, <2>5, <2>6, <2>8, <2>9 DEF ActivityIInv, A!RowTypes
<1> QED
  BY <1>1, <1>3, <1>4

LEMMA Initially == A!Init => ActivityIInv
<1> SUFFICES ASSUME A!Init PROVE ActivityIInv
  OBVIOUS
<1>1. A!Idle \in A!Call /\ A!Idle.op = "none" /\ A!Idle.pc = "idle"
  BY DEF A!Idle, A!Call, A!Statuses
<1>2. A!RowTypes
  BY DEF A!Init, A!RowTypes, A!Statuses, A!NoDefinition
<1>3. A!CallTypes
  BY <1>1 DEF A!Init, A!CallTypes
<1>4. definition["rubric"] = Null
  BY FieldNames DEF A!Init, A!NoDefinition
<1>5. PublishedStatus /\ CompletionHasNoRubric /\ A!PublishedIsSound
  BY <1>4 DEF A!Init, PublishedStatus, CompletionHasNoRubric, A!PublishedIsSound
<1>6. CallsStand
  BY <1>1 DEF A!Init, CallsStand, Standing
<1> QED
  BY <1>2, <1>3, <1>5, <1>6 DEF ActivityIInv

Kept == PublicationStands /\ VersionNamesContent

LEMMA SameRow ==
    ASSUME ActivityIInv, UNCHANGED A!activity
    PROVE  Kept
BY DEF Kept, ActivityIInv, A!RowTypes, PublishedStatus, PublicationStands, VersionNamesContent, Content, A!activity

LEMMA Steps ==
    ASSUME A!InputAssumption,
           ActivityIInv, [A!Next]_(A!vars)
    PROVE  ActivityIInv' /\ Kept
<1>1. A!RowTypes
  BY DEF ActivityIInv
<1>2. CASE \E a \in Authors : A!Asks(a) \/ A!Reads(a) \/ A!Refuse(a)
  <2>1. PICK a \in Authors : A!Asks(a) \/ A!Reads(a) \/ A!Refuse(a)
    BY <1>2
  <2>2. UNCHANGED A!activity
    <3>1. A!RowTypes /\ A!CallTypes
      BY DEF ActivityIInv
    <3> QED
      BY <2>1, <3>1, AsksEffect, ReadsEffect DEF A!Refuse, A!activity
  <2>3. Kept
    BY <2>2, SameRow
  <2> QED
    BY <2>1, <2>3, AsksKeep, ReadsKeep, RefuseKeeps
<1>3. CASE \E a \in Authors : A!Writes(a)
  <2>1. PICK a \in Authors : A!Writes(a)
    BY <1>3
  <2>2. ActivityIInv' /\ PublicationStands /\ version' > version
    BY <2>1, WritesKeep DEF RowSound
  <2> QED
    BY <2>2 DEF Kept, VersionNamesContent
<1>4. CASE A!RemoveTopic
  <2>1. ActivityIInv' /\ PublicationStands /\ (UNCHANGED A!activity \/ version' > version)
    BY <1>4, RemoveTopicKeeps
  <2> QED
    BY <2>1, SameRow DEF Kept, VersionNamesContent
<1>5. CASE A!ArchiveClass \/ A!RestoreClass \/ UNCHANGED A!vars
  <2>1. UNCHANGED <<A!activity, A!calls>> /\ class' \in {"ACTIVE", "ARCHIVED"} /\ topic' \in BOOLEAN
    BY <1>1, <1>5 DEF A!ArchiveClass, A!RestoreClass, A!vars, A!RowTypes
  <2> QED
    BY <2>1, RestKeeps, SameRow
<1> QED
  BY <1>2, <1>3, <1>4, <1>5 DEF A!Next

(***************************************************************************)
(* The theorems.                                                           *)
(***************************************************************************)
LEMMA Invariance ==
    ASSUME A!InputAssumption
    PROVE  A!Spec => []ActivityIInv
<1>1. A!Init => ActivityIInv
  BY Initially
<1>2. ActivityIInv /\ [A!Next]_(A!vars) => ActivityIInv'
  BY Steps
<1> QED
  BY <1>1, <1>2, PTL DEF A!Spec

(* Row and calls have their types, whatever calls overlap. *)
THEOREM ActivityTypeCorrect ==
    ASSUME A!InputAssumption
    PROVE  A!Spec => []A!TypeOK
<1>1. ActivityIInv => A!TypeOK
  BY DEF ActivityIInv, A!TypeOK
<1> QED
  BY <1>1, Invariance, PTL

(* What students see of a published activity was fit to be published, although
   publish reads definition and tests before it writes and tests have no
   version of their own (activity.repository.ts). *)
THEOREM PublishedIsSoundAlways ==
    ASSUME A!InputAssumption
    PROVE  A!Spec => []A!PublishedIsSound
<1>1. ActivityIInv => A!PublishedIsSound
  BY DEF ActivityIInv
<1> QED
  BY <1>1, Invariance, PTL

(* A published activity stands: no overlap of edits, test replacements, closing,
   archiving and restoring takes back its publication, changes its scoring or
   tests, or brings its due date or attempts down, and no version names two
   contents (publishedFieldViolation in activity.service.ts, the conditional
   updates of activity.repository.ts and test-case.repository.ts). *)
THEOREM NoLostEditAlways ==
    ASSUME A!InputAssumption
    PROVE  A!Spec => NoLostEdit
<1>1. ActivityIInv /\ [A!Next]_(A!vars) => [PublicationStands /\ VersionNamesContent]_Content
  BY Steps DEF Kept, Content, A!vars, A!activity
<1> QED
  BY <1>1, Invariance, PTL DEF A!Spec, NoLostEdit

-----------------------------------------------------------------------------
(***************************************************************************)
(* How the points of an activity fit together.                             *)
(*                                                                         *)
(* Graded ties total, configuration, rubric and tests of a row together:   *)
(* what is weighted is what Distribute makes of the total.  Drawn is what  *)
(* a call that is about to write relies on: the tests it read, or sends,   *)
(* are the ones its total and its points were computed for.                *)
(***************************************************************************)
(* The operators of A are those of this module. *)
LEMMA TotalsAgree == \A s : A!Total(s) = Total(s)
BY DEF Total, FoldFunction, FoldFunctionOnSet, MapThenFoldSet,
   A!Total, A!FoldFunction, A!FoldFunctionOnSet, A!MapThenFoldSet

LEMMA DistributeAgrees == \A b, w : A!Distribute(b, w) = Distribute(b, w)
<1>1. \A S : A!Cardinality(S) = Cardinality(S)
  BY Zenon DEF Cardinality, A!Cardinality
<1> SUFFICES ASSUME NEW b, NEW w PROVE A!Distribute(b, w) = Distribute(b, w)
  OBVIOUS
<1> DEFINE D == DOMAIN w
           sum == Total(w)
           floor == Floors(b, w)
           rest == Rests(b, w)
           left == b - Total(floor)
           C == Chosen(rest, left)
           shares == [i \in D |-> IF sum = 0 THEN 0 ELSE floor[i] + IF i \in C THEN 1 ELSE 0]
<1>2. \A i \in D : Earlier(rest, i) = {j \in D : \/ (b * w[j]) % sum > (b * w[i]) % sum
                                                \/ /\ (b * w[j]) % sum = (b * w[i]) % sum
                                                   /\ j < i}
  BY DEF Earlier, Rests
<1>3. \A i \in D : i \in C <=> Cardinality(Earlier(rest, i)) < left
  BY DEF Chosen, Rests
<1>4. \A i \in D : floor[i] = (b * w[i]) \div sum
  BY DEF Floors
<1>5. left = b - Total([i \in D |-> (b * w[i]) \div sum])
  BY DEF Floors
<1>6. Distribute(b, w) = shares
  BY <1>2, <1>3, <1>4, <1>5 DEF Distribute
<1>7. A!Total(w) = sum /\ left = b - A!Total([i \in D |-> (b * w[i]) \div sum])
  BY <1>5, TotalsAgree
<1>8. \A i \in D : i \in C <=> A!Cardinality(Earlier(rest, i)) < left
  BY <1>1, <1>3
<1>9. A!Distribute(b, w) = shares
  BY <1>2, <1>4, <1>7, <1>8 DEF A!Distribute
<1> QED BY <1>6, <1>9

LEMMA Agrees ==
    /\ A!Configurations = Configurations /\ A!TestCase = TestCase
    /\ \A t, c : A!DerivedRubric(t, c) = DerivedRubric(t, c)
    /\ \A t, c, l : A!TestPoints(t, c, l) = TestPoints(t, c, l)
    /\ \A l : A!TestTotal(l) = TestTotal(l)
<1>1. A!Configurations = Configurations
  <2>1. \A c : c \in A!Configurations <=> c \in Configurations
    <3>1. A!Whole = Whole
      BY DEF Whole, A!Whole
    <3> QED BY <3>1, TotalsAgree, Zenon DEF Configurations, A!Configurations
  <2> QED BY <2>1, Zenon
<1>2. A!TestCase = TestCase
  BY Zenon DEF TestCase, A!TestCase, Importances, A!Importances
<1>3. \A t, c : A!DerivedRubric(t, c) = DerivedRubric(t, c)
  BY DistributeAgrees, Zenon DEF DerivedRubric, A!DerivedRubric, Restrict, A!Restrict
<1>4. \A t, c, l : A!TestPoints(t, c, l) = TestPoints(t, c, l)
  BY DistributeAgrees, Zenon DEF TestPoints, A!TestPoints, CorrectnessMaximum, A!CorrectnessMaximum,
     ImportanceWeights, A!ImportanceWeights, Weight, A!Weight
<1>5. \A l : A!TestTotal(l) = TestTotal(l)
  BY TotalsAgree, Zenon DEF TestTotal, A!TestTotal
<1> QED BY <1>1, <1>2, <1>3, <1>4, <1>5

LEMMA OfTests ==
    ASSUME NEW l \in Seq(TestCase), NEW i \in DOMAIN l
    PROVE  l[i].points \in Nat \union {Null} /\ l[i].importance \in Importances \union {Null}
<1>1. l[i] \in TestCase
  OBVIOUS
<1> QED BY <1>1 DEF TestCase

(* Weighted points. *)
LEMMA Allocation ==
    ASSUME NEW total \in Nat, NEW config \in Configurations
    PROVE  /\ FairShares(total, config, Distribute(total, config))
           /\ total - Total(DerivedRubric(total, config)) = CorrectnessMaximum(total, config)
           /\ CorrectnessMaximum(total, config) \in Nat
<1> DEFINE maxima == Distribute(total, config)
           rest == Part(maxima, DOMAIN maxima \ {1})
           kept == {c \in DOMAIN maxima \ {1} : maxima[c] > 0}
<1>1. config \in [1..4 -> 0..Whole] /\ Total(config) = Whole
  BY Zenon DEF Configurations
<1>1a. Whole \in Nat \ {0}
  BY DEF Whole
<1>2. Weights(config)
  <2>1. DOMAIN config = 1..4 /\ \A i \in 1..4 : config[i] \in Nat
    BY <1>1, <1>1a
  <2>2. IsFiniteSet(DOMAIN config) /\ DOMAIN config \subseteq Nat
    <3>1. \A n \in Nat : IsFiniteSet(1..n)
      BY FS_Interval
    <3>2. IsFiniteSet(1..4)
      BY <3>1, Zenon
    <3> QED BY <2>1, <3>2
  <2> QED BY <2>1, <2>2 DEF Weights, Numbers
<1>3. Weights(maxima) /\ DOMAIN maxima = 1..4 /\ FairShares(total, config, maxima)
  <2>1. DOMAIN config = 1..4
    BY <1>1
  <2> QED BY <1>2, <2>1, DistributeIsFair
<1>4. Total(maxima) = total
  <2> HIDE DEF maxima
  <2> QED BY <1>1, <1>1a, <1>3 DEF FairShares
<1> HIDE DEF maxima
<1>5. maxima[1] \in Nat /\ (\A c \in 1..4 : maxima[c] \in Nat) /\ IsFiniteSet(1..4)
  BY <1>3 DEF Weights, Numbers
<1>6. Total(maxima) = maxima[1] + Total(rest)
  BY <1>3, TotalOneOut DEF Weights
<1>7. Total(rest) = Total(Part(rest, kept))
  <2>1. Numbers(rest) /\ DOMAIN rest = 1..4 \ {1} /\ \A c \in DOMAIN rest : rest[c] = maxima[c]
    BY <1>3, <1>5, FS_Subset DEF Numbers, Part
  <2>2. kept \in SUBSET (DOMAIN rest)
    BY <1>3, <2>1
  <2>3. \A c \in DOMAIN rest \ kept : rest[c] = 0
    BY <1>3, <1>5, <2>1
  <2> HIDE DEF rest, kept
  <2> QED BY <2>1, <2>2, <2>3, TotalDrops
<1>8. DerivedRubric(total, config) = Part(rest, kept)
  BY DEF DerivedRubric, Part, Restrict, maxima
<1>9. Total(rest) \in Int
  <2>1. Numbers(rest)
    BY <1>3, <1>5, FS_Subset DEF Numbers, Part
  <2> QED BY <2>1, TotalInt
<1>10. CorrectnessMaximum(total, config) = maxima[1]
  BY DEF CorrectnessMaximum, maxima
<1> HIDE DEF rest, kept
<1>11. total - Total(DerivedRubric(total, config)) = maxima[1]
  BY <1>4, <1>5, <1>6, <1>7, <1>8, <1>9
<1> QED BY <1>3, <1>5, <1>10, <1>11 DEF maxima

LEMMA TestShares ==
    ASSUME NEW total \in Nat, NEW config \in Configurations, NEW l \in Seq(TestCase)
    PROVE  /\ DOMAIN TestPoints(total, config, l) = DOMAIN l
           /\ \A i \in DOMAIN l : TestPoints(total, config, l)[i] \in Nat
           /\ FairShares(CorrectnessMaximum(total, config), ImportanceWeights(l), TestPoints(total, config, l))
<1> DEFINE w == ImportanceWeights(l)
           maximum == CorrectnessMaximum(total, config)
<1>1. DOMAIN w = 1..Len(l) /\ DOMAIN l = 1..Len(l) /\ Len(l) \in Nat
  BY DEF ImportanceWeights
<1>2. \A i \in DOMAIN w : w[i] \in {1, 2, 3}
  <2> SUFFICES ASSUME NEW i \in DOMAIN l PROVE Weight(l[i].importance) \in {1, 2, 3}
    BY <1>1 DEF ImportanceWeights
  <2>1. l[i].importance \in Importances \union {Null}
    BY OfTests
  <2> QED BY <2>1 DEF Weight, Importances
<1>3. Weights(w)
  <2> HIDE DEF w
  <2>1. IsFiniteSet(DOMAIN w) /\ DOMAIN w \subseteq Nat
    BY <1>1, FS_Interval
  <2> QED BY <1>2, <2>1 DEF Weights, Numbers
<1>4. maximum \in Nat
  BY Allocation
<1>5. TestPoints(total, config, l) = Distribute(maximum, w)
  BY DEF TestPoints
<1> HIDE DEF w, maximum
<1>6. /\ Weights(Distribute(maximum, w)) /\ DOMAIN Distribute(maximum, w) = DOMAIN w
      /\ FairShares(maximum, w, Distribute(maximum, w))
  BY <1>3, <1>4, DistributeIsFair
<1>7. \A i \in DOMAIN l : Distribute(maximum, w)[i] \in Nat
  BY <1>1, <1>6 DEF Weights, Numbers
<1> QED BY <1>1, <1>5, <1>6, <1>7 DEF w, maximum

LEMMA PointsTotal ==
    ASSUME NEW l \in Seq(TestCase)
    PROVE  /\ TestTotal(l) \in Nat
           /\ (\A i \in DOMAIN l : l[i].points \in {0, Null}) => TestTotal(l) = 0
<1> DEFINE p == [i \in DOMAIN l |-> IF l[i].points = Null THEN 0 ELSE l[i].points]
<1>1. DOMAIN p = 1..Len(l) /\ DOMAIN l = 1..Len(l) /\ Len(l) \in Nat
  OBVIOUS
<1>2. \A i \in DOMAIN p : p[i] \in Nat
  BY OfTests
<1>3. (\A i \in DOMAIN l : l[i].points \in {0, Null}) => \A i \in DOMAIN p : p[i] = 0
  BY <1>1
<1>4. Total(p) = TestTotal(l)
  BY DEF TestTotal
<1> HIDE DEF p
<1>5. Numbers(p) /\ \A i \in DOMAIN p : p[i] >= 0
  BY <1>1, <1>2, FS_Interval DEF Numbers
<1> QED BY <1>3, <1>4, <1>5, TotalNat, TotalZero

(* An activity whose points fit: what its total, configuration, rubric and tests
   are to each other. *)
Graded(d, t) ==
    /\ t \in Seq(TestCase)
    /\ d["mode"] \in {"GRADED", "COMPLETION"}
    /\ d["total"] \in (Nat \ {0}) \union {Null}
    /\ (d["mode"] = "COMPLETION") = (d["total"] = Null)
    /\ d["config"] = Null \/ d["config"] \in Configurations
    /\ \A i \in DOMAIN t : (t[i].points = Null) = (d["mode"] = "COMPLETION")
    /\ d["mode"] = "COMPLETION" => d["rubric"] = Null
    /\ d["mode"] = "GRADED" /\ d["config"] = Null => TestTotal(t) <= d["total"]
    /\ d["mode"] = "GRADED" /\ d["config"] # Null =>
         /\ d["rubric"] = DerivedRubric(d["total"], d["config"])
         /\ \A i \in DOMAIN t : t[i].points = TestPoints(d["total"], d["config"], t)[i]

GradedRow == IF status = "NONE" THEN tests = <<>> ELSE Graded(definition, tests)

LEMMA GradedFits ==
    ASSUME GradedRow
    PROVE  PointsFit
<1> SUFFICES ASSUME status # "NONE" PROVE PointsFit
  BY DEF PointsFit
<1> DEFINE d == definition
           maximum == d["total"] - Total(d["rubric"])
<1>1. Graded(d, tests)
  BY DEF GradedRow
<1>2. ASSUME d["mode"] = "GRADED", d["config"] # Null
      PROVE  /\ FairShares(d["total"], d["config"], Distribute(d["total"], d["config"]))
             /\ maximum = CorrectnessMaximum(d["total"], d["config"])
             /\ FairShares(maximum, ImportanceWeights(tests), [i \in DOMAIN tests |-> tests[i].points])
  <2>1. d["total"] \in Nat /\ d["config"] \in Configurations /\ tests \in Seq(TestCase)
    BY <1>1, <1>2 DEF Graded
  <2>2. /\ d["rubric"] = DerivedRubric(d["total"], d["config"])
        /\ \A i \in DOMAIN tests : tests[i].points = TestPoints(d["total"], d["config"], tests)[i]
    BY <1>1, <1>2 DEF Graded
  <2> HIDE DEF d
  <2>3. FairShares(d["total"], d["config"], Distribute(d["total"], d["config"]))
        /\ d["total"] - Total(d["rubric"]) = CorrectnessMaximum(d["total"], d["config"])
    BY <2>1, <2>2, Allocation
  <2>4. /\ DOMAIN TestPoints(d["total"], d["config"], tests) = DOMAIN tests
        /\ FairShares(CorrectnessMaximum(d["total"], d["config"]), ImportanceWeights(tests),
                      TestPoints(d["total"], d["config"], tests))
    BY <2>1, TestShares
  <2>5. TestPoints(d["total"], d["config"], tests)
          = [i \in DOMAIN TestPoints(d["total"], d["config"], tests) |->
               TestPoints(d["total"], d["config"], tests)[i]]
    BY DEF TestPoints, Distribute
  <2>6. [i \in DOMAIN tests |-> tests[i].points] = TestPoints(d["total"], d["config"], tests)
    BY <2>2, <2>4, <2>5, Zenon
  <2> QED BY <2>3, <2>4, <2>6
<1>3. /\ (d["mode"] = "COMPLETION") = (d["total"] = Null)
      /\ \A i \in DOMAIN tests : (tests[i].points = Null) = (d["mode"] = "COMPLETION")
      /\ d["mode"] = "COMPLETION" => d["rubric"] = Null
      /\ d["mode"] = "GRADED" /\ d["config"] = Null => TestTotal(tests) <= d["total"]
  BY <1>1 DEF Graded
<1> QED BY <1>2, <1>3 DEF PointsFit

LEMMA OtherFields ==
    ASSUME NEW d, NEW e, NEW t, Graded(d, t),
           \A x \in {"mode", "total", "config", "rubric"} : e[x] = d[x]
    PROVE  Graded(e, t)
<1>1. e["mode"] = d["mode"] /\ e["total"] = d["total"] /\ e["config"] = d["config"] /\ e["rubric"] = d["rubric"]
  OBVIOUS
<1> QED BY <1>1, Zenon DEF Graded

LEMMA FieldsValid ==
    ASSUME A!InputAssumption, NEW f \in Drafts \union Edits
    PROVE  /\ "mode" \in DOMAIN f => f["mode"] \in {"GRADED", "COMPLETION"}
           /\ "total" \in DOMAIN f => f["total"] \in (Nat \ {0}) \union {Null}
           /\ "config" \in DOMAIN f => f["config"] = Null \/ f["config"] \in Configurations
<1>1. \A x \in DOMAIN f : A!ValidField(x, f[x])
  BY DEF A!InputAssumption
<1>2. \A v : A!ValidField("mode", v) => v \in {"GRADED", "COMPLETION"}
  BY DEF A!ValidField
<1>3. \A v : A!ValidField("total", v) => v \in (Nat \ {0}) \union {Null}
  BY DEF A!ValidField
<1>4. \A v : A!ValidField("config", v) => v = Null \/ v \in A!Configurations
  BY DEF A!ValidField
<1> QED BY <1>1, <1>2, <1>3, <1>4, Agrees

(* Tests whose points are written anew, and importance where it was absent. *)
LEMMA Rewritten ==
    ASSUME NEW l \in Seq(TestCase), NEW m \in [DOMAIN l -> TestCase],
           \A i \in DOMAIN l : Weight(m[i].importance) = Weight(l[i].importance)
    PROVE  /\ m \in Seq(TestCase)
           /\ \A t, c : TestPoints(t, c, m) = TestPoints(t, c, l)
<1>1. DOMAIN l = 1..Len(l) /\ Len(l) \in Nat /\ DOMAIN m = DOMAIN l
  OBVIOUS
<1>2. m \in Seq(TestCase)
  <2>1. m \in [1..Len(l) -> TestCase]
    BY <1>1
  <2> QED BY <1>1, <2>1
<1>3. ImportanceWeights(m) = ImportanceWeights(l)
  BY <1>1 DEF ImportanceWeights
<1> QED BY <1>2, <1>3 DEF TestPoints

(* What the tests of a call are, as long as the version is the one it expects. *)
Drawn(a) ==
    /\ call[a].op = "replace" => cases[a] \in TestLists
    /\ call[a].pc = "write" /\ call[a].expected = version =>
         /\ call[a].op = "update" =>
              /\ cases[a] = tests
              /\ /\ definition["config"] = Null
                 /\ "total" \in DOMAIN input[a] /\ input[a]["total"] # Null
                 => TestTotal(tests) <= input[a]["total"]
         /\ call[a].op = "replace" => seen[a] = definition /\ A!Replaceable(definition, cases[a])

LEMMA UpdateGrades ==
    ASSUME A!InputAssumption, ActivityIInv, GradedRow, NEW a \in Authors, Drawn(a), A!WriteUpdate(a)
    PROVE  status # "NONE" /\ Graded(definition', tests')
<1> DEFINE f == input[a]
           d == A!Merge(f, definition)
           rubric == IF d["mode"] = "COMPLETION" THEN Null
                     ELSE IF A!Derives(a) THEN DerivedRubric(d["total"], d["config"])
                     ELSE d["rubric"]
           points == [i \in DOMAIN tests |-> A!UpdatedPoints(a, i)]
           repointed == [i \in DOMAIN tests |-> [tests[i] EXCEPT !.points = points[i]]]
<1>1. /\ call[a].op = "update" /\ call[a].pc = "write"
      /\ status = call[a].current /\ version = call[a].expected
  BY DEF A!WriteUpdate, A!Write, A!At, A!Cas
<1>2. A!MayUpdate(f) /\ seen[a] = definition
  BY <1>1 DEF ActivityIInv, CallsStand, Standing, Fresh
<1>3. /\ f \in Edits
      /\ cases[a] = tests
      /\ definition["config"] = Null /\ "total" \in DOMAIN f /\ f["total"] # Null =>
           TestTotal(tests) <= f["total"]
  BY <1>1 DEF ActivityIInv, A!CallTypes, Drawn
<1>4. /\ DOMAIN f \subseteq A!Fields
      /\ "mode" \in DOMAIN f => f["mode"] \in {"GRADED", "COMPLETION"}
      /\ "total" \in DOMAIN f => f["total"] \in (Nat \ {0}) \union {Null}
      /\ "config" \in DOMAIN f => f["config"] = Null \/ f["config"] \in Configurations
  BY <1>3, EditsValid, FieldsValid
<1>5. status # "NONE" /\ status # "ARCHIVED" /\ DOMAIN definition = A!Fields /\ Graded(definition, tests)
  BY <1>2 DEF ActivityIInv, A!RowTypes, A!MayUpdate, GradedRow
<1>6. /\ DOMAIN d = A!Fields
      /\ \A x \in A!Fields : d[x] = IF x \in DOMAIN f THEN f[x] ELSE definition[x]
  BY <1>5, Zenon DEF A!Merge
<1>7. A!Merged(a) = d
  BY <1>2 DEF A!Merged
<1>8. definition' = [d EXCEPT !["rubric"] = rubric]
  BY <1>7, Agrees DEF A!WriteUpdate, A!UpdatedDefinition
<1>9. tests' = IF A!Regrades(a) \/ d["mode"] # definition["mode"] THEN repointed ELSE tests
  BY <1>2, <1>7 DEF A!WriteUpdate, A!UpdatedTests
<1>10. A!Regrades(a) <=> /\ d["config"] # Null
                         /\ status = "DRAFT"
                         /\ "config" \in DOMAIN f \/ "total" \in DOMAIN f \/ "mode" \in DOMAIN f
  <2>1. DOMAIN f \intersect {"config", "total", "mode"} # {}
          <=> "config" \in DOMAIN f \/ "total" \in DOMAIN f \/ "mode" \in DOMAIN f
    OBVIOUS
  <2>2. A!Regrades(a) <=> /\ d["config"] # Null
                          /\ status = "DRAFT"
                          /\ DOMAIN f \intersect {"config", "total", "mode"} # {}
    BY <1>1, <1>7, Zenon DEF A!Regrades
  <2> QED BY <2>1, <2>2, Zenon
<1>11. A!Derives(a) <=> A!Regrades(a) /\ d["mode"] # "COMPLETION"
  BY <1>7 DEF A!Derives
<1>12. \A i \in DOMAIN tests :
         points[i] = IF A!Derives(a) THEN TestPoints(d["total"], d["config"], tests)[i]
                     ELSE IF A!Regrades(a) \/ d["mode"] = "COMPLETION" THEN Null ELSE 0
  BY <1>3, <1>7, Agrees DEF A!UpdatedPoints
<1>13. /\ \/ status = "DRAFT"
          \/ DOMAIN f \intersect A!Frozen = {}
       /\ "config" \in DOMAIN f => (f["config"] = Null) = (definition["config"] = Null)
       /\ "rubric" \in DOMAIN f => definition["config"] = Null
       /\ (d["mode"] = "COMPLETION") = (d["total"] = Null)
  <2>1. status \in {"DRAFT", "PUBLISHED", "CLOSED"}
    BY <1>5 DEF ActivityIInv, A!RowTypes, A!Statuses
  <2> QED BY <1>2, <2>1, FieldNames DEF A!MayUpdate, A!Given
<1> HIDE DEF f, d, rubric, points
<1>14. \A x \in {"mode", "total", "config", "rubric"} :
         x \in A!Fields /\ d[x] = IF x \in DOMAIN f THEN f[x] ELSE definition[x]
  BY <1>6, FieldNames
<1>15. /\ definition'["mode"] = d["mode"] /\ definition'["total"] = d["total"]
       /\ definition'["config"] = d["config"] /\ definition'["rubric"] = rubric
  BY <1>6, <1>8, <1>14
<1>16. /\ d["mode"] \in {"GRADED", "COMPLETION"} /\ d["total"] \in (Nat \ {0}) \union {Null}
       /\ d["config"] = Null \/ d["config"] \in Configurations
       /\ (d["config"] = Null) = (definition["config"] = Null)
  BY <1>4, <1>5, <1>13, <1>14 DEF Graded
<1>17. tests \in Seq(TestCase) /\ Null \notin Nat
  BY <1>5 DEF Graded, A!InputAssumption
<1>18. ASSUME \A i \in DOMAIN tests : points[i] \in Nat \union {Null}
       PROVE  /\ repointed \in Seq(TestCase) /\ DOMAIN repointed = DOMAIN tests
              /\ \A i \in DOMAIN tests : repointed[i].points = points[i]
              /\ \A t, c : TestPoints(t, c, repointed) = TestPoints(t, c, tests)
  <2>1. \A i \in DOMAIN tests : tests[i] \in TestCase
    BY <1>17
  <2>2. \A i \in DOMAIN tests : [tests[i] EXCEPT !.points = points[i]] \in TestCase
    BY <1>18, <2>1 DEF TestCase
  <2>3. /\ repointed \in [DOMAIN tests -> TestCase]
        /\ \A i \in DOMAIN tests : /\ repointed[i].points = points[i]
                                   /\ repointed[i].importance = tests[i].importance
    BY <2>1, <2>2 DEF TestCase
  <2> HIDE DEF repointed
  <2>4. /\ repointed \in Seq(TestCase)
        /\ \A t, c : TestPoints(t, c, repointed) = TestPoints(t, c, tests)
    BY <1>17, <2>3, Rewritten
  <2> QED BY <2>3, <2>4
<1> HIDE DEF repointed
<1>19. CASE A!Derives(a)
  <2>1. d["total"] \in Nat \ {0} /\ d["config"] \in Configurations /\ d["mode"] = "GRADED"
        /\ d["config"] # Null
    <3>1. d["config"] # Null /\ d["mode"] # "COMPLETION"
      BY <1>10, <1>11, <1>19
    <3> QED BY <1>13, <1>16, <3>1
  <2>2. \A i \in DOMAIN tests : points[i] = TestPoints(d["total"], d["config"], tests)[i] /\ points[i] \in Nat
    BY <1>12, <1>17, <1>19, <2>1, TestShares
  <2>3. tests' = repointed /\ rubric = DerivedRubric(d["total"], d["config"])
    BY <1>9, <1>11, <1>19, <2>1 DEF rubric
  <2>4. /\ repointed \in Seq(TestCase) /\ DOMAIN repointed = DOMAIN tests
        /\ \A i \in DOMAIN tests : repointed[i].points = points[i]
        /\ TestPoints(d["total"], d["config"], repointed) = TestPoints(d["total"], d["config"], tests)
    BY <1>18, <2>2
  <2>5. \A i \in DOMAIN tests : repointed[i].points # Null
    BY <1>17, <2>2, <2>4
  <2> QED BY <1>5, <1>13, <1>15, <1>16, <2>1, <2>2, <2>3, <2>4, <2>5 DEF Graded
<1>20. CASE ~A!Derives(a) /\ (A!Regrades(a) \/ d["mode"] # definition["mode"]) /\ d["mode"] = "COMPLETION"
  <2>1. \A i \in DOMAIN tests : points[i] = Null
    BY <1>12, <1>20
  <2>2. tests' = repointed /\ rubric = Null
    BY <1>9, <1>20 DEF rubric
  <2>3. /\ repointed \in Seq(TestCase) /\ DOMAIN repointed = DOMAIN tests
        /\ \A i \in DOMAIN tests : repointed[i].points = Null
    BY <1>18, <2>1
  <2> QED BY <1>5, <1>13, <1>15, <1>16, <1>20, <2>2, <2>3 DEF Graded
<1>21. CASE ~A!Regrades(a) /\ d["mode"] # definition["mode"] /\ d["mode"] # "COMPLETION"
  <2>1. "mode" \in DOMAIN f /\ d["mode"] = "GRADED" /\ d["total"] \in Nat
    BY <1>13, <1>14, <1>16, <1>21
  <2>2. status = "DRAFT"
    BY <1>13, <2>1, FieldNames DEF A!Frozen
  <2>3. d["config"] = Null
    BY <1>10, <1>21, <2>1, <2>2
  <2>4. \A i \in DOMAIN tests : points[i] = 0
    BY <1>11, <1>12, <1>21
  <2>5. tests' = repointed
    BY <1>9, <1>21
  <2>6. /\ repointed \in Seq(TestCase) /\ DOMAIN repointed = DOMAIN tests
        /\ \A i \in DOMAIN tests : repointed[i].points = 0
    BY <1>18, <2>4
  <2>7. TestTotal(repointed) = 0
    BY <2>6, PointsTotal
  <2>8. 0 # Null
    BY <1>17
  <2> QED BY <1>5, <1>13, <1>15, <1>16, <2>1, <2>3, <2>5, <2>6, <2>7, <2>8 DEF Graded
<1>22. CASE ~A!Regrades(a) /\ d["mode"] = definition["mode"]
  <2>1. tests' = tests /\ ~A!Derives(a)
    BY <1>9, <1>11, <1>22
  <2>2. CASE d["mode"] = "COMPLETION"
    <3>1. rubric = Null
      BY <2>2 DEF rubric
    <3> QED BY <1>5, <1>13, <1>15, <1>16, <1>22, <2>1, <2>2, <3>1 DEF Graded
  <2>3. CASE d["mode"] # "COMPLETION" /\ d["config"] = Null
    <3>1. d["mode"] = "GRADED" /\ d["total"] \in Nat /\ d["total"] # Null /\ definition["config"] = Null
      BY <1>13, <1>16, <2>3
    <3>2. TestTotal(tests) <= d["total"]
      BY <1>3, <1>5, <1>14, <1>22, <3>1 DEF Graded
    <3> QED BY <1>5, <1>13, <1>15, <1>16, <1>22, <2>1, <2>3, <3>1, <3>2 DEF Graded
  <2>4. CASE d["mode"] # "COMPLETION" /\ d["config"] # Null
    <3>1. ~("rubric" \in DOMAIN f)
      BY <1>13, <1>16, <2>4
    <3>2. /\ "config" \notin DOMAIN f /\ "total" \notin DOMAIN f
      BY <1>10, <1>13, <1>22, <2>4, FieldNames DEF A!Frozen
    <3>3. rubric = d["rubric"]
      BY <2>1, <2>4 DEF rubric
    <3>4. \A x \in {"mode", "total", "config", "rubric"} : definition'[x] = definition[x]
      BY <1>14, <1>15, <1>22, <3>1, <3>2, <3>3
    <3> QED BY <1>5, <2>1, <3>4, OtherFields
  <2> QED BY <2>2, <2>3, <2>4
<1> QED BY <1>5, <1>11, <1>19, <1>20, <1>21, <1>22

LEMMA ReplaceGrades ==
    ASSUME A!InputAssumption, ActivityIInv, GradedRow, NEW a \in Authors, Drawn(a), A!WriteTests(a)
    PROVE  status # "NONE" /\ Graded(definition', tests')
<1> DEFINE d == definition
           t == cases[a]
           new == A!ReplacedTests(d, t)
<1>1. /\ call[a].op = "replace" /\ call[a].pc = "write"
      /\ status = call[a].current /\ version = call[a].expected
  BY DEF A!WriteTests, A!Write, A!At, A!Cas
<1>2. status = "DRAFT" /\ status # "NONE"
  BY <1>1 DEF ActivityIInv, CallsStand, Standing, Named
<1>3. t \in TestLists /\ seen[a] = d /\ A!Replaceable(d, t)
  BY <1>1 DEF Drawn
<1>4. tests' = new /\ definition' = d
  BY <1>3 DEF A!WriteTests
<1>5. t \in Seq(TestCase) /\ Null \notin Nat \union Importances
  <2>1. TestLists \subseteq Seq(A!TestCase) /\ Null \notin Nat \union A!Importances
    BY Zenon DEF A!InputAssumption
  <2>2. A!Importances = Importances
    BY DEF Importances, A!Importances
  <2> QED BY <1>3, <2>1, <2>2, Agrees
<1>6. Graded(d, tests)
  BY <1>2 DEF GradedRow
<1>7. /\ d["config"] # Null => \A i \in DOMAIN t : t[i].points = Null
      /\ d["config"] = Null /\ d["mode"] # "COMPLETION" =>
           (\A i \in DOMAIN t : t[i].points # Null) /\ TestTotal(t) <= d["total"]
  BY <1>3, Agrees DEF A!Replaceable
<1> HIDE DEF d, t
<1> DEFINE importance(i) == IF d["config"] # Null /\ t[i].importance = Null THEN "NORMAL" ELSE t[i].importance
           points(i) == IF d["mode"] = "COMPLETION" THEN Null
                        ELSE IF d["config"] # Null THEN TestPoints(d["total"], d["config"], t)[i]
                        ELSE t[i].points
<1>8. \A i \in DOMAIN t : t[i] \in TestCase
  BY <1>5
<1>9. new = [i \in DOMAIN t |-> [t[i] EXCEPT !.importance = importance(i), !.points = points(i)]]
  BY Agrees DEF A!ReplacedTests
<1>10. /\ d["mode"] \in {"GRADED", "COMPLETION"}
       /\ d["mode"] # "COMPLETION" => d["total"] \in Nat
       /\ d["config"] = Null \/ d["config"] \in Configurations
  BY <1>6 DEF Graded
<1>11. \A i \in DOMAIN t :
         d["mode"] # "COMPLETION" /\ d["config"] # Null => TestPoints(d["total"], d["config"], t)[i] \in Nat
  BY <1>5, <1>10, TestShares
<1>12. ASSUME NEW i \in DOMAIN t
       PROVE  /\ importance(i) \in Importances \union {Null} /\ points(i) \in Nat \union {Null}
              /\ Weight(importance(i)) = Weight(t[i].importance)
  <2>1. t[i].points \in Nat \union {Null} /\ t[i].importance \in Importances \union {Null}
    BY <1>5, OfTests
  <2>2. points(i) \in Nat \union {Null}
    BY <1>11, <2>1
  <2>3. "NORMAL" \in Importances /\ Weight("NORMAL") = Weight(Null)
    BY <1>5 DEF Weight, Importances
  <2> QED BY <2>1, <2>2, <2>3
<1>13. \A i \in DOMAIN t : /\ new[i] \in TestCase /\ new[i].importance = importance(i) /\ new[i].points = points(i)
  <2> SUFFICES ASSUME NEW i \in DOMAIN t
               PROVE  new[i] \in TestCase /\ new[i].importance = importance(i) /\ new[i].points = points(i)
    OBVIOUS
  <2>1. t[i] \in TestCase /\ new[i] = [t[i] EXCEPT !.importance = importance(i), !.points = points(i)]
    BY <1>8, <1>9
  <2>2. importance(i) \in Importances \union {Null} /\ points(i) \in Nat \union {Null}
    BY <1>12
  <2> HIDE DEF new, importance, points
  <2> QED BY <2>1, <2>2 DEF TestCase
<1>14. new \in [DOMAIN t -> TestCase]
  BY <1>9, <1>13
<1> HIDE DEF new, importance, points
<1>15. /\ new \in Seq(TestCase) /\ DOMAIN new = DOMAIN t
       /\ \A total, config : TestPoints(total, config, new) = TestPoints(total, config, t)
  BY <1>5, <1>12, <1>13, <1>14, Rewritten
<1>16. \A i \in DOMAIN new : (new[i].points = Null) = (d["mode"] = "COMPLETION")
  <2> SUFFICES ASSUME NEW i \in DOMAIN new PROVE (points(i) = Null) = (d["mode"] = "COMPLETION")
    BY <1>13, <1>15
  <2> QED BY <1>5, <1>7, <1>11, <1>15 DEF points
<1>17. d["mode"] = "GRADED" /\ d["config"] = Null => TestTotal(new) = TestTotal(t)
  <2> SUFFICES ASSUME d["mode"] = "GRADED", d["config"] = Null PROVE TestTotal(new) = TestTotal(t)
    OBVIOUS
  <2>1. \A i \in DOMAIN t : new[i].points = t[i].points
    BY <1>13 DEF points
  <2> QED BY <1>15, <2>1 DEF TestTotal
<1>18. d["mode"] = "GRADED" /\ d["config"] # Null =>
         \A i \in DOMAIN new : new[i].points = TestPoints(d["total"], d["config"], new)[i]
  BY <1>13, <1>15 DEF points
<1>19. Graded(d, new)
  BY <1>6, <1>7, <1>15, <1>16, <1>17, <1>18 DEF Graded
<1> QED BY <1>2, <1>4, <1>19 DEF d

LEMMA CreateGrades ==
    ASSUME A!InputAssumption, ActivityIInv, GradedRow, NEW a \in Authors, A!CreateInsert(a)
    PROVE  Graded(definition', tests')
<1> DEFINE d == input[a]
           rubric == IF d["mode"] = "COMPLETION" THEN Null
                     ELSE IF d["config"] # Null THEN DerivedRubric(d["total"], d["config"])
                     ELSE d["rubric"]
<1>1. call[a].op = "create" /\ status = "NONE" /\ tests' = tests
  BY DEF A!CreateInsert, A!At
<1>2. d \in Drafts
  BY <1>1 DEF ActivityIInv, A!CallTypes
<1>3. tests = <<>> /\ tests \in Seq(TestCase) /\ DOMAIN tests = {}
  BY <1>1 DEF GradedRow
<1>4. DOMAIN d = A!Fields /\ (d["mode"] = "COMPLETION") = (d["total"] = Null)
  BY <1>2 DEF A!InputAssumption
<1>5. definition' = [d EXCEPT !["rubric"] = rubric]
  BY Agrees DEF A!CreateInsert, A!CreatedDefinition
<1>6. {"mode", "total", "config", "rubric"} \subseteq A!Fields
  BY FieldNames
<1>7. /\ d["mode"] \in {"GRADED", "COMPLETION"}
      /\ d["total"] \in (Nat \ {0}) \union {Null}
      /\ d["config"] = Null \/ d["config"] \in Configurations
  BY <1>2, <1>4, <1>6, FieldsValid
<1> HIDE DEF d, rubric
<1>8. /\ definition'["mode"] = d["mode"] /\ definition'["total"] = d["total"]
      /\ definition'["config"] = d["config"] /\ definition'["rubric"] = rubric
  BY <1>4, <1>5, <1>6
<1>9. TestTotal(tests) = 0
  BY <1>3, PointsTotal
<1>10. d["mode"] = "GRADED" => d["total"] \in Nat
  BY <1>4, <1>7
<1> QED BY <1>1, <1>3, <1>4, <1>7, <1>8, <1>9, <1>10 DEF Graded, rubric

(* Every step leaves the row as it was, except for what is not graded, or writes
   it so that its points fit. *)
LEMMA RowGraded ==
    ASSUME A!InputAssumption, ActivityIInv, GradedRow, \A a \in Authors : Drawn(a), [A!Next]_(A!vars)
    PROVE  GradedRow'
<1>1. ASSUME UNCHANGED <<definition, tests>>, (status = "NONE") = (status' = "NONE")
      PROVE  GradedRow'
  BY <1>1, Zenon DEF GradedRow, Graded
<1>2. A!RowTypes /\ A!CallTypes
  BY DEF ActivityIInv
<1>3. CASE \E a \in Authors : A!Asks(a) \/ A!Reads(a) \/ A!Refuse(a)
  <2>1. PICK a \in Authors : A!Asks(a) \/ A!Reads(a) \/ A!Refuse(a)
    BY <1>3
  <2>2. UNCHANGED <<status, definition, tests>>
    BY <1>2, <2>1, AsksEffect, ReadsEffect DEF A!Refuse, A!activity
  <2> QED BY <1>1, <2>2
<1>4. CASE \E a \in Authors : A!Writes(a)
  <2>1. PICK a \in Authors : A!Writes(a)
    BY <1>4
  <2>2. call[a].pc = "write" /\ (A!Cas(a) \/ call[a].op = "create")
    BY <1>2, <2>1, WritesEffect
  <2>3. A!Cas(a) => status = call[a].current /\ Named(a) /\ Fresh(a)
    BY <2>2 DEF ActivityIInv, CallsStand, A!Cas, Standing
  <2>4. CASE A!WriteUpdate(a)
    BY <2>4, UpdateGrades DEF GradedRow, A!WriteUpdate
  <2>5. CASE A!WriteTests(a)
    BY <2>5, ReplaceGrades DEF GradedRow, A!WriteTests
  <2>6. CASE A!WritePublish(a) \/ A!WriteClose(a) \/ A!WriteReopen(a) \/ A!WriteArchive(a) \/ A!WriteRestore(a)
    <3>1. status # "NONE"
      BY <2>3, <2>6 DEF A!WritePublish, A!WriteClose, A!WriteReopen, A!WriteArchive, A!WriteRestore,
         A!Write, A!At, Named
    <3>2. status' # "NONE" /\ UNCHANGED <<definition, tests>>
      BY <2>6 DEF A!WritePublish, A!WriteClose, A!WriteReopen, A!WriteArchive, A!WriteRestore
    <3> QED BY <1>1, <3>1, <3>2
  <2>7. CASE A!CreateInsert(a)
    BY <2>7, CreateGrades DEF GradedRow, A!CreateInsert
  <2> QED BY <2>1, <2>4, <2>5, <2>6, <2>7 DEF A!Writes
<1>5. CASE A!RemoveTopic
  <2>1. UNCHANGED <<status, tests>> /\ (definition' = definition \/ definition' = [definition EXCEPT !["topic"] = FALSE])
    BY <1>5 DEF A!RemoveTopic, A!TopicGone
  <2>2. \A x \in {"mode", "total", "config", "rubric"} : definition'[x] = definition[x]
    BY <1>2, <2>1, FieldNames DEF A!RowTypes
  <2>3. Graded(definition, tests) => Graded(definition', tests)
    BY <2>2, OtherFields
  <2> QED BY <2>1, <2>3 DEF GradedRow
<1>6. CASE A!ArchiveClass \/ A!RestoreClass \/ UNCHANGED A!vars
  <2>1. UNCHANGED <<status, definition, tests>>
    BY <1>6 DEF A!ArchiveClass, A!RestoreClass, A!vars, A!activity
  <2> QED BY <1>1, <2>1
<1> QED BY <1>3, <1>4, <1>5, <1>6 DEF A!Next

LEMMA DrawnKept ==
    ASSUME NEW b \in Authors, Drawn(b), SameCall(b), cases'[b] = cases[b],
           UNCHANGED <<status, version, published, definition, tests>>
    PROVE  Drawn(b)'
BY Zenon DEF Drawn, SameCall, A!Replaceable

LEMMA DrawnOutdated ==
    ASSUME A!RowTypes, A!CallTypes, NEW b \in Authors, Standing(b), Drawn(b), SameCall(b), cases'[b] = cases[b],
           version' = version + 1
    PROVE  Drawn(b)'
<1>1. call[b].expected \in Nat /\ version \in Nat
  BY DEF A!RowTypes, A!CallTypes, A!Call
<1>2. call[b].pc = "write" => call[b].expected # version'
  BY <1>1 DEF Standing
<1> QED BY <1>2 DEF Drawn, SameCall

LEMMA AsksDrawn ==
    ASSUME ActivityIInv, NEW a \in Authors, A!Asks(a)
    PROVE  Drawn(a)'
<1>1. A!CallTypes /\ A!RowTypes
  BY DEF ActivityIInv
<1>2. ~(call'[a].op \in {"update", "replace"} /\ call'[a].pc = "write")
  BY <1>1, AsksEffect
<1>3. call'[a].op = "replace" => cases'[a] \in TestLists
  <2>1. ASSUME NEW op, NEW pc, NEW current, NEW fields, NEW list, A!Ask(a, op, pc, current, fields, list)
        PROVE  call'[a].op = op /\ cases'[a] = list
    BY <1>1, <2>1 DEF A!Ask, A!CallTypes
  <2>2. CASE A!AskReplace(a)
    BY <2>1, <2>2 DEF A!AskReplace
  <2>3. CASE ~A!AskReplace(a)
    BY <2>1, <2>3 DEF A!Asks, A!AskCreate, A!AskUpdate, A!AskPublish, A!AskClose, A!AskReopen, A!AskArchive, A!AskRestore
  <2> QED BY <2>2, <2>3
<1> QED BY <1>2, <1>3 DEF Drawn

LEMMA ReadsDrawn ==
    ASSUME ActivityIInv, NEW a \in Authors, Drawn(a), A!Reads(a)
    PROVE  Drawn(a)'
<1>1. /\ A!CallTypes /\ A!RowTypes /\ Standing(a) /\ call[a] \in A!Call
  BY DEF ActivityIInv, A!CallTypes, CallsStand
<1>2. /\ UNCHANGED <<class, topic, status, version, published, definition, tests>>
      /\ UNCHANGED <<call[a].op, call[a].expected, call[a].current, input[a]>>
  BY <1>1, ReadsEffect
<1>3. CASE A!ReadToReplace(a)
  <2>1. /\ call[a].op = "replace" /\ seen'[a] = definition /\ cases'[a] = cases[a]
        /\ A!Replaceable(definition, cases[a])
    BY <1>1, <1>3 DEF A!ReadToReplace, A!Read, A!At, A!CallTypes
  <2>2. A!Replaceable(definition, cases[a])'
    BY <1>2, <2>1, Zenon DEF A!Replaceable
  <2> QED BY <1>2, <2>1, <2>2 DEF Drawn
<1>4. CASE A!ReadTestsToUpdate(a)
  <2>1. /\ call[a].op = "update" /\ call[a].pc = "tests" /\ cases'[a] = tests
        /\ seen[a]["config"] = Null /\ "total" \in DOMAIN input[a] /\ input[a]["total"] # Null =>
             TestTotal(tests) <= input[a]["total"]
    BY <1>1, <1>4, Agrees DEF A!ReadTestsToUpdate, A!At, A!CallTypes, A!Given
  <2>2. call[a].expected = version => seen[a] = definition
    BY <1>1, <2>1 DEF Standing, Fresh
  <2> QED BY <1>2, <2>1, <2>2 DEF Drawn
<1>5. CASE A!ReadToUpdate(a)
  <2>1. call[a].op = "update" /\ call'[a].pc = "tests"
    BY <1>1, <1>5 DEF A!ReadToUpdate, A!Read, A!At, A!CallTypes, A!Call
  <2> QED BY <1>2, <2>1 DEF Drawn
<1>6. CASE A!ReadToPublish(a) \/ A!ReadToRestore(a) \/ A!ReadTestsToPublish(a) \/ A!CreateRead(a)
  <2>1. call[a].op \in {"publish", "restore", "create"}
    BY <1>6 DEF A!ReadToPublish, A!ReadToRestore, A!ReadTestsToPublish, A!CreateRead, A!Read, A!At
  <2> QED BY <1>2, <2>1 DEF Drawn
<1> QED BY <1>3, <1>4, <1>5, <1>6 DEF A!Reads

LEMMA CallsDrawn ==
    ASSUME ActivityIInv, \A a \in Authors : Drawn(a), [A!Next]_(A!vars)
    PROVE  \A a \in Authors : Drawn(a)'
<1>1. /\ A!CallTypes /\ A!RowTypes
      /\ \A b \in Authors : Standing(b)
  BY DEF ActivityIInv, CallsStand
<1>2. ASSUME NEW a \in Authors, Others(a), Drawn(a)',
             \/ UNCHANGED <<status, version, published, definition, tests>>
             \/ version' = version + 1
      PROVE  \A b \in Authors : Drawn(b)'
  <2> SUFFICES ASSUME NEW b \in Authors, b # a PROVE Drawn(b)'
    BY <1>2
  <2>1. SameCall(b) /\ cases'[b] = cases[b] /\ Drawn(b) /\ Standing(b)
    BY <1>1, <1>2 DEF Others, SameCall
  <2> QED BY <1>1, <1>2, <2>1, DrawnKept, DrawnOutdated
<1>3. CASE \E a \in Authors : A!Asks(a) \/ A!Reads(a) \/ A!Writes(a) \/ A!Refuse(a)
  <2>1. PICK a \in Authors : A!Asks(a) \/ A!Reads(a) \/ A!Writes(a) \/ A!Refuse(a)
    BY <1>3
  <2>2. CASE A!Asks(a)
    BY <1>1, <1>2, <2>2, AsksEffect, AsksDrawn
  <2>3. CASE A!Reads(a)
    BY <1>1, <1>2, <2>3, ReadsEffect, ReadsDrawn
  <2>4. ASSUME call'[a] = A!Idle PROVE Drawn(a)'
    BY <2>4 DEF Drawn, A!Idle
  <2>5. CASE A!Writes(a)
    BY <1>1, <1>2, <2>4, <2>5, WritesEffect
  <2>6. CASE A!Refuse(a)
    <3>1. Others(a) /\ call'[a] = A!Idle /\ UNCHANGED <<status, version, published, definition, tests>>
      BY <1>1, <2>6, OverEffect DEF A!Refuse, A!activity
    <3> QED BY <1>2, <2>4, <3>1
  <2> QED BY <2>1, <2>2, <2>3, <2>5, <2>6
<1>4. CASE A!RemoveTopic \/ A!ArchiveClass \/ A!RestoreClass \/ UNCHANGED A!vars
  <2>1. /\ UNCHANGED <<call, input, seen, cases>>
        /\ \/ UNCHANGED <<status, version, published, definition, tests>>
           \/ version' = version + 1
    BY <1>4 DEF A!RemoveTopic, A!TopicGone, A!NextUpdatedAt, A!ArchiveClass, A!RestoreClass, A!vars, A!activity, A!calls
  <2> SUFFICES ASSUME NEW b \in Authors PROVE Drawn(b)'
    OBVIOUS
  <2>2. SameCall(b) /\ cases'[b] = cases[b] /\ Drawn(b) /\ Standing(b)
    BY <1>1, <2>1 DEF SameCall
  <2> QED BY <1>1, <2>1, <2>2, DrawnKept, DrawnOutdated
<1> QED BY <1>3, <1>4 DEF A!Next

(* The invariant of points. *)
GradedIInv == ActivityIInv /\ GradedRow /\ \A a \in Authors : Drawn(a)

LEMMA GradedInvariance ==
    ASSUME A!InputAssumption
    PROVE  A!Spec => []GradedIInv
<1>1. A!Init => GradedIInv
  <2> SUFFICES ASSUME A!Init PROVE GradedIInv
    OBVIOUS
  <2>1. ActivityIInv
    BY Initially
  <2>2. GradedRow /\ \A a \in Authors : Drawn(a)
    BY DEF A!Init, GradedRow, Drawn, A!Idle
  <2> QED BY <2>1, <2>2 DEF GradedIInv
<1>2. GradedIInv /\ [A!Next]_(A!vars) => GradedIInv'
  <2> SUFFICES ASSUME GradedIInv, [A!Next]_(A!vars) PROVE GradedIInv'
    OBVIOUS
  <2>1. ActivityIInv' /\ GradedRow' /\ \A a \in Authors : Drawn(a)'
    BY Steps, RowGraded, CallsDrawn DEF GradedIInv
  <2> QED BY <2>1 DEF GradedIInv
<1> QED BY <1>1, <1>2, PTL DEF A!Spec

(* What instructors define fits together at any time, for any total,
   configuration and tests: a published activity was fit to be published, the
   maxima of a weighted activity and the points of its tests are fair shares
   that add up to the cent, and another's tests never exceed its total, although
   totals, configurations and tests are changed by calls that overlap
   (update in activity.repository.ts, replace in test-case.repository.ts,
   distributePoints in weighted-grading.ts). *)
THEOREM DefinitionSoundAlways ==
    ASSUME A!InputAssumption
    PROVE  A!Spec => []DefinitionSound
<1>1. GradedIInv => DefinitionSound
  <2> SUFFICES ASSUME GradedIInv PROVE DefinitionSound
    OBVIOUS
  <2>1. A!Publishable(definition, tests) => Publishable(definition, tests)
    BY Agrees, TotalsAgree DEF Publishable, A!Publishable, RubricAllocationValid, A!RubricAllocationValid
  <2>2. PublishedIsSound
    BY <2>1 DEF GradedIInv, ActivityIInv, PublishedIsSound, A!PublishedIsSound
  <2>3. PointsFit
    BY GradedFits DEF GradedIInv
  <2> QED BY <2>2, <2>3 DEF DefinitionSound
<1> QED BY <1>1, GradedInvariance, PTL
=============================================================================
