----------------------------- MODULE Enrollment -----------------------------
(***************************************************************************)
(* A class, its teaching staff, its members, its join code and the         *)
(* invitations of students: class.repository.ts, class-staff.routes.ts,    *)
(* class-member.repository.ts, class-invitation.repository.ts and the      *)
(* import of invitations, with updateStatus of                             *)
(* user-provisioning.repository.ts as far as the class is concerned.       *)
(*                                                                         *)
(* Staff changes, joins and acceptances run at SERIALIZABLE and are atomic *)
(* steps of each other.  Archiving, restoring, the join code, changes of a *)
(* membership or of an account and declining run at READ COMMITTED, which  *)
(* serializable transactions do not conflict with.  view is a serializable *)
(* transaction under way: the rows as its snapshot has them, which of them *)
(* changed since (the transaction fails where it locks or updates those),  *)
(* and whether the class was changed under FOR UPDATE (it then fails where *)
(* it inserts a row that refers to the class).  late is a call at READ     *)
(* COMMITTED between what it reads and what it writes.                     *)
(***************************************************************************)
EXTENDS ClassPromises, Integers, FiniteSets

CONSTANT MaxInvitations

ASSUME EnrollmentAssumption ==
    /\ IsFiniteSet(Instructors) /\ IsFiniteSet(Students)
    /\ Instructors \cap Students = {} /\ None \notin Instructors
    /\ MaxInvitations \in Nat

Users == Instructors \cup Students

VARIABLES
    view,        \* the serializable transaction under way
    late         \* the call at READ COMMITTED under way

vars == <<class, active, staff, member, invitation, view, late>>

NoView == [under |-> FALSE]
Now == [under |-> FALSE, class |-> class, active |-> active, member |-> member,
        touched |-> {}, fenced |-> FALSE]
Views == {Now} \cup (IF view = NoView THEN {} ELSE {view})

\* The transaction of v commits; what else is under way goes on.
Done(v) == view' = IF v.under THEN NoView ELSE view

ClassRow == <<"class">>
MemberRow(s) == <<"member", s>>
InvitationRow(s) == <<"invitation", s>>

\* A row has been changed.
Touch(row) == view' = IF view = NoView THEN view ELSE [view EXCEPT !.touched = @ \cup {row}]

\* It was the class, under FOR UPDATE.
Fence == view' = IF view = NoView THEN view
                 ELSE [view EXCEPT !.touched = @ \cup {ClassRow}, !.fenced = TRUE]

\* v commits, having made this student a member; a serializable transaction that
\* is still under way follows it or fails.
DoneWith(v, s) ==
    view' = IF v.under THEN NoView ELSE IF view = NoView THEN view
            ELSE [view EXCEPT !.touched = @ \cup {MemberRow(s), InvitationRow(s)},
                              !.member[s] = "ACTIVE"]

Class(status, primary, code) == class' = [status |-> status, primary |-> primary, code |-> code]

Init ==
    /\ class = [status |-> "ABSENT", primary |-> None, code |-> FALSE]
    /\ active = Users
    /\ staff = [i \in Instructors |-> "NONE"]
    /\ member = [s \in Students |-> "NONE"]
    /\ invitation = [s \in Students |-> <<>>]
    /\ view = NoView /\ late = <<"none">>

Begin ==
    /\ view = NoView /\ view' = [Now EXCEPT !.under = TRUE]
    /\ UNCHANGED <<class, active, staff, member, invitation, late>>

-----------------------------------------------------------------------------
(* Invitations of students.                                                *)

Pending(s) == invitation[s] # <<>> /\ invitation[s][Len(invitation[s])] = "PENDING"

Resolved(s, status) == [invitation EXCEPT ![s][Len(invitation[s])] = status]

\* Every student of ss gets an invitation; one can be pending for each (the
\* partial unique index).
Invite(ss) ==
    /\ \A s \in ss : ~Pending(s) /\ Len(invitation[s]) < MaxInvitations
    /\ invitation' = [s \in Students |->
         IF s \in ss THEN Append(invitation[s], "PENDING") ELSE invitation[s]]

\* The insert of a row that refers to the class.
Insertable(v) == ~v.fenced
Fresh(v, s) == InvitationRow(s) \notin v.touched

Teaches(v) == {i \in v.active \cap Instructors : i = v.class.primary \/ staff[i] = "ACTIVE"}

CreateInvitation(v, s) ==
    /\ Teaches(v) # {} /\ v.class.status = "ACTIVE"
    /\ s \in v.active /\ v.member[s] # "ACTIVE" /\ Fresh(v, s) /\ Insertable(v)
    /\ Invite({s})
    /\ Done(v) /\ UNCHANGED <<class, active, staff, member, late>>

\* The import locks the class FOR UPDATE; it takes the students that are not
\* members and have no invitation pending.
ImportInvitations(v, ss) ==
    /\ v.class.status = "ACTIVE" /\ ClassRow \notin v.touched
    /\ \A s \in ss : s \in v.active /\ v.member[s] # "ACTIVE" /\ Fresh(v, s)
    /\ Invite(ss)
    /\ Done(v) /\ UNCHANGED <<class, active, staff, member, late>>

\* The invitation is locked FOR UPDATE.  A membership is inserted, or an old
\* one taken up again by its id.
Accept(v, s) ==
    /\ Pending(s) /\ Fresh(v, s)
    /\ v.class.status = "ACTIVE" /\ s \in v.active
    /\ IF v.member[s] = "NONE" THEN Insertable(v) ELSE MemberRow(s) \notin v.touched
    /\ member' = [member EXCEPT ![s] = "ACTIVE"]
    /\ invitation' = Resolved(s, "ACCEPTED")
    /\ DoneWith(v, s) /\ UNCHANGED <<class, active, staff, late>>

\* Mutant: the invitation is declined as it was read before it was locked.
DeclineUnchecked(s) ==
    /\ invitation[s] # <<>> /\ class.status = "ACTIVE" /\ s \in active
    /\ invitation' = Resolved(s, "DECLINED")
    /\ Touch(InvitationRow(s)) /\ UNCHANGED <<class, active, staff, member, late>>

\* decline waits for the lock on the invitation before it reads it.
Decline(s) ==
    /\ Pending(s) /\ class.status = "ACTIVE" /\ s \in active
    /\ invitation' = Resolved(s, "DECLINED")
    /\ Touch(InvitationRow(s)) /\ UNCHANGED <<class, active, staff, member, late>>

-----------------------------------------------------------------------------
(* Members.                                                                *)

\* A pending invitation of the student counts as accepted.
JoinByCode(v, s) ==
    /\ v.class.status = "ACTIVE" /\ v.class.code /\ v.member[s] \in {"NONE", "ACTIVE"}
    /\ v.member[s] = "NONE" => Insertable(v)
    /\ Pending(s) => Fresh(v, s)
    /\ v.member[s] = "NONE" \/ Pending(s)
    /\ member' = IF v.member[s] = "NONE" THEN [member EXCEPT ![s] = "ACTIVE"] ELSE member
    /\ invitation' = IF Pending(s) THEN Resolved(s, "ACCEPTED") ELSE invitation
    /\ DoneWith(v, s) /\ UNCHANGED <<class, active, staff, late>>

Opposite(status) == IF status = "ACTIVE" THEN "REMOVED" ELSE "ACTIVE"

\* transition reads the class and the membership,
TransitionRead(s) ==
    /\ late = <<"none">> /\ class.status \in {"PREPARED", "ACTIVE"} /\ member[s] # "NONE"
    /\ late' = <<"member", s, Opposite(member[s])>>
    /\ UNCHANGED <<class, active, staff, member, invitation, view>>

\* and updates the membership by its id.
Transition(s, status) ==
    /\ member' = [member EXCEPT ![s] = status]
    /\ Touch(MemberRow(s)) /\ UNCHANGED <<class, active, staff, invitation>>

-----------------------------------------------------------------------------
(* Teaching staff.  lockClass fails if the class row has changed since the *)
(* snapshot, which the query for the advisory lock takes before it waits.  *)

Locked(v) == ClassRow \notin v.touched
StatusLockFree == late[1] # "status"

InviteStaff(v, i) ==
    /\ StatusLockFree /\ Locked(v) /\ v.class.status = "ACTIVE"
    /\ v.class.primary \in v.active /\ i \in v.active /\ i # v.class.primary
    /\ staff[i] \in {"NONE", "REMOVED"}
    /\ staff' = [staff EXCEPT ![i] = "INVITED"]
    /\ Done(v) /\ UNCHANGED <<class, active, member, invitation, late>>

AcceptStaff(v, i) ==
    /\ StatusLockFree /\ Locked(v) /\ v.class.status = "ACTIVE"
    /\ i \in v.active /\ staff[i] = "INVITED" /\ i # v.class.primary
    /\ staff' = [staff EXCEPT ![i] = "ACTIVE"]
    /\ Done(v) /\ UNCHANGED <<class, active, member, invitation, late>>

\* The primary hands the class to a co-instructor, or an administrator assigns
\* it to any instructor; stays says that the former primary becomes a
\* co-instructor.
MayTransfer(v, next, administrative) ==
    /\ StatusLockFree /\ Locked(v) /\ v.class.status \in {"PREPARED", "ACTIVE"}
    /\ next \in v.active /\ next # v.class.primary
    /\ \/ administrative
       \/ v.class.status = "ACTIVE" /\ v.class.primary \in v.active /\ staff[next] = "ACTIVE"

Passed(v, next) ==
    /\ Class("ACTIVE", next, IF v.class.status = "PREPARED" THEN TRUE ELSE class.code)
    /\ (IF v.under THEN Done(v) ELSE Fence)
    /\ UNCHANGED <<active, member, invitation, late>>

\* Mutant: only an accepted co-instructor loses the row when made primary.
TransferKeepsInvited(v, next, administrative, stays) ==
    LET former == v.class.primary
    IN  /\ MayTransfer(v, next, administrative)
        /\ stays /\ former # None => former \in v.active
        /\ staff' = [i \in Instructors |->
             CASE i = next /\ staff[i] = "ACTIVE" -> "REMOVED"
               [] i = former /\ stays -> "ACTIVE"
               [] i = former /\ staff[i] # "NONE" -> "REMOVED"
               [] OTHER -> staff[i]]
        /\ Passed(v, next)

Transfer(v, next, administrative, stays) ==
    LET former == v.class.primary
    IN  /\ MayTransfer(v, next, administrative)
        /\ stays /\ former # None => former \in v.active
        /\ staff' = [i \in Instructors |->
             CASE i \in {next, former} /\ staff[i] # "NONE" /\ (i = next \/ ~stays) -> "REMOVED"
               [] i = former /\ stays -> "ACTIVE"
               [] OTHER -> staff[i]]
        /\ Passed(v, next)

\* A co-instructor leaves, or the primary or an administrator ends the row.
EndStaff(v, i) ==
    /\ Locked(v) /\ v.class.status = "ACTIVE" /\ i # v.class.primary
    /\ staff[i] \in {"INVITED", "ACTIVE"}
    /\ staff' = [staff EXCEPT ![i] = "REMOVED"]
    /\ Done(v) /\ UNCHANGED <<class, active, member, invitation, late>>

-----------------------------------------------------------------------------
(* The class and its join code.                                            *)

\* With a primary the class is active and may invite students at once; without
\* one it is prepared.  The advisory lock keeps statuses from changing.
CreateClass(p, ss) ==
    /\ class.status = "ABSENT" /\ StatusLockFree
    /\ p = None \/ p \in active
    /\ p = None => ss = {}
    /\ ss \subseteq active
    /\ Class(IF p = None THEN "PREPARED" ELSE "ACTIVE", p, p # None)
    /\ Invite(ss)
    /\ UNCHANGED <<active, staff, member, view, late>>

Archivable == class.status \in {"PREPARED", "ACTIVE"}

\* Mutant: the class row is not locked before the gates are judged.
ArchiveUnlocked ==
    /\ Archivable
    /\ Class("ARCHIVED", class.primary, FALSE)
    /\ Touch(ClassRow)
    /\ UNCHANGED <<active, staff, member, invitation, late>>

\* The gates on submissions and projects come on top of this.
Archive ==
    /\ Archivable
    /\ Class("ARCHIVED", class.primary, FALSE)
    /\ Fence
    /\ UNCHANGED <<active, staff, member, invitation, late>>

\* restore reads the class without a lock,
Target == IF class.primary = None THEN "PREPARED" ELSE "ACTIVE"
Restorable == class.status \notin {"ABSENT", Target}

RestoreRead ==
    /\ late = <<"none">> /\ Restorable
    /\ late' = <<"restore", Target>>
    /\ UNCHANGED <<class, active, staff, member, invitation, view>>

\* and updates it by its id, to the status that followed from what it read.
Restore(target) ==
    /\ Class(target, class.primary, FALSE)
    /\ Touch(ClassRow) /\ UNCHANGED <<active, staff, member, invitation>>

\* rotateCode and revokeCode.
SetCode(on) ==
    /\ class.status = "ACTIVE"
    /\ class' = [class EXCEPT !.code = on]
    /\ Touch(ClassRow) /\ UNCHANGED <<active, staff, member, invitation, late>>

-----------------------------------------------------------------------------
(* Accounts.                                                               *)

\* updateStatus takes the advisory lock and refuses to disable the primary of
\* an ACTIVE class,
StatusRead(u) ==
    /\ late = <<"none">>
    /\ u \in active => ~(class.status = "ACTIVE" /\ class.primary = u)
    /\ late' = <<"status", u>>
    /\ UNCHANGED <<class, active, staff, member, invitation, view>>

\* then writes the account.
UpdateStatus(u) ==
    /\ active' = IF u \in active THEN active \ {u} ELSE active \cup {u}
    /\ UNCHANGED <<class, staff, member, invitation, view>>

-----------------------------------------------------------------------------
Serializable(v) ==
    \/ \E s \in Students : CreateInvitation(v, s) \/ Accept(v, s) \/ JoinByCode(v, s)
    \/ \E ss \in SUBSET Students \ {{}} : ImportInvitations(v, ss)
    \/ \E i \in Instructors :
          \/ InviteStaff(v, i) \/ AcceptStaff(v, i) \/ EndStaff(v, i)
          \/ \E administrative, stays \in BOOLEAN : Transfer(v, i, administrative, stays)

\* A call under way that writes what it found out before.
Finish ==
    /\ \/ late[1] = "restore" /\ Restore(late[2])
       \/ late[1] = "member" /\ Transition(late[2], late[3])
       \/ late[1] = "status" /\ UpdateStatus(late[2])
    /\ late' = <<"none">>

ReadCommitted ==
    \/ \E p \in Instructors \cup {None}, ss \in SUBSET Students : CreateClass(p, ss)
    \/ Archive \/ RestoreRead
    \/ Restorable /\ Restore(Target) /\ UNCHANGED late
    \/ \E on \in BOOLEAN : SetCode(on)
    \/ \E s \in Students : TransitionRead(s) \/ Decline(s)
    \/ \E u \in Users : StatusRead(u)
    \/ Finish

Next ==
    \/ Begin
    \/ \E v \in Views : Serializable(v)
    \/ ReadCommitted

Spec == Init /\ [][Next]_vars
=============================================================================
