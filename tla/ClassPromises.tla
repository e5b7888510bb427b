--------------------------- MODULE ClassPromises ----------------------------
(***************************************************************************)
(* What the people of a class are promised, said of the rows of the class, *)
(* its staff, its members and its invitations.  Enrollment is the          *)
(* mechanism that keeps it.                                                *)
(***************************************************************************)
EXTENDS Naturals, Sequences

CONSTANTS Instructors, Students, None

VARIABLES
    class,       \* the class row: status, primary (instructorId), code (classCodeActive)
    active,      \* the users whose account is ACTIVE
    staff,       \* [Instructors -> class_teaching_staff.status]
    member,      \* [Students -> class_members.status]
    invitation   \* [Students -> the statuses of the invitations received, in order]

ClassTypes ==
    /\ class \in [status : {"ABSENT", "PREPARED", "ACTIVE", "ARCHIVED"},
                  primary : Instructors \cup {None}, code : BOOLEAN]
    /\ active \subseteq Instructors \cup Students
    /\ staff \in [Instructors -> {"NONE", "INVITED", "ACTIVE", "REMOVED"}]
    /\ member \in [Students -> {"NONE", "ACTIVE", "REMOVED"}]
    /\ invitation \in [Students -> Seq({"PENDING", "ACCEPTED", "DECLINED"})]

\* The primary of a class is not at the same time one of its co-instructors, nor
\* invited to be one, whatever transfers, assignments and acceptances overlap.
PrimaryNotStaff ==
    \A i \in Instructors : class.primary = i => staff[i] \in {"NONE", "REMOVED"}

\* A join code works only while its class is active: archiving and restoring
\* switch it off, also when a restore overtakes an assignment.
CodeOnlyWhenActive == class.code => class.status = "ACTIVE"

\* The roles and the join code of a class fit its status; and all variables
\* keep their types.
RolesAndCode == ClassTypes /\ PrimaryNotStaff /\ CodeOnlyWhenActive

AnswersKept ==
    \A s \in Students : \A n \in DOMAIN invitation[s] :
        invitation[s][n] # "PENDING" => invitation'[s][n] = invitation[s][n]

\* An invitation that was accepted or declined keeps that answer: a decline that
\* waited for an acceptance does not undo it.
AnswerStands == [][AnswersKept]_invitation

NobodyGained ==
    class.status = "ARCHIVED" =>
        \A s \in Students : /\ member[s] = "NONE" => member'[s] = "NONE"
                            /\ Len(invitation'[s]) = Len(invitation[s])

\* A class that is archived gains neither members nor invitations by calls that
\* began while it was active, but for students it had before.
ArchiveClosesClass == [][NobodyGained]_<<class, member, invitation>>
=============================================================================
