-------------------------- MODULE Accounts_proofs ---------------------------
(***************************************************************************)
(* Theorems about who may do what: AccountSessions, for any users and      *)
(* requests and any number of sessions, tokens and passwords, and below    *)
(* Enrollment.                                                             *)
(*                                                                         *)
(* AccountSessions.  Locks of two transactions on a row are compatible     *)
(* (LocksAgree).  What a transaction found of a row it locks therefore     *)
(* still holds (Claims, Writes, Judged): the session a rotation claimed is *)
(* live, the password a login verified is the user's, an account being set *)
(* up is still pending, an administrator being disabled is not the last,   *)
(* and a recovery that has taken its snapshot of sessions has all that are *)
(* live in it. Undisturbed says which steps of others leave a transaction  *)
(* all that.                                                               *)
(***************************************************************************)
EXTENDS AccountSessions, ClassPromises, TLAPS, SequenceTheorems, FiniteSetTheorems

CONSTANT MaxInvitations
VARIABLES view, late

E == INSTANCE Enrollment

-----------------------------------------------------------------------------
(* The inductive invariant.                                                *)

\* Locks of two requests on one row are compatible.
LocksAgree ==
    \A r \in Requests : \A q \in Requests \ {r} : \A l \in holds[r], m \in holds[q] :
        l[1] = m[1] => Compatible(l[2], m[2])

\* The row a request presented belongs to the user it acts for.
RowsOf(r) ==
    /\ req[r].op \in {"refresh", "logout", "logoutAll", "change"} =>
         (req[r].row \in DOMAIN session /\ session[req[r].row].user = req[r].user)
    /\ req[r].op \in {"setup", "recover"} =>
         /\ req[r].row \in DOMAIN token
         /\ token[req[r].row].user = req[r].user
         /\ token[req[r].row].purpose =
              IF req[r].op = "setup" THEN "setup" ELSE "recovery"

\* A rotation under way holds the session it claimed, which is live, and shares the
\* user's row once it inserts; a login holds the account as it was verified.
Claims(r) ==
    /\ req[r].pc = "open" => /\ <<U(req[r].user), "nokey">> \in holds[r]
                             /\ user[req[r].user].hash = req[r].hash
    /\ req[r].pc \in {"insert", "replace"} => /\ <<S(req[r].row), "nokey">> \in holds[r]
                                              /\ session[req[r].row].live
    /\ req[r].pc = "replace" => <<U(req[r].user), "share">> \in holds[r]

\* Another administrator than this user is active.
Covered(u) == \E a \in Admins \ {u} : user[a].status = "ACTIVE"

Closing == {"snapshot", "sweep"}

\* A transaction that will write the account holds its row, in the mode that keeps
\* out those whose work it ends; what it judged still holds.
Writes(r) ==
    /\ (req[r].op = "recover" /\ req[r].pc \in Closing) =>
         <<U(req[r].user), "update">> \in holds[r]
    /\ (req[r].op = "recover" /\ req[r].pc = "sweep") =>
         \A s \in DOMAIN session :
             session[s].live /\ session[s].user = req[r].user => s \in req[r].targets
    /\ (req[r].op = "change" /\ req[r].pc \in Closing) =>
         <<U(req[r].user), "nokey">> \in holds[r]
    /\ (req[r].op = "setup" /\ req[r].pc \in {"void", "settle"}) =>
         /\ <<U(req[r].user), "nokey">> \in holds[r]
         /\ user[req[r].user].status = "SETUP_PENDING"
    /\ (req[r].op = "status" /\ req[r].pc \in Closing) =>
         (<<U(req[r].user), "nokey">> \in holds[r] /\ req[r].goal = "INACTIVE")

\* So does one that was allowed to change a status, under the advisory lock.
Judged(r) ==
    /\ (req[r].op = "status" /\ req[r].pc \in {"judge", "restate"} \cup Closing) =>
         <<StatusLock, "update">> \in holds[r]
    /\ (req[r].op = "status" /\ req[r].pc \in {"restate"} \cup Closing
          /\ req[r].user \in Admins /\ req[r].goal = "INACTIVE") =>
         Covered(req[r].user)
    /\ (req[r].op = "status" /\ req[r].pc \in {"restate"} \cup Closing) =>
         user[req[r].user].status \in {"ACTIVE", "INACTIVE"}

Requested(r) == RowsOf(r) /\ Claims(r) /\ Writes(r) /\ Judged(r)

\* A family is named by the first of its sessions.
Families == \A s \in DOMAIN session : session[s].family \in 1 .. s

\* The last recovered password is not newer than the password.
Resets == \A u \in Users : user[u].reset <= user[u].hash

\* The password of a session is not newer than its user's.
Signed == \A s \in DOMAIN session : session[s].hash <= user[session[s].user].hash

\* An account whose setup link was used is set up.
UsedIsSetUp ==
    \A t \in DOMAIN token :
        token[t].purpose = "setup" /\ token[t].state = "used" =>
            user[token[t].user].status \in {"ACTIVE", "INACTIVE"}

SomeAdmin == Admins # {} => \E a \in Admins : user[a].status = "ACTIVE"

IInv ==
    /\ TypeOK /\ LocksAgree
    /\ \A r \in Requests : Requested(r)
    /\ Families /\ OneLivePerFamily
    /\ Resets /\ RecoveryEndsSessions
    /\ UsedIsSetUp /\ SetupOnce
    /\ SomeAdmin

USE DEF vars
USE AccountAssumption

-----------------------------------------------------------------------------
(* Types.                                                                  *)

AllStages == {"rotate", "insert", "replace", "snapshot", "sweep", "signin", "open",
              "change", "recover", "claim", "activate", "void", "settle", "reissue",
              "queue", "judge", "restate"}

LEMMA StagesOf ==
    /\ UNION {Stages[op] : op \in Ops} = AllStages
    /\ \A op \in Ops : Stages[op] \subseteq AllStages
BY DEF Stages, Ops, AllStages

\* What a request is doing when it is doing anything.
Typed(x) == x \in Request /\ x.pc \in Stages[x.op]

ReqTypes ==
    /\ req \in [Requests -> {Idle} \cup Request]
    /\ \A r \in Requests : req[r].pc = "idle" \/ req[r].pc \in Stages[req[r].op]

\* A step is r's alone as far as requests and locks go.
Alone(r) ==
    /\ ReqTypes' /\ LocksAgree' /\ DOMAIN holds' = Requests
    /\ \A q \in Requests \ {r} : req'[q] = req[q] /\ holds'[q] = holds[q]

LEMMA Shape ==
    ASSUME TypeOK, NEW r \in Requests, req[r].pc # "idle"
    PROVE  /\ Typed(req[r]) /\ req[r].op \in Ops /\ req[r].pc \in AllStages
           /\ req[r].user \in Users /\ req[r].row \in Nat /\ req[r].hash \in Nat
           /\ req[r].goal \in {"ACTIVE", "INACTIVE"} /\ req[r].targets \in SUBSET Nat
<1>1. Idle.pc = "idle"
  BY DEF Idle
<1>2. req[r] \in Request /\ req[r].pc \in Stages[req[r].op]
  BY <1>1 DEF TypeOK
<1>. QED BY <1>2, StagesOf DEF Typed, Request

LEMMA Constants == Idle' = Idle /\ Users' = Users /\ Request' = Request
                   /\ Stages' = Stages /\ Ops' = Ops
BY DEF Idle, Users, Request, Stages, Ops

LEMMA Taken ==
    ASSUME TypeOK, NEW r \in Requests, NEW x, x = Idle \/ Typed(x),
           req' = [req EXCEPT ![r] = x]
    PROVE  /\ ReqTypes' /\ req'[r] = x
           /\ \A q \in Requests \ {r} : req'[q] = req[q]
<1>1. req' \in [Requests -> {Idle} \cup Request]
  BY DEF TypeOK, Typed
<1>2. req'[r] = x /\ \A q \in Requests \ {r} : req'[q] = req[q]
  BY DEF TypeOK
<1>3. x.pc = "idle" \/ x.pc \in Stages[x.op]
  BY DEF Typed, Idle
<1>4. \A q \in Requests : req'[q].pc = "idle" \/ req'[q].pc \in Stages[req'[q].op]
  BY <1>2, <1>3 DEF TypeOK
<1>. QED BY <1>1, <1>2, <1>4, Constants DEF ReqTypes

LEMMA BeginStep ==
    ASSUME TypeOK, NEW r \in Requests, NEW op \in Ops, NEW u \in Users, NEW row \in Nat,
           NEW pc \in Stages[op], NEW hash \in Nat, Begin(r, op, u, row, pc, hash)
    PROVE  /\ ReqTypes'
           /\ \A q \in Requests \ {r} : req'[q] = req[q]
           /\ req'[r].op = op /\ req'[r].user = u /\ req'[r].row = row
           /\ req'[r].pc = pc /\ req'[r].hash = hash /\ req'[r].goal = "ACTIVE"
<1> DEFINE x == [Idle EXCEPT !.op = op, !.user = u, !.row = row, !.pc = pc,
                             !.hash = hash]
           I == [op : {"none"} \cup Ops, pc : {"idle"} \cup AllStages, user : Users,
                 row : Nat, hash : Nat, goal : {"ACTIVE"}, targets : {{}}]
<1>0. Idle \in I
  <2>1. (CHOOSE v \in Users : TRUE) \in Users
    OBVIOUS
  <2>. QED BY <2>1 DEF Idle
<1>1. req' = [req EXCEPT ![r] = x]
  BY DEF Begin
<1>2. pc \in AllStages
  BY StagesOf
<1>3. /\ x \in I /\ x.op = op /\ x.user = u /\ x.row = row
      /\ x.pc = pc /\ x.hash = hash /\ x.goal = "ACTIVE" /\ x.targets = {}
  BY <1>0, <1>2
<1> HIDE DEF x
<1>4. x \in Request
  BY <1>3, <1>2, StagesOf DEF Request
<1>5. ReqTypes' /\ req'[r] = x /\ \A q \in Requests \ {r} : req'[q] = req[q]
  BY <1>1, <1>3, <1>4, Taken DEF Typed
<1>. QED BY <1>3, <1>5

LEMMA GoStep ==
    ASSUME TypeOK, NEW r \in Requests, req[r].pc # "idle", NEW pc \in Stages[req[r].op],
           Go(r, pc)
    PROVE  /\ ReqTypes'
           /\ \A q \in Requests \ {r} : req'[q] = req[q]
           /\ req'[r].op = req[r].op /\ req'[r].user = req[r].user
           /\ req'[r].row = req[r].row /\ req'[r].pc = pc
           /\ req'[r].hash = req[r].hash /\ req'[r].goal = req[r].goal
<1> DEFINE x == [req[r] EXCEPT !.pc = pc]
<1>0. Typed(req[r]) /\ req[r].op \in Ops
  BY Shape
<1>1. req' = [req EXCEPT ![r] = x]
  BY DEF Go
<1>2. pc \in UNION {Stages[o] : o \in Ops}
  BY <1>0
<1>3. Typed(x) /\ x.op = req[r].op /\ x.pc = pc /\ x.user = req[r].user
      /\ x.row = req[r].row /\ x.hash = req[r].hash /\ x.goal = req[r].goal
  BY <1>0, <1>2 DEF Typed, Request
<1> HIDE DEF x
<1>4. ReqTypes' /\ req'[r] = x /\ \A q \in Requests \ {r} : req'[q] = req[q]
  BY <1>1, <1>3, Taken
<1>. QED BY <1>3, <1>4

LEMMA EndStep ==
    ASSUME TypeOK, LocksAgree, NEW r \in Requests, End(r)
    PROVE  Alone(r) /\ req'[r] = Idle
<1>1. ReqTypes' /\ req'[r] = Idle /\ \A q \in Requests \ {r} : req'[q] = req[q]
  BY Taken DEF End
<1>2. /\ DOMAIN holds' = Requests /\ holds'[r] = {}
      /\ \A q \in Requests \ {r} : holds'[q] = holds[q]
  BY DEF End, TypeOK
<1>3. LocksAgree'
  BY <1>2 DEF LocksAgree, Compatible
<1>. QED BY <1>1, <1>2, <1>3 DEF Alone

\* A lock that is free is taken.
LEMMA HoldStep ==
    ASSUME TypeOK, LocksAgree, NEW r \in Requests, NEW row, NEW mode,
           CanLock(r, row, mode), Hold(r, row, mode)
    PROVE  /\ LocksAgree' /\ DOMAIN holds' = Requests
           /\ holds'[r] = holds[r] \cup {<<row, mode>>}
           /\ \A q \in Requests \ {r} : holds'[q] = holds[q]
<1>1. /\ DOMAIN holds' = Requests
      /\ holds'[r] = holds[r] \cup {<<row, mode>>}
      /\ \A q \in Requests \ {r} : holds'[q] = holds[q]
  BY DEF Hold, TypeOK
<1>2. \A q \in Requests \ {r} : \A l \in holds[q] : l[1] = row => Compatible(l[2], mode)
  BY DEF CanLock, Free, TypeOK
<1>3. \A q \in Requests \ {r} : \A l \in holds'[r], m \in holds[q] :
        l[1] = m[1] => Compatible(l[2], m[2])
  <2>. SUFFICES ASSUME NEW q \in Requests \ {r}, NEW l \in holds'[r], NEW m \in holds[q],
                       l[1] = m[1]
                PROVE  Compatible(l[2], m[2])
    OBVIOUS
  <2>1. CASE l \in holds[r]
    BY <2>1 DEF LocksAgree
  <2>2. CASE l = <<row, mode>>
    <3>1. m[1] = row /\ l[2] = mode
      BY <2>2
    <3>2. Compatible(m[2], mode)
      BY <3>1, <1>2
    <3>. QED BY <3>1, <3>2 DEF Compatible
  <2>. QED BY <1>1, <2>1, <2>2
<1>4. \A q \in Requests \ {r} : \A l \in holds[q], m \in holds'[r] :
        l[1] = m[1] => Compatible(l[2], m[2])
  BY <1>3 DEF Compatible
<1>5. LocksAgree'
  <2>. SUFFICES ASSUME NEW p \in Requests, NEW q \in Requests \ {p},
                       NEW l \in holds'[p], NEW m \in holds'[q], l[1] = m[1]
                PROVE  Compatible(l[2], m[2])
    BY DEF LocksAgree, Compatible
  <2>1. CASE p = r
    BY <2>1, <1>1, <1>3
  <2>2. CASE q = r
    BY <2>2, <1>1, <1>4
  <2>3. CASE p # r /\ q # r
    BY <2>3, <1>1 DEF LocksAgree
  <2>. QED BY <2>1, <2>2, <2>3
<1>. QED BY <1>1, <1>5

\* A row that is free, or held, in a mode keeps other transactions out of others.
LEMMA FreeExcludes ==
    ASSUME TypeOK, NEW r \in Requests, NEW q \in Requests \ {r}, NEW row, NEW mode, NEW n,
           CanLock(r, row, mode), ~Compatible(n, mode)
    PROVE  <<row, n>> \notin holds[q]
BY DEF CanLock, Free, TypeOK

LEMMA HeldExcludes ==
    ASSUME LocksAgree, NEW r \in Requests, NEW q \in Requests \ {r}, NEW row, NEW mode,
           NEW n, <<row, mode>> \in holds[r], ~Compatible(mode, n)
    PROVE  <<row, n>> \notin holds[q]
<1>. SUFFICES ASSUME <<row, n>> \in holds[q] PROVE FALSE
  OBVIOUS
<1> DEFINE l == <<row, mode>>  m == <<row, n>>
<1>1. l \in holds[r] /\ m \in holds[q] /\ l[1] = m[1] /\ l[2] = mode /\ m[2] = n
  OBVIOUS
<1> HIDE DEF l, m
<1>2. Compatible(l[2], m[2])
  BY <1>1 DEF LocksAgree
<1>. QED BY <1>1, <1>2

LEMMA Modal ==
    /\ ~Compatible("nokey", "nokey") /\ ~Compatible("nokey", "update")
    /\ ~Compatible("update", "nokey") /\ ~Compatible("update", "update")
    /\ ~Compatible("update", "share") /\ ~Compatible("share", "update")
BY DEF Compatible

-----------------------------------------------------------------------------
(* What a step may do to the rows another request relies on.               *)

\* Rows keep their owners, a session is not brought back, and an account that is
\* set up stays so.
RowsStay ==
    /\ DOMAIN session \subseteq DOMAIN session' /\ DOMAIN token \subseteq DOMAIN token'
    /\ \A s \in DOMAIN session :
         /\ session'[s].user = session[s].user
         /\ session'[s].live => session[s].live
    /\ \A t \in DOMAIN token :
         token'[t].user = token[t].user /\ token'[t].purpose = token[t].purpose
    /\ \A u \in Users :
         user[u].status \in {"ACTIVE", "INACTIVE"} => user'[u].status \in {"ACTIVE", "INACTIVE"}

\* What q has locked is changed only in ways its locks allow.
Spares(q) ==
    /\ \A s \in DOMAIN session :
         session[s].live /\ ~session'[s].live => <<S(s), "nokey">> \notin holds[q]
    /\ \A s \in DOMAIN session' \ DOMAIN session :
         <<U(session'[s].user), "update">> \notin holds[q]
    /\ \A u \in Users :
         /\ user'[u].hash # user[u].hash => <<U(u), "nokey">> \notin holds[q]
         /\ user[u].status = "SETUP_PENDING" /\ user'[u].status # "SETUP_PENDING" =>
              <<U(u), "nokey">> \notin holds[q]
         /\ u \in Admins /\ user[u].status = "ACTIVE" /\ user'[u].status # "ACTIVE" =>
              <<StatusLock, "update">> \notin holds[q]

LEMMA Undisturbed ==
    ASSUME TypeOK, NEW q \in Requests, Requested(q), RowsStay, Spares(q),
           req'[q] = req[q], holds'[q] = holds[q]
    PROVE  Requested(q)'
<1> DEFINE x == req[q]
<1>0. x.pc # "idle" => x.user \in Users /\ x.op \in Ops
  BY Shape
<1>a. x.pc = "idle" => x.op = "none"
  <2>1. \A y \in Request : y.pc # "idle"
    BY StagesOf DEF Request, AllStages
  <2>. QED BY <2>1 DEF TypeOK, Idle
<1>1. RowsOf(q)'
  BY DEF Requested, RowsOf, RowsStay
<1>2. Claims(q)'
  <2>1. x.pc = "open" => /\ <<U(x.user), "nokey">> \in holds'[q]
                         /\ user'[x.user].hash = x.hash
    BY <1>0 DEF Requested, Claims, Spares
  <2>2. x.pc \in {"insert", "replace"} => x.op = "refresh"
    BY <1>0, Shape DEF Typed, Stages, Ops
  <2>3. x.pc \in {"insert", "replace"} => <<S(x.row), "nokey">> \in holds'[q]
    BY DEF Requested, Claims
  <2>4. x.pc \in {"insert", "replace"} => session'[x.row].live
    BY <2>2, <2>3 DEF Requested, Claims, RowsOf, Spares
  <2>5. x.pc = "replace" => <<U(x.user), "share">> \in holds'[q]
    BY DEF Requested, Claims
  <2>. QED BY <2>1, <2>3, <2>4, <2>5 DEF Claims, S, U
<1>3. Writes(q)'
  <2>1. x.op = "recover" /\ x.pc \in Closing => <<U(x.user), "update">> \in holds'[q]
    BY DEF Requested, Writes
  <2>2. x.op = "recover" /\ x.pc = "sweep" =>
          \A s \in DOMAIN session' :
              session'[s].live /\ session'[s].user = x.user => s \in x.targets
    <3>. SUFFICES ASSUME x.op = "recover", x.pc = "sweep", NEW s \in DOMAIN session',
                         session'[s].live, session'[s].user = x.user
                  PROVE  s \in x.targets
      OBVIOUS
    <3>1. s \in DOMAIN session
      BY <2>1 DEF Spares, Closing
    <3>. QED BY <3>1 DEF Requested, Writes, RowsStay
  <2>3. x.op = "change" /\ x.pc \in Closing => <<U(x.user), "nokey">> \in holds'[q]
    BY DEF Requested, Writes
  <2>4. x.op = "setup" /\ x.pc \in {"void", "settle"} =>
          /\ <<U(x.user), "nokey">> \in holds'[q]
          /\ user'[x.user].status = "SETUP_PENDING"
    BY <1>0 DEF Requested, Writes, Spares
  <2>5. x.op = "status" /\ x.pc \in Closing =>
          <<U(x.user), "nokey">> \in holds'[q] /\ x.goal = "INACTIVE"
    BY DEF Requested, Writes
  <2>. QED BY <2>1, <2>2, <2>3, <2>4, <2>5 DEF Writes, U, Closing
<1>4. Judged(q)'
  <2>1. x.op = "status" /\ x.pc \in {"judge", "restate"} \cup Closing =>
          <<StatusLock, "update">> \in holds'[q]
    BY DEF Requested, Judged
  <2>2. x.op = "status" /\ x.pc \in {"restate"} \cup Closing /\ x.user \in Admins
          /\ x.goal = "INACTIVE" => \E a \in Admins \ {x.user} : user'[a].status = "ACTIVE"
    <3>. SUFFICES ASSUME x.op = "status", x.pc \in {"restate"} \cup Closing,
                         x.user \in Admins, x.goal = "INACTIVE"
                  PROVE  \E a \in Admins \ {x.user} : user'[a].status = "ACTIVE"
      OBVIOUS
    <3>1. PICK a \in Admins \ {x.user} : user[a].status = "ACTIVE"
      BY DEF Requested, Judged, Covered
    <3>2. user'[a].status = "ACTIVE"
      BY <2>1, <3>1 DEF Spares, Users
    <3>. QED BY <3>1, <3>2
  <2>3. x.op = "status" /\ x.pc \in {"restate"} \cup Closing =>
          user'[x.user].status \in {"ACTIVE", "INACTIVE"}
    <3>. SUFFICES ASSUME x.op = "status", x.pc \in {"restate"} \cup Closing
                  PROVE  user'[x.user].status \in {"ACTIVE", "INACTIVE"}
      OBVIOUS
    <3>1. x.user \in Users
      BY <1>0 DEF Closing
    <3>. QED BY <3>1 DEF Requested, Judged, RowsStay
  <2>. QED BY <2>1, <2>2, <2>3 DEF Judged, Covered, StatusLock, Closing
<1>. QED BY <1>1, <1>2, <1>3, <1>4 DEF Requested

\* The rows are left alone.
LEMMA PrivateStep ==
    ASSUME IInv, NEW r \in Requests, UNCHANGED <<user, session, token>>, Alone(r),
           Requested(r)'
    PROVE  IInv'
<1>1. TypeOK'
  BY Constants DEF IInv, TypeOK, Alone, ReqTypes, Account, Session, Token, Statuses, Users
<1>2. RowsStay /\ \A q \in Requests : Spares(q)
  BY DEF RowsStay, Spares
<1>3. \A q \in Requests \ {r} : Requested(q)'
  BY <1>2, Undisturbed DEF IInv, Alone
<1>4. /\ Families' /\ OneLivePerFamily' /\ Resets' /\ RecoveryEndsSessions'
      /\ UsedIsSetUp' /\ SetupOnce' /\ SomeAdmin'
  BY DEF IInv, Families, OneLivePerFamily, Resets, RecoveryEndsSessions, UsedIsSetUp,
         SetupOnce, SomeAdmin, Live
<1>. QED BY <1>1, <1>3, <1>4 DEF IInv, Alone

LEMMA EndRequested ==
    ASSUME NEW r \in Requests, req'[r] = Idle
    PROVE  Requested(r)'
BY DEF Requested, RowsOf, Claims, Writes, Judged, Idle, Closing

-----------------------------------------------------------------------------
(* Steps that only read and lock.                                          *)

LEMMA Begun ==
    ASSUME IInv, NEW r \in Requests, NEW op \in Ops, NEW u \in Users, NEW row \in Nat,
           NEW pc \in Stages[op], NEW hash \in Nat, Begin(r, op, u, row, pc, hash),
           UNCHANGED <<user, session, token, holds>>,
           op # "status", pc \notin {"open", "insert", "replace"},
           op = "recover" => pc = "recover", op = "change" => pc = "change",
           op = "setup" => pc = "claim",
           op \in {"refresh", "logout", "logoutAll", "change"} =>
             (row \in DOMAIN session /\ session[row].user = u),
           op \in {"setup", "recover"} =>
             (row \in DOMAIN token /\ token[row].user = u
                /\ token[row].purpose = IF op = "setup" THEN "setup" ELSE "recovery")
    PROVE  IInv'
<1>1. /\ ReqTypes' /\ \A q \in Requests \ {r} : req'[q] = req[q]
      /\ req'[r].op = op /\ req'[r].user = u /\ req'[r].row = row /\ req'[r].pc = pc
  BY BeginStep DEF IInv
<1>2. Alone(r)
  BY <1>1 DEF Alone, IInv, LocksAgree, TypeOK
<1>3. RowsOf(r)' /\ Claims(r)' /\ Writes(r)' /\ Judged(r)'
  BY <1>1 DEF RowsOf, Claims, Writes, Judged, Closing
<1>. QED BY <1>2, <1>3, PrivateStep DEF Requested

LEMMA Rows ==
    ASSUME TypeOK
    PROVE  /\ \A s \in DOMAIN session : session[s] \in Session /\ s \in Nat
           /\ \A t \in DOMAIN token : token[t] \in Token /\ t \in Nat
           /\ \A u \in Users : user[u] \in Account
BY DEF TypeOK

LEMMA StartStep ==
    ASSUME IInv, NEW r \in Requests, Start(r)
    PROVE  IInv'
<1>0. TypeOK
  BY DEF IInv
<1>1. ASSUME NEW u \in Users, LoginRead(r, u) PROVE IInv'
  <2>1. user[u].hash \in Nat
    BY <1>0, Rows DEF Account
  <2>. QED BY <1>1, <2>1, Begun DEF LoginRead, Ops, Stages
<1>2. ASSUME NEW u \in Users, RevokeAll(r, u) PROVE IInv'
  BY <1>2, Begun DEF RevokeAll, Ops, Stages
<1>3. ASSUME NEW u \in Users, ResendRead(r, u) PROVE IInv'
  BY <1>3, Begun DEF ResendRead, Ops, Stages
<1>4. ASSUME NEW s \in DOMAIN session, RefreshRead(r, s) PROVE IInv'
  <2>1. session[s].user \in Users /\ s \in Nat
    BY <1>0, Rows DEF Session
  <2>2. CASE Begin(r, "refresh", session[s].user, s, "rotate", 0)
    BY <1>4, <2>1, <2>2, Begun DEF RefreshRead, Ops, Stages
  <2>3. CASE Begin(r, "refresh", session[s].user, s, "snapshot", 0)
    BY <1>4, <2>1, <2>3, Begun DEF RefreshRead, Ops, Stages
  <2>. QED BY <1>4, <2>2, <2>3 DEF RefreshRead
<1>5. ASSUME NEW s \in DOMAIN session, Logout(r, s) PROVE IInv'
  <2>1. session[s].user \in Users /\ s \in Nat
    BY <1>0, Rows DEF Session
  <2>. QED BY <1>5, <2>1, Begun DEF Logout, Ops, Stages
<1>6. ASSUME NEW s \in DOMAIN session, LogoutAll(r, s) PROVE IInv'
  <2>1. session[s].user \in Users /\ s \in Nat
    BY <1>0, Rows DEF Session
  <2>. QED BY <1>6, <2>1, Begun DEF LogoutAll, Ops, Stages
<1>7. ASSUME NEW s \in DOMAIN session, ChangeRead(r, s) PROVE IInv'
  <2>1. session[s].user \in Users /\ s \in Nat
    BY <1>0, Rows DEF Session
  <2>. QED BY <1>7, <2>1, Begun DEF ChangeRead, Ops, Stages
<1>8. ASSUME NEW t \in DOMAIN token, RecoverStart(r, t) PROVE IInv'
  <2>1. token[t].user \in Users /\ t \in Nat
    BY <1>0, Rows DEF Token
  <2>. QED BY <1>8, <2>1, Begun DEF RecoverStart, Ops, Stages
<1>9. ASSUME NEW t \in DOMAIN token, SetupRead(r, t) PROVE IInv'
  <2>1. token[t].user \in Users /\ t \in Nat
    BY <1>0, Rows DEF Token
  <2>. QED BY <1>9, <2>1, Begun DEF SetupRead, Ops, Stages
<1>10. ASSUME NEW a \in Admins, NEW u \in Users, NEW goal \in {"ACTIVE", "INACTIVE"},
              StatusStart(r, a, u, goal)
       PROVE  IInv'
  <2> DEFINE x == [Idle EXCEPT !.op = "status", !.user = u, !.goal = goal, !.pc = "queue"]
             I == [op : {"none"} \cup Ops, pc : {"idle"} \cup AllStages, user : Users,
                   row : Nat, hash : Nat, goal : {"ACTIVE", "INACTIVE"}, targets : {{}}]
  <2>0. Idle \in I
    <3>1. (CHOOSE v \in Users : TRUE) \in Users
      OBVIOUS
    <3>. QED BY <3>1 DEF Idle
  <2>1. x \in I /\ x.op = "status" /\ x.pc = "queue"
    BY <2>0 DEF Ops, AllStages
  <2>2. req' = [req EXCEPT ![r] = x]
    BY <1>10 DEF StatusStart
  <2> HIDE DEF x
  <2>3. Typed(x)
    BY <2>1, StagesOf DEF Typed, Request, Stages, Ops, AllStages
  <2>4. ReqTypes' /\ req'[r] = x /\ \A q \in Requests \ {r} : req'[q] = req[q]
    BY <1>0, <2>2, <2>3, Taken
  <2>5. Alone(r)
    BY <1>0, <1>10, <2>4 DEF Alone, IInv, LocksAgree, TypeOK, StatusStart
  <2>6. RowsOf(r)' /\ Claims(r)' /\ Writes(r)' /\ Judged(r)'
    BY <2>1, <2>4 DEF RowsOf, Claims, Writes, Judged, Closing
  <2>. QED BY <1>10, <2>5, <2>6, PrivateStep DEF Requested, StatusStart
<1>. QED BY <1>1, <1>2, <1>3, <1>4, <1>5, <1>6, <1>7, <1>8, <1>9, <1>10 DEF Start

\* A request moves on, keeping its locks or with one more.
LEMMA Moved ==
    ASSUME IInv, NEW r \in Requests, req[r].pc # "idle", NEW pc \in Stages[req[r].op],
           Go(r, pc), UNCHANGED holds \/ \E row, mode : CanLock(r, row, mode) /\ Hold(r, row, mode)
    PROVE  /\ Alone(r)
           /\ req'[r].op = req[r].op /\ req'[r].user = req[r].user
           /\ req'[r].row = req[r].row /\ req'[r].pc = pc
           /\ req'[r].hash = req[r].hash /\ req'[r].goal = req[r].goal
           /\ holds[r] \subseteq holds'[r]
           /\ \A row, mode : Hold(r, row, mode) => <<row, mode>> \in holds'[r]
<1>1. TypeOK /\ LocksAgree
  BY DEF IInv
<1>2. /\ ReqTypes' /\ \A q \in Requests \ {r} : req'[q] = req[q]
      /\ req'[r].op = req[r].op /\ req'[r].user = req[r].user
      /\ req'[r].row = req[r].row /\ req'[r].pc = pc
      /\ req'[r].hash = req[r].hash /\ req'[r].goal = req[r].goal
  BY <1>1, GoStep
<1>3. CASE UNCHANGED holds
  BY <1>1, <1>2, <1>3 DEF Alone, LocksAgree, TypeOK, Hold
<1>4. CASE \E row, mode : CanLock(r, row, mode) /\ Hold(r, row, mode)
  <2>1. PICK row, mode : CanLock(r, row, mode) /\ Hold(r, row, mode)
    BY <1>4
  <2>2. /\ LocksAgree' /\ DOMAIN holds' = Requests
        /\ holds'[r] = holds[r] \cup {<<row, mode>>}
        /\ \A q \in Requests \ {r} : holds'[q] = holds[q]
    BY <1>1, <2>1, HoldStep
  <2>3. \A rw, md : Hold(r, rw, md) => <<rw, md>> \in holds'[r]
    BY <1>1 DEF Hold, TypeOK
  <2>. QED BY <1>2, <2>2, <2>3 DEF Alone
<1>. QED BY <1>2, <1>3, <1>4

LEMMA StageOp ==
    ASSUME TypeOK, NEW r \in Requests, req[r].pc # "idle"
    PROVE  /\ req[r].pc \in {"signin", "open"} => req[r].op = "login"
           /\ req[r].pc \in {"rotate", "insert", "replace"} => req[r].op = "refresh"
           /\ req[r].pc = "change" => req[r].op = "change"
           /\ req[r].pc = "recover" => req[r].op = "recover"
           /\ req[r].pc \in {"claim", "activate", "settle"} => req[r].op = "setup"
           /\ req[r].pc = "reissue" => req[r].op = "resend"
           /\ req[r].pc = "void" => req[r].op \in {"setup", "resend"}
           /\ req[r].pc \in {"queue", "judge", "restate"} => req[r].op = "status"
           /\ req[r].pc \in Closing => req[r].op \in {"refresh", "logout", "logoutAll",
                "revokeAll", "change", "recover", "status"}
BY Shape DEF Typed, Stages, Ops, Closing

LEMMA FailStep ==
    ASSUME IInv, NEW r \in Requests, End(r), UNCHANGED <<user, session, token>>
    PROVE  IInv'
BY EndStep, EndRequested, PrivateStep DEF IInv

LEMMA SignInStep ==
    ASSUME IInv, NEW r \in Requests, SignIn(r)
    PROVE  IInv'
<1> DEFINE u == req[r].user
<1>1. TypeOK /\ req[r].pc = "signin" /\ req[r].op = "login"
  BY StageOp DEF IInv, SignIn
<1>2. CASE End(r)
  BY <1>2, FailStep DEF SignIn
<1>3. CASE /\ user[u].hash = req[r].hash
           /\ Go(r, "open") /\ Hold(r, U(u), "nokey")
  <2>1. /\ Alone(r) /\ req'[r].op = "login" /\ req'[r].pc = "open"
        /\ req'[r].user = u /\ req'[r].hash = req[r].hash
        /\ <<U(u), "nokey">> \in holds'[r]
    BY <1>1, <1>3, Moved DEF SignIn, Stages
  <2>2. RowsOf(r)' /\ Claims(r)' /\ Writes(r)' /\ Judged(r)'
    BY <1>3, <2>1 DEF RowsOf, Claims, Writes, Judged, SignIn, U
  <2>. QED BY <2>1, <2>2, PrivateStep DEF Requested, SignIn
<1>. QED BY <1>2, <1>3 DEF SignIn

LEMMA RotateStep ==
    ASSUME IInv, NEW r \in Requests, Rotate(r)
    PROVE  IInv'
<1> DEFINE s == req[r].row
<1>1. TypeOK /\ req[r].pc = "rotate" /\ req[r].op = "refresh" /\ Requested(r)
  BY StageOp DEF IInv, Rotate
<1>2. CASE session[s].live /\ Go(r, "insert") /\ Hold(r, S(s), "nokey")
  <2>1. /\ Alone(r) /\ req'[r].op = "refresh" /\ req'[r].pc = "insert"
        /\ req'[r].user = req[r].user /\ req'[r].row = s
        /\ <<S(s), "nokey">> \in holds'[r]
    BY <1>1, <1>2, Moved DEF Rotate, Stages
  <2>2. RowsOf(r)' /\ Claims(r)' /\ Writes(r)' /\ Judged(r)'
    BY <1>1, <1>2, <2>1 DEF Requested, RowsOf, Claims, Writes, Judged, Rotate, S
  <2>. QED BY <2>1, <2>2, PrivateStep DEF Requested, Rotate
<1>3. CASE Go(r, "snapshot") /\ UNCHANGED holds
  <2>1. /\ Alone(r) /\ req'[r].op = "refresh" /\ req'[r].pc = "snapshot"
        /\ req'[r].user = req[r].user /\ req'[r].row = s
    BY <1>1, <1>3, Moved DEF Rotate, Stages
  <2>2. RowsOf(r)' /\ Claims(r)' /\ Writes(r)' /\ Judged(r)'
    BY <1>1, <2>1 DEF Requested, RowsOf, Claims, Writes, Judged, Rotate
  <2>. QED BY <2>1, <2>2, PrivateStep DEF Requested, Rotate
<1>. QED BY <1>2, <1>3 DEF Rotate

LEMMA InsertStep ==
    ASSUME IInv, NEW r \in Requests, InsertReplacement(r)
    PROVE  IInv'
<1>1. TypeOK /\ req[r].pc = "insert" /\ req[r].op = "refresh" /\ Requested(r)
  BY StageOp DEF IInv, InsertReplacement
<1>2. /\ Alone(r) /\ req'[r].op = "refresh" /\ req'[r].pc = "replace"
      /\ req'[r].user = req[r].user /\ req'[r].row = req[r].row
      /\ <<U(req[r].user), "share">> \in holds'[r] /\ holds[r] \subseteq holds'[r]
  BY <1>1, Moved DEF InsertReplacement, Stages
<1>3. RowsOf(r)' /\ Claims(r)' /\ Writes(r)' /\ Judged(r)'
  BY <1>1, <1>2 DEF Requested, RowsOf, Claims, Writes, Judged, InsertReplacement, S, U
<1>. QED BY <1>2, <1>3, PrivateStep DEF Requested, InsertReplacement

LEMMA ChangeStep ==
    ASSUME IInv, NEW r \in Requests, Change(r)
    PROVE  IInv'
<1>1. TypeOK /\ req[r].pc = "change" /\ req[r].op = "change" /\ Requested(r)
  BY StageOp DEF IInv, Change
<1>2. /\ Alone(r) /\ req'[r].op = "change" /\ req'[r].pc = "snapshot"
      /\ req'[r].user = req[r].user /\ req'[r].row = req[r].row
      /\ <<U(req[r].user), "nokey">> \in holds'[r]
  BY <1>1, Moved DEF Change, Stages
<1>3. RowsOf(r)' /\ Claims(r)' /\ Writes(r)' /\ Judged(r)'
  BY <1>1, <1>2 DEF Requested, RowsOf, Claims, Writes, Judged, Change, U
<1>. QED BY <1>2, <1>3, PrivateStep DEF Requested, Change

LEMMA RecoverStep ==
    ASSUME IInv, NEW r \in Requests, Recover(r)
    PROVE  IInv'
<1>1. TypeOK /\ req[r].pc = "recover" /\ req[r].op = "recover" /\ Requested(r)
  BY StageOp DEF IInv, Recover
<1>2. CASE End(r)
  BY <1>2, FailStep DEF Recover
<1>3. CASE Go(r, "snapshot") /\ Hold(r, U(req[r].user), "update")
  <2>1. /\ Alone(r) /\ req'[r].op = "recover" /\ req'[r].pc = "snapshot"
        /\ req'[r].user = req[r].user /\ req'[r].row = req[r].row
        /\ <<U(req[r].user), "update">> \in holds'[r]
    BY <1>1, <1>3, Moved DEF Recover, Stages
  <2>2. RowsOf(r)' /\ Claims(r)' /\ Writes(r)' /\ Judged(r)'
    BY <1>1, <2>1 DEF Requested, RowsOf, Claims, Writes, Judged, Recover, U
  <2>. QED BY <2>1, <2>2, PrivateStep DEF Requested, Recover
<1>. QED BY <1>2, <1>3 DEF Recover

LEMMA ClaimStep ==
    ASSUME IInv, NEW r \in Requests, Claim(r)
    PROVE  IInv'
<1>1. TypeOK /\ req[r].pc = "claim" /\ req[r].op = "setup" /\ Requested(r)
  BY StageOp DEF IInv, Claim
<1>2. CASE End(r)
  BY <1>2, FailStep DEF Claim
<1>3. CASE Go(r, "activate") /\ Hold(r, T(req[r].row), "nokey")
  <2>1. /\ Alone(r) /\ req'[r].op = "setup" /\ req'[r].pc = "activate"
        /\ req'[r].user = req[r].user /\ req'[r].row = req[r].row
    BY <1>1, <1>3, Moved DEF Claim, Stages
  <2>2. RowsOf(r)' /\ Claims(r)' /\ Writes(r)' /\ Judged(r)'
    BY <1>1, <2>1 DEF Requested, RowsOf, Claims, Writes, Judged, Claim
  <2>. QED BY <2>1, <2>2, PrivateStep DEF Requested, Claim
<1>. QED BY <1>2, <1>3 DEF Claim

LEMMA ActivateStep ==
    ASSUME IInv, NEW r \in Requests, Activate(r)
    PROVE  IInv'
<1>1. TypeOK /\ req[r].pc = "activate" /\ req[r].op = "setup" /\ Requested(r)
  BY StageOp DEF IInv, Activate
<1>2. CASE End(r)
  BY <1>2, FailStep DEF Activate
<1>3. CASE /\ user[req[r].user].status = "SETUP_PENDING"
           /\ Go(r, "void") /\ Hold(r, U(req[r].user), "nokey")
  <2>1. /\ Alone(r) /\ req'[r].op = "setup" /\ req'[r].pc = "void"
        /\ req'[r].user = req[r].user /\ req'[r].row = req[r].row
        /\ <<U(req[r].user), "nokey">> \in holds'[r]
    BY <1>1, <1>3, Moved DEF Activate, Stages
  <2>2. RowsOf(r)' /\ Claims(r)' /\ Writes(r)' /\ Judged(r)'
    BY <1>1, <1>3, <2>1 DEF Requested, RowsOf, Claims, Writes, Judged, Activate, U
  <2>. QED BY <2>1, <2>2, PrivateStep DEF Requested, Activate
<1>. QED BY <1>2, <1>3 DEF Activate

LEMMA QueueStep ==
    ASSUME IInv, NEW r \in Requests, Queue(r)
    PROVE  IInv'
<1>1. TypeOK /\ req[r].pc = "queue" /\ req[r].op = "status"
  BY StageOp DEF IInv, Queue
<1>2. /\ Alone(r) /\ req'[r].op = "status" /\ req'[r].pc = "judge"
      /\ <<StatusLock, "update">> \in holds'[r]
  BY <1>1, Moved DEF Queue, Stages
<1>3. RowsOf(r)' /\ Claims(r)' /\ Writes(r)' /\ Judged(r)'
  BY <1>2 DEF RowsOf, Claims, Writes, Judged, Queue, StatusLock, Closing
<1>. QED BY <1>2, <1>3, PrivateStep DEF Requested, Queue

\* A request takes down the rows its statement found.
LEMMA Noted ==
    ASSUME IInv, NEW r \in Requests, req[r].pc # "idle", NEW pc \in Stages[req[r].op],
           NEW ts \in SUBSET Nat, UNCHANGED holds,
           req' = [req EXCEPT ![r].pc = pc, ![r].targets = ts]
    PROVE  /\ Alone(r)
           /\ req'[r].op = req[r].op /\ req'[r].user = req[r].user
           /\ req'[r].row = req[r].row /\ req'[r].pc = pc
           /\ req'[r].goal = req[r].goal /\ req'[r].targets = ts
<1> DEFINE x == [req[r] EXCEPT !.pc = pc, !.targets = ts]
<1>0. TypeOK /\ Typed(req[r]) /\ req[r].op \in Ops
  BY Shape DEF IInv
<1>1. req' = [req EXCEPT ![r] = x]
  BY <1>0 DEF TypeOK
<1>2. pc \in UNION {Stages[o] : o \in Ops}
  BY <1>0
<1>3. Typed(x) /\ x.op = req[r].op /\ x.pc = pc /\ x.user = req[r].user
      /\ x.row = req[r].row /\ x.goal = req[r].goal /\ x.targets = ts
  BY <1>0, <1>2 DEF Typed, Request
<1> HIDE DEF x
<1>4. ReqTypes' /\ req'[r] = x /\ \A q \in Requests \ {r} : req'[q] = req[q]
  BY <1>0, <1>1, <1>3, Taken
<1>. QED BY <1>3, <1>4 DEF Alone, IInv, LocksAgree, TypeOK

LEMMA SnapshotStep ==
    ASSUME IInv, NEW r \in Requests, Snapshot(r)
    PROVE  IInv'
<1> DEFINE x == req[r]
<1>1. TypeOK /\ x.pc = "snapshot" /\ Requested(r)
      /\ x.op \in {"refresh", "logout", "logoutAll", "revokeAll", "change", "recover", "status"}
  BY StageOp DEF IInv, Snapshot, Closing
<1>2. Scope(r) \in SUBSET Nat
  BY <1>1, Rows DEF Scope
<1>3. "sweep" \in Stages[x.op]
  BY <1>1 DEF Stages
<1>4. /\ Alone(r) /\ req'[r].op = x.op /\ req'[r].user = x.user /\ req'[r].row = x.row
      /\ req'[r].pc = "sweep" /\ req'[r].goal = x.goal /\ req'[r].targets = Scope(r)
  <2>1. req' = [req EXCEPT ![r].pc = "sweep", ![r].targets = Scope(r)] /\ UNCHANGED holds
    BY DEF Snapshot
  <2>2. x.pc # "idle"
    BY <1>1
  <2> DEFINE ts == Scope(r)  pc == "sweep"
  <2>3. ts \in SUBSET Nat /\ pc \in Stages[x.op]
        /\ req' = [req EXCEPT ![r].pc = pc, ![r].targets = ts]
    BY <1>2, <1>3, <2>1
  <2> HIDE DEF ts, pc
  <2>4. /\ Alone(r) /\ req'[r].op = x.op /\ req'[r].user = x.user /\ req'[r].row = x.row
        /\ req'[r].pc = pc
    BY <2>1, <2>2, <2>3, Noted
  <2>5. req'[r].goal = x.goal
    BY <2>1, <2>2, <2>3, Noted
  <2>6. req'[r].targets = ts
    <3>1. req'[r] = [req[r] EXCEPT !.pc = pc, !.targets = ts]
      BY <1>1, <2>3 DEF TypeOK
    <3>2. req[r] \in Request
      BY <1>1, <2>2, Shape DEF Typed
    <3>. QED BY <3>1, <3>2 DEF Request
  <2>. QED BY <2>4, <2>5, <2>6 DEF ts, pc
<1>5. UNCHANGED <<user, session, token, holds>>
  BY DEF Snapshot
<1>6. x.op = "recover" => \A s \in DOMAIN session :
        session[s].live /\ session[s].user = x.user => s \in Scope(r)
  BY DEF Scope
<1>7. RowsOf(r)' /\ Claims(r)'
  BY <1>1, <1>4, <1>5 DEF Requested, RowsOf, Claims
<1>8. Writes(r)'
  BY <1>1, <1>4, <1>5, <1>6 DEF Requested, Writes, Closing, U
<1>9. Judged(r)'
  BY <1>1, <1>4, <1>5 DEF Requested, Judged, Closing, StatusLock, Covered
<1>. QED BY <1>4, <1>5, <1>7, <1>8, <1>9, PrivateStep DEF Requested

LEMMA VoidStep ==
    ASSUME IInv, NEW r \in Requests, Void(r)
    PROVE  IInv'
<1> DEFINE x == req[r]
           pc == IF x.op = "setup" THEN "settle" ELSE "reissue"
           ts == Open(x.user) \ {x.row}
<1>1. TypeOK /\ x.pc = "void" /\ x.op \in {"setup", "resend"} /\ Requested(r)
  BY StageOp DEF IInv, Void
<1>2. ts \in SUBSET Nat /\ pc \in Stages[x.op]
  BY <1>1, Rows DEF Open, Stages
<1> HIDE DEF ts
<1>4. /\ Alone(r) /\ req'[r].op = x.op /\ req'[r].user = x.user /\ req'[r].row = x.row
      /\ req'[r].pc = pc
  <2>1. req' = [req EXCEPT ![r].pc = pc, ![r].targets = ts] /\ UNCHANGED holds
    BY DEF Void, ts
  <2> HIDE DEF pc
  <2>. QED BY <1>1, <1>2, <2>1, Noted
<1>5. UNCHANGED <<user, session, token, holds>>
  BY DEF Void
<1>6. RowsOf(r)' /\ Claims(r)' /\ Writes(r)' /\ Judged(r)'
  BY <1>1, <1>4, <1>5 DEF Requested, RowsOf, Claims, Writes, Judged, Closing, U
<1>. QED BY <1>4, <1>5, <1>6, PrivateStep DEF Requested

\* Of more than one active administrator one is not this user.
LEMMA MoreThanOne ==
    ASSUME NEW u \in Users, Cardinality(ActiveAdmins) > 1
    PROVE  Covered(u)
<1>. SUFFICES ASSUME ~Covered(u) PROVE FALSE
  OBVIOUS
<1>1. ActiveAdmins \subseteq {u}
  BY DEF Covered, ActiveAdmins
<1>2. IsFiniteSet({u}) /\ Cardinality({u}) = 1
  BY FS_Singleton
<1>3. Cardinality(ActiveAdmins) <= 1
  BY <1>1, <1>2, FS_Subset
<1>4. IsFiniteSet(ActiveAdmins)
  BY <1>1, <1>2, FS_Subset
<1>5. Cardinality(ActiveAdmins) \in Nat
  BY <1>4, FS_CardinalityType
<1>. QED BY <1>3, <1>5

LEMMA JudgeStep ==
    ASSUME IInv, NEW r \in Requests, Judge(r)
    PROVE  IInv'
<1> DEFINE x == req[r]
<1>1. TypeOK /\ x.pc = "judge" /\ x.op = "status" /\ Requested(r)
  BY StageOp DEF IInv, Judge
<1>2. Typed(x) /\ x.user \in Users /\ x.goal \in {"ACTIVE", "INACTIVE"} /\ x.op \in Ops
  BY <1>1, Shape
<1>3. CASE End(r)
  BY <1>3, FailStep DEF Judge
<1>4. CASE ~End(r)
  <2> DEFINE h == user[x.user].hash
             y == [x EXCEPT !.pc = "restate", !.hash = h]
  <2>1. /\ Allowed(x.user, x.goal)
        /\ req' = [req EXCEPT ![r].pc = "restate", ![r].hash = h]
        /\ UNCHANGED <<user, session, token, holds>>
    BY <1>4 DEF Judge
  <2>2. h \in Nat
    BY <1>1, <1>2, Rows DEF Account
  <2> HIDE DEF h
  <2>3. req' = [req EXCEPT ![r] = y]
    BY <1>1, <2>1 DEF TypeOK
  <2>a. "restate" \in Stages[x.op]
    BY <1>1 DEF Stages
  <2>b. "restate" \in UNION {Stages[o] : o \in Ops}
    BY <1>2, <2>a
  <2>4. Typed(y) /\ y.op = "status" /\ y.pc = "restate" /\ y.user = x.user
        /\ y.goal = x.goal
    BY <1>1, <1>2, <2>2, <2>a, <2>b DEF Typed, Request
  <2> HIDE DEF y
  <2>5. ReqTypes' /\ req'[r] = y /\ \A q \in Requests \ {r} : req'[q] = req[q]
    BY <1>1, <2>3, <2>4, Taken
  <2>6. Alone(r)
    BY <2>1, <2>5 DEF Alone, IInv, LocksAgree, TypeOK
  <2>7. user[x.user].status \in {"ACTIVE", "INACTIVE"}
    BY <2>1 DEF Allowed
  <2>8. x.user \in Admins /\ x.goal = "INACTIVE" => Covered(x.user)
    BY <1>2, <2>1, MoreThanOne DEF Allowed
  <2>9. RowsOf(r)' /\ Claims(r)' /\ Writes(r)'
    BY <2>4, <2>5 DEF RowsOf, Claims, Writes, Closing
  <2>10. Judged(r)'
    BY <1>1, <2>1, <2>4, <2>5, <2>7, <2>8 DEF Requested, Judged, Covered, StatusLock, Closing
  <2>. QED BY <2>1, <2>6, <2>9, <2>10, PrivateStep DEF Requested
<1>. QED BY <1>3, <1>4

\* Disabling goes on to the sessions of the account.
LEMMA DisableStep ==
    ASSUME IInv, NEW r \in Requests, Restate(r), req[r].goal = "INACTIVE"
    PROVE  IInv'
<1> DEFINE x == req[r]
<1>1. TypeOK /\ x.pc = "restate" /\ x.op = "status" /\ Requested(r)
  BY StageOp DEF IInv, Restate
<1>2. Go(r, "snapshot") /\ Hold(r, U(x.user), "nokey") /\ UNCHANGED <<user, session, token>>
  BY DEF Restate
<1>3. /\ Alone(r) /\ req'[r].op = "status" /\ req'[r].user = x.user
      /\ req'[r].pc = "snapshot" /\ req'[r].goal = "INACTIVE"
      /\ <<U(x.user), "nokey">> \in holds'[r] /\ holds[r] \subseteq holds'[r]
  BY <1>1, <1>2, Moved DEF Restate, Stages
<1>4. RowsOf(r)' /\ Claims(r)' /\ Writes(r)'
  BY <1>3 DEF RowsOf, Claims, Writes, U
<1>5. Judged(r)'
  BY <1>1, <1>2, <1>3 DEF Requested, Judged, Covered, StatusLock, Closing
<1>. QED BY <1>2, <1>3, <1>4, <1>5, PrivateStep DEF Requested

-----------------------------------------------------------------------------
(* Steps that write rows.                                                  *)

LEMMA Appended ==
    ASSUME NEW X, NEW sq \in Seq(X), NEW e \in X
    PROVE  /\ Append(sq, e) \in Seq(X) /\ Len(sq) \in Nat
           /\ Len(sq) + 1 \notin DOMAIN sq
           /\ DOMAIN Append(sq, e) = DOMAIN sq \cup {Len(sq) + 1}
           /\ \A i \in DOMAIN sq : Append(sq, e)[i] = sq[i] /\ i \in 1 .. Len(sq)
           /\ Append(sq, e)[Len(sq) + 1] = e
OBVIOUS

\* A table rewritten row by row is a table.
LEMMA Rewritten ==
    ASSUME NEW X, NEW sq \in Seq(X), NEW f, DOMAIN f = DOMAIN sq,
           f = [i \in DOMAIN sq |-> f[i]], \A i \in DOMAIN sq : f[i] \in X
    PROVE  f \in Seq(X)
<1>1. DOMAIN sq = 1 .. Len(sq) /\ Len(sq) \in Nat
  OBVIOUS
<1>2. f \in [1 .. Len(sq) -> X]
  BY <1>1
<1>. QED BY <1>1, <1>2

Tables ==
    /\ user \in [Users -> Account] /\ session \in Seq(Session) /\ token \in Seq(Token)

\* What every request relies on holds after a step of r, or of none.
LEMMA DataStep ==
    ASSUME IInv, NEW r, RowsStay, Tables',
           \/ /\ r \in Requests /\ Alone(r) /\ req'[r] = Idle /\ \A q \in Requests \ {r} : Spares(q)
           \/ UNCHANGED <<req, holds>> /\ \A q \in Requests : Spares(q)
    PROVE  TypeOK' /\ LocksAgree' /\ \A q \in Requests : Requested(q)'
<1>1. ReqTypes' /\ LocksAgree' /\ DOMAIN holds' = Requests
  BY Constants DEF Alone, ReqTypes, IInv, TypeOK, LocksAgree
<1>2. TypeOK'
  BY <1>1 DEF TypeOK, Tables, ReqTypes
<1>3. ASSUME NEW q \in Requests, req'[q] = req[q], holds'[q] = holds[q], Spares(q)
      PROVE  Requested(q)'
  BY <1>3, Undisturbed DEF IInv
<1>4. r \in Requests /\ req'[r] = Idle => Requested(r)'
  BY EndRequested
<1>5. \A q \in Requests : Requested(q)'
  BY <1>3, <1>4 DEF Alone
<1>. QED BY <1>1, <1>2, <1>5

LEMMA OpenStep ==
    ASSUME IInv, NEW r \in Requests, OpenSession(r)
    PROVE  IInv'
<1> DEFINE n == Len(session) + 1
           x == req[r]
           e == [user |-> x.user, family |-> n, live |-> TRUE, next |-> 0, hash |-> x.hash]
<1>1. TypeOK /\ LocksAgree /\ x.pc = "open" /\ Requested(r)
  BY DEF IInv, OpenSession
<1>2. x.user \in Users /\ x.hash \in Nat
  BY <1>1, Shape
<1>3. session \in Seq(Session) /\ e \in Session
  BY <1>1, <1>2 DEF TypeOK, Session
<1>4. session' = Append(session, e) /\ End(r) /\ UNCHANGED <<user, token>>
  BY DEF OpenSession
<1>5. /\ e.user = x.user /\ e.family = n /\ e.live /\ e.hash = x.hash
      /\ n \in Nat /\ n >= 1 /\ n \notin DOMAIN session
  BY <1>3, Appended
<1> HIDE DEF e
<1>6. /\ session' \in Seq(Session)
      /\ DOMAIN session' = DOMAIN session \cup {n}
      /\ \A i \in DOMAIN session : session'[i] = session[i] /\ i \in 1 .. n - 1
      /\ session'[n] = e
  BY <1>3, <1>4, Appended
<1> HIDE DEF n
<1>7. Alone(r) /\ req'[r] = Idle
  BY <1>1, <1>4, EndStep
<1>8. RowsStay
  BY <1>4, <1>6 DEF RowsStay
<1>9. ASSUME NEW q \in Requests \ {r} PROVE Spares(q)
  <2>1. <<U(x.user), "nokey">> \in holds[r]
    BY <1>1 DEF Requested, Claims
  <2>2. <<U(x.user), "update">> \notin holds[q]
    BY <1>1, <2>1, HeldExcludes, Modal
  <2>3. \A s \in DOMAIN session' \ DOMAIN session : session'[s].user = x.user
    BY <1>5, <1>6
  <2>. QED BY <1>4, <1>6, <2>2, <2>3 DEF Spares
<1>10. Tables'
  BY <1>1, <1>4, <1>6 DEF Tables, TypeOK, Account, Token, Session, Users, Statuses
<1>11. TypeOK' /\ LocksAgree' /\ \A q \in Requests : Requested(q)'
  BY <1>7, <1>8, <1>9, <1>10, DataStep
<1>12. Families'
  <2>1. \A i \in DOMAIN session : session'[i].family \in 1 .. i
    BY <1>6 DEF Families, IInv
  <2>2. session'[n].family \in 1 .. n
    BY <1>5, <1>6
  <2>. QED BY <1>6, <2>1, <2>2 DEF Families
<1>13. OneLivePerFamily'
  <2>1. \A i \in DOMAIN session : session[i].family # n
    BY <1>5, <1>6 DEF Families, IInv
  <2>. QED BY <1>5, <1>6, <2>1 DEF OneLivePerFamily, IInv, Live
<1>14. Resets' /\ UsedIsSetUp' /\ SetupOnce' /\ SomeAdmin'
  BY <1>4 DEF IInv, Resets, UsedIsSetUp, SetupOnce, SomeAdmin
<1>15. RecoveryEndsSessions'
  <2>1. x.hash = user[x.user].hash
    BY <1>1 DEF Requested, Claims
  <2>2. e.hash >= user[x.user].reset
    BY <1>2, <1>5, <2>1 DEF IInv, Resets
  <2>. QED BY <1>4, <1>5, <1>6, <2>2 DEF RecoveryEndsSessions, IInv, Live
<1>. QED BY <1>11, <1>12, <1>13, <1>14, <1>15 DEF IInv

LEMMA ReplaceStep ==
    ASSUME IInv, NEW r \in Requests, Replace(r)
    PROVE  IInv'
<1> DEFINE n == Len(session) + 1
           x == req[r]
           s == x.row
           base == [session EXCEPT ![s].live = FALSE, ![s].next = n]
           e == [session[s] EXCEPT !.live = TRUE, !.next = 0]
<1>1. TypeOK /\ LocksAgree /\ x.pc = "replace" /\ x.op = "refresh" /\ Requested(r)
  BY StageOp DEF IInv, Replace
<1>2. /\ s \in DOMAIN session /\ session[s].user = x.user /\ session[s].live
      /\ session[s] \in Session /\ session \in Seq(Session)
      /\ n \in Nat
  BY <1>1, Rows DEF Requested, RowsOf, Claims, TypeOK
<1>3. session' = Append(base, e) /\ End(r) /\ UNCHANGED <<user, token>>
  BY DEF Replace
<1>4. /\ e \in Session /\ e.user = x.user /\ e.family = session[s].family /\ e.live
      /\ e.hash = session[s].hash
  BY <1>2 DEF Session
<1>5. /\ DOMAIN base = DOMAIN session
      /\ \A i \in DOMAIN session \ {s} : base[i] = session[i]
      /\ base[s] = [session[s] EXCEPT !.live = FALSE, !.next = n]
      /\ base = [i \in DOMAIN session |-> base[i]]
  BY <1>2
<1>6. /\ base[s] \in Session /\ base[s].user = session[s].user /\ ~base[s].live
      /\ base[s].family = session[s].family /\ base[s].hash = session[s].hash
  BY <1>2, <1>5 DEF Session
<1> HIDE DEF e, base
<1>7. base \in Seq(Session)
  <2>1. \A i \in DOMAIN session : base[i] \in Session
    BY <1>1, <1>5, <1>6, Rows
  <2>. QED BY <1>2, <1>5, <2>1, Rewritten
<1>8. Len(base) = Len(session)
  BY <1>2, <1>5, <1>7
<1>9. /\ session' \in Seq(Session) /\ n \notin DOMAIN session
      /\ DOMAIN session' = DOMAIN session \cup {n}
      /\ \A i \in DOMAIN session : session'[i] = base[i] /\ i \in 1 .. n - 1
      /\ session'[n] = e
  <2>1. /\ Append(base, e) \in Seq(Session) /\ Len(base) + 1 \notin DOMAIN base
        /\ DOMAIN Append(base, e) = DOMAIN base \cup {Len(base) + 1}
        /\ \A i \in DOMAIN base : Append(base, e)[i] = base[i] /\ i \in 1 .. Len(base)
        /\ Append(base, e)[Len(base) + 1] = e /\ Len(base) \in Nat
    BY <1>4, <1>7, Appended
  <2>. QED BY <1>3, <1>5, <1>8, <2>1
<1> HIDE DEF n
<1>10. Alone(r) /\ req'[r] = Idle
  BY <1>1, <1>3, EndStep
<1>11. \A i \in DOMAIN session :
         /\ session'[i].user = session[i].user /\ session'[i].family = session[i].family
         /\ session'[i].hash = session[i].hash
         /\ session'[i].live => session[i].live /\ i # s
         /\ i # s => session'[i] = session[i]
  BY <1>5, <1>6, <1>9
<1>12. RowsStay
  BY <1>3, <1>9, <1>11 DEF RowsStay
<1>13. ASSUME NEW q \in Requests \ {r} PROVE Spares(q)
  <2>1. <<U(x.user), "share">> \in holds[r] /\ <<S(s), "nokey">> \in holds[r]
    BY <1>1 DEF Requested, Claims
  <2>2. <<U(x.user), "update">> \notin holds[q] /\ <<S(s), "nokey">> \notin holds[q]
    BY <1>1, <2>1, HeldExcludes, Modal
  <2>3. \A i \in DOMAIN session' \ DOMAIN session : session'[i].user = x.user
    BY <1>4, <1>9
  <2>4. \A i \in DOMAIN session : session[i].live /\ ~session'[i].live => i = s
    BY <1>11
  <2>. QED BY <1>3, <2>2, <2>3, <2>4 DEF Spares
<1>14. Tables'
  BY <1>1, <1>3, <1>9 DEF Tables, TypeOK, Account, Token, Session, Users, Statuses
<1>15. TypeOK' /\ LocksAgree' /\ \A q \in Requests : Requested(q)'
  BY <1>10, <1>12, <1>13, <1>14, DataStep
<1>16. Families'
  <2>1. session[s].family \in 1 .. s /\ s \in 1 .. n - 1
    BY <1>2, <1>9 DEF IInv, Families
  <2>2. \A i \in DOMAIN session : session'[i].family \in 1 .. i
    BY <1>11 DEF IInv, Families
  <2>3. session'[n].family \in 1 .. n
    BY <1>2, <1>4, <1>9, <2>1
  <2>. QED BY <1>9, <2>2, <2>3 DEF Families
<1>17. OneLivePerFamily'
  <2>1. \A i \in DOMAIN session : session'[i].live => session[i].family # session[s].family
    BY <1>2, <1>11 DEF IInv, OneLivePerFamily, Live
  <2>2. \A i, j \in DOMAIN session :
          session'[i].live /\ session'[j].live /\ session'[i].family = session'[j].family
            => i = j
    BY <1>11 DEF IInv, OneLivePerFamily, Live
  <2>. QED BY <1>4, <1>9, <1>11, <2>1, <2>2 DEF OneLivePerFamily, Live
<1>18. Resets' /\ UsedIsSetUp' /\ SetupOnce' /\ SomeAdmin'
  BY <1>3 DEF IInv, Resets, UsedIsSetUp, SetupOnce, SomeAdmin
<1>19. RecoveryEndsSessions'
  BY <1>2, <1>3, <1>4, <1>9, <1>11 DEF RecoveryEndsSessions, IInv, Live
<1>. QED BY <1>15, <1>16, <1>17, <1>18, <1>19 DEF IInv

\* A statement over tokens changes their state only, and uses none but one.
LEMMA Voided ==
    ASSUME TypeOK, NEW ts
    PROVE  /\ Invalidated(ts) \in Seq(Token) /\ DOMAIN Invalidated(ts) = DOMAIN token
           /\ Len(Invalidated(ts)) = Len(token)
           /\ \A n \in DOMAIN token :
                /\ Invalidated(ts)[n].user = token[n].user
                /\ Invalidated(ts)[n].purpose = token[n].purpose
                /\ Invalidated(ts)[n].state = "used" <=> token[n].state = "used"
<1> DEFINE k == Invalidated(ts)
<1>0. token \in Seq(Token)
  BY DEF TypeOK
<1>1. /\ DOMAIN k = DOMAIN token
      /\ \A n \in DOMAIN token : k[n] = IF n \in ts /\ token[n].state = "unused"
           THEN [token[n] EXCEPT !.state = "invalid"] ELSE token[n]
      /\ k = [n \in DOMAIN token |-> k[n]]
  BY DEF Invalidated
<1> HIDE DEF k
<1>2. ASSUME NEW n \in DOMAIN token
      PROVE  /\ k[n] \in Token /\ k[n].user = token[n].user
             /\ k[n].purpose = token[n].purpose
             /\ k[n].state = "used" <=> token[n].state = "used"
  <2>1. token[n] \in Token
    BY Rows
  <2>2. CASE n \in ts /\ token[n].state = "unused"
    <3>1. k[n] = [token[n] EXCEPT !.state = "invalid"]
      BY <1>1, <2>2
    <3>. QED BY <2>1, <2>2, <3>1 DEF Token
  <2>3. CASE ~(n \in ts /\ token[n].state = "unused")
    <3>1. k[n] = token[n]
      BY <1>1, <2>3
    <3>. QED BY <2>1, <3>1
  <2>. QED BY <2>2, <2>3
<1>3. k \in Seq(Token)
  BY <1>0, <1>1, <1>2, Rewritten
<1>4. Len(k) = Len(token)
  BY <1>0, <1>1, <1>3
<1>. QED BY <1>1, <1>2, <1>3, <1>4 DEF k

LEMMA Spent ==
    ASSUME TypeOK, NEW t \in DOMAIN token, NEW ts
    PROVE  /\ Spend(t, ts) \in Seq(Token) /\ DOMAIN Spend(t, ts) = DOMAIN token
           /\ \A n \in DOMAIN token :
                /\ Spend(t, ts)[n].user = token[n].user
                /\ Spend(t, ts)[n].purpose = token[n].purpose
                /\ Spend(t, ts)[n].state = "used" <=> token[n].state = "used" \/ n = t
<1> DEFINE k == Invalidated(ts \ {t})
           z == [k EXCEPT ![t].state = "used"]
<1>1. /\ k \in Seq(Token) /\ DOMAIN k = DOMAIN token
      /\ \A n \in DOMAIN token :
           /\ k[n].user = token[n].user /\ k[n].purpose = token[n].purpose
           /\ k[n].state = "used" <=> token[n].state = "used"
  BY Voided
<1>2. Spend(t, ts) = z
  BY DEF Spend
<1> HIDE DEF k
<1>3. \A n \in DOMAIN token : k[n] \in Token
  BY <1>1
<1>4. /\ DOMAIN z = DOMAIN k /\ z = [n \in DOMAIN k |-> z[n]]
      /\ \A n \in DOMAIN k \ {t} : z[n] = k[n]
      /\ z[t] = [k[t] EXCEPT !.state = "used"]
  BY <1>1
<1> HIDE DEF z
<1>5. z[t] \in Token /\ z[t].user = k[t].user /\ z[t].purpose = k[t].purpose
      /\ z[t].state = "used"
  <2>1. k[t] \in Token
    BY <1>3
  <2>. QED BY <2>1, <1>4 DEF Token
<1>6. \A n \in DOMAIN k : z[n] \in Token
  BY <1>1, <1>3, <1>4, <1>5
<1>7. z \in Seq(Token)
  BY <1>1, <1>4, <1>6, Rewritten
<1>. QED BY <1>1, <1>2, <1>4, <1>5, <1>7

LEMMA UsersStep ==
    ASSUME TypeOK, NEW u \in Users, NEW a \in Account, user' = [user EXCEPT ![u] = a]
    PROVE  user' \in [Users -> Account] /\ user'[u] = a
           /\ \A v \in Users \ {u} : user'[v] = user[v]
BY DEF TypeOK

\* What the sweep of r does to the account: nothing, a new password, a status.
LEMMA SweepUser ==
    ASSUME IInv, NEW r \in Requests, Sweep(r)
    PROVE  LET u == req[r].user
           IN  /\ user' \in [Users -> Account]
               /\ u \in Users
               /\ \A v \in Users \ {u} : user'[v] = user[v]
               /\ req[r].op # "status" => user'[u].status = user[u].status
               /\ req[r].op = "status" => /\ user[u].status \in {"ACTIVE", "INACTIVE"}
                                          /\ user'[u].status = "INACTIVE"
               /\ req[r].op \notin {"change", "recover"} => user'[u].hash = user[u].hash
               /\ req[r].op # "recover" => user'[u].reset = user[u].reset
               /\ user'[u].hash >= user[u].hash /\ user'[u].reset <= user'[u].hash
<1> DEFINE u == req[r].user
           a == user[u]
<1>1. TypeOK /\ req[r].pc = "sweep" /\ Requested(r)
  BY DEF IInv, Sweep
<1>2. u \in Users /\ a \in Account
  BY <1>1, Shape, Rows
<1>3. a.hash \in Nat /\ a.reset \in Nat /\ a.reset <= a.hash
  BY <1>2 DEF IInv, Resets, Account
<1>4. user \in [Users -> Account]
  BY <1>1 DEF TypeOK
<1> DEFINE h == a.hash  z == a.reset  g == a.status
<1>a. a = [status |-> g, hash |-> h, reset |-> z] /\ g \in Statuses
  BY <1>2 DEF Account
<1>5. CASE req[r].op = "change"
  <2> DEFINE b == [a EXCEPT !.hash = h + 1, !.reset = z]
  <2>1. user' = [user EXCEPT ![u] = b]
    BY <1>2, <1>4, <1>5 DEF Sweep, Password
  <2>2. h + 1 \in Nat
    BY <1>3
  <2>3. b \in Account /\ b.status = g /\ b.reset = z /\ b.hash = h + 1
    BY <1>2, <1>3, <2>2 DEF Account
  <2> HIDE DEF b
  <2>4. user' \in [Users -> Account] /\ user'[u] = b
        /\ \A v \in Users \ {u} : user'[v] = user[v]
    BY <1>1, <1>2, <2>1, <2>2, <2>3, UsersStep
  <2>. QED BY <1>2, <1>3, <1>5, <2>3, <2>4
<1>6. CASE req[r].op = "recover"
  <2> DEFINE b == [a EXCEPT !.hash = h + 1, !.reset = h + 1]
  <2>1. user' = [user EXCEPT ![u] = b]
    BY <1>2, <1>4, <1>6 DEF Sweep, Password
  <2>2. h + 1 \in Nat
    BY <1>3
  <2>3. b \in Account /\ b.status = g /\ b.reset = h + 1 /\ b.hash = h + 1
    BY <1>2, <1>3, <2>2 DEF Account
  <2> HIDE DEF b
  <2>4. user' \in [Users -> Account] /\ user'[u] = b
        /\ \A v \in Users \ {u} : user'[v] = user[v]
    BY <1>1, <1>2, <2>1, <2>2, <2>3, UsersStep
  <2>. QED BY <1>2, <1>3, <1>6, <2>3, <2>4
<1>7. CASE req[r].op = "status"
  <2> DEFINE b == [status |-> "INACTIVE", hash |-> h, reset |-> z]
  <2>0. req[r].goal = "INACTIVE" /\ g \in {"ACTIVE", "INACTIVE"}
    BY <1>1, <1>7 DEF Requested, Writes, Judged, Closing
  <2>1. user' = [user EXCEPT ![u] = [a EXCEPT !.status = "INACTIVE"]]
    BY <1>4, <1>7, <2>0 DEF Sweep
  <2>2. [a EXCEPT !.status = "INACTIVE"] = b
    BY <1>a
  <2>3. b \in Account /\ b.status = "INACTIVE" /\ b.reset = z /\ b.hash = h
    BY <1>3, <1>a DEF Account, Statuses
  <2> HIDE DEF b
  <2>4. user' \in [Users -> Account] /\ user'[u] = b
        /\ \A v \in Users \ {u} : user'[v] = user[v]
    BY <1>1, <1>2, <2>1, <2>2, <2>3, UsersStep
  <2>. QED BY <1>2, <1>3, <1>7, <2>0, <2>3, <2>4
<1>8. CASE req[r].op \notin {"change", "recover", "status"}
  <2>1. user' = user
    BY <1>8 DEF Sweep
  <2>. QED BY <1>2, <1>3, <1>4, <1>8, <2>1
<1>. QED BY <1>5, <1>6, <1>7, <1>8

\* Nothing is set up, and every used setup link was used before.
LEMMA SameSetups ==
    ASSUME IInv, RowsStay, DOMAIN token \subseteq DOMAIN token',
           \A n \in DOMAIN token' : token'[n].purpose = "setup" /\ token'[n].state = "used" =>
               n \in DOMAIN token /\ token[n].state = "used",
           \A n \in DOMAIN token : token[n] \in Token
    PROVE  UsedIsSetUp' /\ SetupOnce'
<1>1. ASSUME NEW n \in DOMAIN token', token'[n].purpose = "setup", token'[n].state = "used"
      PROVE  /\ n \in DOMAIN token /\ token[n].purpose = "setup" /\ token[n].state = "used"
             /\ token'[n].user = token[n].user /\ token[n].user \in Users
  BY <1>1 DEF RowsStay, Token
<1>2. UsedIsSetUp'
  BY <1>1 DEF IInv, UsedIsSetUp, RowsStay
<1>3. SetupOnce'
  BY <1>1 DEF IInv, SetupOnce
<1>. QED BY <1>2, <1>3

LEMMA SweepStep ==
    ASSUME IInv, NEW r \in Requests, Sweep(r)
    PROVE  IInv'
<1> DEFINE x == req[r]  u == req[r].user
<1>1. TypeOK /\ LocksAgree /\ x.pc = "sweep" /\ Requested(r) /\ End(r)
  BY DEF IInv, Sweep
<1>2. /\ user' \in [Users -> Account] /\ u \in Users
      /\ \A v \in Users \ {u} : user'[v] = user[v]
      /\ x.op # "status" => user'[u].status = user[u].status
      /\ x.op = "status" => /\ user[u].status \in {"ACTIVE", "INACTIVE"}
                            /\ user'[u].status = "INACTIVE"
      /\ x.op \notin {"change", "recover"} => user'[u].hash = user[u].hash
      /\ x.op # "recover" => user'[u].reset = user[u].reset
      /\ user'[u].hash >= user[u].hash /\ user'[u].reset <= user'[u].hash
  BY SweepUser
<1>3. /\ session \in Seq(Session) /\ DOMAIN session' = DOMAIN session
      /\ session' = [s \in DOMAIN session |-> session'[s]]
      /\ \A s \in DOMAIN session : session'[s] =
           IF s \in x.targets THEN [session[s] EXCEPT !.live = FALSE] ELSE session[s]
  BY <1>1 DEF TypeOK, Sweep
<1>4. ASSUME NEW s \in DOMAIN session
      PROVE  /\ session'[s] \in Session /\ session'[s].user = session[s].user
             /\ session'[s].family = session[s].family /\ session'[s].hash = session[s].hash
             /\ session'[s].live => session[s].live /\ s \notin x.targets
             /\ session[s].live /\ ~session'[s].live => s \in x.targets
  <2>1. session[s] \in Session
    BY <1>1, Rows
  <2>2. CASE s \in x.targets
    <3>1. session'[s] = [session[s] EXCEPT !.live = FALSE]
      BY <1>3, <2>2
    <3>. QED BY <2>1, <2>2, <3>1 DEF Session
  <2>3. CASE s \notin x.targets
    BY <1>3, <2>1, <2>3
  <2>. QED BY <2>2, <2>3
<1>5. session' \in Seq(Session)
  BY <1>3, <1>4, Rewritten
<1>6. /\ token' \in Seq(Token) /\ DOMAIN token' = DOMAIN token
      /\ \A n \in DOMAIN token :
           /\ token'[n].user = token[n].user /\ token'[n].purpose = token[n].purpose
           /\ token'[n].purpose = "setup" /\ token'[n].state = "used" =>
                token[n].state = "used"
  <2>1. CASE x.op = "recover"
    <3>1. x.row \in DOMAIN token /\ token[x.row].purpose = "recovery"
      BY <1>1, <2>1 DEF Requested, RowsOf
    <3>2. token' = Spend(x.row, Open(u))
      BY <2>1 DEF Sweep
    <3>. QED BY <1>1, <3>1, <3>2, Spent
  <2>2. CASE x.op # "recover"
    BY <1>1, <2>2 DEF Sweep, TypeOK
  <2>. QED BY <2>1, <2>2
<1>7. Alone(r) /\ req'[r] = Idle
  BY <1>1, EndStep
<1>8. RowsStay
  <2>1. \A v \in Users :
          user[v].status \in {"ACTIVE", "INACTIVE"} => user'[v].status \in {"ACTIVE", "INACTIVE"}
    BY <1>2
  <2>. QED BY <1>3, <1>4, <1>6, <2>1 DEF RowsStay
<1>9. ASSUME NEW q \in Requests \ {r} PROVE Spares(q)
  <2>1. ASSUME NEW s \in DOMAIN session, session[s].live, ~session'[s].live
        PROVE  <<S(s), "nokey">> \notin holds[q]
    <3>1. CanLock(r, S(s), "nokey")
      BY <1>4, <2>1 DEF Sweep
    <3>. QED BY <1>1, <3>1, FreeExcludes, Modal
  <2>2. x.op \in {"change", "recover"} => <<U(u), "nokey">> \notin holds[q]
    <3>1. x.op = "change" => <<U(u), "nokey">> \in holds[r]
      BY <1>1 DEF Requested, Writes, Closing
    <3>2. x.op = "recover" => <<U(u), "update">> \in holds[r]
      BY <1>1 DEF Requested, Writes, Closing
    <3>3. CASE x.op = "change"
      BY <1>1, <3>1, <3>3, HeldExcludes, Modal
    <3>4. CASE x.op = "recover"
      BY <1>1, <3>2, <3>4, HeldExcludes, Modal
    <3>. QED BY <3>3, <3>4
  <2>3. x.op = "status" => <<StatusLock, "update">> \notin holds[q]
    <3>1. x.op = "status" => <<StatusLock, "update">> \in holds[r]
      BY <1>1 DEF Requested, Judged, Closing
    <3>. QED BY <1>1, <3>1, HeldExcludes, Modal
  <2>4. ASSUME NEW v \in Users
        PROVE  /\ user'[v].hash # user[v].hash => <<U(v), "nokey">> \notin holds[q]
               /\ user[v].status = "SETUP_PENDING" => user'[v].status = "SETUP_PENDING"
               /\ user[v].status = "ACTIVE" /\ user'[v].status # "ACTIVE" =>
                    <<StatusLock, "update">> \notin holds[q]
    BY <1>2, <2>2, <2>3
  <2>. QED BY <1>3, <2>1, <2>4 DEF Spares
<1>10. TypeOK' /\ LocksAgree' /\ \A q \in Requests : Requested(q)'
  <2>1. Tables'
    BY <1>2, <1>5, <1>6 DEF Tables, Account, Token, Session, Users, Statuses
  <2>. QED BY <1>7, <1>8, <1>9, <2>1, DataStep
<1>11. Families' /\ OneLivePerFamily'
  BY <1>3, <1>4 DEF IInv, Families, OneLivePerFamily, Live
<1>12. Resets'
  <2>1. \A v \in Users : user'[v].reset <= user'[v].hash
    BY <1>2 DEF IInv, Resets
  <2>. QED BY <2>1 DEF Resets, Users
<1>13. UsedIsSetUp' /\ SetupOnce'
  <2>1. \A n \in DOMAIN token : token[n] \in Token
    BY <1>1, Rows
  <2>. QED BY <1>6, <1>8, <2>1, SameSetups
<1>14. RecoveryEndsSessions'
  <2>. SUFFICES ASSUME NEW s \in DOMAIN session, session'[s].live
                PROVE  session'[s].hash >= user'[session'[s].user].reset
    BY <1>3 DEF RecoveryEndsSessions, Live
  <2>1. session[s].live /\ s \notin x.targets /\ session[s].user \in Users
    BY <1>1, <1>4, Rows DEF Session
  <2>2. CASE session[s].user = u /\ x.op = "recover"
    BY <1>1, <2>1, <2>2 DEF Requested, Writes
  <2>3. CASE ~(session[s].user = u /\ x.op = "recover")
    <3>1. user'[session[s].user].reset = user[session[s].user].reset
      BY <1>2, <2>1, <2>3
    <3>. QED BY <1>4, <2>1, <3>1 DEF IInv, RecoveryEndsSessions, Live
  <2>. QED BY <2>2, <2>3
<1>15. SomeAdmin'
  <2>. SUFFICES ASSUME Admins # {} PROVE \E a \in Admins : user'[a].status = "ACTIVE"
    BY DEF SomeAdmin
  <2>1. CASE x.op = "status" /\ u \in Admins
    <3>1. PICK a \in Admins \ {u} : user[a].status = "ACTIVE"
      BY <1>1, <2>1 DEF Requested, Judged, Writes, Covered, Closing
    <3>. QED BY <1>2, <3>1 DEF Users
  <2>2. CASE ~(x.op = "status" /\ u \in Admins)
    <3>1. PICK a \in Admins : user[a].status = "ACTIVE"
      BY DEF IInv, SomeAdmin
    <3>2. user'[a].status = "ACTIVE"
      BY <1>2, <2>2, <3>1 DEF Users
    <3>. QED BY <3>2
  <2>. QED BY <2>1, <2>2
<1>. QED BY <1>10, <1>11, <1>12, <1>13, <1>14, <1>15 DEF IInv

LEMMA SettleStep ==
    ASSUME IInv, NEW r \in Requests, Settle(r)
    PROVE  IInv'
<1> DEFINE x == req[r]  u == req[r].user  t == req[r].row  a == user[u]
           b == [a EXCEPT !.status = "ACTIVE", !.hash = a.hash + 1]
<1>1. TypeOK /\ LocksAgree /\ x.pc = "settle" /\ x.op = "setup" /\ Requested(r)
      /\ End(r) /\ session' = session
  BY StageOp DEF IInv, Settle
<1>2. u \in Users /\ a \in Account /\ user \in [Users -> Account]
  BY <1>1, Shape, Rows DEF TypeOK
<1>3. <<U(u), "nokey">> \in holds[r] /\ a.status = "SETUP_PENDING"
  BY <1>1 DEF Requested, Writes
<1>4. t \in DOMAIN token /\ token[t].user = u /\ token[t].purpose = "setup"
  BY <1>1 DEF Requested, RowsOf
<1>5. a.hash \in Nat /\ a.reset \in Nat /\ a.reset <= a.hash /\ a.hash + 1 \in Nat
  BY <1>2 DEF IInv, Resets, Account
<1>6. user' = [user EXCEPT ![u] = b]
  BY <1>2 DEF Settle
<1>7. b \in Account /\ b.status = "ACTIVE" /\ b.hash = a.hash + 1 /\ b.reset = a.reset
  BY <1>2, <1>5 DEF Account, Statuses
<1> HIDE DEF b
<1>8. user' \in [Users -> Account] /\ user'[u] = b /\ \A v \in Users \ {u} : user'[v] = user[v]
  BY <1>1, <1>2, <1>6, <1>7, UsersStep
<1>9. /\ token' \in Seq(Token) /\ DOMAIN token' = DOMAIN token
      /\ \A n \in DOMAIN token :
           /\ token'[n].user = token[n].user /\ token'[n].purpose = token[n].purpose
           /\ token'[n].state = "used" <=> token[n].state = "used" \/ n = t
  BY <1>1, <1>4, Spent DEF Settle
<1>10. Alone(r) /\ req'[r] = Idle
  BY <1>1, EndStep
<1>11. RowsStay
  <2>1. \A v \in Users :
          user[v].status \in {"ACTIVE", "INACTIVE"} => user'[v].status \in {"ACTIVE", "INACTIVE"}
    BY <1>7, <1>8
  <2>. QED BY <1>1, <1>9, <2>1 DEF RowsStay
<1>12. ASSUME NEW q \in Requests \ {r} PROVE Spares(q)
  <2>1. <<U(u), "nokey">> \notin holds[q]
    BY <1>1, <1>3, HeldExcludes, Modal
  <2>2. ASSUME NEW v \in Users
        PROVE  /\ user'[v].hash # user[v].hash => <<U(v), "nokey">> \notin holds[q]
               /\ user[v].status = "SETUP_PENDING" /\ user'[v].status # "SETUP_PENDING" =>
                    <<U(v), "nokey">> \notin holds[q]
               /\ user[v].status = "ACTIVE" => user'[v].status = "ACTIVE"
    BY <1>7, <1>8, <2>1
  <2>. QED BY <1>1, <2>2 DEF Spares
<1>13. TypeOK' /\ LocksAgree' /\ \A q \in Requests : Requested(q)'
  <2>1. Tables'
    BY <1>1, <1>8, <1>9 DEF Tables, TypeOK, Account, Token, Session, Users, Statuses
  <2>. QED BY <1>10, <1>11, <1>12, <2>1, DataStep
<1>14. Families' /\ OneLivePerFamily'
  BY <1>1 DEF IInv, Families, OneLivePerFamily, Live
<1>15. \A v \in Users : user'[v].reset = user[v].reset /\ user'[v].reset <= user'[v].hash
  <2>1. ASSUME NEW v \in Users
        PROVE  user'[v].reset = user[v].reset /\ user'[v].reset <= user'[v].hash
    <3>1. CASE v = u
      BY <1>5, <1>7, <1>8, <3>1
    <3>2. CASE v # u
      BY <1>8, <3>2 DEF IInv, Resets
    <3>. QED BY <3>1, <3>2
  <2>. QED BY <2>1
<1>16. Resets'
  BY <1>15 DEF Resets, Users
<1>17. RecoveryEndsSessions'
  <2>1. \A s \in DOMAIN session : session[s].user \in Users
    BY <1>1, Rows DEF Session
  <2>. QED BY <1>1, <1>15, <2>1 DEF IInv, RecoveryEndsSessions, Live
<1>18. SomeAdmin'
  <2>. SUFFICES ASSUME Admins # {} PROVE \E v \in Admins : user'[v].status = "ACTIVE"
    BY DEF SomeAdmin
  <2>1. PICK v \in Admins : user[v].status = "ACTIVE"
    BY DEF IInv, SomeAdmin
  <2>. QED BY <1>7, <1>8, <2>1 DEF Users
<1>19. ASSUME NEW n \in DOMAIN token, token[n].purpose = "setup", token[n].state = "used"
       PROVE  token[n].user # u /\ token[n].user \in Users
  <2>1. token[n].user \in Users
    BY <1>1, Rows DEF Token
  <2>2. user[token[n].user].status \in {"ACTIVE", "INACTIVE"}
    BY <1>19 DEF IInv, UsedIsSetUp
  <2>. QED BY <1>3, <2>1, <2>2
<1>20. UsedIsSetUp'
  <2>. SUFFICES ASSUME NEW n \in DOMAIN token, token'[n].purpose = "setup",
                       token'[n].state = "used"
                PROVE  user'[token'[n].user].status \in {"ACTIVE", "INACTIVE"}
    BY <1>9 DEF UsedIsSetUp
  <2>1. CASE n = t
    BY <1>4, <1>7, <1>8, <1>9, <2>1
  <2>2. CASE n # t
    <3>1. token[n].purpose = "setup" /\ token[n].state = "used" /\ token'[n].user = token[n].user
      BY <1>9, <2>2
    <3>. QED BY <1>8, <1>19, <3>1 DEF IInv, UsedIsSetUp
  <2>. QED BY <2>1, <2>2
<1>21. SetupOnce'
  <2>. SUFFICES ASSUME NEW i \in DOMAIN token, NEW j \in DOMAIN token,
                       token'[i].purpose = "setup", token'[i].state = "used",
                       token'[j].purpose = "setup", token'[j].state = "used",
                       token'[i].user = token'[j].user
                PROVE  i = j
    BY <1>9 DEF SetupOnce
  <2>1. /\ token[i].purpose = "setup" /\ token[j].purpose = "setup"
        /\ token[i].user = token[j].user
        /\ token[i].state = "used" \/ i = t
        /\ token[j].state = "used" \/ j = t
    BY <1>9
  <2>2. i = t => token[j].state # "used"
    BY <1>4, <1>19, <2>1
  <2>3. j = t => token[i].state # "used"
    BY <1>4, <1>19, <2>1
  <2>. QED BY <2>1, <2>2, <2>3 DEF IInv, SetupOnce
<1>. QED BY <1>13, <1>14, <1>16, <1>17, <1>18, <1>20, <1>21 DEF IInv

\* Open tokens of a user are invalidated and another is added.
LEMMA NewToken ==
    ASSUME IInv, NEW r, NEW ts, NEW e \in Token, e.state = "unused",
           token' = Append(Invalidated(ts), e), UNCHANGED <<user, session>>,
           (r \in Requests /\ Alone(r) /\ req'[r] = Idle) \/ UNCHANGED <<req, holds>>
    PROVE  IInv'
<1>1. TypeOK
  BY DEF IInv
<1> DEFINE k == Invalidated(ts)  n == Len(token) + 1
<1>2. /\ k \in Seq(Token) /\ DOMAIN k = DOMAIN token /\ Len(k) = Len(token)
      /\ \A i \in DOMAIN token :
           /\ k[i].user = token[i].user /\ k[i].purpose = token[i].purpose
           /\ k[i].state = "used" <=> token[i].state = "used"
  BY <1>1, Voided
<1> HIDE DEF k
<1>3. /\ token' \in Seq(Token) /\ DOMAIN token' = DOMAIN token \cup {n}
      /\ \A i \in DOMAIN token : token'[i] = k[i]
      /\ token'[n] = e
  <2>1. /\ Append(k, e) \in Seq(Token)
        /\ DOMAIN Append(k, e) = DOMAIN k \cup {Len(k) + 1}
        /\ \A i \in DOMAIN k : Append(k, e)[i] = k[i]
        /\ Append(k, e)[Len(k) + 1] = e
    BY <1>2, Appended
  <2>. QED BY <1>2, <2>1 DEF k
<1> HIDE DEF n
<1>4. RowsStay
  BY <1>2, <1>3 DEF RowsStay
<1>5. \A q \in Requests : Spares(q)
  BY DEF Spares
<1>6. Tables'
  BY <1>1, <1>3 DEF Tables, TypeOK, Account, Token, Session, Users, Statuses
<1>7. TypeOK' /\ LocksAgree' /\ \A q \in Requests : Requested(q)'
  BY <1>4, <1>5, <1>6, DataStep
<1>8. UsedIsSetUp' /\ SetupOnce'
  <2>1. \A i \in DOMAIN token : token[i] \in Token
    BY <1>1, Rows
  <2>2. \A i \in DOMAIN token' : token'[i].purpose = "setup" /\ token'[i].state = "used" =>
           i \in DOMAIN token /\ token[i].state = "used"
    BY <1>2, <1>3
  <2>. QED BY <1>3, <1>4, <2>1, <2>2, SameSetups
<1>9. /\ Families' /\ OneLivePerFamily' /\ Resets' /\ RecoveryEndsSessions' /\ SomeAdmin'
  BY DEF IInv, Families, OneLivePerFamily, Resets, RecoveryEndsSessions, SomeAdmin, Live
<1>. QED BY <1>7, <1>8, <1>9 DEF IInv

LEMMA ReissueStep ==
    ASSUME IInv, NEW r \in Requests, Reissue(r)
    PROVE  IInv'
<1> DEFINE e == [user |-> req[r].user, purpose |-> "setup", state |-> "unused"]
<1>1. TypeOK /\ LocksAgree /\ req[r].pc = "reissue" /\ End(r)
  BY DEF IInv, Reissue
<1>2. e \in Token /\ e.state = "unused"
  BY <1>1, Shape DEF Token
<1>3. token' = Append(Invalidated(req[r].targets), e) /\ UNCHANGED <<user, session>>
  BY DEF Reissue
<1>4. Alone(r) /\ req'[r] = Idle
  BY <1>1, EndStep
<1> HIDE DEF e
<1>. QED BY <1>2, <1>3, <1>4, NewToken

LEMMA IssueStep ==
    ASSUME IInv, NEW u \in Users, IssueRecovery(u)
    PROVE  IInv'
<1> DEFINE e == [user |-> u, purpose |-> "recovery", state |-> "unused"]
           ts == {n \in Open(u) : token[n].purpose = "recovery"}
<1>1. e \in Token /\ e.state = "unused"
  BY DEF Token
<1>2. token' = Append(Invalidated(ts), e) /\ UNCHANGED <<user, session, req, holds>>
  BY DEF IssueRecovery
<1> HIDE DEF e, ts
<1>. QED BY <1>1, <1>2, NewToken

\* Only the status of an account changes: nobody is disabled, and what is set up
\* stays so.
LEMMA StatusStep ==
    ASSUME IInv, NEW r, NEW u \in Users, NEW g \in Statuses,
           user' = [user EXCEPT ![u].status = g], session' = session,
           user[u].status = "ACTIVE" => g = "ACTIVE",
           user[u].status = "INACTIVE" => g = "ACTIVE",
           user[u].status # "SETUP_PENDING",
           \/ r \in Requests /\ Alone(r) /\ req'[r] = Idle
           \/ UNCHANGED <<req, holds>>,
           token' \in Seq(Token), DOMAIN token \subseteq DOMAIN token',
           \A n \in DOMAIN token : token'[n] = token[n],
           \A n \in DOMAIN token' \ DOMAIN token : token'[n].state = "unused"
    PROVE  IInv'
<1> DEFINE a == user[u]  b == [a EXCEPT !.status = g]
<1>1. TypeOK /\ a \in Account
  BY Rows DEF IInv
<1>2. b \in Account /\ b.status = g /\ b.hash = a.hash /\ b.reset = a.reset
  BY <1>1 DEF Account
<1>3. user' = [user EXCEPT ![u] = b]
  BY <1>1 DEF TypeOK
<1> HIDE DEF b
<1>4. user' \in [Users -> Account] /\ user'[u] = b /\ \A v \in Users \ {u} : user'[v] = user[v]
  BY <1>1, <1>2, <1>3, UsersStep
<1>5. ASSUME NEW v \in Users
      PROVE  /\ user'[v].hash = user[v].hash /\ user'[v].reset = user[v].reset
             /\ user[v].status = "ACTIVE" => user'[v].status = "ACTIVE"
             /\ user[v].status = "SETUP_PENDING" => user'[v].status = "SETUP_PENDING"
             /\ user[v].status \in {"ACTIVE", "INACTIVE"} =>
                  user'[v].status \in {"ACTIVE", "INACTIVE"}
  BY <1>2, <1>4
<1>6. RowsStay
  BY <1>5 DEF RowsStay
<1>7. \A q \in Requests : Spares(q)
  BY <1>5 DEF Spares
<1>8. Tables'
  BY <1>1, <1>4 DEF Tables, TypeOK, Account, Token, Session, Users, Statuses
<1>9. TypeOK' /\ LocksAgree' /\ \A q \in Requests : Requested(q)'
  BY <1>6, <1>7, <1>8, DataStep
<1>10. UsedIsSetUp' /\ SetupOnce'
  <2>1. \A i \in DOMAIN token : token[i] \in Token
    BY <1>1, Rows
  <2>2. \A i \in DOMAIN token' : token'[i].purpose = "setup" /\ token'[i].state = "used" =>
           i \in DOMAIN token /\ token[i].state = "used"
    OBVIOUS
  <2>. QED BY <1>6, <2>1, <2>2, SameSetups
<1>11. Families' /\ OneLivePerFamily'
  BY DEF IInv, Families, OneLivePerFamily, Live
<1>12. Resets'
  <2>1. \A v \in Users : user'[v].reset <= user'[v].hash
    BY <1>5 DEF IInv, Resets
  <2>. QED BY <2>1 DEF Resets, Users
<1>13. RecoveryEndsSessions'
  <2>1. \A s \in DOMAIN session : session[s].user \in Users
    BY <1>1, Rows DEF Session
  <2>. QED BY <1>5, <2>1 DEF IInv, RecoveryEndsSessions, Live
<1>14. SomeAdmin'
  BY <1>5 DEF IInv, SomeAdmin, Users
<1>. QED BY <1>9, <1>10, <1>11, <1>12, <1>13, <1>14 DEF IInv

LEMMA EnableStep ==
    ASSUME IInv, NEW r \in Requests, Restate(r), req[r].goal = "ACTIVE"
    PROVE  IInv'
<1> DEFINE u == req[r].user
<1>1. TypeOK /\ LocksAgree /\ req[r].pc = "restate" /\ req[r].op = "status" /\ Requested(r)
  BY StageOp DEF IInv, Restate
<1>2. user' = [user EXCEPT ![u].status = "ACTIVE"] /\ End(r) /\ UNCHANGED <<session, token>>
  BY DEF Restate
<1>3. u \in Users /\ user[u].status \in {"ACTIVE", "INACTIVE"}
  BY <1>1, Shape DEF Requested, Judged
<1>4. Alone(r) /\ req'[r] = Idle
  BY <1>1, <1>2, EndStep
<1>5. token' \in Seq(Token)
  BY <1>1, <1>2 DEF TypeOK
<1>6. "ACTIVE" \in Statuses
  BY DEF Statuses
<1>. QED BY <1>2, <1>3, <1>4, <1>5, <1>6, StatusStep

LEMMA ProvisionStep ==
    ASSUME IInv, NEW u \in Users, Provision(u)
    PROVE  IInv'
<1> DEFINE e == [user |-> u, purpose |-> "setup", state |-> "unused"]
<1>1. TypeOK /\ token \in Seq(Token) /\ e \in Token /\ e.state = "unused"
  BY DEF IInv, TypeOK, Token
<1>2. /\ user' = [user EXCEPT ![u].status = "SETUP_PENDING"] /\ user[u].status = "ABSENT"
      /\ token' = Append(token, e) /\ UNCHANGED <<session, req, holds>>
  BY DEF Provision
<1> HIDE DEF e
<1>3. /\ token' \in Seq(Token) /\ DOMAIN token \subseteq DOMAIN token'
      /\ \A n \in DOMAIN token : token'[n] = token[n]
      /\ \A n \in DOMAIN token' \ DOMAIN token : token'[n].state = "unused"
  <2>1. /\ Append(token, e) \in Seq(Token)
        /\ DOMAIN Append(token, e) = DOMAIN token \cup {Len(token) + 1}
        /\ \A i \in DOMAIN token : Append(token, e)[i] = token[i]
        /\ Append(token, e)[Len(token) + 1] = e
    BY <1>1, Appended
  <2>. QED BY <1>1, <1>2, <2>1
<1>4. "SETUP_PENDING" \in Statuses
  BY DEF Statuses
<1>. QED BY <1>2, <1>3, <1>4, StatusStep

-----------------------------------------------------------------------------
(* The theorems.                                                           *)

LEMMA InitIInv == Init => IInv
<1>. SUFFICES ASSUME Init PROVE IInv
  OBVIOUS
<1>1. TypeOK
  BY DEF Init, TypeOK, Account, Statuses, Idle
<1>2. LocksAgree
  BY DEF Init, LocksAgree
<1>3. \A r \in Requests : Requested(r)
  BY DEF Init, Idle, Requested, RowsOf, Claims, Writes, Judged, Closing
<1>4. Families /\ OneLivePerFamily /\ RecoveryEndsSessions /\ UsedIsSetUp /\ SetupOnce
  <2>1. DOMAIN session = {} /\ DOMAIN token = {}
    BY DEF Init
  <2>. QED BY <2>1 DEF Families, OneLivePerFamily, RecoveryEndsSessions, UsedIsSetUp, SetupOnce
<1>5. Resets
  BY DEF Init, Resets
<1>6. SomeAdmin
  BY DEF Init, SomeAdmin, Users
<1>. QED BY <1>1, <1>2, <1>3, <1>4, <1>5, <1>6 DEF IInv

LEMMA NextIInv == IInv /\ [Next]_vars => IInv'
<1>. SUFFICES ASSUME IInv, [Next]_vars PROVE IInv'
  OBVIOUS
<1>1. ASSUME NEW r \in Requests, Start(r) PROVE IInv'
  BY <1>1, StartStep
<1>2. ASSUME NEW r \in Requests, Statement(r) PROVE IInv'
  <2>1. CASE SignIn(r)
    BY <2>1, SignInStep
  <2>2. CASE OpenSession(r)
    BY <2>2, OpenStep
  <2>3. CASE Rotate(r)
    BY <2>3, RotateStep
  <2>4. CASE InsertReplacement(r)
    BY <2>4, InsertStep
  <2>5. CASE Replace(r)
    BY <2>5, ReplaceStep
  <2>6. CASE Snapshot(r)
    BY <2>6, SnapshotStep
  <2>7. CASE Sweep(r)
    BY <2>7, SweepStep
  <2>8. CASE Change(r)
    BY <2>8, ChangeStep
  <2>9. CASE Recover(r)
    BY <2>9, RecoverStep
  <2>10. CASE Claim(r)
    BY <2>10, ClaimStep
  <2>11. CASE Activate(r)
    BY <2>11, ActivateStep
  <2>12. CASE Settle(r)
    BY <2>12, SettleStep
  <2>13. CASE Void(r)
    BY <2>13, VoidStep
  <2>14. CASE Reissue(r)
    BY <2>14, ReissueStep
  <2>15. CASE Queue(r)
    BY <2>15, QueueStep
  <2>16. CASE Judge(r)
    BY <2>16, JudgeStep
  <2>17. CASE Restate(r)
    BY <2>17, DisableStep, EnableStep DEF Restate
  <2>. QED BY <1>2, <2>1, <2>2, <2>3, <2>4, <2>5, <2>6, <2>7, <2>8, <2>9, <2>10, <2>11,
              <2>12, <2>13, <2>14, <2>15, <2>16, <2>17 DEF Statement
<1>3. ASSUME NEW r \in Requests, Fail(r) PROVE IInv'
  BY <1>3, FailStep DEF Fail
<1>4. ASSUME NEW u \in Users, IssueRecovery(u) \/ Provision(u) PROVE IInv'
  BY <1>4, IssueStep, ProvisionStep
<1>5. CASE UNCHANGED vars
  <2>1. /\ RowsStay /\ \A q \in Requests : Spares(q)
    BY <1>5 DEF RowsStay, Spares
  <2>2. Tables'
    BY <1>5 DEF IInv, TypeOK, Tables, Account, Token, Session, Users, Statuses
  <2>3. TypeOK' /\ LocksAgree' /\ \A q \in Requests : Requested(q)'
    BY <1>5, <2>1, <2>2, DataStep
  <2>. QED BY <1>5, <2>3 DEF IInv, Families, OneLivePerFamily, Resets, RecoveryEndsSessions,
                             UsedIsSetUp, SetupOnce, SomeAdmin, Live
<1>. QED BY <1>1, <1>2, <1>3, <1>4, <1>5 DEF Next

\* The invariant holds in every reachable state, whatever requests overlap.
THEOREM Invariant == Spec => []IInv
BY InitIInv, NextIInv, PTL DEF Spec

\* The types hold: every transaction is at a stage of its operation.
THEOREM TypeCorrect == Spec => []TypeOK
<1>1. IInv => TypeOK
  BY DEF IInv
<1>. QED BY <1>1, Invariant, PTL

\* Rotation leaves one usable session in a family, and none of a login that came
\* before a completed recovery is usable after it, however requests overlap.
THEOREM SessionsSoundAlways == Spec => []SessionsSound
<1>1. IInv => SessionsSound
  BY DEF IInv, SessionsSound
<1>. QED BY <1>1, Invariant, PTL

\* An account is set up by one link, and an administrator stays active.
THEOREM AccountsStandAlways == Spec => []AccountsStand
<1>1. IInv => AccountsStand
  BY DEF IInv, AccountsStand, SomeAdmin, LastActiveAdmin, ActiveAdmins
<1>. QED BY <1>1, Invariant, PTL

-----------------------------------------------------------------------------
(***************************************************************************)
(* Enrollment, for any instructors and students and any number of          *)
(* invitations.                                                            *)
(*                                                                         *)
(* A serializable transaction relies on what its snapshot says of the rows *)
(* nobody touched since (Sound); a call at READ COMMITTED on what it has   *)
(* read for as long as its rows cannot go back (LateSound).                *)
(***************************************************************************)

-----------------------------------------------------------------------------
(* The inductive invariant.                                                *)

ClassRows == [status : {"ABSENT", "PREPARED", "ACTIVE", "ARCHIVED"},
              primary : Instructors \cup {None}, code : BOOLEAN]
Members == [Students -> {"NONE", "ACTIVE", "REMOVED"}]

\* What a serializable transaction may rely on: the rows nobody touched since are
\* as its snapshot has them, and a class that it saw at work was not archived
\* unless that fences it off.
Sound(v) ==
    /\ v.class \in ClassRows /\ v.active \subseteq E!Users /\ v.member \in Members
    /\ v.fenced \in BOOLEAN
    /\ E!ClassRow \notin v.touched => v.class = class \/ v.class.status = "ABSENT"
    /\ ~v.fenced /\ v.class.status = "ACTIVE" => class.status # "ARCHIVED"
    /\ \A s \in Students : E!MemberRow(s) \notin v.touched => v.member[s] = member[s]

Transactions == [under : {TRUE}, class : ClassRows, active : SUBSET E!Users, member : Members,
                 touched : SUBSET ({E!ClassRow} \cup {E!MemberRow(s) : s \in Students}
                                       \cup {E!InvitationRow(s) : s \in Students}),
                 fenced : BOOLEAN]

ViewSound == view # E!NoView => view \in Transactions /\ Sound(view)

\* A call between what it read and what it writes.
LateSound ==
    \/ late = <<"none">>
    \/ \E target \in {"PREPARED", "ACTIVE"} : late = <<"restore", target>>
    \/ \E s \in Students, status \in {"ACTIVE", "REMOVED"} :
          late = <<"member", s, status>> /\ member[s] # "NONE"
    \/ \E u \in E!Users : late = <<"status", u>>

\* A class that does not exist yet has no staff.
Bare == class.status = "ABSENT" => \A i \in Instructors : staff[i] = "NONE"

ClassIInv ==
    /\ ClassTypes /\ PrimaryNotStaff /\ CodeOnlyWhenActive
    /\ ViewSound /\ LateSound /\ Bare

USE DEF E!vars

-----------------------------------------------------------------------------
(* What calls see, and what a step does to the transaction under way.      *)

LEMMA TransactionsSound ==
    ASSUME ClassIInv, NEW v \in E!Views
    PROVE  Sound(v)
<1>1. CASE v = E!Now
  <2>1. Sound(E!Now)
    BY DEF Sound, E!Now, ClassIInv, ClassTypes, ClassRows, Members, E!Users
  <2>. QED BY <1>1, <2>1
<1>2. CASE v = view /\ view # E!NoView
  BY <1>2 DEF ClassIInv, ViewSound
<1>. QED BY <1>1, <1>2 DEF E!Views

LEMMA ClassInitIInv == E!Init => ClassIInv
<1>. SUFFICES ASSUME E!Init PROVE ClassIInv
  OBVIOUS
<1>1. ClassTypes
  BY DEF E!Init, ClassTypes, E!Users
<1>2. PrimaryNotStaff /\ CodeOnlyWhenActive /\ ViewSound /\ LateSound /\ Bare
  BY DEF E!Init, PrimaryNotStaff, CodeOnlyWhenActive, ViewSound, LateSound, Bare
<1>. QED BY <1>1, <1>2 DEF ClassIInv

LEMMA ClassConstants == E!NoView' = E!NoView /\ Transactions' = Transactions
BY DEF E!NoView, Transactions, ClassRows, Members, E!MemberRow, E!InvitationRow, E!ClassRow, E!Users

\* The transaction of a call has committed, or another call's has.
LEMMA CommitStep ==
    ASSUME ClassIInv, UNCHANGED <<class, member>>, view' = E!NoView \/ view' = view
    PROVE  ViewSound'
BY ClassConstants DEF ClassIInv, ViewSound, Sound, ClassRows, Members

LEMMA DoneKeeps ==
    ASSUME NEW v, E!Done(v)
    PROVE  view' = E!NoView \/ view' = view
BY DEF E!Done

\* Rows are touched: the class, which is not archived by that, or a student's.
LEMMA TouchStep ==
    ASSUME ClassIInv,
           NEW row \in {E!ClassRow} \cup {E!MemberRow(s) : s \in Students}
                                  \cup {E!InvitationRow(s) : s \in Students},
           E!Touch(row),
           \/ class' = class
           \/ row = E!ClassRow /\ (class'.status = "ARCHIVED" => class.status = "ARCHIVED"),
           \A s \in Students : member'[s] = member[s] \/ row = E!MemberRow(s)
    PROVE  ViewSound'
<1>1. CASE view = E!NoView
  BY <1>1, ClassConstants DEF E!Touch, ViewSound
<1>2. CASE view # E!NoView
  <2>1. view \in Transactions /\ Sound(view)
    BY <1>2 DEF ClassIInv, ViewSound
  <2>2. view' = [view EXCEPT !.touched = @ \cup {row}]
    BY <1>2 DEF E!Touch
  <2>3. /\ view' \in Transactions /\ view'.touched = view.touched \cup {row}
        /\ view'.class = view.class /\ view'.active = view.active
        /\ view'.member = view.member /\ view'.fenced = view.fenced
    BY <2>1, <2>2 DEF Transactions
  <2>4. Sound(view)'
    BY <2>1, <2>3 DEF Sound, ClassRows, Members, E!ClassRow, E!MemberRow, E!Users
  <2>. QED BY <2>3, <2>4, ClassConstants DEF ViewSound
<1>. QED BY <1>1, <1>2

\* The class is changed under FOR UPDATE.
LEMMA FenceStep ==
    ASSUME ClassIInv, E!Fence, member' = member
    PROVE  ViewSound'
<1>1. CASE view = E!NoView
  BY <1>1, ClassConstants DEF E!Fence, ViewSound
<1>2. CASE view # E!NoView
  <2>1. view \in Transactions /\ Sound(view)
    BY <1>2 DEF ClassIInv, ViewSound
  <2>2. view' = [view EXCEPT !.touched = @ \cup {E!ClassRow}, !.fenced = TRUE]
    BY <1>2 DEF E!Fence
  <2>3. /\ view' \in Transactions /\ view'.touched = view.touched \cup {E!ClassRow}
        /\ view'.class = view.class /\ view'.active = view.active
        /\ view'.member = view.member /\ view'.fenced = TRUE
    BY <2>1, <2>2 DEF Transactions
  <2>4. Sound(view)'
    BY <2>1, <2>3 DEF Sound, ClassRows, Members, E!ClassRow, E!MemberRow, E!Users
  <2>. QED BY <2>3, <2>4, ClassConstants DEF ViewSound
<1>. QED BY <1>1, <1>2

\* A student has become a member, or was one.
LEMMA JoinedStep ==
    ASSUME ClassIInv, NEW v \in E!Views, NEW s \in Students, E!DoneWith(v, s), class' = class,
           \A t \in Students \ {s} : member'[t] = member[t]
    PROVE  ViewSound'
<1>1. CASE v.under \/ view = E!NoView
  BY <1>1, ClassConstants DEF E!DoneWith, ViewSound
<1>2. CASE ~v.under /\ view # E!NoView
  <2>1. view \in Transactions /\ Sound(view)
    BY <1>2 DEF ClassIInv, ViewSound
  <2>2. view' = [view EXCEPT !.touched = @ \cup {E!MemberRow(s), E!InvitationRow(s)},
                             !.member[s] = "ACTIVE"]
    BY <1>2 DEF E!DoneWith
  <2>3. /\ view' \in Transactions
        /\ view'.touched = view.touched \cup {E!MemberRow(s), E!InvitationRow(s)}
        /\ view'.class = view.class /\ view'.active = view.active
        /\ view'.member = [view.member EXCEPT ![s] = "ACTIVE"] /\ view'.fenced = view.fenced
    <3> DEFINE touched == view.touched \cup {E!MemberRow(s), E!InvitationRow(s)}
               member1 == [view.member EXCEPT ![s] = "ACTIVE"]
    <3>1. member1 \in Members
      BY <2>1 DEF Transactions, Members
    <3>2. touched \in SUBSET ({E!ClassRow} \cup {E!MemberRow(t) : t \in Students}
                                             \cup {E!InvitationRow(t) : t \in Students})
      BY <2>1 DEF Transactions
    <3>3. view' = [view EXCEPT !.touched = touched, !.member = member1]
      BY <2>1, <2>2 DEF Transactions
    <3> HIDE DEF touched, member1
    <3>4. view' \in Transactions
      BY <2>1, <3>1, <3>2, <3>3 DEF Transactions
    <3>5. /\ view'.touched = touched /\ view'.member = member1
          /\ view'.class = view.class /\ view'.active = view.active /\ view'.fenced = view.fenced
      BY <2>1, <3>3 DEF Transactions
    <3> QED
      BY <3>4, <3>5 DEF touched, member1
  <2>4. /\ view'.class \in ClassRows /\ view'.active \subseteq E!Users
        /\ view'.member \in Members /\ view'.fenced \in BOOLEAN
    BY <2>3 DEF Transactions
  <2>5. /\ E!ClassRow \notin view'.touched => view'.class = class' \/ view'.class.status = "ABSENT"
        /\ ~view'.fenced /\ view'.class.status = "ACTIVE" => class'.status # "ARCHIVED"
    BY <2>1, <2>3 DEF Sound
  <2>6. \A t \in Students : E!MemberRow(t) \notin view'.touched => view'.member[t] = member'[t]
    BY <2>1, <2>3 DEF Sound, Members
  <2>7. Sound(view)'
    BY <2>4, <2>5, <2>6 DEF Sound, ClassRows, Members, E!ClassRow, E!MemberRow, E!Users
  <2>. QED BY <2>3, <2>7, ClassConstants DEF ViewSound
<1>. QED BY <1>1, <1>2


-----------------------------------------------------------------------------
(* Invitations.                                                            *)

Answers == {"PENDING", "ACCEPTED", "DECLINED"}

\* What is to be shown of each step.
Good == ClassIInv' /\ AnswersKept /\ NobodyGained

LEMMA InviteKeeps ==
    ASSUME ClassTypes, NEW ss, E!Invite(ss)
    PROVE  invitation' \in [Students -> Seq(Answers)] /\ AnswersKept
<1>1. invitation \in [Students -> Seq(Answers)]
  BY DEF ClassTypes, Answers
<1>2. invitation' = [s \in Students |->
         IF s \in ss THEN Append(invitation[s], "PENDING") ELSE invitation[s]]
  BY DEF E!Invite
<1>3. ASSUME NEW s \in Students
      PROVE  /\ invitation'[s] \in Seq(Answers)
             /\ \A n \in DOMAIN invitation[s] : invitation'[s][n] = invitation[s][n]
  <2>1. invitation[s] \in Seq(Answers)
    BY <1>1
  <2>2. CASE s \in ss
    <3>1. invitation'[s] = Append(invitation[s], "PENDING")
      BY <1>2, <2>2
    <3>. QED BY <2>1, <3>1 DEF Answers
  <2>3. CASE s \notin ss
    BY <1>2, <2>1, <2>3
  <2>. QED BY <2>2, <2>3
<1>. QED BY <1>2, <1>3 DEF AnswersKept

LEMMA ResolveKeeps ==
    ASSUME ClassTypes, NEW s \in Students, E!Pending(s), NEW status \in Answers,
           invitation' = E!Resolved(s, status)
    PROVE  /\ invitation' \in [Students -> Seq(Answers)] /\ AnswersKept
           /\ \A t \in Students : Len(invitation'[t]) = Len(invitation[t])
<1>1. invitation \in [Students -> Seq(Answers)] /\ invitation[s] \in Seq(Answers)
  BY DEF ClassTypes, Answers
<1>2. /\ \A t \in Students \ {s} : invitation'[t] = invitation[t]
      /\ invitation'[s] = [invitation[s] EXCEPT ![Len(invitation[s])] = status]
      /\ invitation' \in [Students -> Seq(Answers)]
  <2>1. /\ \A t \in Students \ {s} : invitation'[t] = invitation[t]
        /\ invitation'[s] = [invitation[s] EXCEPT ![Len(invitation[s])] = status]
    BY <1>1 DEF E!Resolved
  <2>2. [invitation[s] EXCEPT ![Len(invitation[s])] = status] \in Seq(Answers)
    <3>1. invitation[s] # <<>>
      BY DEF E!Pending
    <3>2. Len(invitation[s]) \in 1 .. Len(invitation[s])
      BY <1>1, <3>1
    <3>. QED BY <1>1, <3>2, ExceptSeq
  <2>3. invitation' = [t \in Students |-> invitation'[t]]
    BY <1>1 DEF E!Resolved
  <2>4. \A t \in Students : invitation'[t] \in Seq(Answers)
    BY <1>1, <2>1, <2>2
  <2>. QED BY <2>1, <2>3, <2>4
<1>3. invitation[s][Len(invitation[s])] = "PENDING"
  BY DEF E!Pending
<1>4. Len(invitation'[s]) = Len(invitation[s])
  BY <1>1, <1>2
<1>5. \A n \in DOMAIN invitation[s] :
         invitation[s][n] # "PENDING" => invitation'[s][n] = invitation[s][n]
  BY <1>1, <1>2, <1>3
<1>. QED BY <1>2, <1>4, <1>5 DEF AnswersKept

LEMMA AnswersStay ==
    ASSUME ClassTypes, invitation' = invitation
    PROVE  /\ AnswersKept /\ invitation' \in [Students -> Seq(Answers)]
           /\ \A t \in Students : Len(invitation'[t]) = Len(invitation[t])
BY DEF AnswersKept, ClassTypes, Answers

\* A call that finds the class active, and inserts a row that refers to it or
\* locks it, finds it not archived.
LEMMA AtWork ==
    ASSUME ClassIInv, NEW v \in E!Views, v.class.status = "ACTIVE", E!Insertable(v) \/ E!ClassRow \notin v.touched
    PROVE  class.status # "ARCHIVED"
BY TransactionsSound DEF E!Insertable, Sound

-----------------------------------------------------------------------------
(* Steps of students and of those who invite them.                         *)

LEMMA InvitingStep ==
    ASSUME ClassIInv, NEW v \in E!Views, NEW ss,
           (\E s \in Students : ss = {s} /\ E!CreateInvitation(v, s)) \/ E!ImportInvitations(v, ss)
    PROVE  Good
<1>1. /\ UNCHANGED <<class, active, staff, member, late>> /\ E!Invite(ss) /\ E!Done(v)
      /\ v.class.status = "ACTIVE" /\ (E!Insertable(v) \/ E!ClassRow \notin v.touched)
  BY DEF E!CreateInvitation, E!ImportInvitations
<1>2. class.status # "ARCHIVED"
  BY <1>1, AtWork
<1>3. invitation' \in [Students -> Seq(Answers)] /\ AnswersKept
  BY <1>1, InviteKeeps DEF ClassIInv
<1>4. ClassTypes' /\ PrimaryNotStaff' /\ CodeOnlyWhenActive' /\ LateSound' /\ Bare'
  BY <1>1, <1>3 DEF ClassIInv, ClassTypes, PrimaryNotStaff, CodeOnlyWhenActive, LateSound, Bare,
                    Answers, E!Users
<1>5. ViewSound'
  BY <1>1, CommitStep, DoneKeeps
<1>. QED BY <1>2, <1>3, <1>4, <1>5 DEF Good, ClassIInv, NobodyGained

\* A student becomes a member, or a membership of his is taken up again.
LEMMA EnteringStep ==
    ASSUME ClassIInv, NEW v \in E!Views, NEW s \in Students, E!Accept(v, s) \/ E!JoinByCode(v, s)
    PROVE  Good
<1>0. ClassTypes /\ Sound(v)
  BY TransactionsSound DEF ClassIInv
<1>1. /\ UNCHANGED <<class, active, staff, late>> /\ E!DoneWith(v, s)
      /\ v.class.status = "ACTIVE"
      /\ member' = member \/ member' = [member EXCEPT ![s] = "ACTIVE"]
      /\ v.member[s] = "NONE" => E!Insertable(v)
      /\ v.member[s] # "NONE" => member' = member \/ E!MemberRow(s) \notin v.touched
  BY DEF E!Accept, E!JoinByCode
<1>2. /\ AnswersKept /\ invitation' \in [Students -> Seq(Answers)]
      /\ \A t \in Students : Len(invitation'[t]) = Len(invitation[t])
  <2>1. CASE invitation' = invitation
    BY <1>0, <2>1, AnswersStay
  <2>2. CASE E!Pending(s) /\ invitation' = E!Resolved(s, "ACCEPTED")
    BY <1>0, <2>2, ResolveKeeps DEF Answers
  <2>. QED BY <2>1, <2>2 DEF E!Accept, E!JoinByCode
<1>3. class.status = "ARCHIVED" => \A t \in Students : member[t] = "NONE" => member'[t] = "NONE"
  <2>1. CASE v.member[s] = "NONE"
    BY <1>1, <2>1, AtWork
  <2>2. CASE v.member[s] # "NONE"
    BY <1>0, <1>1, <2>2 DEF Sound, ClassTypes
  <2>. QED BY <2>1, <2>2
<1>4. member' \in Members /\ \A t \in Students \ {s} : member'[t] = member[t]
  BY <1>0, <1>1 DEF ClassTypes, Members
<1>5. ViewSound'
  BY <1>1, <1>4, JoinedStep
<1>6. ClassTypes' /\ PrimaryNotStaff' /\ CodeOnlyWhenActive' /\ Bare'
  BY <1>1, <1>2, <1>4 DEF ClassIInv, ClassTypes, PrimaryNotStaff, CodeOnlyWhenActive, Bare,
                          Answers, E!Users, Members
<1>7. LateSound'
  <2>1. \A t \in Students : member[t] # "NONE" => member'[t] # "NONE"
    BY <1>0, <1>1 DEF ClassTypes
  <2>. QED BY <1>1, <2>1 DEF ClassIInv, LateSound
<1>. QED BY <1>2, <1>3, <1>5, <1>6, <1>7 DEF Good, ClassIInv, NobodyGained

LEMMA DeclineStep ==
    ASSUME ClassIInv, NEW s \in Students, E!Decline(s)
    PROVE  Good
<1>1. /\ UNCHANGED <<class, active, staff, member, late>> /\ E!Pending(s)
      /\ invitation' = E!Resolved(s, "DECLINED") /\ E!Touch(E!InvitationRow(s))
  BY DEF E!Decline
<1>2. /\ AnswersKept /\ invitation' \in [Students -> Seq(Answers)]
      /\ \A t \in Students : Len(invitation'[t]) = Len(invitation[t])
  BY <1>1, ResolveKeeps DEF ClassIInv, Answers
<1>3. ViewSound'
  BY <1>1, TouchStep
<1>4. ClassTypes' /\ PrimaryNotStaff' /\ CodeOnlyWhenActive' /\ LateSound' /\ Bare'
  BY <1>1, <1>2 DEF ClassIInv, ClassTypes, PrimaryNotStaff, CodeOnlyWhenActive, LateSound, Bare,
                    Answers, E!Users
<1>. QED BY <1>1, <1>2, <1>3, <1>4 DEF Good, ClassIInv, NobodyGained

-----------------------------------------------------------------------------
(* Steps of the staff.                                                     *)

\* The lock on the class row shows a transaction the class as it is.
LEMMA LockedClass ==
    ASSUME ClassIInv, NEW v \in E!Views, E!Locked(v), v.class.status # "ABSENT"
    PROVE  v.class = class
BY TransactionsSound DEF E!Locked, Sound

LEMMA StaffStep ==
    ASSUME ClassIInv, NEW v \in E!Views, NEW i \in Instructors,
           E!InviteStaff(v, i) \/ E!AcceptStaff(v, i) \/ E!EndStaff(v, i)
    PROVE  Good
<1>1. /\ UNCHANGED <<class, active, member, invitation, late>> /\ E!Done(v)
      /\ v.class.status = "ACTIVE" /\ E!Locked(v) /\ i # v.class.primary
      /\ \E status \in {"INVITED", "ACTIVE", "REMOVED"} : staff' = [staff EXCEPT ![i] = status]
  BY DEF E!InviteStaff, E!AcceptStaff, E!EndStaff
<1>2. v.class = class
  BY <1>1, LockedClass
<1>3. /\ AnswersKept /\ invitation' \in [Students -> Seq(Answers)]
      /\ \A t \in Students : Len(invitation'[t]) = Len(invitation[t])
  BY <1>1, AnswersStay DEF ClassIInv
<1>4. /\ staff' \in [Instructors -> {"NONE", "INVITED", "ACTIVE", "REMOVED"}]
      /\ \A j \in Instructors \ {i} : staff'[j] = staff[j]
  BY <1>1 DEF ClassIInv, ClassTypes, E!Users
<1>5. ClassTypes' /\ CodeOnlyWhenActive' /\ LateSound'
  BY <1>1, <1>3, <1>4 DEF ClassIInv, ClassTypes, CodeOnlyWhenActive, LateSound, Answers, E!Users
<1>6. PrimaryNotStaff' /\ Bare'
  BY <1>1, <1>2, <1>4 DEF ClassIInv, PrimaryNotStaff, Bare
<1>7. ViewSound'
  BY <1>1, CommitStep, DoneKeeps
<1>. QED BY <1>1, <1>3, <1>5, <1>6, <1>7 DEF Good, ClassIInv, NobodyGained

LEMMA TransferStep ==
    ASSUME ClassIInv, NEW v \in E!Views, NEW next \in Instructors,
           NEW administrative \in BOOLEAN, NEW stays \in BOOLEAN,
           E!Transfer(v, next, administrative, stays)
    PROVE  Good
<1>1. /\ UNCHANGED <<active, member, invitation, late>>
      /\ class' = [status |-> "ACTIVE", primary |-> next,
                   code |-> IF v.class.status = "PREPARED" THEN TRUE ELSE class.code]
      /\ IF v.under THEN E!Done(v) ELSE E!Fence
      /\ v.class.status \in {"PREPARED", "ACTIVE"} /\ E!Locked(v) /\ next # v.class.primary
  BY DEF E!Transfer, E!Passed, E!MayTransfer, E!Class
<1>2. v.class = class
  BY <1>1, LockedClass
<1>3. /\ AnswersKept /\ invitation' \in [Students -> Seq(Answers)]
      /\ \A t \in Students : Len(invitation'[t]) = Len(invitation[t])
  BY <1>1, AnswersStay DEF ClassIInv
<1>4. staff' = [i \in Instructors |->
             CASE i \in {next, v.class.primary} /\ staff[i] # "NONE" /\ (i = next \/ ~stays) -> "REMOVED"
               [] i = v.class.primary /\ stays -> "ACTIVE"
               [] OTHER -> staff[i]]
  BY DEF E!Transfer
<1>5. staff'[next] \in {"NONE", "REMOVED"}
  BY <1>1, <1>4
<1>6. staff' \in [Instructors -> {"NONE", "INVITED", "ACTIVE", "REMOVED"}]
  <2>1. \A i \in Instructors : staff[i] \in {"NONE", "INVITED", "ACTIVE", "REMOVED"}
    BY DEF ClassIInv, ClassTypes
  <2>. QED BY <1>4, <2>1
<1>7. class' \in ClassRows /\ class'.status = "ACTIVE" /\ class'.primary = next
  BY <1>1 DEF ClassIInv, ClassTypes, ClassRows
<1>8. ClassTypes' /\ CodeOnlyWhenActive' /\ LateSound' /\ Bare' /\ PrimaryNotStaff'
  <2>1. ClassTypes'
    BY <1>1, <1>3, <1>6, <1>7 DEF ClassIInv, ClassTypes, ClassRows, Answers, E!Users
  <2>2. CodeOnlyWhenActive' /\ Bare'
    BY <1>7 DEF CodeOnlyWhenActive, Bare
  <2>3. PrimaryNotStaff'
    BY <1>5, <1>7 DEF PrimaryNotStaff
  <2>4. LateSound'
    BY <1>1 DEF ClassIInv, LateSound
  <2>. QED BY <2>1, <2>2, <2>3, <2>4
<1>9. ViewSound'
  <2>1. CASE v.under
    BY <1>1, <2>1, ClassConstants DEF E!Done, ViewSound
  <2>2. CASE ~v.under
    BY <1>1, <2>2, FenceStep
  <2>. QED BY <2>1, <2>2
<1>. QED BY <1>1, <1>3, <1>8, <1>9 DEF Good, ClassIInv, NobodyGained

-----------------------------------------------------------------------------
(* Steps of the class and of accounts.                                     *)

LEMMA CreateClassStep ==
    ASSUME ClassIInv, NEW p \in Instructors \cup {None}, NEW ss \in SUBSET Students, E!CreateClass(p, ss)
    PROVE  Good
<1>1. /\ UNCHANGED <<active, staff, member, view, late>> /\ class.status = "ABSENT" /\ E!Invite(ss)
      /\ class' = [status |-> IF p = None THEN "PREPARED" ELSE "ACTIVE", primary |-> p,
                   code |-> p # None]
  BY DEF E!CreateClass, E!Class
<1>2. invitation' \in [Students -> Seq(Answers)] /\ AnswersKept
  BY <1>1, InviteKeeps DEF ClassIInv
<1>3. class' \in ClassRows /\ class'.status \in {"PREPARED", "ACTIVE"}
  BY <1>1 DEF ClassRows
<1>4. ClassTypes' /\ CodeOnlyWhenActive' /\ LateSound' /\ Bare' /\ PrimaryNotStaff'
  BY <1>1, <1>2, <1>3 DEF ClassIInv, ClassTypes, CodeOnlyWhenActive, LateSound, Bare,
       PrimaryNotStaff, ClassRows, Answers, E!Users
<1>5. ViewSound'
  <2>1. view # E!NoView => Sound(view)'
    BY <1>1, <1>3 DEF ClassIInv, ViewSound, Sound, ClassRows, Members, E!Users, E!ClassRow, E!MemberRow
  <2>. QED BY <1>1, <2>1, ClassConstants DEF ClassIInv, ViewSound
<1>. QED BY <1>1, <1>2, <1>4, <1>5 DEF Good, ClassIInv, NobodyGained

\* The class gets another status or code, and its primary stays.
LEMMA ClassStep ==
    ASSUME ClassIInv, UNCHANGED <<active, staff, member, invitation>>, LateSound',
           class' \in ClassRows, class'.primary = class.primary,
           class'.code => class'.status = "ACTIVE",
           class'.status = "ABSENT" => class.status = "ABSENT",
           \/ E!Fence
           \/ E!Touch(E!ClassRow) /\ (class'.status = "ARCHIVED" => class.status = "ARCHIVED")
    PROVE  Good
<1>1. /\ AnswersKept /\ invitation' \in [Students -> Seq(Answers)]
      /\ \A t \in Students : Len(invitation'[t]) = Len(invitation[t])
  BY AnswersStay DEF ClassIInv
<1>2. ClassTypes' /\ CodeOnlyWhenActive' /\ Bare' /\ PrimaryNotStaff'
  BY <1>1 DEF ClassIInv, ClassTypes, CodeOnlyWhenActive, Bare, PrimaryNotStaff, ClassRows, Answers, E!Users
<1>3. ViewSound'
  BY FenceStep, TouchStep
<1>. QED BY <1>1, <1>2, <1>3 DEF Good, ClassIInv, NobodyGained

LEMMA RulingStep ==
    ASSUME ClassIInv,
           \/ E!Archive
           \/ \E on \in BOOLEAN : E!SetCode(on)
           \/ \E target \in {"PREPARED", "ACTIVE"} :
                E!Restore(target) /\ (late' = late \/ late' = <<"none">>)
    PROVE  Good
<1>0. class \in ClassRows /\ LateSound
  BY DEF ClassIInv, ClassTypes, ClassRows
<1>1. ASSUME E!Archive PROVE Good
  <2>1. /\ UNCHANGED <<active, staff, member, invitation, late>> /\ E!Fence
        /\ class' = [status |-> "ARCHIVED", primary |-> class.primary, code |-> FALSE]
    BY <1>1 DEF E!Archive, E!Class
  <2>2. LateSound'
    BY <1>0, <2>1 DEF LateSound
  <2>3. /\ class' \in ClassRows /\ class'.primary = class.primary
        /\ class'.status = "ARCHIVED" /\ class'.code = FALSE
    BY <1>0, <2>1 DEF ClassRows
  <2>. QED BY <2>1, <2>2, <2>3, ClassStep
<1>2. ASSUME NEW on \in BOOLEAN, E!SetCode(on) PROVE Good
  <2>1. /\ UNCHANGED <<active, staff, member, invitation, late>> /\ E!Touch(E!ClassRow)
        /\ class' = [class EXCEPT !.code = on] /\ class.status = "ACTIVE"
    BY <1>2 DEF E!SetCode
  <2>2. LateSound'
    BY <1>0, <2>1 DEF LateSound
  <2>3. class' \in ClassRows /\ class'.primary = class.primary /\ class'.status = "ACTIVE"
    BY <1>0, <2>1 DEF ClassRows
  <2>. QED BY <2>1, <2>2, <2>3, ClassStep
<1>3. ASSUME NEW target \in {"PREPARED", "ACTIVE"}, E!Restore(target),
             late' = late \/ late' = <<"none">>
      PROVE  Good
  <2>1. /\ UNCHANGED <<active, staff, member, invitation>> /\ E!Touch(E!ClassRow)
        /\ class' = [status |-> target, primary |-> class.primary, code |-> FALSE]
    BY <1>3 DEF E!Restore, E!Class
  <2>2. LateSound'
    BY <1>0, <1>3, <2>1 DEF LateSound
  <2>3. /\ class' \in ClassRows /\ class'.primary = class.primary
        /\ class'.status = target /\ class'.code = FALSE
    BY <1>0, <2>1 DEF ClassRows
  <2>. QED BY <2>1, <2>2, <2>3, ClassStep
<1>. QED BY <1>1, <1>2, <1>3

\* A call at READ COMMITTED has read; an account changes; a call begins.
LEMMA ReadStep ==
    ASSUME ClassIInv, UNCHANGED <<class, staff, member, invitation>>, active' \subseteq E!Users,
           LateSound', ViewSound'
    PROVE  Good
<1>1. /\ AnswersKept /\ invitation' \in [Students -> Seq(Answers)]
      /\ \A t \in Students : Len(invitation'[t]) = Len(invitation[t])
  BY AnswersStay DEF ClassIInv
<1>2. ClassTypes' /\ CodeOnlyWhenActive' /\ Bare' /\ PrimaryNotStaff'
  BY <1>1 DEF ClassIInv, ClassTypes, CodeOnlyWhenActive, Bare, PrimaryNotStaff, Answers, E!Users
<1>. QED BY <1>1, <1>2 DEF Good, ClassIInv, NobodyGained

LEMMA ReadingStep ==
    ASSUME ClassIInv,
           \/ E!RestoreRead
           \/ \E s \in Students : E!TransitionRead(s)
           \/ \E u \in E!Users : E!StatusRead(u)
    PROVE  Good
<1>1. UNCHANGED <<class, active, staff, member, invitation, view>>
  BY DEF E!RestoreRead, E!TransitionRead, E!StatusRead
<1>2. LateSound'
  <2>1. CASE E!RestoreRead
    BY <2>1 DEF E!RestoreRead, LateSound, E!Target
  <2>2. ASSUME NEW s \in Students, E!TransitionRead(s) PROVE LateSound'
    <3>1. E!Opposite(member[s]) \in {"ACTIVE", "REMOVED"}
      BY DEF E!Opposite
    <3>2. late' = <<"member", s, E!Opposite(member[s])>> /\ member'[s] # "NONE"
      BY <2>2 DEF E!TransitionRead
    <3>. QED BY <3>1, <3>2 DEF LateSound
  <2>3. ASSUME NEW u \in E!Users, E!StatusRead(u) PROVE LateSound'
    BY <2>3 DEF E!StatusRead, LateSound, E!Users
  <2>. QED BY <2>1, <2>2, <2>3
<1>3. ViewSound'
  BY <1>1, CommitStep
<1>4. active' \subseteq E!Users
  BY <1>1 DEF ClassIInv, ClassTypes, E!Users
<1>. QED BY <1>1, <1>2, <1>3, <1>4, ReadStep

\* The call at READ COMMITTED writes what it had found out.
LEMMA FinishStep ==
    ASSUME ClassIInv, E!Finish
    PROVE  Good
<1>0. late' = <<"none">> /\ LateSound'
  BY DEF E!Finish, LateSound
<1>1. CASE late[1] = "restore" /\ E!Restore(late[2])
  <2>1. late[2] \in {"PREPARED", "ACTIVE"}
    BY <1>1 DEF ClassIInv, LateSound
  <2>. QED BY <1>0, <1>1, <2>1, RulingStep
<1>2. CASE late[1] = "member" /\ E!Transition(late[2], late[3])
  <2>1. PICK s \in Students, status \in {"ACTIVE", "REMOVED"} :
          late = <<"member", s, status>> /\ member[s] # "NONE"
    BY <1>2 DEF ClassIInv, LateSound
  <2>2. /\ UNCHANGED <<class, active, staff, invitation>> /\ E!Touch(E!MemberRow(s))
        /\ member' = [member EXCEPT ![s] = status]
    BY <1>2, <2>1 DEF E!Transition
  <2>3. /\ member' \in Members /\ \A t \in Students \ {s} : member'[t] = member[t]
        /\ \A t \in Students : member[t] = "NONE" => member'[t] = "NONE"
    BY <2>1, <2>2 DEF ClassIInv, ClassTypes, Members
  <2>4. ViewSound'
    BY <2>2, <2>3, TouchStep
  <2>5. /\ AnswersKept /\ invitation' \in [Students -> Seq(Answers)]
        /\ \A t \in Students : Len(invitation'[t]) = Len(invitation[t])
    BY <2>2, AnswersStay DEF ClassIInv
  <2>6. ClassTypes' /\ CodeOnlyWhenActive' /\ Bare' /\ PrimaryNotStaff'
    BY <2>2, <2>3, <2>5 DEF ClassIInv, ClassTypes, CodeOnlyWhenActive, Bare, PrimaryNotStaff, Answers,
                            E!Users, Members
  <2>. QED BY <1>0, <2>3, <2>4, <2>5, <2>6 DEF Good, ClassIInv, NobodyGained
<1>3. CASE late[1] = "status" /\ E!UpdateStatus(late[2])
  <2>1. late[2] \in E!Users
    BY <1>3 DEF ClassIInv, LateSound
  <2>2. UNCHANGED <<class, staff, member, invitation, view>> /\ active' \subseteq E!Users
    BY <1>3, <2>1 DEF E!UpdateStatus, ClassIInv, ClassTypes, E!Users
  <2>3. ViewSound'
    BY <2>2, CommitStep
  <2>. QED BY <1>0, <2>2, <2>3, ReadStep
<1>. QED BY <1>1, <1>2, <1>3 DEF E!Finish

LEMMA ClassBeginStep ==
    ASSUME ClassIInv, E!Begin
    PROVE  Good
<1>1. view' = [E!Now EXCEPT !.under = TRUE] /\ UNCHANGED <<class, active, staff, member, invitation, late>>
  BY DEF E!Begin
<1>2. /\ view' \in Transactions /\ view'.touched = {} /\ view'.fenced = FALSE
      /\ view'.class = class /\ view'.active = active /\ view'.member = member
  BY <1>1 DEF E!Now, Transactions, ClassIInv, ClassTypes, ClassRows, Members, E!Users
<1>3. Sound(view)'
  BY <1>1, <1>2 DEF Sound, Transactions, ClassRows, Members, E!Users, E!ClassRow, E!MemberRow
<1>4. ViewSound'
  BY <1>2, <1>3, ClassConstants DEF ViewSound
<1>5. LateSound' /\ active' \subseteq E!Users
  BY <1>1 DEF ClassIInv, LateSound, ClassTypes, E!Users
<1>. QED BY <1>1, <1>4, <1>5, ReadStep

LEMMA Step ==
    ASSUME ClassIInv, E!Next
    PROVE  Good
<1>1. ASSUME NEW v \in E!Views, E!Serializable(v) PROVE Good
  BY <1>1, InvitingStep, EnteringStep, StaffStep, TransferStep DEF E!Serializable
<1>2. ASSUME E!ReadCommitted PROVE Good
  <2>1. E!Restorable /\ E!Restore(E!Target) /\ UNCHANGED late => Good
    BY RulingStep DEF E!Target
  <2>. QED BY <1>2, <2>1, CreateClassStep, RulingStep, ReadingStep, DeclineStep, FinishStep
       DEF E!ReadCommitted
<1>. QED BY <1>1, <1>2, ClassBeginStep DEF E!Next


-----------------------------------------------------------------------------
(* The theorems.                                                           *)

\* The invariant holds in every reachable state, and every step keeps answers
\* and an archived class.
THEOREM ClassInvariant == E!Spec => []ClassIInv /\ [][AnswersKept /\ NobodyGained]_(E!vars)
<1>1. ClassIInv /\ [E!Next]_(E!vars) => ClassIInv' /\ [AnswersKept /\ NobodyGained]_(E!vars)
  <2>1. ASSUME ClassIInv, E!Next PROVE ClassIInv' /\ AnswersKept /\ NobodyGained
    BY <2>1, Step DEF Good
  <2>2. ASSUME ClassIInv, UNCHANGED E!vars PROVE ClassIInv'
    <3>1. ViewSound'
      BY <2>2, CommitStep
    <3>. QED BY <2>2, <3>1 DEF ClassIInv, ClassTypes, PrimaryNotStaff, CodeOnlyWhenActive, LateSound, Bare,
                               E!Users
  <2>. QED BY <2>1, <2>2
<1>. QED BY ClassInitIInv, <1>1, PTL DEF E!Spec

\* All variables keep their types, whatever calls overlap.
THEOREM ClassTypeCorrect == E!Spec => []ClassTypes
<1>1. ClassIInv => ClassTypes
  BY DEF ClassIInv
<1>. QED BY <1>1, ClassInvariant, PTL

\* The primary of a class is not at the same time one of its staff, and its join
\* code works only while it is active, whatever transfers, assignments, restores
\* and rotations of the code overlap (class-staff.routes.ts, class.repository.ts).
THEOREM RolesAndCodeAlways == E!Spec => []RolesAndCode
<1>1. ClassIInv => RolesAndCode
  BY DEF ClassIInv, RolesAndCode
<1>. QED BY <1>1, ClassInvariant, PTL

\* An invitation keeps the answer it got: accepting, joining by code and declining
\* all look at it under its lock (class-invitation.repository.ts).
THEOREM AnswerStandsAlways == E!Spec => AnswerStands
<1>1. [AnswersKept /\ NobodyGained]_(E!vars) => [AnswersKept]_invitation
  BY DEF E!vars
<1>. QED BY <1>1, ClassInvariant, PTL DEF AnswerStands

\* An archived class gains neither members nor invitations: calls that began while
\* it was active fail at its row, which archive locks and changes.
THEOREM ArchiveClosesClassAlways == E!Spec => ArchiveClosesClass
<1>1. [AnswersKept /\ NobodyGained]_(E!vars) => [NobodyGained]_<<class, member, invitation>>
  BY DEF E!vars
<1>. QED BY <1>1, ClassInvariant, PTL DEF ArchiveClosesClass
=============================================================================
