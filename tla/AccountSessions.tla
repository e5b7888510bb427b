-------------------------- MODULE AccountSessions --------------------------
(***************************************************************************)
(* Accounts, their refresh sessions and their setup and recovery tokens:   *)
(* auth.service.ts and auth.repository.ts, password-recovery.ts,           *)
(* account-setup.repository.ts, and the account operations of              *)
(* user-provisioning.repository.ts and admin.repository.ts.                *)
(*                                                                         *)
(* A request is one HTTP call.  It reads outside any transaction, waits    *)
(* for a password to be hashed, then runs a transaction at READ COMMITTED: *)
(* every statement sees what is committed when it starts, an UPDATE waits  *)
(* for the rows other transactions have locked and then looks at them      *)
(* again, and rows inserted meanwhile are not in it.  An update over many  *)
(* rows is therefore two steps, Snapshot and the sweep that ends it.       *)
(*                                                                         *)
(* Passwords of one user are numbered in the order they are set, 0 being   *)
(* none.  Time only closes what could as well be closed later: a refresh   *)
(* may find its session expired or idle for too long, and the cooldown of  *)
(* setup links has passed whenever it matters.  A request that is refused  *)
(* before its first write (CSRF, password, expiry) changes nothing and has *)
(* no action.                                                              *)
(***************************************************************************)
EXTENDS Integers, Sequences, RowLocks

CONSTANTS
    Activated, Pending, Admins,  \* users: activated, still to be created, administrators
    Requests,                    \* HTTP requests that may overlap
    MaxSessions, MaxTokens,      \* bounds on the rows ever inserted
    MaxHash                      \* bound on the passwords set for one user

Users == Activated \cup Pending \cup Admins

ASSUME AccountAssumption ==
    /\ IsFiniteSet(Users) /\ Activated \cap Pending = {}
    /\ Admins \cap (Activated \cup Pending) = {}
    /\ MaxSessions \in Nat /\ MaxTokens \in Nat /\ MaxHash \in Nat

VARIABLES
    user,      \* [Users -> account row]; reset is a history: the last recovered hash
    session,   \* refresh_sessions, in the order they were committed
    token,     \* account_setup_tokens, likewise
    req,       \* what each request is doing and what it has read
    holds      \* the locks its transaction keeps

vars == <<user, session, token, req, holds>>

\* INACTIVE stands for SUSPENDED too: the code treats them alike.
Statuses == {"ABSENT", "SETUP_PENDING", "ACTIVE", "INACTIVE"}

\* hash is the password the family of the session signed in with (a history).
Session == [user : Users, family : Nat, live : BOOLEAN, next : Nat, hash : Nat]

Token == [user : Users, purpose : {"setup", "recovery"},
          state : {"unused", "used", "invalid"}]

Ops == {"refresh", "login", "logout", "logoutAll", "change", "recover",
        "setup", "resend", "status", "revokeAll"}

\* What a request has read or was asked for: the user, the session or token it
\* presents, the account row or status it goes by, the rows of its snapshot.
Idle == [op |-> "none", pc |-> "idle", user |-> CHOOSE u \in Users : TRUE,
         row |-> 0, hash |-> 0, goal |-> "ACTIVE", targets |-> {}]

U(u) == <<"user", u>>
S(s) == <<"session", s>>
T(t) == <<"token", t>>
StatusLock == <<"advisory", "status">>   \* pg_advisory_xact_lock(1948293701)

CanLock(r, row, mode) == Free(holds, r, row, mode)
Hold(r, row, mode) == holds' = [holds EXCEPT ![r] = @ \cup {<<row, mode>>}]
Begin(r, op, u, row, pc, hash) ==
    /\ req[r].pc = "idle"
    /\ req' = [req EXCEPT ![r] = [Idle EXCEPT !.op = op, !.user = u, !.row = row,
                                              !.pc = pc, !.hash = hash]]
Go(r, pc) == req' = [req EXCEPT ![r].pc = pc]

\* The transaction commits or is rolled back, and the request is answered.
End(r) ==
    /\ req' = [req EXCEPT ![r] = Idle]
    /\ holds' = [holds EXCEPT ![r] = {}]

Init ==
    /\ user = [u \in Users |->
                 [status |-> IF u \in Pending THEN "ABSENT" ELSE "ACTIVE",
                  hash   |-> IF u \in Pending THEN 0 ELSE 1,
                  reset  |-> 0]]
    /\ session = <<>>
    /\ token = <<>>
    /\ req = [r \in Requests |-> Idle]
    /\ holds = [r \in Requests |-> {}]

-----------------------------------------------------------------------------
(* Authenticated requests.                                                 *)

\* createAuthenticationMiddleware: the session of the access token is usable.
Authenticated(s) == session[s].live /\ user[session[s].user].status = "ACTIVE"

-----------------------------------------------------------------------------
(* Login.                                                                  *)

\* findUserByEmail and the verification of the password, which is awaited.
LoginRead(r, u) ==
    /\ user[u].status = "ACTIVE" /\ user[u].hash # 0
    /\ Begin(r, "login", u, 0, "signin", user[u].hash)
    /\ UNCHANGED <<user, session, token, holds>>

\* Mutant: the statement does not compare the hash.
SignInUnchecked(r) ==
    LET u == req[r].user
    IN  /\ req[r].pc = "signin" /\ CanLock(r, U(u), "nokey")
        /\ IF user[u].status = "ACTIVE"
             THEN Go(r, "open") /\ Hold(r, U(u), "nokey")
             ELSE End(r)
        /\ UNCHANGED <<user, session, token>>

\* The first statement of createSession compares the hash that was verified
\* under the row lock; no row matches once the account or its password changed.
SignIn(r) ==
    LET u == req[r].user
    IN  /\ req[r].pc = "signin" /\ CanLock(r, U(u), "nokey")
        /\ IF user[u].status = "ACTIVE" /\ user[u].hash = req[r].hash
             THEN Go(r, "open") /\ Hold(r, U(u), "nokey")
             ELSE End(r)
        /\ UNCHANGED <<user, session, token>>

OpenSession(r) ==
    /\ req[r].pc = "open" /\ Len(session) < MaxSessions
    /\ session' = Append(session,
         [user |-> req[r].user, family |-> Len(session) + 1, live |-> TRUE,
          next |-> 0, hash |-> req[r].hash])
    /\ End(r)
    /\ UNCHANGED <<user, token>>

-----------------------------------------------------------------------------
(* Refresh.                                                                *)

\* A session that was revoked or replaced is reuse, one that has expired or
\* whose user is disabled is over: either way the whole family is revoked.
RefreshRead(r, s) ==
    /\ \/ Authenticated(s) /\ Begin(r, "refresh", session[s].user, s, "rotate", 0)
       \/ Begin(r, "refresh", session[s].user, s, "snapshot", 0)
    /\ UNCHANGED <<user, session, token, holds>>

\* rotateSession, first statement: claims the presented session, or finds that
\* another request has taken it meanwhile and revokes the family.
Rotate(r) ==
    LET s == req[r].row
    IN  /\ req[r].pc = "rotate" /\ CanLock(r, S(s), "nokey")
        /\ IF session[s].live
             THEN Go(r, "insert") /\ Hold(r, S(s), "nokey")
             ELSE Go(r, "snapshot") /\ UNCHANGED holds
        /\ UNCHANGED <<user, session, token>>

\* The insert of the replacement checks its foreign key: it shares the user's row.
InsertReplacement(r) ==
    LET u == U(req[r].user)
    IN  /\ req[r].pc = "insert" /\ CanLock(r, u, "share")
        /\ Go(r, "replace") /\ Hold(r, u, "share")
        /\ UNCHANGED <<user, session, token>>

Replace(r) ==
    LET s == req[r].row
        n == Len(session) + 1
    IN  /\ req[r].pc = "replace" /\ n <= MaxSessions
        /\ session' = Append([session EXCEPT ![s].live = FALSE, ![s].next = n],
             [session[s] EXCEPT !.live = TRUE, !.next = 0])
        /\ End(r)
        /\ UNCHANGED <<user, token>>

-----------------------------------------------------------------------------
(* Revocation, the last part of most requests.                             *)

\* The sessions a request revokes: the session it logs out, the family of a
\* reused token, or those of the user, a password change keeping its own.
Scope(r) ==
    LET q == req[r]
        Of(s) == CASE q.op = "logout"  -> s = q.row
                   [] q.op = "refresh" -> session[s].family = session[q.row].family
                   [] q.op = "change"  -> session[s].user = q.user /\ s # q.row
                   [] OTHER            -> session[s].user = q.user
    IN  {s \in DOMAIN session : session[s].live /\ Of(s)}

Snapshot(r) ==
    /\ req[r].pc = "snapshot"
    /\ req' = [req EXCEPT ![r].pc = "sweep", ![r].targets = Scope(r)]
    /\ UNCHANGED <<user, session, token, holds>>

\* The account row the transaction leaves behind.
Password(u, reset) == [user EXCEPT ![u].hash = @ + 1,
                                   ![u].reset = IF reset THEN user[u].hash + 1 ELSE @]

\* The tokens of the user that can still be used.
Open(u) == {n \in DOMAIN token : token[n].user = u /\ token[n].state = "unused"}

Invalidated(ts) == [n \in DOMAIN token |->
    IF n \in ts /\ token[n].state = "unused"
      THEN [token[n] EXCEPT !.state = "invalid"] ELSE token[n]]

\* Token t is used and these others are invalidated with it.
Spend(t, ts) == [Invalidated(ts \ {t}) EXCEPT ![t].state = "used"]

\* The update waits until nobody holds a session of the snapshot, revokes those
\* that are still live, and the transaction around it commits.
Sweep(r) ==
    LET q == req[r]
    IN  /\ q.pc = "sweep"
        /\ \A s \in q.targets : CanLock(r, S(s), "nokey")
        /\ session' = [s \in DOMAIN session |->
             IF s \in q.targets THEN [session[s] EXCEPT !.live = FALSE] ELSE session[s]]
        /\ user' = CASE q.op = "change"  -> Password(q.user, FALSE)
                     [] q.op = "recover" -> Password(q.user, TRUE)
                     [] q.op = "status"  -> [user EXCEPT ![q.user].status = q.goal]
                     [] OTHER            -> user
        /\ token' = IF q.op = "recover" THEN Spend(q.row, Open(q.user)) ELSE token
        /\ End(r)

\* logout accepts a session already revoked, logoutAll only a live one.
Logout(r, s) ==
    /\ Begin(r, "logout", session[s].user, s, "snapshot", 0)
    /\ UNCHANGED <<user, session, token, holds>>

LogoutAll(r, s) ==
    /\ Authenticated(s)
    /\ Begin(r, "logoutAll", session[s].user, s, "snapshot", 0)
    /\ UNCHANGED <<user, session, token, holds>>

\* revokeUserSessions of an administrator; sessions that expired are dead anyway.
RevokeAll(r, u) ==
    /\ Begin(r, "revokeAll", u, 0, "snapshot", 0)
    /\ UNCHANGED <<user, session, token, holds>>

-----------------------------------------------------------------------------
(* Passwords.                                                              *)

\* The current password is verified and the new one hashed before the
\* transaction, which does not look at the old hash again.
ChangeRead(r, s) ==
    /\ Authenticated(s)
    /\ Begin(r, "change", session[s].user, s, "change", 0)
    /\ UNCHANGED <<user, session, token, holds>>

Change(r) ==
    LET u == req[r].user
    IN  /\ req[r].pc = "change" /\ CanLock(r, U(u), "nokey")
        /\ user[u].hash < MaxHash
        /\ Go(r, "snapshot") /\ Hold(r, U(u), "nokey")
        /\ UNCHANGED <<user, session, token>>

\* issue invalidates earlier recovery tokens under the lock on the user's row.
IssueRecovery(u) ==
    /\ \A r \in Requests : U(u) \notin LockedBy(holds, r)
    /\ user[u].status = "ACTIVE" /\ u \notin Admins
    /\ Len(token) < MaxTokens
    /\ token' = Append(Invalidated({n \in Open(u) : token[n].purpose = "recovery"}),
                        [user |-> u, purpose |-> "recovery", state |-> "unused"])
    /\ UNCHANGED <<user, session, req, holds>>

RecoverStart(r, t) ==
    /\ token[t].purpose = "recovery"
    /\ Begin(r, "recover", token[t].user, t, "recover", 0)
    /\ UNCHANGED <<user, session, token, holds>>

\* Mutant: the row of the user is locked as an UPDATE would lock it.
RecoverNoKey(r) ==
    LET u == req[r].user
    IN  /\ req[r].pc = "recover" /\ CanLock(r, U(u), "nokey")
        /\ IF token[req[r].row].state = "unused" /\ user[u].status = "ACTIVE"
             THEN /\ user[u].hash < MaxHash
                  /\ Go(r, "snapshot") /\ Hold(r, U(u), "nokey")
             ELSE End(r)
        /\ UNCHANGED <<user, session, token>>

\* complete looks at the token again once it holds the user's row.
Recover(r) ==
    LET u == req[r].user
    IN  /\ req[r].pc = "recover" /\ CanLock(r, U(u), "update")
        /\ IF token[req[r].row].state = "unused" /\ user[u].status = "ACTIVE"
             THEN /\ user[u].hash < MaxHash
                  /\ Go(r, "snapshot") /\ Hold(r, U(u), "update")
             ELSE End(r)
        /\ UNCHANGED <<user, session, token>>

-----------------------------------------------------------------------------
(* Account setup.                                                          *)

\* createStudent and createInstructor: the unique e-mail address lets one of two
\* requests create the account; it has no password and one setup link.
Provision(u) ==
    /\ user[u].status = "ABSENT" /\ Len(token) < MaxTokens
    /\ user' = [user EXCEPT ![u].status = "SETUP_PENDING"]
    /\ token' = Append(token, [user |-> u, purpose |-> "setup", state |-> "unused"])
    /\ UNCHANGED <<session, req, holds>>

SetupRead(r, t) ==
    /\ token[t].purpose = "setup" /\ token[t].state = "unused"
    /\ user[token[t].user].status = "SETUP_PENDING"
    /\ Begin(r, "setup", token[t].user, t, "claim", 0)
    /\ UNCHANGED <<user, session, token, holds>>

\* completeSetup claims the token by an update that finds it still open,
Claim(r) ==
    LET t == req[r].row
    IN  /\ req[r].pc = "claim" /\ CanLock(r, T(t), "nokey")
        /\ IF token[t].state = "unused"
             THEN Go(r, "activate") /\ Hold(r, T(t), "nokey")
             ELSE End(r)
        /\ UNCHANGED <<user, session, token>>

\* Mutant: the account is activated whatever its status has become.
ActivateUnchecked(r) ==
    LET u == req[r].user
    IN  /\ req[r].pc = "activate" /\ CanLock(r, U(u), "nokey")
        /\ Go(r, "void") /\ Hold(r, U(u), "nokey")
        /\ UNCHANGED <<user, session, token>>

\* then the account by one that finds it still pending: else all is undone.
Activate(r) ==
    LET u == req[r].user
    IN  /\ req[r].pc = "activate" /\ CanLock(r, U(u), "nokey")
        /\ IF user[u].status = "SETUP_PENDING"
             THEN Go(r, "void") /\ Hold(r, U(u), "nokey")
             ELSE End(r)
        /\ UNCHANGED <<user, session, token>>

\* Both completeSetup and replaceSetupToken invalidate the open tokens of the
\* user by one statement over its own snapshot.
Void(r) ==
    LET q == req[r]
    IN  /\ q.pc = "void"
        /\ req' = [req EXCEPT ![r].pc = IF q.op = "setup" THEN "settle" ELSE "reissue",
                              ![r].targets = Open(q.user) \ {q.row}]
        /\ UNCHANGED <<user, session, token, holds>>

Settle(r) ==
    LET q == req[r]
    IN  /\ q.pc = "settle" /\ \A n \in q.targets : CanLock(r, T(n), "nokey")
        /\ user' = [user EXCEPT ![q.user].status = "ACTIVE", ![q.user].hash = @ + 1]
        /\ token' = Spend(q.row, q.targets)
        /\ End(r)
        /\ UNCHANGED session

\* replaceSetupToken: the status is read without a lock,
ResendRead(r, u) ==
    /\ user[u].status = "SETUP_PENDING"
    /\ Begin(r, "resend", u, 0, "void", 0)
    /\ UNCHANGED <<user, session, token, holds>>

\* and after Void a new token is inserted, whatever the account has become.
Reissue(r) ==
    LET q == req[r]
    IN  /\ q.pc = "reissue" /\ Len(token) < MaxTokens
        /\ \A n \in q.targets : CanLock(r, T(n), "nokey")
        /\ CanLock(r, U(q.user), "share")
        /\ token' = Append(Invalidated(q.targets),
                            [user |-> q.user, purpose |-> "setup", state |-> "unused"])
        /\ End(r)
        /\ UNCHANGED <<user, session>>

-----------------------------------------------------------------------------
(* Status of accounts.                                                     *)

\* An administrator may not disable the own account; checked by the service.
StatusStart(r, a, u, goal) ==
    /\ user[a].status = "ACTIVE" /\ (a # u \/ goal = "ACTIVE")
    /\ req[r].pc = "idle"
    /\ req' = [req EXCEPT ![r] = [Idle EXCEPT !.op = "status", !.user = u,
                                              !.goal = goal, !.pc = "queue"]]
    /\ UNCHANGED <<user, session, token, holds>>

ActiveAdmins == {a \in Admins : user[a].status = "ACTIVE"}

Allowed(u, goal) ==
    /\ {user[u].status, goal} = {"ACTIVE", "INACTIVE"}
    /\ u \in Admins /\ goal = "INACTIVE" => Cardinality(ActiveAdmins) > 1

\* Mutant: the statuses are judged without the advisory lock.
QueueUnlocked(r) ==
    /\ req[r].pc = "queue" /\ Go(r, "judge")
    /\ UNCHANGED <<user, session, token, holds>>

\* updateStatus under the advisory lock that every change of a status takes.
Queue(r) ==
    LET q == req[r]
    IN  /\ q.pc = "queue" /\ CanLock(r, StatusLock, "update")
        /\ Go(r, "judge") /\ Hold(r, StatusLock, "update")
        /\ UNCHANGED <<user, session, token>>

Judge(r) ==
    LET q == req[r]
    IN  /\ q.pc = "judge"
        /\ IF Allowed(q.user, q.goal)
             THEN req' = [req EXCEPT ![r].pc = "restate", ![r].hash = user[q.user].hash]
                  /\ UNCHANGED holds
             ELSE End(r)
        /\ UNCHANGED <<user, session, token>>

\* The row is written only in the version that was read.  Disabling revokes the
\* sessions in the same transaction.
Restate(r) ==
    LET q == req[r]
    IN  /\ q.pc = "restate" /\ CanLock(r, U(q.user), "nokey")
        /\ \/ /\ q.goal = "INACTIVE" /\ user[q.user].hash = q.hash
              /\ Go(r, "snapshot") /\ Hold(r, U(q.user), "nokey")
              /\ UNCHANGED user
           \/ /\ q.goal = "ACTIVE" /\ user[q.user].hash = q.hash
              /\ user' = [user EXCEPT ![q.user].status = "ACTIVE"]
              /\ End(r)
        /\ UNCHANGED <<session, token>>

\* A request may fail at any point: the server stops, a lock times out, the
\* database picks it as the victim of a deadlock, the row has a newer version.
Fail(r) ==
    /\ req[r].pc # "idle"
    /\ End(r)
    /\ UNCHANGED <<user, session, token>>

-----------------------------------------------------------------------------
Statement(r) ==
    \/ SignIn(r) \/ OpenSession(r) \/ Rotate(r) \/ InsertReplacement(r) \/ Replace(r)
    \/ Snapshot(r) \/ Sweep(r) \/ Change(r) \/ Recover(r)
    \/ Claim(r) \/ Activate(r) \/ Settle(r) \/ Void(r) \/ Reissue(r)
    \/ Queue(r) \/ Judge(r) \/ Restate(r)

Start(r) ==
    \/ \E u \in Users : LoginRead(r, u) \/ RevokeAll(r, u) \/ ResendRead(r, u)
    \/ \E s \in DOMAIN session :
         RefreshRead(r, s) \/ Logout(r, s) \/ LogoutAll(r, s) \/ ChangeRead(r, s)
    \/ \E t \in DOMAIN token : RecoverStart(r, t) \/ SetupRead(r, t)
    \/ \E a \in Admins, u \in Users, goal \in {"ACTIVE", "INACTIVE"} :
         StatusStart(r, a, u, goal)

Next ==
    \/ \E r \in Requests : Start(r) \/ Statement(r) \/ Fail(r)
    \/ \E u \in Users : IssueRecovery(u) \/ Provision(u)

Spec == Init /\ [][Next]_vars

-----------------------------------------------------------------------------
(* Properties.                                                             *)

Live(s) == session[s].live

Account == [status : Statuses, hash : Nat, reset : Nat]

\* What the transactions of each operation go through.
Stages == [refresh |-> {"rotate", "insert", "replace", "snapshot", "sweep"},
           login |-> {"signin", "open"}, logout |-> {"snapshot", "sweep"},
           logoutAll |-> {"snapshot", "sweep"}, revokeAll |-> {"snapshot", "sweep"},
           change |-> {"change", "snapshot", "sweep"},
           recover |-> {"recover", "snapshot", "sweep"},
           setup |-> {"claim", "activate", "void", "settle"},
           resend |-> {"void", "reissue"},
           status |-> {"queue", "judge", "restate", "snapshot", "sweep"}]

Request == [op : Ops, pc : UNION {Stages[op] : op \in Ops}, user : Users, row : Nat,
            hash : Nat, goal : {"ACTIVE", "INACTIVE"}, targets : SUBSET Nat]

TypeOK ==
    /\ user \in [Users -> Account] /\ session \in Seq(Session) /\ token \in Seq(Token)
    /\ req \in [Requests -> {Idle} \cup Request]
    /\ \A r \in Requests : req[r].pc = "idle" \/ req[r].pc \in Stages[req[r].op]
    /\ DOMAIN holds = Requests

\* Rotation never leaves two usable sessions in a family: of two requests that
\* refresh the same token one at most gets a replacement.
OneLivePerFamily ==
    \A i, j \in DOMAIN session :
        Live(i) /\ Live(j) /\ session[i].family = session[j].family => i = j

\* No session of a login that came before a completed password recovery is
\* usable after it, whatever logins and rotations were in flight meanwhile.
RecoveryEndsSessions ==
    \A s \in DOMAIN session : Live(s) => session[s].hash >= user[session[s].user].reset

\* What refreshes, logins and recoveries that overlap promise an account's owner;
\* and all variables keep their types.
SessionsSound == TypeOK /\ OneLivePerFamily /\ RecoveryEndsSessions

\* An account is set up by one token at most, although links can be reissued and
\* several may be open at once.
SetupOnce ==
    \A i, j \in DOMAIN token :
        /\ token[i].purpose = "setup" /\ token[i].state = "used"
        /\ token[j].purpose = "setup" /\ token[j].state = "used"
        /\ token[i].user = token[j].user
        => i = j

\* Administrators who disable each other at once never leave none active.
LastActiveAdmin == Admins # {} => ActiveAdmins # {}

\* What the transactions of accounts promise each other: one setup, and an
\* administrator left.
AccountsStand == SetupOnce /\ LastActiveAdmin
=============================================================================
