------------------------------ MODULE GitPush ------------------------------
(***************************************************************************)
(* Native pushes to one activity workspace through the Smart HTTP service   *)
(* (src/server/src/modules/git-transport/git-transport.service.ts and       *)
(* .repository.ts, src/server/src/infrastructure/git/git-smart-http.ts and  *)
(* the receive hooks of git-transport-hook.ts).                             *)
(*                                                                         *)
(* A push waits for the fence: a transaction that share-locks the rows its  *)
(* permission depends on and holds one connection of the pool until the     *)
(* request has ended.  Inside it the push is authorised again, takes a slot *)
(* of the transport, first replays the receipts that earlier requests left, *)
(* and runs git-http-backend in a request directory of its own: the         *)
(* pre-receive hook judges all its updates by the refs it sees, Git makes   *)
(* them one after the other, the post-receive hook writes a receipt, the    *)
(* service records it as one activity and removes the directory.            *)
(*                                                                         *)
(* At any point the backend is killed, because the client has gone away, a  *)
(* limit is passed or time is up, the service crashes and is restarted (its *)
(* service manager kills its children with it), or a write fails.           *)
(***************************************************************************)
EXTENDS Naturals, FiniteSets

CONSTANTS
    Pushes,         \* git-receive-pack requests
    None,           \* no push
    Branches,       \* branch names
    Main,           \* the branch every workspace has
    Scenarios,      \* what there is at first, and what the pushes ask for
    Pool,           \* connections of the service's database pool
    MaxConcurrent,  \* GIT_HTTP_MAX_CONCURRENT
    MaxBranches,    \* GIT_MAX_BRANCHES
    MaxUpdates,     \* GIT_MAX_REF_UPDATES
    MaxFaults       \* bound on kills, crashes and failed writes

ASSUME PushAssumption == /\ None \notin Pushes
                         /\ Pool \in Nat \ {0} /\ MaxConcurrent \in Nat \ {0}
                         /\ MaxBranches \in Nat \ {0} /\ MaxUpdates \in Nat \ {0}
                         /\ MaxFaults \in Nat

(* The ref updates of a push; more than MaxUpdates of them, none or a deletion
   of main are refused whatever the refs are. *)
Updates == [create: SUBSET Branches, delete: SUBSET Branches, forward: SUBSET Branches]
Names(u) == u.create \union u.delete \union u.forward

ASSUME ScenarioAssumption ==
    /\ IsFiniteSet(Branches)
    /\ Scenarios \subseteq [refs: SUBSET Branches, asked: [Pushes -> Updates]]
    /\ \A s \in Scenarios :
           /\ Main \in s.refs /\ Cardinality(s.refs) <= MaxBranches
           /\ \A o \in Pushes :
                  /\ Names(s.asked[o]) # {} /\ Main \notin s.asked[o].delete
                  /\ Cardinality(s.asked[o].create) + Cardinality(s.asked[o].delete)
                     + Cardinality(s.asked[o].forward) <= MaxUpdates
                  /\ s.asked[o].create \intersect s.asked[o].delete = {}
                  /\ s.asked[o].create \intersect s.asked[o].forward = {}
                  /\ s.asked[o].delete \intersect s.asked[o].forward = {}

VARIABLES
    service,    \* the process: "down", "starting" (initialize) or "up"
    pc,         \* where each request is
    running,    \* activeOperationIds
    fetching,   \* a read request is waiting for the recovery
    recovery,   \* the shared recovery: still to look at, looking at, at which step
    directory,  \* request directories: "none", "bare" without a marker that can
                \* be read, or "marked"
    receipt,    \* accepted-push.json: "none", "empty", "torn" or "full"
    asked,      \* the updates of each push
    todo,       \* those Git has still to make
    refs,       \* refs/heads/*
    moved,      \* pushes that have moved a ref
    activity,   \* PUSH activities, by transport request
    allowed,    \* do credential, memberships and activity permit pushes?
    faults,     \* kills, crashes and failed writes so far
    cut         \* pushes stopped between their first ref and their whole receipt

serviceVars == <<service, running, fetching>>
diskVars == <<directory, receipt>>
refVars == <<asked, todo, refs, moved>>
faultVars == <<faults, cut>>
vars == <<serviceVars, pc, recovery, diskVars, refVars, activity, allowed, faultVars>>

(* Inside the fence; inside execute; with a backend process. *)
Fenced == {o \in Pushes : pc[o] \notin {"idle", "waiting", "done"}}
Executing == {o \in Fenced : pc[o] # "fenced"}
Backed == {o \in Pushes : pc[o] \in {"spawned", "checked", "moved", "writing", "received"}}
Pushing(o) == pc[o] \in {"checked", "moved", "writing"}

(* A query outside the fence's own transaction needs a connection of its own. *)
Connection == Cardinality(Fenced) < Pool

NoRecovery == [todo |-> {}, at |-> None, step |-> "off"]
Recovering == recovery.step # "off"

Init ==
    /\ \E s \in Scenarios : /\ refs = s.refs /\ asked = s.asked
                            /\ todo = [o \in Pushes |-> Names(s.asked[o])]
    /\ service = "starting"
    /\ pc = [o \in Pushes |-> "idle"]
    /\ running = {}
    /\ fetching = FALSE
    /\ recovery = [todo |-> {}, at |-> None, step |-> "pick"]
    /\ directory = [o \in Pushes |-> "none"]
    /\ receipt = [o \in Pushes |-> "none"]
    /\ moved = {}
    /\ activity = [o \in Pushes |-> 0]
    /\ allowed = TRUE
    /\ faults = 0
    /\ cut = {}

Goto(o, label) == pc' = [pc EXCEPT ![o] = label]
Fault == faults < MaxFaults /\ faults' = faults + 1

-----------------------------------------------------------------------------
(* Who may push.                                                            *)

(* handle authenticates before it waits for the fence. *)
Arrive(o) ==
    /\ service = "up" /\ pc[o] = "idle"
    /\ Goto(o, IF allowed THEN "waiting" ELSE "done")
    /\ UNCHANGED <<serviceVars, recovery, diskVars, refVars, activity, allowed, faultVars>>

(* withActivityWriteFence: its locks are granted, since Withdraw is one step. *)
EnterFence(o) ==
    /\ pc[o] = "waiting" /\ Connection
    /\ Goto(o, "fenced")
    /\ UNCHANGED <<serviceVars, recovery, diskVars, refVars, activity, allowed, faultVars>>

(* Somebody revokes the credential, removes the member, closes the activity or
   archives the class, or takes that back: an update of a row the fence locks.
   Mutant: the fence does not lock that row. *)
WithdrawUnlocked ==
    /\ allowed' = ~allowed
    /\ UNCHANGED <<serviceVars, pc, recovery, diskVars, refVars, activity, faultVars>>

Withdraw ==
    /\ Fenced = {}
    /\ allowed' = ~allowed
    /\ UNCHANGED <<serviceVars, pc, recovery, diskVars, refVars, activity, faultVars>>

(* No connection was to be had in time, for the fence or inside it. *)
PoolTimeout(o) ==
    /\ pc[o] \in {"waiting", "fenced"} /\ ~Connection
    /\ Goto(o, "done")
    /\ UNCHANGED <<serviceVars, recovery, diskVars, refVars, activity, allowed, faultVars>>

-----------------------------------------------------------------------------
(* Recovery.                                                                *)

(* recover: one recovery at a time; a request that finds one under way awaits
   its outcome.  Mutant: receipts are replayed at startup only. *)
JoinRecoveryAtStart ==
    IF Recovering THEN UNCHANGED recovery
    ELSE recovery' = [todo |-> {o \in Pushes : directory[o] # "none" /\ service # "up"},
                      at |-> None, step |-> "pick"]

JoinRecovery ==
    IF Recovering THEN UNCHANGED recovery
    ELSE recovery' = [todo |-> {o \in Pushes : directory[o] # "none"},
                      at |-> None, step |-> "pick"]

(* Authorised again under the locks, the push reserves a slot before anything
   is awaited. *)
Admit(o) ==
    /\ pc[o] = "fenced" /\ Connection
    /\ IF allowed /\ Cardinality(Executing) + (IF fetching THEN 1 ELSE 0) < MaxConcurrent
       THEN Goto(o, "recovering") /\ JoinRecovery
       ELSE Goto(o, "done") /\ UNCHANGED recovery
    /\ UNCHANGED <<serviceVars, diskVars, refVars, activity, allowed, faultVars>>

(* A fetch, in no fence; all it does to others is to recover first. *)
Fetch ==
    /\ service = "up" /\ ~fetching
    /\ Cardinality(Executing) < MaxConcurrent
    /\ \E o \in Pushes : directory[o] # "none"
    /\ fetching' = TRUE
    /\ JoinRecovery
    /\ UNCHANGED <<service, running, pc, diskVars, refVars, activity, allowed, faultVars>>

(* The next directory, unless its request is running. *)
PickDirectory ==
    /\ recovery.step = "pick"
    /\ \E o \in recovery.todo :
          recovery' = [todo |-> recovery.todo \ {o},
                       at |-> IF o \in running THEN None ELSE o,
                       step |-> IF o \in running THEN "pick" ELSE "read"]
    /\ UNCHANGED <<serviceVars, pc, diskVars, refVars, activity, allowed, faultVars>>

(* An empty receipt counts as none. *)
ReadReceipt ==
    /\ recovery.step = "read" /\ receipt[recovery.at] # "torn"
    /\ recovery' = [recovery EXCEPT !.step =
                        IF receipt[recovery.at] = "full" THEN "record" ELSE "remove"]
    /\ UNCHANGED <<serviceVars, pc, diskVars, refVars, activity, allowed, faultVars>>

(* recordAcceptedPush: the transport request is unique among activities.
   Mutant: the table has no such constraint. *)
RecordedAgain(o) == activity' = [activity EXCEPT ![o] = @ + 1]
Recorded(o) == activity' = [activity EXCEPT ![o] = 1]

ReplayReceipt ==
    /\ recovery.step = "record" /\ Connection
    /\ Recorded(recovery.at)
    /\ recovery' = [recovery EXCEPT !.step = "remove"]
    /\ UNCHANGED <<serviceVars, pc, diskVars, refVars, allowed, faultVars>>

(* removeVerifiedRequestDirectory removes what carries its marker: the files
   in some order, then the directory. *)
Unlinked(o) ==
    \/ directory' = [directory EXCEPT ![o] = "bare"] /\ UNCHANGED receipt
    \/ receipt' = [receipt EXCEPT ![o] = "none"] /\ UNCHANGED directory

Removed(o) ==
    /\ directory' = [directory EXCEPT ![o] = "none"]
    /\ receipt' = [receipt EXCEPT ![o] = "none"]

RemoveReplayed ==
    /\ recovery.step = "remove" /\ directory[recovery.at] = "marked"
    /\ Unlinked(recovery.at)
    /\ recovery' = [recovery EXCEPT !.step = "removing"]
    /\ UNCHANGED <<serviceVars, pc, refVars, activity, allowed, faultVars>>

FinishReplayed ==
    /\ recovery.step = "removing"
    /\ Removed(recovery.at)
    /\ recovery' = [recovery EXCEPT !.step = "pick", !.at = None]
    /\ UNCHANGED <<serviceVars, pc, refVars, activity, allowed, faultVars>>

(* Everybody who awaited the recovery goes on, or the service listens. *)
RecoveryEnds ==
    /\ recovery.step = "pick" /\ recovery.todo = {}
    /\ recovery' = NoRecovery
    /\ service' = "up"
    /\ fetching' = FALSE
    /\ pc' = [o \in Pushes |-> IF pc[o] = "recovering" THEN "prepared" ELSE pc[o]]
    /\ UNCHANGED <<running, diskVars, refVars, activity, allowed, faultVars>>

(* A receipt that cannot be parsed or recorded, a directory without its marker
   or gone: everybody who awaited the recovery fails; a starting process exits. *)
RecoveryFails ==
    /\ \/ recovery.step = "read" /\ receipt[recovery.at] = "torn"
       \/ recovery.step = "record" /\ ~Connection
       \/ recovery.step = "record" /\ faults < MaxFaults
       \/ recovery.step = "remove" /\ directory[recovery.at] # "marked"
       \/ recovery.step = "removing" /\ directory[recovery.at] = "none"
    /\ IF recovery.step = "record" /\ Connection THEN Fault ELSE UNCHANGED faults
    /\ recovery' = NoRecovery
    /\ service' = IF service = "starting" THEN "down" ELSE service
    /\ fetching' = FALSE
    /\ pc' = [o \in Pushes |-> IF pc[o] = "recovering" THEN "done" ELSE pc[o]]
    /\ UNCHANGED <<running, diskVars, refVars, activity, allowed, cut>>

-----------------------------------------------------------------------------
(* A push in its slot.                                                      *)

MakeDirectory(o) ==
    /\ pc[o] = "prepared"
    /\ running' = running \union {o}
    /\ directory' = [directory EXCEPT ![o] = "bare"]
    /\ Goto(o, "made")
    /\ UNCHANGED <<service, fetching, recovery, receipt, refVars, activity, allowed, faultVars>>

WriteMarker(o) ==
    /\ pc[o] = "made"
    /\ directory' = [directory EXCEPT ![o] = "marked"]
    /\ Goto(o, "spawned")
    /\ UNCHANGED <<serviceVars, recovery, receipt, refVars, activity, allowed, faultVars>>

MarkerFails(o) ==
    /\ pc[o] = "made" /\ Fault
    /\ Goto(o, "ending")
    /\ UNCHANGED <<serviceVars, recovery, diskVars, refVars, activity, allowed, cut>>

(* validatePreReceive counts the branches as all the updates of the push would
   leave them.  Mutant: it counts the branches there are. *)
WithinLimitOfExisting(o) == Cardinality(refs) <= MaxBranches
WithinLimit(o) ==
    Cardinality((refs \ asked[o].delete) \union asked[o].create \union asked[o].forward)
        <= MaxBranches

PreReceive(o) ==
    /\ pc[o] = "spawned"
    /\ Goto(o, IF WithinLimit(o) THEN "checked" ELSE "ending")
    /\ UNCHANGED <<serviceVars, recovery, diskVars, refVars, activity, allowed, faultVars>>

(* Git makes one update after the other, and refuses one whose branch is not
   as the client saw it (a new branch was not there, another may have moved
   since) or that it cannot write.  A push of which nothing is left has no
   post-receive hook. *)
Fits(o, b) == b \in refs <=> b \notin asked[o].create

MoveRef(o, b) ==
    /\ pc[o] = "checked" /\ b \in todo[o]
    /\ todo' = [todo EXCEPT ![o] = @ \ {b}]
    /\ \/ /\ Fits(o, b)
          /\ refs' = IF b \in asked[o].delete THEN refs \ {b} ELSE refs \union {b}
          /\ moved' = moved \union {o}
          /\ UNCHANGED faults
       \/ /\ IF b \in asked[o].create /\ b \notin refs THEN Fault ELSE UNCHANGED faults
          /\ UNCHANGED <<refs, moved>>
    /\ Goto(o, IF todo'[o] # {} THEN "checked" ELSE IF o \in moved' THEN "moved" ELSE "ending")
    /\ UNCHANGED <<serviceVars, recovery, diskVars, asked, activity, allowed, cut>>

(* writePostReceiveReceipt makes the file, then fills it. *)
OpenReceipt(o) ==
    /\ pc[o] = "moved"
    /\ receipt' = [receipt EXCEPT ![o] = "empty"]
    /\ Goto(o, "writing")
    /\ UNCHANGED <<serviceVars, recovery, directory, refVars, activity, allowed, faultVars>>

PostReceive(o) ==
    /\ pc[o] = "writing"
    /\ receipt' = [receipt EXCEPT ![o] = "full"]
    /\ Goto(o, "received")
    /\ UNCHANGED <<serviceVars, recovery, directory, refVars, activity, allowed, faultVars>>

(* What is on disk of a receipt whose writing stops. *)
LeftOf(o) == IF pc[o] = "writing" THEN {"empty", "torn"} ELSE {receipt[o]}

(* The hook fails, on a full disk for instance; Git does not take the refs
   back, and its answer is that of a push that succeeded. *)
ReceiptFails(o) ==
    /\ pc[o] \in {"moved", "writing"} /\ Fault
    /\ \E left \in LeftOf(o) : receipt' = [receipt EXCEPT ![o] = left]
    /\ cut' = cut \union {o}
    /\ Goto(o, "received")
    /\ UNCHANGED <<serviceVars, recovery, directory, refVars, activity, allowed>>

(* The backend has closed: the receipt is read and recorded. *)
RecordPush(o) ==
    /\ pc[o] = "received" /\ receipt[o] = "full" /\ Connection
    /\ Recorded(o)
    /\ Goto(o, "recorded")
    /\ UNCHANGED <<serviceVars, recovery, diskVars, refVars, allowed, faultVars>>

(* The activity cannot be written, or there is no whole receipt: one that
   cannot be parsed is an error, none at all is not. *)
RecordFails(o) ==
    /\ pc[o] = "received"
    /\ IF receipt[o] = "full" /\ Connection THEN Fault ELSE UNCHANGED faults
    /\ Goto(o, "ending")
    /\ UNCHANGED <<serviceVars, recovery, diskVars, refVars, activity, allowed, cut>>

(* The backend is killed with its hooks. *)
Killed(o) ==
    /\ o \in Backed /\ Fault
    /\ \E left \in LeftOf(o) : receipt' = [receipt EXCEPT ![o] = left]
    /\ cut' = IF Pushing(o) /\ o \in moved THEN cut \union {o} ELSE cut
    /\ Goto(o, "ending")
    /\ UNCHANGED <<serviceVars, recovery, directory, refVars, activity, allowed>>

(* finally: the request is not running any more; then its directory goes,
   unless a receipt waits in it to be recorded or its marker is missing. *)
Leave(o) ==
    /\ pc[o] \in {"recorded", "ending"} /\ o \in running
    /\ running' = running \ {o}
    /\ UNCHANGED <<service, pc, fetching, recovery, diskVars, refVars, activity, allowed,
                   faultVars>>

CleanUp(o) ==
    /\ pc[o] \in {"recorded", "ending"} /\ o \notin running
    /\ IF directory[o] = "marked" /\ (receipt[o] = "none" \/ pc[o] = "recorded")
       THEN Unlinked(o) /\ Goto(o, "removing")
       ELSE UNCHANGED diskVars /\ Goto(o, "done")
    /\ UNCHANGED <<serviceVars, recovery, refVars, activity, allowed, faultVars>>

FinishCleanUp(o) ==
    /\ pc[o] = "removing"
    /\ Removed(o)
    /\ Goto(o, "done")
    /\ UNCHANGED <<serviceVars, recovery, refVars, activity, allowed, faultVars>>

-----------------------------------------------------------------------------
(* The process dies with everything it runs, and is started again.          *)
Crash ==
    /\ service # "down" /\ Fault
    /\ service' = "down"
    /\ pc' = [o \in Pushes |-> IF pc[o] = "idle" THEN "idle" ELSE "done"]
    /\ \E left \in [Pushes -> {"none", "empty", "torn", "full"}] :
           (\A o \in Pushes : left[o] \in LeftOf(o)) /\ receipt' = left
    /\ cut' = cut \union {o \in moved : Pushing(o)}
    /\ running' = {} /\ fetching' = FALSE /\ recovery' = NoRecovery
    /\ UNCHANGED <<directory, refVars, activity, allowed>>

(* transportService.initialize replays receipts before the server listens. *)
Restart ==
    /\ service = "down"
    /\ service' = "starting"
    /\ JoinRecovery
    /\ UNCHANGED <<pc, running, fetching, diskVars, refVars, activity, allowed, faultVars>>

Recover ==
    \/ PickDirectory
    \/ ReadReceipt
    \/ ReplayReceipt
    \/ RemoveReplayed
    \/ FinishReplayed
    \/ RecoveryEnds
    \/ RecoveryFails

Handle(o) ==
    \/ EnterFence(o)
    \/ PoolTimeout(o)
    \/ Admit(o)
    \/ MakeDirectory(o)
    \/ WriteMarker(o)
    \/ PreReceive(o)
    \/ \E b \in Branches : MoveRef(o, b)
    \/ OpenReceipt(o)
    \/ PostReceive(o)
    \/ RecordPush(o)
    \/ RecordFails(o)
    \/ Leave(o)
    \/ CleanUp(o)
    \/ FinishCleanUp(o)

Next ==
    \/ Recover
    \/ \E o \in Pushes : \/ Arrive(o) \/ Handle(o)
                         \/ MarkerFails(o) \/ ReceiptFails(o) \/ Killed(o)
    \/ Withdraw
    \/ Fetch
    \/ Crash
    \/ Restart

Spec == Init /\ [][Next]_vars

(* Awaited work goes on, the service manager restarts the service, and while
   there are request directories somebody fetches again. *)
Fairness ==
    /\ WF_vars(Recover)
    /\ \A o \in Pushes : WF_vars(Handle(o))
    /\ WF_vars(Restart)
    /\ SF_vars(Fetch)

FairSpec == Spec /\ Fairness

-----------------------------------------------------------------------------
Labels == {"idle", "waiting", "fenced", "recovering", "prepared", "made", "spawned", "checked",
           "moved", "writing", "received", "recorded", "ending", "removing", "done"}
Recoveries == [todo : SUBSET Pushes, at : Pushes \union {None},
               step : {"off", "pick", "read", "record", "remove", "removing"}]

TypeOK ==
    /\ service \in {"down", "starting", "up"}
    /\ pc \in [Pushes -> Labels]
    /\ running \subseteq Pushes /\ fetching \in BOOLEAN
    /\ recovery \in Recoveries
    /\ recovery.step \in {"read", "record", "remove", "removing"} => recovery.at # None
    /\ directory \in [Pushes -> {"none", "bare", "marked"}]
    /\ receipt \in [Pushes -> {"none", "empty", "torn", "full"}]
    /\ asked \in [Pushes -> Updates]
    /\ todo \in [Pushes -> SUBSET Branches]
    /\ refs \subseteq Branches /\ moved \subseteq Pushes
    /\ activity \in [Pushes -> Nat]
    /\ allowed \in BOOLEAN /\ faults \in 0..MaxFaults /\ cut \subseteq Pushes

(* An activity is recorded once for a push, whoever records it, and only for
   one that has moved a ref and written its whole receipt. *)
RecordedOnce ==
    \A o \in Pushes : activity[o] \in {0, 1} /\ (activity[o] = 1 => o \in moved \ cut)

(* A whole receipt is removed only when its push has been recorded: one that
   has moved a ref and that nobody has recorded is still being made, has its
   receipt on disk where the recovery can take it away, or was stopped, by a
   kill, a crash or a failed write, before its receipt was whole.  Such a push
   is in the repository and will not be in the feed. *)
ReceiptKept ==
    \A o \in moved :
        \/ activity[o] = 1
        \/ receipt[o] = "full" /\ directory[o] = "marked"
        \/ Pushing(o)
        \/ o \in cut

(* Between refs, receipt and activity nothing is doubled, and nothing is lost
   once the receipt is whole. *)
PushesAccounted == RecordedOnce /\ ReceiptKept

(* Refs move only while credential, memberships and activity permit it, although
   the hook judges by what was read when the request was admitted. *)
AuthorizedPush == [][refs' # refs \/ moved' # moved => allowed]_vars

(* Concurrent pushes may each pass the hook.  Those in the other slots may
   create as many branches as they have updates, and one that replaces branches
   may create its own before it deletes. *)
BranchOvershoot ==
    Cardinality(refs) <= MaxBranches + (MaxConcurrent - 1) * MaxUpdates + (MaxUpdates - 1)

(* A request that has ended has left a directory without its marker or a torn
   receipt: no recovery gets past it, and nobody but an operator removes it. *)
Blocked ==
    \E o \in Pushes :
        /\ pc[o] = "done" /\ o \notin running /\ recovery.at # o
        /\ directory[o] = "bare" \/ receipt[o] = "torn"

(* What a whole receipt says is in the feed in the end, and the receipt gone,
   after a crash, a killed backend or a pool without connections; unless the
   recovery is blocked, by a crash or a failed write beside a file. *)
ReceiptsDrain ==
    \A o \in Pushes : receipt[o] = "full" ~> (activity[o] = 1 /\ receipt[o] = "none") \/ Blocked
=============================================================================
