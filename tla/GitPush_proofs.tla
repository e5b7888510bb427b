--------------------------- MODULE GitPush_proofs ---------------------------
(***************************************************************************)
(* Theorems about GitPush, for every set of pushes and whatever they ask    *)
(* for, any size of the pool, any number of slots, branches, updates and    *)
(* faults.                                                                  *)
(*                                                                         *)
(* A push that has moved a ref is still with its backend, has its whole     *)
(* receipt in a marked directory, is recorded, or was stopped before its    *)
(* receipt was whole.  The recovery looks only at requests that have left   *)
(* their backend, and removes a directory only of a request without a whole *)
(* receipt or with an activity.                                             *)
(*                                                                         *)
(* The branches there are, with those that the pushes that have passed the  *)
(* hook may still create, are never more than the limit allows the last of  *)
(* them and the other slots may add.                                        *)
(***************************************************************************)
EXTENDS GitPush, FunctionTheorems, FiniteSetTheorems, TLAPS

USE DEF vars, serviceVars, diskVars, refVars, faultVars, Goto, Fault

LEMMA Steps ==
    ASSUME [Next]_vars
    PROVE  \/ UNCHANGED vars
           \/ Withdraw \/ Fetch \/ Crash \/ Restart
           \/ PickDirectory \/ ReadReceipt \/ ReplayReceipt
           \/ RemoveReplayed \/ FinishReplayed \/ RecoveryEnds \/ RecoveryFails
           \/ \E o \in Pushes :
                 \/ Arrive(o) \/ EnterFence(o) \/ PoolTimeout(o) \/ Admit(o)
                 \/ MakeDirectory(o) \/ WriteMarker(o) \/ MarkerFails(o) \/ PreReceive(o)
                 \/ \E b \in Branches : MoveRef(o, b)
                 \/ OpenReceipt(o) \/ PostReceive(o) \/ ReceiptFails(o)
                 \/ RecordPush(o) \/ RecordFails(o) \/ Killed(o)
                 \/ Leave(o) \/ CleanUp(o) \/ FinishCleanUp(o)
  BY DEF Next, Recover, Handle

(***************************************************************************)
(* Types.                                                                  *)
(***************************************************************************)
LEMMA TypeStep == TypeOK /\ [Next]_vars => TypeOK'
<1> SUFFICES ASSUME TypeOK, [Next]_vars PROVE TypeOK'
  OBVIOUS
<1> USE PushAssumption DEF TypeOK, Labels, Recoveries
<1>r. NoRecovery \in Recoveries /\ NoRecovery.step = "off"
  BY DEF NoRecovery
<1>f. faults < MaxFaults => faults + 1 \in 0..MaxFaults
  OBVIOUS
<1>0. CASE UNCHANGED vars
  BY <1>0
<1>1. CASE Withdraw
  <2>1. allowed' \in BOOLEAN
    BY <1>1, Zenon DEF Withdraw
  <2> QED
    BY <1>1, <2>1 DEF Withdraw
<1>2. CASE Fetch
  BY <1>2 DEF Fetch, JoinRecovery, Recovering
<1>3. CASE Crash
  <2>1. fetching' \in BOOLEAN
    BY <1>3, Zenon DEF Crash
  <2>2. pc' \in [Pushes -> Labels] /\ receipt' \in [Pushes -> {"none", "empty", "torn", "full"}]
    BY <1>3 DEF Crash
  <2> QED
    BY <1>3, <1>r, <1>f, <2>1, <2>2 DEF Crash
<1>4. CASE Restart
  BY <1>4 DEF Restart, JoinRecovery, Recovering
<1>5. CASE PickDirectory
  BY <1>5 DEF PickDirectory
<1>6. CASE ReadReceipt
  BY <1>6 DEF ReadReceipt
<1>7. CASE ReplayReceipt
  BY <1>7 DEF ReplayReceipt, Recorded
<1>8. CASE RemoveReplayed
  BY <1>8 DEF RemoveReplayed, Unlinked
<1>9. CASE FinishReplayed
  BY <1>9 DEF FinishReplayed, Removed
<1>10. CASE RecoveryEnds
  BY <1>10, <1>r DEF RecoveryEnds
<1>11. CASE RecoveryFails
  <2>1. faults' \in 0..MaxFaults
    BY <1>11, <1>f DEF RecoveryFails
  <2>2. pc' \in [Pushes -> Labels]
    BY <1>11 DEF RecoveryFails
  <2>3. fetching' \in BOOLEAN /\ service' \in {"down", "starting", "up"}
    BY <1>11 DEF RecoveryFails
  <2> QED
    BY <1>11, <1>r, <2>1, <2>2, <2>3 DEF RecoveryFails
<1>12. ASSUME NEW o \in Pushes, Arrive(o) PROVE TypeOK'
  BY <1>12 DEF Arrive
<1>13. ASSUME NEW o \in Pushes, EnterFence(o) PROVE TypeOK'
  BY <1>13 DEF EnterFence
<1>14. ASSUME NEW o \in Pushes, PoolTimeout(o) PROVE TypeOK'
  BY <1>14 DEF PoolTimeout
<1>15. ASSUME NEW o \in Pushes, Admit(o) PROVE TypeOK'
  BY <1>15 DEF Admit, JoinRecovery, Recovering
<1>16. ASSUME NEW o \in Pushes, MakeDirectory(o) PROVE TypeOK'
  BY <1>16 DEF MakeDirectory
<1>17. ASSUME NEW o \in Pushes, WriteMarker(o) PROVE TypeOK'
  BY <1>17 DEF WriteMarker
<1>18. ASSUME NEW o \in Pushes, MarkerFails(o) PROVE TypeOK'
  BY <1>18 DEF MarkerFails
<1>19. ASSUME NEW o \in Pushes, PreReceive(o) PROVE TypeOK'
  BY <1>19 DEF PreReceive
<1>20. ASSUME NEW o \in Pushes, NEW b \in Branches, MoveRef(o, b) PROVE TypeOK'
  <2>1. refs' \subseteq Branches /\ moved' \subseteq Pushes /\ todo' \in [Pushes -> SUBSET Branches]
    BY <1>20 DEF MoveRef
  <2>2. faults' \in 0..MaxFaults /\ pc' \in [Pushes -> Labels]
    BY <1>20, <1>f DEF MoveRef
  <2> QED
    BY <1>20, <2>1, <2>2 DEF MoveRef
<1>21. ASSUME NEW o \in Pushes, OpenReceipt(o) PROVE TypeOK'
  BY <1>21 DEF OpenReceipt
<1>22. ASSUME NEW o \in Pushes, PostReceive(o) PROVE TypeOK'
  BY <1>22 DEF PostReceive
<1>23. ASSUME NEW o \in Pushes, ReceiptFails(o) PROVE TypeOK'
  BY <1>23 DEF ReceiptFails, LeftOf
<1>24. ASSUME NEW o \in Pushes, RecordPush(o) PROVE TypeOK'
  BY <1>24 DEF RecordPush, Recorded
<1>25. ASSUME NEW o \in Pushes, RecordFails(o) PROVE TypeOK'
  BY <1>25 DEF RecordFails
<1>26. ASSUME NEW o \in Pushes, Killed(o) PROVE TypeOK'
  BY <1>26 DEF Killed, Backed, LeftOf, Pushing
<1>27. ASSUME NEW o \in Pushes, Leave(o) PROVE TypeOK'
  BY <1>27 DEF Leave
<1>28. ASSUME NEW o \in Pushes, CleanUp(o) PROVE TypeOK'
  BY <1>28 DEF CleanUp, Unlinked
<1>29. ASSUME NEW o \in Pushes, FinishCleanUp(o) PROVE TypeOK'
  BY <1>29 DEF FinishCleanUp, Removed
<1> QED
  BY <1>0, <1>1, <1>2, <1>3, <1>4, <1>5, <1>6, <1>7, <1>8, <1>9, <1>10, <1>11, <1>12,
     <1>13, <1>14, <1>15, <1>16, <1>17, <1>18, <1>19, <1>20, <1>21, <1>22, <1>23,
     <1>24, <1>25, <1>26, <1>27, <1>28, <1>29, Steps

(* Every variable keeps its type and its bound, for any pushes and limits. *)
THEOREM TypeCorrect == Spec => []TypeOK
<1>1. Init => TypeOK
  <2> SUFFICES ASSUME Init PROVE TypeOK
    OBVIOUS
  <2>1. [todo |-> {}, at |-> None, step |-> "pick"] \in Recoveries
    BY DEF Recoveries
  <2>2. fetching \in BOOLEAN /\ allowed \in BOOLEAN
    BY DEF Init
  <2>3. PICK s \in Scenarios :
            refs = s.refs /\ asked = s.asked /\ todo = [o \in Pushes |-> Names(s.asked[o])]
    BY DEF Init
  <2>4. s.refs \subseteq Branches /\ s.asked \in [Pushes -> Updates]
    BY ScenarioAssumption
  <2>5. todo \in [Pushes -> SUBSET Branches]
    BY <2>3, <2>4 DEF Names, Updates
  <2> QED
    BY <2>1, <2>2, <2>3, <2>4, <2>5, PushAssumption DEF Init, TypeOK, Labels
<1> QED
  BY <1>1, TypeStep, PTL DEF Spec

(***************************************************************************)
(* Permission.                                                             *)
(***************************************************************************)
Permitted == \A o \in Executing : allowed

LEMMA PermittedStep == TypeOK /\ Permitted /\ [Next]_vars => Permitted'
<1> SUFFICES ASSUME TypeOK, Permitted, [Next]_vars PROVE Permitted'
  OBVIOUS
<1> USE DEF TypeOK, Permitted, Executing, Fenced
<1>0. CASE UNCHANGED vars
  BY <1>0
<1>1. CASE Withdraw
  BY <1>1 DEF Withdraw, Fenced
<1>2. CASE Fetch
  BY <1>2 DEF Fetch, JoinRecovery, Recovering
<1>3. CASE Crash
  BY <1>3 DEF Crash, NoRecovery, LeftOf, Pushing, Fault
<1>4. CASE Restart
  BY <1>4 DEF Restart, JoinRecovery, Recovering
<1>5. CASE PickDirectory
  BY <1>5 DEF PickDirectory
<1>6. CASE ReadReceipt
  BY <1>6 DEF ReadReceipt
<1>7. CASE ReplayReceipt
  BY <1>7 DEF ReplayReceipt, Recorded
<1>8. CASE RemoveReplayed
  BY <1>8 DEF RemoveReplayed, Unlinked
<1>9. CASE FinishReplayed
  BY <1>9 DEF FinishReplayed, Removed
<1>10. CASE RecoveryEnds
  BY <1>10 DEF RecoveryEnds, NoRecovery
<1>11. CASE RecoveryFails
  BY <1>11 DEF RecoveryFails, NoRecovery
<1>12. ASSUME NEW o \in Pushes, Arrive(o) PROVE Permitted'
  BY <1>12 DEF Arrive
<1>13. ASSUME NEW o \in Pushes, EnterFence(o) PROVE Permitted'
  BY <1>13 DEF EnterFence
<1>14. ASSUME NEW o \in Pushes, PoolTimeout(o) PROVE Permitted'
  BY <1>14 DEF PoolTimeout
<1>15. ASSUME NEW o \in Pushes, Admit(o) PROVE Permitted'
  BY <1>15 DEF Admit, JoinRecovery, Recovering
<1>16. ASSUME NEW o \in Pushes, MakeDirectory(o) PROVE Permitted'
  BY <1>16 DEF MakeDirectory
<1>17. ASSUME NEW o \in Pushes, WriteMarker(o) PROVE Permitted'
  BY <1>17 DEF WriteMarker
<1>18. ASSUME NEW o \in Pushes, MarkerFails(o) PROVE Permitted'
  BY <1>18 DEF MarkerFails
<1>19. ASSUME NEW o \in Pushes, PreReceive(o) PROVE Permitted'
  BY <1>19 DEF PreReceive
<1>20. ASSUME NEW o \in Pushes, NEW b \in Branches, MoveRef(o, b) PROVE Permitted'
  BY <1>20 DEF MoveRef, Fits
<1>21. ASSUME NEW o \in Pushes, OpenReceipt(o) PROVE Permitted'
  BY <1>21 DEF OpenReceipt
<1>22. ASSUME NEW o \in Pushes, PostReceive(o) PROVE Permitted'
  BY <1>22 DEF PostReceive
<1>23. ASSUME NEW o \in Pushes, ReceiptFails(o) PROVE Permitted'
  BY <1>23 DEF ReceiptFails, LeftOf
<1>24. ASSUME NEW o \in Pushes, RecordPush(o) PROVE Permitted'
  BY <1>24 DEF RecordPush, Recorded
<1>25. ASSUME NEW o \in Pushes, RecordFails(o) PROVE Permitted'
  BY <1>25 DEF RecordFails
<1>26. ASSUME NEW o \in Pushes, Killed(o) PROVE Permitted'
  BY <1>26 DEF Killed, Backed, LeftOf, Pushing
<1>27. ASSUME NEW o \in Pushes, Leave(o) PROVE Permitted'
  BY <1>27 DEF Leave
<1>28. ASSUME NEW o \in Pushes, CleanUp(o) PROVE Permitted'
  BY <1>28 DEF CleanUp, Unlinked
<1>29. ASSUME NEW o \in Pushes, FinishCleanUp(o) PROVE Permitted'
  BY <1>29 DEF FinishCleanUp, Removed
<1> QED
  BY <1>0, <1>1, <1>2, <1>3, <1>4, <1>5, <1>6, <1>7, <1>8, <1>9, <1>10, <1>11, <1>12,
     <1>13, <1>14, <1>15, <1>16, <1>17, <1>18, <1>19, <1>20, <1>21, <1>22, <1>23,
     <1>24, <1>25, <1>26, <1>27, <1>28, <1>29, Steps

(* Refs move only while credential, memberships and activity permit it: the
   fence keeps every change of them out until the request has ended. *)
THEOREM AuthorizedPushAlways == Spec => AuthorizedPush
<1>1. Init => Permitted
  BY DEF Init, Permitted, Executing, Fenced
<1>2. TypeOK /\ Permitted /\ [Next]_vars
      => [refs' # refs \/ moved' # moved => allowed]_vars
  <2> SUFFICES ASSUME TypeOK, Permitted, [Next]_vars, refs' # refs \/ moved' # moved
               PROVE  allowed
    OBVIOUS
  <2>1. PICK o \in Pushes, b \in Branches : MoveRef(o, b)
    BY Steps DEF Withdraw, Fetch, Crash, Restart, PickDirectory, ReadReceipt, ReplayReceipt,
       RemoveReplayed, FinishReplayed, RecoveryEnds, RecoveryFails, Arrive, EnterFence,
       PoolTimeout, Admit, MakeDirectory, WriteMarker, MarkerFails, PreReceive, OpenReceipt,
       PostReceive, ReceiptFails, RecordPush, RecordFails, Killed, Leave, CleanUp, FinishCleanUp
  <2> QED
    BY <2>1 DEF MoveRef, Permitted, Executing, Fenced
<1> QED
  BY <1>1, <1>2, TypeCorrect, PermittedStep, PTL DEF Spec, AuthorizedPush

(***************************************************************************)
(* Receipts.                                                               *)
(***************************************************************************)
Early == {"idle", "waiting", "fenced", "recovering", "prepared", "made", "spawned", "checked",
          "moved", "writing"}
WithBackend == {"made", "spawned", "checked", "moved", "writing", "received"}
Left == {"recorded", "ending", "removing", "done"}

(* Where the refs, the directory and the receipt of a push are, its request is. *)
Requests ==
    \A o \in Pushes :
        /\ pc[o] \in WithBackend => o \in running
        /\ directory[o] # "none" => pc[o] \in WithBackend \union Left
        /\ pc[o] \in WithBackend \ {"made"} => directory[o] = "marked"
        /\ o \in moved => pc[o] \in {"checked", "moved", "writing", "received"} \union Left
        /\ pc[o] \in {"moved", "writing"} => o \in moved
        /\ pc[o] \in Early => activity[o] = 0 /\ receipt[o] # "full" /\ o \notin cut
        /\ pc[o] = "recorded" => activity[o] = 1
        /\ pc[o] = "removing" => activity[o] = 1 \/ receipt[o] # "full"

(* The recovery looks at a request that has no backend. *)
LookedAt ==
    /\ \A o \in recovery.todo : pc[o] \in WithBackend \union Left
    /\ recovery.step \in {"read", "record", "remove", "removing"} => pc[recovery.at] \in Left
    /\ recovery.step = "record" => recovery.at \in moved \ cut
    /\ recovery.step \in {"remove", "removing"}
       => activity[recovery.at] = 1 \/ receipt[recovery.at] # "full"

Receipts ==
    \A o \in Pushes :
        receipt[o] = "full" => o \in moved \ cut /\ (directory[o] = "marked" \/ activity[o] = 1)

LEMMA RequestsStep ==
    TypeOK /\ Requests /\ LookedAt /\ Receipts /\ PushesAccounted /\ [Next]_vars => Requests'
<1> SUFFICES ASSUME TypeOK, Requests, LookedAt, Receipts, PushesAccounted, [Next]_vars
             PROVE  Requests'
  OBVIOUS
<1> USE PushAssumption DEF TypeOK, Recoveries, Labels, Requests, LookedAt, Early, WithBackend, Left
<1>0. CASE UNCHANGED vars
  BY <1>0
<1>1. CASE Withdraw
  BY <1>1 DEF Withdraw, Fenced
<1>2. CASE Fetch
  BY <1>2 DEF Fetch, JoinRecovery, Recovering
<1>3. CASE Crash
  BY <1>3 DEF Crash, NoRecovery, LeftOf, Pushing, Fault
<1>4. CASE Restart
  BY <1>4 DEF Restart, JoinRecovery, Recovering
<1>5. CASE PickDirectory
  BY <1>5 DEF PickDirectory
<1>6. CASE ReadReceipt
  BY <1>6 DEF ReadReceipt
<1>7. CASE ReplayReceipt
  BY <1>7 DEF ReplayReceipt, Recorded
<1>8. CASE RemoveReplayed
  BY <1>8 DEF RemoveReplayed, Unlinked
<1>9. CASE FinishReplayed
  BY <1>9 DEF FinishReplayed, Removed
<1>10. CASE RecoveryEnds
  BY <1>10 DEF RecoveryEnds, NoRecovery
<1>11. CASE RecoveryFails
  BY <1>11 DEF RecoveryFails, NoRecovery
<1>12. ASSUME NEW o \in Pushes, Arrive(o) PROVE Requests'
  BY <1>12 DEF Arrive
<1>13. ASSUME NEW o \in Pushes, EnterFence(o) PROVE Requests'
  BY <1>13 DEF EnterFence
<1>14. ASSUME NEW o \in Pushes, PoolTimeout(o) PROVE Requests'
  BY <1>14 DEF PoolTimeout
<1>15. ASSUME NEW o \in Pushes, Admit(o) PROVE Requests'
  BY <1>15 DEF Admit, JoinRecovery, Recovering
<1>16. ASSUME NEW o \in Pushes, MakeDirectory(o) PROVE Requests'
  BY <1>16 DEF MakeDirectory
<1>17. ASSUME NEW o \in Pushes, WriteMarker(o) PROVE Requests'
  BY <1>17 DEF WriteMarker
<1>18. ASSUME NEW o \in Pushes, MarkerFails(o) PROVE Requests'
  BY <1>18 DEF MarkerFails
<1>19. ASSUME NEW o \in Pushes, PreReceive(o) PROVE Requests'
  BY <1>19 DEF PreReceive
<1>20. ASSUME NEW o \in Pushes, NEW b \in Branches, MoveRef(o, b) PROVE Requests'
  BY <1>20 DEF MoveRef, Fits
<1>21. ASSUME NEW o \in Pushes, OpenReceipt(o) PROVE Requests'
  BY <1>21 DEF OpenReceipt
<1>22. ASSUME NEW o \in Pushes, PostReceive(o) PROVE Requests'
  BY <1>22 DEF PostReceive
<1>23. ASSUME NEW o \in Pushes, ReceiptFails(o) PROVE Requests'
  BY <1>23 DEF ReceiptFails, LeftOf
<1>24. ASSUME NEW o \in Pushes, RecordPush(o) PROVE Requests'
  BY <1>24 DEF RecordPush, Recorded
<1>25. ASSUME NEW o \in Pushes, RecordFails(o) PROVE Requests'
  BY <1>25 DEF RecordFails
<1>26. ASSUME NEW o \in Pushes, Killed(o) PROVE Requests'
  BY <1>26 DEF Killed, Backed, LeftOf, Pushing
<1>27. ASSUME NEW o \in Pushes, Leave(o) PROVE Requests'
  BY <1>27 DEF Leave
<1>28. ASSUME NEW o \in Pushes, CleanUp(o) PROVE Requests'
  BY <1>28 DEF CleanUp, Unlinked
<1>29. ASSUME NEW o \in Pushes, FinishCleanUp(o) PROVE Requests'
  BY <1>29 DEF FinishCleanUp, Removed
<1> QED
  BY <1>0, <1>1, <1>2, <1>3, <1>4, <1>5, <1>6, <1>7, <1>8, <1>9, <1>10, <1>11, <1>12,
     <1>13, <1>14, <1>15, <1>16, <1>17, <1>18, <1>19, <1>20, <1>21, <1>22, <1>23,
     <1>24, <1>25, <1>26, <1>27, <1>28, <1>29, Steps

LEMMA LookedAtStep ==
    TypeOK /\ Requests /\ LookedAt /\ Receipts /\ [Next]_vars => LookedAt'
<1> SUFFICES ASSUME TypeOK, Requests, LookedAt, Receipts, [Next]_vars PROVE LookedAt'
  OBVIOUS
<1> USE PushAssumption DEF TypeOK, Recoveries, Requests, LookedAt, Receipts, Early, WithBackend, Left
<1>0. CASE UNCHANGED vars
  BY <1>0
<1>1. CASE Withdraw
  BY <1>1 DEF Withdraw, Fenced
<1>2. CASE Fetch
  BY <1>2 DEF Fetch, JoinRecovery, Recovering
<1>3. CASE Crash
  BY <1>3 DEF Crash, NoRecovery, LeftOf, Pushing, Fault
<1>4. CASE Restart
  BY <1>4 DEF Restart, JoinRecovery, Recovering
<1>5. CASE PickDirectory
  BY <1>5 DEF PickDirectory
<1>6. CASE ReadReceipt
  BY <1>6 DEF ReadReceipt
<1>7. CASE ReplayReceipt
  BY <1>7 DEF ReplayReceipt, Recorded
<1>8. CASE RemoveReplayed
  BY <1>8 DEF RemoveReplayed, Unlinked
<1>9. CASE FinishReplayed
  BY <1>9 DEF FinishReplayed, Removed
<1>10. CASE RecoveryEnds
  BY <1>10 DEF RecoveryEnds, NoRecovery
<1>11. CASE RecoveryFails
  BY <1>11 DEF RecoveryFails, NoRecovery
<1>12. ASSUME NEW o \in Pushes, Arrive(o) PROVE LookedAt'
  BY <1>12 DEF Arrive
<1>13. ASSUME NEW o \in Pushes, EnterFence(o) PROVE LookedAt'
  BY <1>13 DEF EnterFence
<1>14. ASSUME NEW o \in Pushes, PoolTimeout(o) PROVE LookedAt'
  BY <1>14 DEF PoolTimeout
<1>15. ASSUME NEW o \in Pushes, Admit(o) PROVE LookedAt'
  BY <1>15 DEF Admit, JoinRecovery, Recovering
<1>16. ASSUME NEW o \in Pushes, MakeDirectory(o) PROVE LookedAt'
  BY <1>16 DEF MakeDirectory
<1>17. ASSUME NEW o \in Pushes, WriteMarker(o) PROVE LookedAt'
  BY <1>17 DEF WriteMarker
<1>18. ASSUME NEW o \in Pushes, MarkerFails(o) PROVE LookedAt'
  BY <1>18 DEF MarkerFails
<1>19. ASSUME NEW o \in Pushes, PreReceive(o) PROVE LookedAt'
  BY <1>19 DEF PreReceive
<1>20. ASSUME NEW o \in Pushes, NEW b \in Branches, MoveRef(o, b) PROVE LookedAt'
  BY <1>20 DEF MoveRef, Fits
<1>21. ASSUME NEW o \in Pushes, OpenReceipt(o) PROVE LookedAt'
  BY <1>21 DEF OpenReceipt
<1>22. ASSUME NEW o \in Pushes, PostReceive(o) PROVE LookedAt'
  BY <1>22 DEF PostReceive
<1>23. ASSUME NEW o \in Pushes, ReceiptFails(o) PROVE LookedAt'
  BY <1>23 DEF ReceiptFails, LeftOf
<1>24. ASSUME NEW o \in Pushes, RecordPush(o) PROVE LookedAt'
  BY <1>24 DEF RecordPush, Recorded
<1>25. ASSUME NEW o \in Pushes, RecordFails(o) PROVE LookedAt'
  BY <1>25 DEF RecordFails
<1>26. ASSUME NEW o \in Pushes, Killed(o) PROVE LookedAt'
  BY <1>26 DEF Killed, Backed, LeftOf, Pushing
<1>27. ASSUME NEW o \in Pushes, Leave(o) PROVE LookedAt'
  BY <1>27 DEF Leave
<1>28. ASSUME NEW o \in Pushes, CleanUp(o) PROVE LookedAt'
  BY <1>28 DEF CleanUp, Unlinked
<1>29. ASSUME NEW o \in Pushes, FinishCleanUp(o) PROVE LookedAt'
  BY <1>29 DEF FinishCleanUp, Removed
<1> QED
  BY <1>0, <1>1, <1>2, <1>3, <1>4, <1>5, <1>6, <1>7, <1>8, <1>9, <1>10, <1>11, <1>12,
     <1>13, <1>14, <1>15, <1>16, <1>17, <1>18, <1>19, <1>20, <1>21, <1>22, <1>23,
     <1>24, <1>25, <1>26, <1>27, <1>28, <1>29, Steps

LEMMA ReceiptsStep ==
    TypeOK /\ Requests /\ LookedAt /\ Receipts /\ [Next]_vars => Receipts'
<1> SUFFICES ASSUME TypeOK, Requests, LookedAt, Receipts, [Next]_vars PROVE Receipts'
  OBVIOUS
<1> USE PushAssumption DEF TypeOK, Recoveries, Requests, LookedAt, Receipts, Early, WithBackend, Left
<1>0. CASE UNCHANGED vars
  BY <1>0
<1>1. CASE Withdraw
  BY <1>1 DEF Withdraw, Fenced
<1>2. CASE Fetch
  BY <1>2 DEF Fetch, JoinRecovery, Recovering
<1>3. CASE Crash
  BY <1>3 DEF Crash, NoRecovery, LeftOf, Pushing, Fault
<1>4. CASE Restart
  BY <1>4 DEF Restart, JoinRecovery, Recovering
<1>5. CASE PickDirectory
  BY <1>5 DEF PickDirectory
<1>6. CASE ReadReceipt
  BY <1>6 DEF ReadReceipt
<1>7. CASE ReplayReceipt
  BY <1>7 DEF ReplayReceipt, Recorded
<1>8. CASE RemoveReplayed
  BY <1>8 DEF RemoveReplayed, Unlinked
<1>9. CASE FinishReplayed
  BY <1>9 DEF FinishReplayed, Removed
<1>10. CASE RecoveryEnds
  BY <1>10 DEF RecoveryEnds, NoRecovery
<1>11. CASE RecoveryFails
  BY <1>11 DEF RecoveryFails, NoRecovery
<1>12. ASSUME NEW o \in Pushes, Arrive(o) PROVE Receipts'
  BY <1>12 DEF Arrive
<1>13. ASSUME NEW o \in Pushes, EnterFence(o) PROVE Receipts'
  BY <1>13 DEF EnterFence
<1>14. ASSUME NEW o \in Pushes, PoolTimeout(o) PROVE Receipts'
  BY <1>14 DEF PoolTimeout
<1>15. ASSUME NEW o \in Pushes, Admit(o) PROVE Receipts'
  BY <1>15 DEF Admit, JoinRecovery, Recovering
<1>16. ASSUME NEW o \in Pushes, MakeDirectory(o) PROVE Receipts'
  BY <1>16 DEF MakeDirectory
<1>17. ASSUME NEW o \in Pushes, WriteMarker(o) PROVE Receipts'
  BY <1>17 DEF WriteMarker
<1>18. ASSUME NEW o \in Pushes, MarkerFails(o) PROVE Receipts'
  BY <1>18 DEF MarkerFails
<1>19. ASSUME NEW o \in Pushes, PreReceive(o) PROVE Receipts'
  BY <1>19 DEF PreReceive
<1>20. ASSUME NEW o \in Pushes, NEW b \in Branches, MoveRef(o, b) PROVE Receipts'
  BY <1>20 DEF MoveRef, Fits
<1>21. ASSUME NEW o \in Pushes, OpenReceipt(o) PROVE Receipts'
  BY <1>21 DEF OpenReceipt
<1>22. ASSUME NEW o \in Pushes, PostReceive(o) PROVE Receipts'
  BY <1>22 DEF PostReceive
<1>23. ASSUME NEW o \in Pushes, ReceiptFails(o) PROVE Receipts'
  BY <1>23 DEF ReceiptFails, LeftOf
<1>24. ASSUME NEW o \in Pushes, RecordPush(o) PROVE Receipts'
  BY <1>24 DEF RecordPush, Recorded
<1>25. ASSUME NEW o \in Pushes, RecordFails(o) PROVE Receipts'
  BY <1>25 DEF RecordFails
<1>26. ASSUME NEW o \in Pushes, Killed(o) PROVE Receipts'
  BY <1>26 DEF Killed, Backed, LeftOf, Pushing
<1>27. ASSUME NEW o \in Pushes, Leave(o) PROVE Receipts'
  BY <1>27 DEF Leave
<1>28. ASSUME NEW o \in Pushes, CleanUp(o) PROVE Receipts'
  BY <1>28 DEF CleanUp, Unlinked
<1>29. ASSUME NEW o \in Pushes, FinishCleanUp(o) PROVE Receipts'
  BY <1>29 DEF FinishCleanUp, Removed
<1> QED
  BY <1>0, <1>1, <1>2, <1>3, <1>4, <1>5, <1>6, <1>7, <1>8, <1>9, <1>10, <1>11, <1>12,
     <1>13, <1>14, <1>15, <1>16, <1>17, <1>18, <1>19, <1>20, <1>21, <1>22, <1>23,
     <1>24, <1>25, <1>26, <1>27, <1>28, <1>29, Steps

LEMMA AccountedStep ==
    TypeOK /\ Requests /\ LookedAt /\ Receipts /\ PushesAccounted /\ [Next]_vars
    => PushesAccounted'
<1> SUFFICES ASSUME TypeOK, Requests, LookedAt, Receipts, PushesAccounted, [Next]_vars
             PROVE  PushesAccounted'
  OBVIOUS
<1> USE PushAssumption DEF TypeOK, Recoveries, Requests, LookedAt, Receipts, Early, WithBackend,
                           Left, PushesAccounted, RecordedOnce, ReceiptKept, Pushing
<1>0. CASE UNCHANGED vars
  BY <1>0
<1>1. CASE Withdraw
  BY <1>1 DEF Withdraw, Fenced
<1>2. CASE Fetch
  BY <1>2 DEF Fetch, JoinRecovery, Recovering
<1>3. CASE Crash
  BY <1>3 DEF Crash, NoRecovery, LeftOf, Pushing, Fault
<1>4. CASE Restart
  BY <1>4 DEF Restart, JoinRecovery, Recovering
<1>5. CASE PickDirectory
  BY <1>5 DEF PickDirectory
<1>6. CASE ReadReceipt
  BY <1>6 DEF ReadReceipt
<1>7. CASE ReplayReceipt
  BY <1>7 DEF ReplayReceipt, Recorded
<1>8. CASE RemoveReplayed
  BY <1>8 DEF RemoveReplayed, Unlinked
<1>9. CASE FinishReplayed
  BY <1>9 DEF FinishReplayed, Removed
<1>10. CASE RecoveryEnds
  BY <1>10 DEF RecoveryEnds, NoRecovery
<1>11. CASE RecoveryFails
  BY <1>11 DEF RecoveryFails, NoRecovery
<1>12. ASSUME NEW o \in Pushes, Arrive(o) PROVE PushesAccounted'
  BY <1>12 DEF Arrive
<1>13. ASSUME NEW o \in Pushes, EnterFence(o) PROVE PushesAccounted'
  BY <1>13 DEF EnterFence
<1>14. ASSUME NEW o \in Pushes, PoolTimeout(o) PROVE PushesAccounted'
  BY <1>14 DEF PoolTimeout
<1>15. ASSUME NEW o \in Pushes, Admit(o) PROVE PushesAccounted'
  BY <1>15 DEF Admit, JoinRecovery, Recovering
<1>16. ASSUME NEW o \in Pushes, MakeDirectory(o) PROVE PushesAccounted'
  BY <1>16 DEF MakeDirectory
<1>17. ASSUME NEW o \in Pushes, WriteMarker(o) PROVE PushesAccounted'
  BY <1>17 DEF WriteMarker
<1>18. ASSUME NEW o \in Pushes, MarkerFails(o) PROVE PushesAccounted'
  BY <1>18 DEF MarkerFails
<1>19. ASSUME NEW o \in Pushes, PreReceive(o) PROVE PushesAccounted'
  BY <1>19 DEF PreReceive
<1>20. ASSUME NEW o \in Pushes, NEW b \in Branches, MoveRef(o, b) PROVE PushesAccounted'
  BY <1>20 DEF MoveRef, Fits
<1>21. ASSUME NEW o \in Pushes, OpenReceipt(o) PROVE PushesAccounted'
  BY <1>21 DEF OpenReceipt
<1>22. ASSUME NEW o \in Pushes, PostReceive(o) PROVE PushesAccounted'
  BY <1>22 DEF PostReceive
<1>23. ASSUME NEW o \in Pushes, ReceiptFails(o) PROVE PushesAccounted'
  BY <1>23 DEF ReceiptFails, LeftOf
<1>24. ASSUME NEW o \in Pushes, RecordPush(o) PROVE PushesAccounted'
  BY <1>24 DEF RecordPush, Recorded
<1>25. ASSUME NEW o \in Pushes, RecordFails(o) PROVE PushesAccounted'
  BY <1>25 DEF RecordFails
<1>26. ASSUME NEW o \in Pushes, Killed(o) PROVE PushesAccounted'
  BY <1>26 DEF Killed, Backed, LeftOf, Pushing
<1>27. ASSUME NEW o \in Pushes, Leave(o) PROVE PushesAccounted'
  BY <1>27 DEF Leave
<1>28. ASSUME NEW o \in Pushes, CleanUp(o) PROVE PushesAccounted'
  BY <1>28 DEF CleanUp, Unlinked
<1>29. ASSUME NEW o \in Pushes, FinishCleanUp(o) PROVE PushesAccounted'
  BY <1>29 DEF FinishCleanUp, Removed
<1> QED
  BY <1>0, <1>1, <1>2, <1>3, <1>4, <1>5, <1>6, <1>7, <1>8, <1>9, <1>10, <1>11, <1>12,
     <1>13, <1>14, <1>15, <1>16, <1>17, <1>18, <1>19, <1>20, <1>21, <1>22, <1>23,
     <1>24, <1>25, <1>26, <1>27, <1>28, <1>29, Steps

(* Between refs, receipt and activity nothing is doubled, and nothing is lost
   once the receipt is whole, wherever kills, crashes and failed writes fall. *)
THEOREM PushesAccountedAlways == Spec => []PushesAccounted
<1> DEFINE I == TypeOK /\ Requests /\ LookedAt /\ Receipts /\ PushesAccounted
<1>1. Init => Requests /\ LookedAt /\ Receipts /\ PushesAccounted
  BY DEF Init, Requests, LookedAt, Receipts, Early, WithBackend, Left, PushesAccounted,
     RecordedOnce, ReceiptKept
<1>2. I /\ [Next]_vars => I'
  BY TypeStep, RequestsStep, LookedAtStep, ReceiptsStep, AccountedStep
<1> QED
  BY <1>1, <1>2, TypeCorrect, PTL DEF Spec

(***************************************************************************)
(* The limit of branches.                                                  *)
(***************************************************************************)
LEMMA Fewer ==
    ASSUME NEW S, NEW T, IsFiniteSet(S), T \subseteq S
    PROVE  IsFiniteSet(T) /\ Cardinality(T) <= Cardinality(S)
           /\ Cardinality(S) \in Nat /\ Cardinality(T) \in Nat
  BY FS_Subset, FS_CardinalityType

LEMMA OneMore ==
    ASSUME NEW S, NEW x, IsFiniteSet(S)
    PROVE  /\ IsFiniteSet(S \union {x}) /\ Cardinality(S) \in Nat
           /\ x \notin S => Cardinality(S \union {x}) = Cardinality(S) + 1
  BY FS_AddElement, FS_CardinalityType

LEMMA Together ==
    ASSUME NEW S, NEW T, IsFiniteSet(S), IsFiniteSet(T)
    PROVE  /\ IsFiniteSet(S \union T)
           /\ Cardinality(S) \in Nat /\ Cardinality(T) \in Nat
           /\ Cardinality(S \union T) \in Nat
           /\ Cardinality(S \union T) <= Cardinality(S) + Cardinality(T)
<1>1. IsFiniteSet(S \intersect T)
  BY FS_Intersection
<1>2. Cardinality(S \union T) = Cardinality(S) + Cardinality(T) - Cardinality(S \intersect T)
  BY FS_Union
<1>3. IsFiniteSet(S \union T)
  BY FS_Union
<1>4. /\ Cardinality(S) \in Nat /\ Cardinality(T) \in Nat
      /\ Cardinality(S \intersect T) \in Nat /\ Cardinality(S \union T) \in Nat
  BY <1>1, <1>3, FS_CardinalityType
<1> QED
  BY <1>2, <1>3, <1>4

(* The elements of a finite set can be numbered. *)
LEMMA Numbered ==
    ASSUME NEW S, NEW u \in Nat, IsFiniteSet(S), Cardinality(S) <= u
    PROVE  \E g \in [S -> 1..u] : \A x, y \in S : g[x] = g[y] => x = y
<1>1. Cardinality(S) \in Nat /\ ExistsBijection(1..Cardinality(S), S)
  BY FS_CardinalityType
<1>2. ExistsSurjection(1..Cardinality(S), S)
  BY <1>1 DEF ExistsBijection, ExistsSurjection, Bijection
<1>3. ExistsInjection(S, 1..Cardinality(S))
  BY <1>2, Fun_ExistsSurjMeansExistsRevInj
<1>4. PICK g \in Injection(S, 1..Cardinality(S)) : TRUE
  BY <1>3 DEF ExistsInjection
<1>5. g \in [S -> 1..Cardinality(S)] /\ \A x, y \in S : g[x] = g[y] => x = y
  BY <1>4 DEF Injection, IsInjective
<1>6. g \in [S -> 1..u]
  BY <1>1, <1>5
<1> QED
  BY <1>5, <1>6

(* Sets of at most u elements have, together, at most u for each of them: each
   element goes with a set it is in and its number there. *)
LEMMA Gathered ==
    ASSUME NEW K, NEW F, NEW u \in Nat, IsFiniteSet(K),
           \A k \in K : IsFiniteSet(F[k]) /\ Cardinality(F[k]) <= u
    PROVE  LET Z == UNION {F[k] : k \in K}
           IN  IsFiniteSet(Z) /\ Cardinality(Z) <= Cardinality(K) * u
<1> DEFINE Z == UNION {F[k] : k \in K}
           Numbering(k, g) == g \in [F[k] -> 1..u] /\ \A x, y \in F[k] : g[x] = g[y] => x = y
           of == [z \in Z |-> CHOOSE k \in K : z \in F[k]]
           num == [k \in K |-> CHOOSE g : Numbering(k, g)]
           place == [z \in Z |-> <<of[z], num[of[z]][z]>>]
<1>1. \A z \in Z : of[z] \in K /\ z \in F[of[z]]
  OBVIOUS
<1>2. \A k \in K : Numbering(k, num[k])
  <2> TAKE k \in K
  <2>1. \E g : Numbering(k, g)
    BY Numbered
  <2> HIDE DEF Numbering
  <2> QED
    BY <2>1
<1>a. /\ \A k \in K : \A z \in F[k] : num[k][z] \in 1..u
      /\ \A k \in K : \A x, y \in F[k] : num[k][x] = num[k][y] => x = y
  <2> HIDE DEF num
  <2> QED
    BY <1>2
<1> HIDE DEF Z, of, num, Numbering
<1>3. place \in [Z -> K \X (1..u)]
  BY <1>1, <1>a
<1>4. \A x, y \in Z : place[x] = place[y] => x = y
  BY <1>1, <1>a
<1> HIDE DEF place
<1>5. place \in Injection(Z, K \X (1..u))
  BY <1>3, <1>4, Fun_IsInj
<1>6. IsFiniteSet(1..u) /\ Cardinality(1..u) = u
  BY FS_Interval
<1>7. IsFiniteSet(K \X (1..u)) /\ Cardinality(K \X (1..u)) = Cardinality(K) * u
  BY <1>6, FS_Product
<1>8. IsFiniteSet(Z) /\ Cardinality(Z) <= Cardinality(K) * u
  BY <1>5, <1>7, FS_Injection
<1> QED
  BY <1>8 DEF Z

Checked == {o \in Pushes : pc[o] = "checked"}

(* The branches there are and those that may still come to be. *)
Pending(K) == UNION {todo[o] \intersect asked[o].create : o \in K}
Future == refs \union Pending(Checked)
Most == MaxBranches + (MaxConcurrent - 1) * MaxUpdates + (MaxUpdates - 1)

Slots ==
    /\ IsFiniteSet(Executing) /\ Cardinality(Executing) <= MaxConcurrent
    /\ Cardinality(Future) <= Most
    /\ \A o \in Pushes :
           Cardinality(asked[o].create) + Cardinality(asked[o].delete) <= MaxUpdates

LEMMA MostType == Most \in Nat /\ (MaxConcurrent - 1) * MaxUpdates \in Nat
<1>1. \A m, n \in Nat : m * n \in Nat
  OBVIOUS
<1>2. MaxConcurrent - 1 \in Nat /\ MaxUpdates - 1 \in Nat /\ MaxUpdates \in Nat
      /\ MaxBranches \in Nat
  BY PushAssumption
<1>3. (MaxConcurrent - 1) * MaxUpdates \in Nat
  BY <1>1, <1>2
<1> QED
  BY <1>2, <1>3 DEF Most

LEMMA Bounded ==
    ASSUME NEW S, S \subseteq Branches
    PROVE  IsFiniteSet(S) /\ Cardinality(S) \in Nat
  BY Fewer, ScenarioAssumption

(* A step that moves no ref and lets nobody pass the hook or into a slot. *)
LEMMA Quieter ==
    ASSUME TypeOK, Slots, Future' \subseteq Future, Executing' \subseteq Executing, asked' = asked
    PROVE  Slots'
<1>1. Future \subseteq Branches
  BY DEF Future, Pending, Checked, TypeOK
<1>2. /\ IsFiniteSet(Executing') /\ Cardinality(Executing') <= Cardinality(Executing)
      /\ Cardinality(Executing') \in Nat /\ Cardinality(Executing) \in Nat
  BY Fewer DEF Slots
<1>3. /\ Cardinality(Future') <= Cardinality(Future)
      /\ Cardinality(Future') \in Nat /\ Cardinality(Future) \in Nat
  BY <1>1, Bounded, Fewer
<1> QED
  BY <1>2, <1>3, MostType, PushAssumption DEF Slots, Most

(* What a push that passes the hook adds: with what is there it stays within
   the limit, but for the branches it deletes. *)
LEMMA Passing ==
    ASSUME TypeOK, Slots, NEW o \in Pushes, pc[o] = "spawned", WithinLimit(o)
    PROVE  Cardinality(refs \union Pending(Checked \union {o})) <= Most
<1> DEFINE C == asked[o].create
           D == asked[o].delete
           Others == Pending(Checked)
           created == [p \in Pushes |-> todo[p] \intersect asked[p].create]
<1>0. /\ C \subseteq Branches /\ D \subseteq Branches /\ refs \subseteq Branches
      /\ asked[o].forward \subseteq Branches
  BY DEF TypeOK, Updates
<1>1. CASE C = {}
  <2>1. refs \union Pending(Checked \union {o}) = Future
    BY <1>1 DEF Future, Pending
  <2> QED
    BY <2>1 DEF Slots
<1>2. CASE C # {}
  <2>1. Cardinality(C) \in Nat /\ Cardinality(D) \in Nat /\ Cardinality(C) # 0
    BY <1>0, <1>2, Bounded, FS_EmptySet
  <2>2. Cardinality(D) <= MaxUpdates - 1
    BY <2>1, PushAssumption DEF Slots
  <2>3. Cardinality(refs \union C) <= MaxBranches + Cardinality(D)
    <3> DEFINE Final == (refs \ D) \union C \union asked[o].forward
    <3>1. Final \subseteq Branches /\ refs \union C \subseteq Final \union D
      BY <1>0
    <3>2. Cardinality(Final) <= MaxBranches
      BY DEF WithinLimit
    <3> HIDE DEF Final
    <3>3. /\ IsFiniteSet(Final) /\ IsFiniteSet(D) /\ IsFiniteSet(Final \union D)
          /\ Cardinality(Final \union D) <= Cardinality(Final) + Cardinality(D)
          /\ Cardinality(Final) \in Nat /\ Cardinality(Final \union D) \in Nat
      BY <1>0, <3>1, Bounded, Together
    <3>4. /\ Cardinality(refs \union C) <= Cardinality(Final \union D)
          /\ Cardinality(refs \union C) \in Nat
      BY <3>1, <3>3, Fewer
    <3> QED
      BY <2>1, <3>2, <3>3, <3>4, PushAssumption
  <2>4. IsFiniteSet(Checked) /\ Cardinality(Checked) <= MaxConcurrent - 1
        /\ Cardinality(Checked) \in Nat
    <3>1. Checked \union {o} \subseteq Executing /\ o \notin Checked
      BY DEF Checked, Executing, Fenced
    <3>2. /\ IsFiniteSet(Checked \union {o})
          /\ Cardinality(Checked \union {o}) <= Cardinality(Executing)
          /\ Cardinality(Executing) \in Nat /\ Cardinality(Checked \union {o}) \in Nat
      BY <3>1, Fewer DEF Slots
    <3>3. IsFiniteSet(Checked) /\ Cardinality(Checked) \in Nat
      BY <3>2, Fewer
    <3>4. Cardinality(Checked \union {o}) = Cardinality(Checked) + 1
      BY <3>1, <3>3, OneMore
    <3> QED
      BY <3>2, <3>3, <3>4, PushAssumption DEF Slots
  <2>5. \A p \in Checked : IsFiniteSet(created[p]) /\ Cardinality(created[p]) <= MaxUpdates
    <3> TAKE p \in Checked
    <3>1. p \in Pushes /\ created[p] \subseteq asked[p].create
      BY DEF Checked
    <3>2. asked[p].create \subseteq Branches /\ asked[p].delete \subseteq Branches
      BY <3>1 DEF TypeOK, Updates
    <3> HIDE DEF created
    <3>3. /\ IsFiniteSet(asked[p].create) /\ Cardinality(asked[p].create) \in Nat
          /\ Cardinality(asked[p].delete) \in Nat
      BY <3>2, Bounded
    <3>4. IsFiniteSet(created[p]) /\ Cardinality(created[p]) <= Cardinality(asked[p].create)
          /\ Cardinality(created[p]) \in Nat
      BY <3>1, <3>3, Fewer
    <3> QED
      BY <3>1, <3>3, <3>4, PushAssumption DEF Slots
  <2>6. IsFiniteSet(Others) /\ Cardinality(Others) <= Cardinality(Checked) * MaxUpdates
    <3>1. Others = UNION {created[p] : p \in Checked}
      BY DEF Pending, Checked
    <3> HIDE DEF created, Others
    <3> QED
      BY <2>4, <2>5, <3>1, Gathered, PushAssumption
  <2>7. Cardinality(Checked) * MaxUpdates <= (MaxConcurrent - 1) * MaxUpdates
        /\ Cardinality(Checked) * MaxUpdates \in Nat
    <3>1. \A k, n, u \in Nat : k <= n => k * u <= n * u /\ k * u \in Nat
      OBVIOUS
    <3> QED
      BY <2>4, <3>1, PushAssumption
  <2>8. refs \union Pending(Checked \union {o}) \subseteq (refs \union C) \union Others
    BY DEF Pending
  <2> HIDE DEF C, D, Others
  <2>9. /\ IsFiniteSet(refs \union C) /\ Cardinality(refs \union C) \in Nat
        /\ IsFiniteSet((refs \union C) \union Others)
        /\ Cardinality((refs \union C) \union Others)
           <= Cardinality(refs \union C) + Cardinality(Others)
        /\ Cardinality(Others) \in Nat
    <3>1. refs \union C \subseteq Branches
      BY <1>0
    <3>2. IsFiniteSet(refs \union C)
      BY <3>1, Bounded
    <3> QED
      BY <2>6, <3>2, Together
  <2>10. /\ Cardinality(refs \union Pending(Checked \union {o}))
            <= Cardinality((refs \union C) \union Others)
         /\ Cardinality(refs \union Pending(Checked \union {o})) \in Nat
         /\ Cardinality((refs \union C) \union Others) \in Nat
    BY <2>8, <2>9, Fewer
  <2> QED
    BY <2>1, <2>2, <2>3, <2>6, <2>7, <2>9, <2>10, MostType, PushAssumption DEF Most
<1> QED
  BY <1>1, <1>2

LEMMA SlotsStep == TypeOK /\ Slots /\ [Next]_vars => Slots'
<1> SUFFICES ASSUME TypeOK, Slots, [Next]_vars PROVE Slots'
  OBVIOUS
<1> DEFINE Quiet == /\ refs' = refs /\ todo' = todo /\ asked' = asked
                    /\ Executing' \subseteq Executing /\ Checked' \subseteq Checked
<1>q. Quiet => Slots'
  <2> SUFFICES ASSUME Quiet PROVE Slots'
    OBVIOUS
  <2>1. Future' \subseteq Future
    BY DEF Future, Pending
  <2> QED
    BY <2>1, Quieter
<1> USE DEF TypeOK, Executing, Fenced, Checked
<1>0. CASE UNCHANGED vars
  <2>1. Quiet
    BY <1>0
  <2> QED
    BY <1>q, <2>1
<1>1. CASE Withdraw
  <2>1. Quiet
    BY <1>1 DEF Withdraw, Fenced
  <2> QED
    BY <1>q, <2>1
<1>2. CASE Fetch
  <2>1. Quiet
    BY <1>2 DEF Fetch, JoinRecovery, Recovering
  <2> QED
    BY <1>q, <2>1
<1>3. CASE Crash
  <2>1. Quiet
    BY <1>3 DEF Crash, NoRecovery, LeftOf, Pushing, Fault
  <2> QED
    BY <1>q, <2>1
<1>4. CASE Restart
  <2>1. Quiet
    BY <1>4 DEF Restart, JoinRecovery, Recovering
  <2> QED
    BY <1>q, <2>1
<1>5. CASE PickDirectory
  <2>1. Quiet
    BY <1>5 DEF PickDirectory
  <2> QED
    BY <1>q, <2>1
<1>6. CASE ReadReceipt
  <2>1. Quiet
    BY <1>6 DEF ReadReceipt
  <2> QED
    BY <1>q, <2>1
<1>7. CASE ReplayReceipt
  <2>1. Quiet
    BY <1>7 DEF ReplayReceipt, Recorded
  <2> QED
    BY <1>q, <2>1
<1>8. CASE RemoveReplayed
  <2>1. Quiet
    BY <1>8 DEF RemoveReplayed, Unlinked
  <2> QED
    BY <1>q, <2>1
<1>9. CASE FinishReplayed
  <2>1. Quiet
    BY <1>9 DEF FinishReplayed, Removed
  <2> QED
    BY <1>q, <2>1
<1>10. CASE RecoveryEnds
  <2>1. Quiet
    BY <1>10 DEF RecoveryEnds, NoRecovery
  <2> QED
    BY <1>q, <2>1
<1>11. CASE RecoveryFails
  <2>1. Quiet
    BY <1>11 DEF RecoveryFails, NoRecovery
  <2> QED
    BY <1>q, <2>1
<1>12. ASSUME NEW o \in Pushes, Arrive(o) PROVE Slots'
  <2>1. Quiet
    BY <1>12 DEF Arrive
  <2> QED
    BY <1>q, <2>1
<1>13. ASSUME NEW o \in Pushes, EnterFence(o) PROVE Slots'
  <2>1. Quiet
    BY <1>13 DEF EnterFence
  <2> QED
    BY <1>q, <2>1
<1>14. ASSUME NEW o \in Pushes, PoolTimeout(o) PROVE Slots'
  <2>1. Quiet
    BY <1>14 DEF PoolTimeout
  <2> QED
    BY <1>q, <2>1
<1>15. ASSUME NEW o \in Pushes, Admit(o) PROVE Slots'
  <2>1. CASE pc'[o] = "done"
    <3>1. Quiet
      BY <1>15, <2>1 DEF Admit
    <3> QED
      BY <1>q, <3>1
  <2>2. CASE pc'[o] # "done"
    <3>1. /\ Cardinality(Executing) + (IF fetching THEN 1 ELSE 0) < MaxConcurrent
          /\ Executing' = Executing \union {o} /\ o \notin Executing
          /\ Checked' = Checked /\ refs' = refs /\ todo' = todo /\ asked' = asked
      BY <1>15, <2>2 DEF Admit
    <3> HIDE DEF Executing, Checked, TypeOK
    <3>2. IsFiniteSet(Executing)
      BY DEF Slots
    <3>3. /\ IsFiniteSet(Executing') /\ Cardinality(Executing) \in Nat
          /\ Cardinality(Executing') = Cardinality(Executing) + 1
      BY <3>1, <3>2, OneMore
    <3>4. IsFiniteSet(Executing') /\ Cardinality(Executing') <= MaxConcurrent
      BY <3>1, <3>3, PushAssumption
    <3>5. Future' = Future
      BY <3>1 DEF Future, Pending
    <3> QED
      BY <3>1, <3>4, <3>5 DEF Slots, Most
  <2> QED
    BY <2>1, <2>2
<1>16. ASSUME NEW o \in Pushes, MakeDirectory(o) PROVE Slots'
  <2>1. Quiet
    BY <1>16 DEF MakeDirectory
  <2> QED
    BY <1>q, <2>1
<1>17. ASSUME NEW o \in Pushes, WriteMarker(o) PROVE Slots'
  <2>1. Quiet
    BY <1>17 DEF WriteMarker
  <2> QED
    BY <1>q, <2>1
<1>18. ASSUME NEW o \in Pushes, MarkerFails(o) PROVE Slots'
  <2>1. Quiet
    BY <1>18 DEF MarkerFails
  <2> QED
    BY <1>q, <2>1
<1>19. ASSUME NEW o \in Pushes, PreReceive(o) PROVE Slots'
  <2>1. CASE ~WithinLimit(o)
    <3>1. Quiet
      BY <1>19, <2>1 DEF PreReceive
    <3> QED
      BY <1>q, <3>1
  <2>2. CASE WithinLimit(o)
    <3>1. /\ Executing' = Executing /\ Checked' = Checked \union {o}
          /\ refs' = refs /\ todo' = todo /\ asked' = asked /\ pc[o] = "spawned"
      BY <1>19, <2>2 DEF PreReceive
    <3> HIDE DEF TypeOK, Executing, Checked
    <3>2. Cardinality(refs \union Pending(Checked \union {o})) <= Most
      BY <2>2, <3>1, Passing
    <3>3. Future' = refs \union Pending(Checked \union {o})
      BY <3>1 DEF Future, Pending
    <3> QED
      BY <3>1, <3>2, <3>3 DEF Slots, Most
  <2> QED
    BY <2>1, <2>2
<1>20. ASSUME NEW o \in Pushes, NEW b \in Branches, MoveRef(o, b) PROVE Slots'
  <2>1. /\ Executing' \subseteq Executing /\ asked' = asked /\ Checked' \subseteq Checked
        /\ o \in Checked /\ b \in todo[o]
        /\ refs' \subseteq refs \union {b}
        /\ refs' \subseteq refs \/ b \in refs \/ b \in asked[o].create
        /\ \A p \in Pushes : todo'[p] \subseteq todo[p]
    BY <1>20 DEF MoveRef, Fits
  <2> HIDE DEF TypeOK, Executing
  <2>2. refs' \subseteq Future
    BY <2>1 DEF Future, Pending
  <2>3. Pending(Checked)' \subseteq Pending(Checked)
    BY <2>1 DEF Pending
  <2>4. Future' \subseteq Future
    BY <2>2, <2>3 DEF Future
  <2> QED
    BY <2>1, <2>4, Quieter
<1>21. ASSUME NEW o \in Pushes, OpenReceipt(o) PROVE Slots'
  <2>1. Quiet
    BY <1>21 DEF OpenReceipt
  <2> QED
    BY <1>q, <2>1
<1>22. ASSUME NEW o \in Pushes, PostReceive(o) PROVE Slots'
  <2>1. Quiet
    BY <1>22 DEF PostReceive
  <2> QED
    BY <1>q, <2>1
<1>23. ASSUME NEW o \in Pushes, ReceiptFails(o) PROVE Slots'
  <2>1. Quiet
    BY <1>23 DEF ReceiptFails, LeftOf
  <2> QED
    BY <1>q, <2>1
<1>24. ASSUME NEW o \in Pushes, RecordPush(o) PROVE Slots'
  <2>1. Quiet
    BY <1>24 DEF RecordPush, Recorded
  <2> QED
    BY <1>q, <2>1
<1>25. ASSUME NEW o \in Pushes, RecordFails(o) PROVE Slots'
  <2>1. Quiet
    BY <1>25 DEF RecordFails
  <2> QED
    BY <1>q, <2>1
<1>26. ASSUME NEW o \in Pushes, Killed(o) PROVE Slots'
  <2>1. Quiet
    BY <1>26 DEF Killed, Backed, LeftOf, Pushing
  <2> QED
    BY <1>q, <2>1
<1>27. ASSUME NEW o \in Pushes, Leave(o) PROVE Slots'
  <2>1. Quiet
    BY <1>27 DEF Leave
  <2> QED
    BY <1>q, <2>1
<1>28. ASSUME NEW o \in Pushes, CleanUp(o) PROVE Slots'
  <2>1. Quiet
    BY <1>28 DEF CleanUp, Unlinked
  <2> QED
    BY <1>q, <2>1
<1>29. ASSUME NEW o \in Pushes, FinishCleanUp(o) PROVE Slots'
  <2>1. Quiet
    BY <1>29 DEF FinishCleanUp, Removed
  <2> QED
    BY <1>q, <2>1
<1> QED
  BY <1>0, <1>1, <1>2, <1>3, <1>4, <1>5, <1>6, <1>7, <1>8, <1>9, <1>10, <1>11, <1>12,
     <1>13, <1>14, <1>15, <1>16, <1>17, <1>18, <1>19, <1>20, <1>21, <1>22, <1>23,
     <1>24, <1>25, <1>26, <1>27, <1>28, <1>29, Steps

(* Pushes that have passed the hook may exceed the limit of branches together:
   by no more than the other slots of the transport may create, and what a push
   deletes only after it has created. *)
THEOREM BranchOvershootAlways == Spec => []BranchOvershoot
<1>1. Init => Slots
  <2> SUFFICES ASSUME Init PROVE Slots
    OBVIOUS
  <2>1. PICK s \in Scenarios : refs = s.refs /\ asked = s.asked
    BY DEF Init
  <2>2. Executing = {} /\ Checked = {}
    BY DEF Init, Executing, Fenced, Checked
  <2>3. Future = refs
    BY <2>2 DEF Future, Pending
  <2>4. Cardinality(refs) <= MaxBranches /\ refs \subseteq Branches
    BY <2>1, ScenarioAssumption
  <2>5. Cardinality(refs) \in Nat
    BY <2>4, Bounded
  <2>6. Cardinality(Future) <= Most
    BY <2>3, <2>4, <2>5, MostType, PushAssumption DEF Most
  <2>7. ASSUME NEW o \in Pushes
        PROVE  Cardinality(asked[o].create) + Cardinality(asked[o].delete) <= MaxUpdates
    <3>1. /\ asked[o] \in Updates
          /\ Cardinality(asked[o].create) + Cardinality(asked[o].delete)
             + Cardinality(asked[o].forward) <= MaxUpdates
      BY <2>1, ScenarioAssumption
    <3>2. /\ Cardinality(asked[o].create) \in Nat /\ Cardinality(asked[o].delete) \in Nat
          /\ Cardinality(asked[o].forward) \in Nat
      BY <3>1, Bounded DEF Updates
    <3> QED
      BY <3>1, <3>2, PushAssumption
  <2> QED
    BY <2>2, <2>6, <2>7, FS_EmptySet, PushAssumption DEF Slots
<1>2. TypeOK /\ Slots => BranchOvershoot
  <2> SUFFICES ASSUME TypeOK, Slots PROVE BranchOvershoot
    OBVIOUS
  <2>1. refs \subseteq Future /\ Future \subseteq Branches
    BY DEF Future, Pending, Checked, TypeOK
  <2>2. Cardinality(refs) <= Cardinality(Future)
        /\ Cardinality(refs) \in Nat /\ Cardinality(Future) \in Nat
    BY <2>1, Bounded, Fewer
  <2> QED
    BY <2>2, MostType DEF Slots, Most, BranchOvershoot
<1> QED
  BY <1>1, <1>2, TypeCorrect, SlotsStep, PTL DEF Spec

=============================================================================
