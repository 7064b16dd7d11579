---- MODULE TransferQueueProofs ----
(***************************************************************************)
(* Proofs about TransferQueue, for every set of connections, keys, types,  *)
(* limits and faults.  The inductive invariant says where a transfer is    *)
(* when its slot is given out: a transfer of a pass under way cannot leave *)
(* the array, and each slot in use is counted.                             *)
(***************************************************************************)
EXTENDS TransferQueue, FiniteSetTheorems, TLAPS

(* TypeOK but for the sign of the counters, which needs the rest. *)
Typed ==
  /\ wd_transfers \in [Users -> Nat]
  /\ queue_time \in [Users -> Nat]
  /\ type \in [Users -> Types \cup {None}]
  /\ queue \in [Users -> Nat \cup {-1}]
  /\ cond \in [Users -> {0, 1}]
  /\ state \in [Users -> {"QUEUED", "RUNNING"}]
  /\ failed \in [Users -> BOOLEAN]
  /\ pc \in [Users -> PCs]
  /\ user_state \in [Users -> {"NONE", "LOGGED_IN", "DISCONNECTED"}]
  /\ total \in TotalChoices
  /\ active \in [Types -> Int]
  /\ user_transfers \in [Types -> [Keys -> Nat]]
  /\ qlock \in BOOLEAN
  /\ qcond \in {0, 1}
  /\ array_lock \in Users \cup {None, "queue"}
  /\ qpc \in {"wait", "rdlock", "next", "add_active", "add_client", "store"}
  /\ collected \subseteq Users
  /\ todo \subseteq Users
  /\ transfer \in Users \cup {None}
  /\ position \in Nat /\ position >= 1
  /\ new_position \in Nat
  /\ scan \in Nat
  /\ update \in BOOLEAN
  /\ spc \in {"idle", "signal"}

InRun == {"add", "signal", "wait", "write", "data", "release", "release_client",
          "delete", "signal_end"}
Listed == InRun \ {"add", "signal_end"}
Granting == {"add_active", "add_client", "store"}

(* Where a connection thread is, and what its transfer is like. *)
Place ==
  \A u \in Users :
    /\ type[u] \in Types <=> pc[u] \in InRun
    /\ wd_transfers[u] > 0 => pc[u] \in Listed
    /\ queue[u] = 0 => pc[u] \in InRun \ {"add"}
    /\ pc[u] = "release_client" => queue[u] = 0
    /\ pc[u] = "data" /\ user_state[u] = "LOGGED_IN" => queue[u] = 0
    /\ pc[u] = "off" <=> user_state[u] = "NONE"

(* A pass holds the array and the transfers it has not handled yet. *)
Pass ==
  /\ array_lock = "queue" <=> qpc \in {"next"} \cup Granting
  /\ \A u \in Users : pc[u] = "scan" => array_lock = u
  /\ qpc \in {"wait", "rdlock"} => todo = {}
  /\ \A u \in todo : wd_transfers[u] > 0 /\ queue[u] # 0
  /\ IF qpc \in Granting THEN transfer \in todo ELSE transfer = None
  /\ qpc \in {"add_active", "add_client"} => new_position = 0

(* A slot is given out below a limit, and every slot in use is counted. *)
Room(t, n) == \E c \in Totals : c[t] = 0 \/ n <= c[t]

WithinLimit ==
  /\ \A t \in Types : Room(t, active[t])
  /\ qpc = "add_active" => Room(type[transfer], active[type[transfer]] + 1)

IInv == Typed /\ Place /\ Pass /\ SlotsCounted /\ WithinLimit

-----------------------------------------------------------------------------
(* An ordered collection stays one. *)
LEMMA OrderType ==
  ASSUME NEW f \in [Users -> Nat], NEW u \in Users
  PROVE  /\ Appended(f, u) \in [Users -> Nat] /\ Appended(f, u)[u] > 0
         /\ \A v \in Users : v # u => Appended(f, u)[v] = f[v]
         /\ Removed(f, u) \in [Users -> Nat] /\ Removed(f, u)[u] = 0
         /\ \A v \in Users : Removed(f, u)[v] > 0 => f[v] > 0
<1>1. IsFiniteSet({v \in Users : f[v] > 0})
  BY UsersAssumption, FS_Subset
<1>2. Cardinality({v \in Users : f[v] > 0}) \in Nat
  BY <1>1, FS_CardinalityType
<1> QED
  BY <1>2 DEF Appended, Removed

(* The transfer that is being given a position or a slot is in the array,  *)
(* and its thread cannot have ended it.                                    *)
LEMMA GrantedIsListed ==
  ASSUME Typed, Place, Pass, qpc \in Granting
  PROVE  /\ transfer \in Users /\ transfer \in todo
         /\ type[transfer] \in Types
         /\ wd_transfers[transfer] > 0 /\ queue[transfer] # 0
         /\ pc[transfer] \in Listed
<1>1. transfer \in todo /\ transfer \in Users
  BY DEF Pass, Typed
<1>2. wd_transfers[transfer] > 0 /\ queue[transfer] # 0
  BY <1>1 DEF Pass
<1> QED
  BY <1>1, <1>2 DEF Place, Listed, InRun

LEMMA StartType ==
  ASSUME Typed, NEW u \in Users, StartTransfer(u)
  PROVE  pc' \in [Users -> PCs] /\ state' \in [Users -> {"QUEUED", "RUNNING"}]
<1>1. pc' \in [Users -> PCs]
  BY DEF Typed, PCs, StartTransfer, Goto
<1>2. state' \in [Users -> {"QUEUED", "RUNNING"}]
  BY DEF Typed, StartTransfer
<1> QED
  BY <1>1, <1>2

(* Every step keeps the variables in their types. *)
LEMMA TypedStep ==
  ASSUME Typed, Place, Pass, [Next]_vars
  PROVE  Typed'
<1> USE UsersAssumption, KeysAssumption, LimitsAssumption
<1>1. ASSUME NEW u \in Users, NEW t \in Types, CreateTransfer(u, t) PROVE Typed'
  <2>1. /\ type' \in [Users -> Types \cup {None}] /\ queue_time' \in [Users -> Nat]
        /\ pc' \in [Users -> PCs]
    BY <1>1, OrderType DEF Typed, PCs, CreateTransfer, Goto
  <2>2. UNCHANGED <<wd_transfers, queue, cond, state, failed, user_state, total, slotVars,
                    qlock, qcond, array_lock, queueVars, scanVars, spc>>
    BY <1>1 DEF CreateTransfer
  <2> QED
    BY <2>1, <2>2 DEF Typed, slotVars, queueVars, scanVars
<1>2. ASSUME NEW u \in Users, AddTransfer(u) PROVE Typed'
  BY <1>2, OrderType DEF Typed, PCs, AddTransfer, transferVars, slotVars, queueVars, scanVars, Goto
<1>3. ASSUME NEW u \in Users, SignalAdded(u) PROVE Typed'
  BY <1>3 DEF Typed, PCs, SignalAdded, SignalQueue, transferVars, slotVars, queueVars, scanVars, Goto
<1>4. ASSUME NEW u \in Users, WakeUp(u) PROVE Typed'
  <2>1. cond' \in [Users -> {0, 1}]
    BY <1>4 DEF Typed, WakeUp
  <2>2. pc' \in [Users -> PCs] /\ state' \in [Users -> {"QUEUED", "RUNNING"}]
    <3>1. (Goto(u, "write") /\ state' = state) \/ StartTransfer(u)
      BY <1>4 DEF WakeUp
    <3>2. CASE Goto(u, "write") /\ state' = state
      BY <3>2 DEF Typed, PCs, Goto
    <3> QED
      BY <3>1, <3>2, StartType
  <2>3. UNCHANGED <<wd_transfers, queue_time, type, queue, failed, user_state, total,
                    slotVars, qlock, qcond, array_lock, queueVars, scanVars, spc>>
    BY <1>4 DEF WakeUp
  <2> QED
    BY <2>1, <2>2, <2>3 DEF Typed, slotVars, queueVars, scanVars
<1>5. ASSUME NEW u \in Users, WritePosition(u) PROVE Typed'
  <2>1. pc' \in [Users -> PCs] /\ state' \in [Users -> {"QUEUED", "RUNNING"}]
    <3>1. (Goto(u, "wait") /\ state' = state) \/ StartTransfer(u)
      BY <1>5 DEF WritePosition
    <3>2. CASE Goto(u, "wait") /\ state' = state
      BY <3>2 DEF Typed, PCs, Goto
    <3> QED
      BY <3>1, <3>2, StartType
  <2>2. UNCHANGED <<wd_transfers, queue_time, type, queue, cond, failed, user_state, total,
                    slotVars, qlock, qcond, array_lock, queueVars, scanVars, spc>>
    BY <1>5 DEF WritePosition
  <2> QED
    BY <2>1, <2>2 DEF Typed, slotVars, queueVars, scanVars
<1>6. ASSUME NEW u \in Users, FailToWritePosition(u) PROVE Typed'
  BY <1>6 DEF Typed, PCs, FailToWritePosition, slotVars, queueVars, scanVars, Goto
<1>7. ASSUME NEW u \in Users, FinishTransfer(u) PROVE Typed'
  BY <1>7 DEF Typed, PCs, FinishTransfer, slotVars, queueVars, scanVars, Goto
<1>8. ASSUME NEW u \in Users, ReleaseSlot(u) PROVE Typed'
  <2>1. type[u] \in Types
    BY <1>8 DEF Place, InRun, ReleaseSlot
  <2> QED
    BY <1>8, <2>1 DEF Typed, PCs, ReleaseSlot, transferVars, queueVars, scanVars, Goto
<1>9. ASSUME NEW u \in Users, SkipRelease(u) PROVE Typed'
  BY <1>9 DEF Typed, PCs, SkipRelease, transferVars, slotVars, queueVars, scanVars, Goto
<1>10. ASSUME NEW u \in Users, ReleaseClient(u) PROVE Typed'
  <2>1. type[u] \in Types
    BY <1>10 DEF Place, InRun, ReleaseClient
  <2>2. user_transfers' \in [Types -> [Keys -> Nat]]
    BY <1>10, <2>1 DEF Typed, ReleaseClient
  <2> QED
    BY <1>10, <2>2 DEF Typed, PCs, ReleaseClient, transferVars, queueVars, scanVars, Goto
<1>11. ASSUME NEW u \in Users, DeleteTransfer(u) PROVE Typed'
  BY <1>11, OrderType DEF Typed, PCs, DeleteTransfer, transferVars, slotVars, queueVars, scanVars, Goto
<1>12. ASSUME NEW u \in Users, SignalEnd(u) PROVE Typed'
  BY <1>12, OrderType DEF Typed, PCs, SignalEnd, EndTransfer, SignalQueue, slotVars, queueVars, scanVars, Goto
<1>13. ASSUME NEW u \in Users, LeaveLoop(u) PROVE Typed'
  BY <1>13 DEF Typed, PCs, LeaveLoop, transferVars, slotVars, queueVars, scanVars, Goto
<1>14. ASSUME NEW u \in Users, LookForClient(u) PROVE Typed'
  BY <1>14 DEF Typed, PCs, LookForClient, transferVars, slotVars, queueVars, scanVars, Goto
<1>15. ASSUME NEW u \in Users, LockTransfers(u) PROVE Typed'
  BY <1>15 DEF Typed, PCs, LockTransfers, transferVars, slotVars, queueVars, Goto
<1>16. ASSUME NEW u \in Users, ScanTransfer(u) PROVE Typed'
  <2>1. PICK v \in Users :
           \/ wd_transfers' = Removed(wd_transfers, v) /\ update' = TRUE /\ scan' = scan
           \/ scan' = scan + 1 /\ wd_transfers' = wd_transfers /\ update' = update
    BY <1>16 DEF ScanTransfer
  <2>2. wd_transfers' \in [Users -> Nat]
    BY <2>1, OrderType DEF Typed
  <2>3. scan' \in Nat
    BY <2>1 DEF Typed
  <2>4. update' \in BOOLEAN
    BY <2>1, Zenon DEF Typed
  <2> QED
    BY <1>16, <2>2, <2>3, <2>4 DEF Typed, ScanTransfer, transferVars, slotVars, queueVars
<1>17. ASSUME NEW u \in Users, EndScan(u) PROVE Typed'
  BY <1>17 DEF Typed, PCs, EndScan, transferVars, slotVars, queueVars, scanVars, Goto
<1>18. ASSUME NEW u \in Users, SignalRemoved(u) PROVE Typed'
  BY <1>18 DEF Typed, PCs, SignalRemoved, SignalQueue, transferVars, slotVars, queueVars, scanVars, Goto
<1>19. ASSUME NEW u \in Users, LeaveUsers(u) PROVE Typed'
  BY <1>19 DEF Typed, PCs, LeaveUsers, transferVars, slotVars, queueVars, scanVars, Goto
<1>20. ASSUME NEW u \in Users, Disconnect(u) PROVE Typed'
  BY <1>20 DEF Typed, PCs, Disconnect, transferVars, slotVars, queueVars, scanVars
<1>21. ASSUME NEW u \in Users, Login(u) PROVE Typed'
  BY <1>21 DEF Typed, PCs, Login, transferVars, slotVars, queueVars, scanVars, Goto
<1>22. ASSUME NEW u \in Users, CheckTransfer(u) PROVE Typed'
  BY <1>22 DEF Typed, PCs, CheckTransfer, IsNext, transferVars, slotVars, scanVars
<1>23. CASE BeginPass
  BY <1>23 DEF Typed, PCs, BeginPass, transferVars, slotVars, scanVars
<1>24. CASE CollectTransfers
  BY <1>24 DEF Typed, PCs, CollectTransfers, InArray, IsQueued, transferVars, slotVars, scanVars
<1>25. CASE AddActive
  <2>1. transfer \in Users /\ type[transfer] \in Types
    BY <1>25, GrantedIsListed DEF AddActive, Granting
  <2> QED
    BY <1>25, <2>1 DEF Typed, PCs, AddActive, transferVars, scanVars
<1>26. CASE AddClient
  <2>1. transfer \in Users /\ type[transfer] \in Types
    BY <1>26, GrantedIsListed DEF AddClient, Granting
  <2> QED
    BY <1>26, <2>1 DEF Typed, PCs, AddClient, transferVars, scanVars
<1>27. CASE StorePosition
  BY <1>27 DEF Typed, PCs, StorePosition, slotVars, scanVars
<1>28. CASE EndPass
  <2>1. array_lock' \in Users \cup {None, "queue"} /\ collected' \subseteq Users
    BY <1>28 DEF EndPass
  <2>2. position' \in Nat /\ position' >= 1
    BY <1>28 DEF EndPass
  <2> QED
    BY <1>28, <2>1, <2>2 DEF Typed, EndPass, transferVars, slotVars, scanVars
<1>29. CASE ApplySettings
  BY <1>29 DEF Typed, PCs, ApplySettings, transferVars, slotVars, queueVars, scanVars
<1>30. CASE SignalSettings
  BY <1>30 DEF Typed, PCs, SignalSettings, SignalQueue, transferVars, slotVars, queueVars, scanVars
<1>31. CASE UNCHANGED vars
  BY <1>31 DEF Typed, PCs, vars, transferVars, slotVars, queueVars, scanVars
<1> QED
  BY <1>1, <1>2, <1>3, <1>4, <1>5, <1>6, <1>7, <1>8, <1>9, <1>10, <1>11, <1>12, <1>13, <1>14, <1>15, <1>16, <1>17, <1>18, <1>19, <1>20, <1>21, <1>22, <1>23, <1>24, <1>25, <1>26, <1>27, <1>28, <1>29, <1>30, <1>31 DEF Next, TransferStep, ExitStep, QueueStep

(* Every step leaves each thread at a place that fits its transfer. *)
LEMMA PlaceStep ==
  ASSUME Typed, Place, Pass, [Next]_vars
  PROVE  Place'
<1> USE UsersAssumption, KeysAssumption, LimitsAssumption
<1>1. ASSUME NEW u \in Users, NEW t \in Types, CreateTransfer(u, t) PROVE Place'
  BY <1>1, OrderType DEF Typed, Place, Pass, InRun, Listed, Granting, CreateTransfer, slotVars, queueVars, scanVars, Goto
<1>2. ASSUME NEW u \in Users, AddTransfer(u) PROVE Place'
  <2>1. wd_transfers \in [Users -> Nat]
    BY DEF Typed
  <2>2. \A v \in Users : v # u => wd_transfers'[v] = wd_transfers[v]
    BY <1>2, <2>1, OrderType DEF AddTransfer
  <2> QED
    BY <1>2, <2>2 DEF Typed, Place, InRun, Listed, AddTransfer, transferVars, Goto
<1>3. ASSUME NEW u \in Users, SignalAdded(u) PROVE Place'
  BY <1>3 DEF Typed, Place, Pass, InRun, Listed, Granting, SignalAdded, SignalQueue, transferVars, slotVars, queueVars, scanVars, Goto
<1>4. ASSUME NEW u \in Users, WakeUp(u) PROVE Place'
  BY <1>4 DEF Typed, Place, Pass, InRun, Listed, Granting, WakeUp, StartTransfer, slotVars, queueVars, scanVars, Goto
<1>5. ASSUME NEW u \in Users, WritePosition(u) PROVE Place'
  BY <1>5 DEF Typed, Place, Pass, InRun, Listed, Granting, WritePosition, StartTransfer, slotVars, queueVars, scanVars, Goto
<1>6. ASSUME NEW u \in Users, FailToWritePosition(u) PROVE Place'
  BY <1>6 DEF Typed, Place, Pass, InRun, Listed, Granting, FailToWritePosition, slotVars, queueVars, scanVars, Goto
<1>7. ASSUME NEW u \in Users, FinishTransfer(u) PROVE Place'
  BY <1>7 DEF Typed, Place, Pass, InRun, Listed, Granting, FinishTransfer, slotVars, queueVars, scanVars, Goto
<1>8. ASSUME NEW u \in Users, ReleaseSlot(u) PROVE Place'
  BY <1>8 DEF Typed, Place, Pass, InRun, Listed, Granting, ReleaseSlot, transferVars, queueVars, scanVars, Goto
<1>9. ASSUME NEW u \in Users, SkipRelease(u) PROVE Place'
  BY <1>9 DEF Typed, Place, Pass, InRun, Listed, Granting, SkipRelease, transferVars, slotVars, queueVars, scanVars, Goto
<1>10. ASSUME NEW u \in Users, ReleaseClient(u) PROVE Place'
  BY <1>10 DEF Typed, Place, Pass, InRun, Listed, Granting, ReleaseClient, transferVars, queueVars, scanVars, Goto
<1>11. ASSUME NEW u \in Users, DeleteTransfer(u) PROVE Place'
  <2>1. wd_transfers \in [Users -> Nat]
    BY DEF Typed
  <2>2. wd_transfers'[u] = 0 /\ \A v \in Users : wd_transfers'[v] > 0 => wd_transfers[v] > 0
    BY <1>11, <2>1, OrderType DEF DeleteTransfer
  <2> QED
    BY <1>11, <2>2 DEF Typed, Place, InRun, Listed, DeleteTransfer, transferVars, Goto
<1>12. ASSUME NEW u \in Users, SignalEnd(u) PROVE Place'
  BY <1>12, OrderType DEF Typed, Place, Pass, InRun, Listed, Granting, SignalEnd, EndTransfer, SignalQueue, slotVars, queueVars, scanVars, Goto
<1>13. ASSUME NEW u \in Users, LeaveLoop(u) PROVE Place'
  BY <1>13 DEF Typed, Place, Pass, InRun, Listed, Granting, LeaveLoop, transferVars, slotVars, queueVars, scanVars, Goto
<1>14. ASSUME NEW u \in Users, LookForClient(u) PROVE Place'
  BY <1>14 DEF Typed, Place, Pass, InRun, Listed, Granting, LookForClient, transferVars, slotVars, queueVars, scanVars, Goto
<1>15. ASSUME NEW u \in Users, LockTransfers(u) PROVE Place'
  BY <1>15 DEF Typed, Place, Pass, InRun, Listed, Granting, LockTransfers, transferVars, slotVars, queueVars, Goto
<1>16. ASSUME NEW u \in Users, ScanTransfer(u) PROVE Place'
  <2>1. wd_transfers \in [Users -> Nat]
    BY DEF Typed
  <2>2. \A v \in Users : wd_transfers'[v] > 0 => wd_transfers[v] > 0
    BY <1>16, <2>1, OrderType DEF ScanTransfer
  <2> QED
    BY <1>16, <2>2 DEF Typed, Place, ScanTransfer, transferVars
<1>17. ASSUME NEW u \in Users, EndScan(u) PROVE Place'
  BY <1>17 DEF Typed, Place, Pass, InRun, Listed, Granting, EndScan, transferVars, slotVars, queueVars, scanVars, Goto
<1>18. ASSUME NEW u \in Users, SignalRemoved(u) PROVE Place'
  BY <1>18 DEF Typed, Place, Pass, InRun, Listed, Granting, SignalRemoved, SignalQueue, transferVars, slotVars, queueVars, scanVars, Goto
<1>19. ASSUME NEW u \in Users, LeaveUsers(u) PROVE Place'
  BY <1>19 DEF Typed, Place, Pass, InRun, Listed, Granting, LeaveUsers, transferVars, slotVars, queueVars, scanVars, Goto
<1>20. ASSUME NEW u \in Users, Disconnect(u) PROVE Place'
  BY <1>20 DEF Typed, Place, Pass, InRun, Listed, Granting, Disconnect, transferVars, slotVars, queueVars, scanVars
<1>21. ASSUME NEW u \in Users, Login(u) PROVE Place'
  BY <1>21 DEF Typed, Place, Pass, InRun, Listed, Granting, Login, transferVars, slotVars, queueVars, scanVars, Goto
<1>22. ASSUME NEW u \in Users, CheckTransfer(u) PROVE Place'
  BY <1>22 DEF Typed, Place, Pass, InRun, Listed, Granting, CheckTransfer, IsNext, transferVars, slotVars, scanVars
<1>23. CASE BeginPass
  BY <1>23 DEF Typed, Place, Pass, InRun, Listed, Granting, BeginPass, transferVars, slotVars, scanVars
<1>24. CASE CollectTransfers
  BY <1>24 DEF Typed, Place, Pass, InRun, Listed, Granting, CollectTransfers, InArray, IsQueued, transferVars, slotVars, scanVars
<1>25. CASE AddActive
  BY <1>25 DEF Typed, Place, Pass, InRun, Listed, Granting, AddActive, transferVars, scanVars
<1>26. CASE AddClient
  BY <1>26 DEF Typed, Place, Pass, InRun, Listed, Granting, AddClient, transferVars, scanVars
<1>27. CASE StorePosition
  BY <1>27, GrantedIsListed DEF Typed, Place, Pass, InRun, Listed, Granting, StorePosition, slotVars, scanVars
<1>28. CASE EndPass
  BY <1>28 DEF Typed, Place, Pass, InRun, Listed, Granting, EndPass, transferVars, slotVars, scanVars
<1>29. CASE ApplySettings
  BY <1>29 DEF Typed, Place, Pass, InRun, Listed, Granting, ApplySettings, transferVars, slotVars, queueVars, scanVars
<1>30. CASE SignalSettings
  BY <1>30 DEF Typed, Place, Pass, InRun, Listed, Granting, SignalSettings, SignalQueue, transferVars, slotVars, queueVars, scanVars
<1>31. CASE UNCHANGED vars
  BY <1>31 DEF Typed, Place, Pass, InRun, Listed, Granting, vars, transferVars, slotVars, queueVars, scanVars
<1> QED
  BY <1>1, <1>2, <1>3, <1>4, <1>5, <1>6, <1>7, <1>8, <1>9, <1>10, <1>11, <1>12, <1>13, <1>14, <1>15, <1>16, <1>17, <1>18, <1>19, <1>20, <1>21, <1>22, <1>23, <1>24, <1>25, <1>26, <1>27, <1>28, <1>29, <1>30, <1>31 DEF Next, TransferStep, ExitStep, QueueStep

(* Every step keeps what a pass relies on. *)
LEMMA PassStep ==
  ASSUME Typed, Place, Pass, [Next]_vars
  PROVE  Pass'
<1> USE UsersAssumption, KeysAssumption, LimitsAssumption
<1>1. ASSUME NEW u \in Users, NEW t \in Types, CreateTransfer(u, t) PROVE Pass'
  BY <1>1, OrderType DEF Typed, Place, Pass, InRun, Listed, Granting, None, CreateTransfer, slotVars, queueVars, scanVars, Goto
<1>2. ASSUME NEW u \in Users, AddTransfer(u) PROVE Pass'
  <2>1. array_lock # "queue" /\ array_lock' # "queue"
    BY <1>2 DEF AddTransfer, Pass, None
  <2>2. qpc \in {"wait", "rdlock"} /\ todo = {} /\ transfer = None
    BY <2>1 DEF Pass, Typed, Granting
  <2>3. \A v \in Users : pc'[v] = "scan" => array_lock' = v
    BY <1>2 DEF AddTransfer, Pass, Typed, Goto, None
  <2> QED
    BY <1>2, <2>1, <2>2, <2>3 DEF AddTransfer, Pass, Granting, queueVars
<1>3. ASSUME NEW u \in Users, SignalAdded(u) PROVE Pass'
  BY <1>3 DEF Typed, Place, Pass, InRun, Listed, Granting, None, SignalAdded, SignalQueue, transferVars, slotVars, queueVars, scanVars, Goto
<1>4. ASSUME NEW u \in Users, WakeUp(u) PROVE Pass'
  BY <1>4 DEF Typed, Place, Pass, InRun, Listed, Granting, None, WakeUp, StartTransfer, slotVars, queueVars, scanVars, Goto
<1>5. ASSUME NEW u \in Users, WritePosition(u) PROVE Pass'
  BY <1>5 DEF Typed, Place, Pass, InRun, Listed, Granting, None, WritePosition, StartTransfer, slotVars, queueVars, scanVars, Goto
<1>6. ASSUME NEW u \in Users, FailToWritePosition(u) PROVE Pass'
  BY <1>6 DEF Typed, Place, Pass, InRun, Listed, Granting, None, FailToWritePosition, slotVars, queueVars, scanVars, Goto
<1>7. ASSUME NEW u \in Users, FinishTransfer(u) PROVE Pass'
  BY <1>7 DEF Typed, Place, Pass, InRun, Listed, Granting, None, FinishTransfer, slotVars, queueVars, scanVars, Goto
<1>8. ASSUME NEW u \in Users, ReleaseSlot(u) PROVE Pass'
  BY <1>8 DEF Typed, Place, Pass, InRun, Listed, Granting, None, ReleaseSlot, transferVars, queueVars, scanVars, Goto
<1>9. ASSUME NEW u \in Users, SkipRelease(u) PROVE Pass'
  BY <1>9 DEF Typed, Place, Pass, InRun, Listed, Granting, None, SkipRelease, transferVars, slotVars, queueVars, scanVars, Goto
<1>10. ASSUME NEW u \in Users, ReleaseClient(u) PROVE Pass'
  BY <1>10 DEF Typed, Place, Pass, InRun, Listed, Granting, None, ReleaseClient, transferVars, queueVars, scanVars, Goto
<1>11. ASSUME NEW u \in Users, DeleteTransfer(u) PROVE Pass'
  <2>1. array_lock # "queue" /\ array_lock' # "queue"
    BY <1>11 DEF DeleteTransfer, Pass, None
  <2>2. qpc \in {"wait", "rdlock"} /\ todo = {} /\ transfer = None
    BY <2>1 DEF Pass, Typed, Granting
  <2>3. \A v \in Users : pc'[v] = "scan" => array_lock' = v
    BY <1>11 DEF DeleteTransfer, Pass, Typed, Goto, None
  <2> QED
    BY <1>11, <2>1, <2>2, <2>3 DEF DeleteTransfer, Pass, Granting, queueVars
<1>12. ASSUME NEW u \in Users, SignalEnd(u) PROVE Pass'
  BY <1>12, OrderType DEF Typed, Place, Pass, InRun, Listed, Granting, None, SignalEnd, EndTransfer, SignalQueue, slotVars, queueVars, scanVars, Goto
<1>13. ASSUME NEW u \in Users, LeaveLoop(u) PROVE Pass'
  BY <1>13 DEF Typed, Place, Pass, InRun, Listed, Granting, None, LeaveLoop, transferVars, slotVars, queueVars, scanVars, Goto
<1>14. ASSUME NEW u \in Users, LookForClient(u) PROVE Pass'
  BY <1>14 DEF Typed, Place, Pass, InRun, Listed, Granting, None, LookForClient, transferVars, slotVars, queueVars, scanVars, Goto
<1>15. ASSUME NEW u \in Users, LockTransfers(u) PROVE Pass'
  <2>1. array_lock # "queue" /\ array_lock' # "queue"
    BY <1>15 DEF LockTransfers, Pass, None
  <2>2. qpc \in {"wait", "rdlock"} /\ todo = {} /\ transfer = None
    BY <2>1 DEF Pass, Typed, Granting
  <2>3. \A v \in Users : pc'[v] = "scan" => array_lock' = v
    BY <1>15 DEF LockTransfers, Pass, Typed, Goto, None
  <2> QED
    BY <1>15, <2>1, <2>2, <2>3 DEF LockTransfers, Pass, Granting, queueVars
<1>16. ASSUME NEW u \in Users, ScanTransfer(u) PROVE Pass'
  BY <1>16, OrderType DEF Typed, Place, Pass, InRun, Listed, Granting, None, ScanTransfer, transferVars, slotVars, queueVars
<1>17. ASSUME NEW u \in Users, EndScan(u) PROVE Pass'
  <2>1. array_lock # "queue" /\ array_lock' # "queue"
    BY <1>17 DEF EndScan, Pass, None
  <2>2. qpc \in {"wait", "rdlock"} /\ todo = {} /\ transfer = None
    BY <2>1 DEF Pass, Typed, Granting
  <2>3. \A v \in Users : pc'[v] = "scan" => array_lock' = v
    BY <1>17 DEF EndScan, Pass, Typed, Goto, None
  <2> QED
    BY <1>17, <2>1, <2>2, <2>3 DEF EndScan, Pass, Granting, queueVars
<1>18. ASSUME NEW u \in Users, SignalRemoved(u) PROVE Pass'
  <2>1. array_lock # "queue" /\ array_lock' # "queue"
    BY <1>18 DEF SignalRemoved, Pass, None
  <2>2. qpc \in {"wait", "rdlock"} /\ todo = {} /\ transfer = None
    BY <2>1 DEF Pass, Typed, Granting
  <2>3. \A v \in Users : pc'[v] = "scan" => array_lock' = v
    BY <1>18 DEF SignalRemoved, Pass, Typed, Goto, None
  <2> QED
    BY <1>18, <2>1, <2>2, <2>3 DEF SignalRemoved, Pass, Granting, queueVars
<1>19. ASSUME NEW u \in Users, LeaveUsers(u) PROVE Pass'
  BY <1>19 DEF Typed, Place, Pass, InRun, Listed, Granting, None, LeaveUsers, transferVars, slotVars, queueVars, scanVars, Goto
<1>20. ASSUME NEW u \in Users, Disconnect(u) PROVE Pass'
  BY <1>20 DEF Typed, Place, Pass, InRun, Listed, Granting, None, Disconnect, transferVars, slotVars, queueVars, scanVars
<1>21. ASSUME NEW u \in Users, Login(u) PROVE Pass'
  BY <1>21 DEF Typed, Place, Pass, InRun, Listed, Granting, None, Login, transferVars, slotVars, queueVars, scanVars, Goto
<1>22. ASSUME NEW u \in Users, CheckTransfer(u) PROVE Pass'
  BY <1>22 DEF Typed, Place, Pass, InRun, Listed, Granting, None, CheckTransfer, IsNext, transferVars, slotVars, scanVars
<1>23. CASE BeginPass
  BY <1>23 DEF Typed, Place, Pass, InRun, Listed, Granting, None, BeginPass, transferVars, slotVars, scanVars
<1>24. CASE CollectTransfers
  BY <1>24 DEF Typed, Place, Pass, InRun, Listed, Granting, None, CollectTransfers, InArray, IsQueued, transferVars, slotVars, scanVars
<1>25. CASE AddActive
  BY <1>25 DEF Typed, Place, Pass, InRun, Listed, Granting, None, AddActive, transferVars, scanVars
<1>26. CASE AddClient
  BY <1>26 DEF Typed, Place, Pass, InRun, Listed, Granting, None, AddClient, transferVars, scanVars
<1>27. CASE StorePosition
  BY <1>27, GrantedIsListed DEF Typed, Place, Pass, InRun, Listed, Granting, None, StorePosition, slotVars, scanVars
<1>28. CASE EndPass
  BY <1>28 DEF Typed, Place, Pass, InRun, Listed, Granting, None, EndPass, transferVars, slotVars, scanVars
<1>29. CASE ApplySettings
  BY <1>29 DEF Typed, Place, Pass, InRun, Listed, Granting, None, ApplySettings, transferVars, slotVars, queueVars, scanVars
<1>30. CASE SignalSettings
  BY <1>30 DEF Typed, Place, Pass, InRun, Listed, Granting, None, SignalSettings, SignalQueue, transferVars, slotVars, queueVars, scanVars
<1>31. CASE UNCHANGED vars
  BY <1>31 DEF Typed, Place, Pass, InRun, Listed, Granting, None, vars, transferVars, slotVars, queueVars, scanVars
<1> QED
  BY <1>1, <1>2, <1>3, <1>4, <1>5, <1>6, <1>7, <1>8, <1>9, <1>10, <1>11, <1>12, <1>13, <1>14, <1>15, <1>16, <1>17, <1>18, <1>19, <1>20, <1>21, <1>22, <1>23, <1>24, <1>25, <1>26, <1>27, <1>28, <1>29, <1>30, <1>31 DEF Next, TransferStep, ExitStep, QueueStep

-----------------------------------------------------------------------------
LEMMA HoldersFinite == \A s : IsFiniteSet(Holders(s)) /\ IsFiniteSet(Holders(s)')
<1>1. \A s : Holders(s) \subseteq Users /\ Holders(s)' \subseteq Users
  BY DEF Holders
<1> QED
  BY <1>1, UsersAssumption, FS_Subset

LEMMA CountType == \A s : Cardinality(Holders(s)) \in Nat /\ Cardinality(Holders(s)') \in Nat
BY HoldersFinite, FS_CardinalityType

LEMMA SlotsKept ==
  ASSUME Typed, SlotsCounted, active' = active,
         \A s \in Types : Holders(s)' \subseteq Holders(s)
  PROVE  SlotsCounted'
<1>1. ASSUME NEW s \in Types PROVE Cardinality(Holders(s)') <= active'[s]
  <2>1. Cardinality(Holders(s)') <= Cardinality(Holders(s))
    BY HoldersFinite, FS_Subset
  <2> QED
    BY <2>1, CountType DEF SlotsCounted, Typed
<1> QED
  BY <1>1 DEF SlotsCounted

(* Every step keeps each slot in use counted. *)
LEMMA SlotsStep ==
  ASSUME Typed, Place, Pass, SlotsCounted, [Next]_vars
  PROVE  SlotsCounted'
<1> USE UsersAssumption, KeysAssumption, LimitsAssumption
<1>1. ASSUME NEW u \in Users, NEW t \in Types, CreateTransfer(u, t) PROVE SlotsCounted'
  <2>1. \A s \in Types : Holders(s)' \subseteq Holders(s)
    BY <1>1, GrantedIsListed DEF Holders, Holds, PastRelease, Typed, Place, Pass, InRun, Listed, Granting, CreateTransfer, slotVars, queueVars, scanVars, Goto
  <2>2. active' = active
    BY <1>1 DEF CreateTransfer, slotVars, queueVars, scanVars, Goto
  <2> QED
    BY <2>1, <2>2, SlotsKept
<1>2. ASSUME NEW u \in Users, AddTransfer(u) PROVE SlotsCounted'
  <2>1. \A s \in Types : Holders(s)' \subseteq Holders(s)
    BY <1>2, GrantedIsListed DEF Holders, Holds, PastRelease, Typed, Place, Pass, InRun, Listed, Granting, AddTransfer, transferVars, slotVars, queueVars, scanVars, Goto
  <2>2. active' = active
    BY <1>2 DEF AddTransfer, transferVars, slotVars, queueVars, scanVars, Goto
  <2> QED
    BY <2>1, <2>2, SlotsKept
<1>3. ASSUME NEW u \in Users, SignalAdded(u) PROVE SlotsCounted'
  <2>1. \A s \in Types : Holders(s)' \subseteq Holders(s)
    BY <1>3, GrantedIsListed DEF Holders, Holds, PastRelease, Typed, Place, Pass, InRun, Listed, Granting, SignalAdded, SignalQueue, transferVars, slotVars, queueVars, scanVars, Goto
  <2>2. active' = active
    BY <1>3 DEF SignalAdded, SignalQueue, transferVars, slotVars, queueVars, scanVars, Goto
  <2> QED
    BY <2>1, <2>2, SlotsKept
<1>4. ASSUME NEW u \in Users, WakeUp(u) PROVE SlotsCounted'
  <2>1. \A s \in Types : Holders(s)' \subseteq Holders(s)
    BY <1>4, GrantedIsListed DEF Holders, Holds, PastRelease, Typed, Place, Pass, InRun, Listed, Granting, WakeUp, StartTransfer, slotVars, queueVars, scanVars, Goto
  <2>2. active' = active
    BY <1>4 DEF WakeUp, StartTransfer, slotVars, queueVars, scanVars, Goto
  <2> QED
    BY <2>1, <2>2, SlotsKept
<1>5. ASSUME NEW u \in Users, WritePosition(u) PROVE SlotsCounted'
  <2>1. \A s \in Types : Holders(s)' \subseteq Holders(s)
    BY <1>5, GrantedIsListed DEF Holders, Holds, PastRelease, Typed, Place, Pass, InRun, Listed, Granting, WritePosition, StartTransfer, slotVars, queueVars, scanVars, Goto
  <2>2. active' = active
    BY <1>5 DEF WritePosition, StartTransfer, slotVars, queueVars, scanVars, Goto
  <2> QED
    BY <2>1, <2>2, SlotsKept
<1>6. ASSUME NEW u \in Users, FailToWritePosition(u) PROVE SlotsCounted'
  <2>1. \A s \in Types : Holders(s)' \subseteq Holders(s)
    BY <1>6, GrantedIsListed DEF Holders, Holds, PastRelease, Typed, Place, Pass, InRun, Listed, Granting, FailToWritePosition, slotVars, queueVars, scanVars, Goto
  <2>2. active' = active
    BY <1>6 DEF FailToWritePosition, slotVars, queueVars, scanVars, Goto
  <2> QED
    BY <2>1, <2>2, SlotsKept
<1>7. ASSUME NEW u \in Users, FinishTransfer(u) PROVE SlotsCounted'
  <2>1. \A s \in Types : Holders(s)' \subseteq Holders(s)
    BY <1>7, GrantedIsListed DEF Holders, Holds, PastRelease, Typed, Place, Pass, InRun, Listed, Granting, FinishTransfer, slotVars, queueVars, scanVars, Goto
  <2>2. active' = active
    BY <1>7 DEF FinishTransfer, slotVars, queueVars, scanVars, Goto
  <2> QED
    BY <2>1, <2>2, SlotsKept
<1>8. ASSUME NEW u \in Users, ReleaseSlot(u) PROVE SlotsCounted'
  <2>1. type[u] \in Types /\ u \in Holders(type[u]) /\ u \notin todo
    BY <1>8 DEF Holders, Holds, PastRelease, Place, Pass, InRun, ReleaseSlot
  <2>2. qpc \in Granting => transfer # u
    BY <2>1, GrantedIsListed
  <2>3. \A s \in Types : s = type[u] => Holders(s)' \subseteq Holders(s) \ {u}
    BY <1>8, <2>2 DEF Holders, Holds, PastRelease, ReleaseSlot, Typed, Granting, transferVars, queueVars, Goto
  <2>4. \A s \in Types : Holders(s)' \subseteq Holders(s)
    BY <1>8, <2>2 DEF Holders, Holds, PastRelease, ReleaseSlot, Typed, Granting, transferVars, queueVars, Goto
  <2>5. Cardinality(Holders(type[u]) \ {u}) = Cardinality(Holders(type[u])) - 1
    BY <2>1, HoldersFinite, FS_RemoveElement
  <2>6. active' = [active EXCEPT ![type[u]] = @ - 1]
    BY <1>8 DEF ReleaseSlot
  <2>7. ASSUME NEW s \in Types PROVE Cardinality(Holders(s)') <= active'[s]
    <3>1. CASE s = type[u]
      <4>1. Holders(s)' \subseteq Holders(s) \ {u} /\ IsFiniteSet(Holders(s) \ {u})
        BY <2>3, <3>1, HoldersFinite, FS_RemoveElement
      <4>2. Cardinality(Holders(s)') <= Cardinality(Holders(s) \ {u})
        BY <4>1, FS_Subset
      <4> QED
        BY <2>1, <2>5, <2>6, <3>1, <4>2, CountType DEF SlotsCounted, Typed
    <3>2. CASE s # type[u]
      <4>1. Cardinality(Holders(s)') <= Cardinality(Holders(s))
        BY <2>4, HoldersFinite, FS_Subset
      <4> QED
        BY <2>6, <3>2, <4>1, CountType DEF SlotsCounted, Typed
    <3> QED
      BY <3>1, <3>2
  <2> QED
    BY <2>7 DEF SlotsCounted
<1>9. ASSUME NEW u \in Users, SkipRelease(u) PROVE SlotsCounted'
  <2>1. \A s \in Types : Holders(s)' \subseteq Holders(s)
    BY <1>9, GrantedIsListed DEF Holders, Holds, PastRelease, Typed, Place, Pass, InRun, Listed, Granting, SkipRelease, transferVars, slotVars, queueVars, scanVars, Goto
  <2>2. active' = active
    BY <1>9 DEF SkipRelease, transferVars, slotVars, queueVars, scanVars, Goto
  <2> QED
    BY <2>1, <2>2, SlotsKept
<1>10. ASSUME NEW u \in Users, ReleaseClient(u) PROVE SlotsCounted'
  <2>1. \A s \in Types : Holders(s)' \subseteq Holders(s)
    BY <1>10, GrantedIsListed DEF Holders, Holds, PastRelease, Typed, Place, Pass, InRun, Listed, Granting, ReleaseClient, transferVars, queueVars, scanVars, Goto
  <2>2. active' = active
    BY <1>10 DEF ReleaseClient, transferVars, queueVars, scanVars, Goto
  <2> QED
    BY <2>1, <2>2, SlotsKept
<1>11. ASSUME NEW u \in Users, DeleteTransfer(u) PROVE SlotsCounted'
  <2>1. \A s \in Types : Holders(s)' \subseteq Holders(s)
    BY <1>11, GrantedIsListed DEF Holders, Holds, PastRelease, Typed, Place, Pass, InRun, Listed, Granting, DeleteTransfer, transferVars, slotVars, queueVars, scanVars, Goto
  <2>2. active' = active
    BY <1>11 DEF DeleteTransfer, transferVars, slotVars, queueVars, scanVars, Goto
  <2> QED
    BY <2>1, <2>2, SlotsKept
<1>12. ASSUME NEW u \in Users, SignalEnd(u) PROVE SlotsCounted'
  <2>1. \A s \in Types : Holders(s)' \subseteq Holders(s)
    BY <1>12, GrantedIsListed DEF Holders, Holds, PastRelease, Typed, Place, Pass, InRun, Listed, Granting, SignalEnd, EndTransfer, SignalQueue, slotVars, queueVars, scanVars, Goto
  <2>2. active' = active
    BY <1>12 DEF SignalEnd, EndTransfer, SignalQueue, slotVars, queueVars, scanVars, Goto
  <2> QED
    BY <2>1, <2>2, SlotsKept
<1>13. ASSUME NEW u \in Users, LeaveLoop(u) PROVE SlotsCounted'
  <2>1. \A s \in Types : Holders(s)' \subseteq Holders(s)
    BY <1>13, GrantedIsListed DEF Holders, Holds, PastRelease, Typed, Place, Pass, InRun, Listed, Granting, LeaveLoop, transferVars, slotVars, queueVars, scanVars, Goto
  <2>2. active' = active
    BY <1>13 DEF LeaveLoop, transferVars, slotVars, queueVars, scanVars, Goto
  <2> QED
    BY <2>1, <2>2, SlotsKept
<1>14. ASSUME NEW u \in Users, LookForClient(u) PROVE SlotsCounted'
  <2>1. \A s \in Types : Holders(s)' \subseteq Holders(s)
    BY <1>14, GrantedIsListed DEF Holders, Holds, PastRelease, Typed, Place, Pass, InRun, Listed, Granting, LookForClient, transferVars, slotVars, queueVars, scanVars, Goto
  <2>2. active' = active
    BY <1>14 DEF LookForClient, transferVars, slotVars, queueVars, scanVars, Goto
  <2> QED
    BY <2>1, <2>2, SlotsKept
<1>15. ASSUME NEW u \in Users, LockTransfers(u) PROVE SlotsCounted'
  <2>1. \A s \in Types : Holders(s)' \subseteq Holders(s)
    BY <1>15, GrantedIsListed DEF Holders, Holds, PastRelease, Typed, Place, Pass, InRun, Listed, Granting, LockTransfers, transferVars, slotVars, queueVars, Goto
  <2>2. active' = active
    BY <1>15 DEF LockTransfers, transferVars, slotVars, queueVars, Goto
  <2> QED
    BY <2>1, <2>2, SlotsKept
<1>16. ASSUME NEW u \in Users, ScanTransfer(u) PROVE SlotsCounted'
  <2>1. \A s \in Types : Holders(s)' \subseteq Holders(s)
    BY <1>16, GrantedIsListed DEF Holders, Holds, PastRelease, Typed, Place, Pass, InRun, Listed, Granting, ScanTransfer, transferVars, slotVars, queueVars
  <2>2. active' = active
    BY <1>16 DEF ScanTransfer, transferVars, slotVars, queueVars
  <2> QED
    BY <2>1, <2>2, SlotsKept
<1>17. ASSUME NEW u \in Users, EndScan(u) PROVE SlotsCounted'
  <2>1. \A s \in Types : Holders(s)' \subseteq Holders(s)
    BY <1>17, GrantedIsListed DEF Holders, Holds, PastRelease, Typed, Place, Pass, InRun, Listed, Granting, EndScan, transferVars, slotVars, queueVars, scanVars, Goto
  <2>2. active' = active
    BY <1>17 DEF EndScan, transferVars, slotVars, queueVars, scanVars, Goto
  <2> QED
    BY <2>1, <2>2, SlotsKept
<1>18. ASSUME NEW u \in Users, SignalRemoved(u) PROVE SlotsCounted'
  <2>1. \A s \in Types : Holders(s)' \subseteq Holders(s)
    BY <1>18, GrantedIsListed DEF Holders, Holds, PastRelease, Typed, Place, Pass, InRun, Listed, Granting, SignalRemoved, SignalQueue, transferVars, slotVars, queueVars, scanVars, Goto
  <2>2. active' = active
    BY <1>18 DEF SignalRemoved, SignalQueue, transferVars, slotVars, queueVars, scanVars, Goto
  <2> QED
    BY <2>1, <2>2, SlotsKept
<1>19. ASSUME NEW u \in Users, LeaveUsers(u) PROVE SlotsCounted'
  <2>1. \A s \in Types : Holders(s)' \subseteq Holders(s)
    BY <1>19, GrantedIsListed DEF Holders, Holds, PastRelease, Typed, Place, Pass, InRun, Listed, Granting, LeaveUsers, transferVars, slotVars, queueVars, scanVars, Goto
  <2>2. active' = active
    BY <1>19 DEF LeaveUsers, transferVars, slotVars, queueVars, scanVars, Goto
  <2> QED
    BY <2>1, <2>2, SlotsKept
<1>20. ASSUME NEW u \in Users, Disconnect(u) PROVE SlotsCounted'
  <2>1. \A s \in Types : Holders(s)' \subseteq Holders(s)
    BY <1>20, GrantedIsListed DEF Holders, Holds, PastRelease, Typed, Place, Pass, InRun, Listed, Granting, Disconnect, transferVars, slotVars, queueVars, scanVars
  <2>2. active' = active
    BY <1>20 DEF Disconnect, transferVars, slotVars, queueVars, scanVars
  <2> QED
    BY <2>1, <2>2, SlotsKept
<1>21. ASSUME NEW u \in Users, Login(u) PROVE SlotsCounted'
  <2>1. \A s \in Types : Holders(s)' \subseteq Holders(s)
    BY <1>21, GrantedIsListed DEF Holders, Holds, PastRelease, Typed, Place, Pass, InRun, Listed, Granting, Login, transferVars, slotVars, queueVars, scanVars, Goto
  <2>2. active' = active
    BY <1>21 DEF Login, transferVars, slotVars, queueVars, scanVars, Goto
  <2> QED
    BY <2>1, <2>2, SlotsKept
<1>22. ASSUME NEW u \in Users, CheckTransfer(u) PROVE SlotsCounted'
  <2>1. \A s \in Types : Holders(s)' \subseteq Holders(s)
    BY <1>22, GrantedIsListed DEF Holders, Holds, PastRelease, Typed, Place, Pass, InRun, Listed, Granting, CheckTransfer, IsNext, transferVars, slotVars, scanVars
  <2>2. active' = active
    BY <1>22 DEF CheckTransfer, IsNext, transferVars, slotVars, scanVars
  <2> QED
    BY <2>1, <2>2, SlotsKept
<1>23. CASE BeginPass
  <2>1. \A s \in Types : Holders(s)' \subseteq Holders(s)
    BY <1>23, GrantedIsListed DEF Holders, Holds, PastRelease, Typed, Place, Pass, InRun, Listed, Granting, BeginPass, transferVars, slotVars, scanVars
  <2>2. active' = active
    BY <1>23 DEF BeginPass, transferVars, slotVars, scanVars
  <2> QED
    BY <2>1, <2>2, SlotsKept
<1>24. CASE CollectTransfers
  <2>1. \A s \in Types : Holders(s)' \subseteq Holders(s)
    BY <1>24, GrantedIsListed DEF Holders, Holds, PastRelease, Typed, Place, Pass, InRun, Listed, Granting, CollectTransfers, InArray, IsQueued, transferVars, slotVars, scanVars
  <2>2. active' = active
    BY <1>24 DEF CollectTransfers, InArray, IsQueued, transferVars, slotVars, scanVars
  <2> QED
    BY <2>1, <2>2, SlotsKept
<1>25. CASE AddActive
  <2>1. transfer \in Users /\ type[transfer] \in Types
    BY <1>25, GrantedIsListed DEF AddActive, Granting
  <2>2. \A s \in Types : s = type[transfer] => Holders(s)' \subseteq Holders(s) \cup {transfer}
    BY <1>25 DEF Holders, Holds, AddActive, transferVars
  <2>3. \A s \in Types \ {type[transfer]} : Holders(s)' \subseteq Holders(s)
    BY <1>25 DEF Holders, Holds, AddActive, transferVars
  <2>4. ASSUME NEW s \in Types
        PROVE  /\ IsFiniteSet(Holders(s) \cup {transfer})
               /\ Cardinality(Holders(s) \cup {transfer}) <= Cardinality(Holders(s)) + 1
    <3>1. IsFiniteSet(Holders(s)) /\ Cardinality(Holders(s)) \in Nat
      BY HoldersFinite, CountType
    <3>2. Cardinality(Holders(s) \cup {transfer})
            = IF transfer \in Holders(s) THEN Cardinality(Holders(s)) ELSE Cardinality(Holders(s)) + 1
      BY <3>1, FS_AddElement
    <3>3. IsFiniteSet(Holders(s) \cup {transfer})
      BY <3>1, FS_AddElement
    <3> QED
      BY <3>1, <3>2, <3>3
  <2>5. active' = [active EXCEPT ![type[transfer]] = @ + 1]
    BY <1>25 DEF AddActive
  <2>6. ASSUME NEW s \in Types PROVE Cardinality(Holders(s)') <= active'[s]
    <3>1. CASE s = type[transfer]
      <4>1. /\ Holders(s)' \subseteq Holders(s) \cup {transfer}
            /\ IsFiniteSet(Holders(s) \cup {transfer})
        BY <2>2, <2>4, <3>1
      <4>2. /\ Cardinality(Holders(s)') <= Cardinality(Holders(s) \cup {transfer})
            /\ Cardinality(Holders(s) \cup {transfer}) \in Nat
        BY <4>1, FS_Subset, FS_CardinalityType
      <4>3. active'[s] = active[s] + 1 /\ active[s] \in Int
        BY <2>1, <2>5, <3>1 DEF Typed
      <4>4. Cardinality(Holders(s)) <= active[s]
        BY DEF SlotsCounted
      <4>5. Cardinality(Holders(s)') \in Nat /\ Cardinality(Holders(s)) \in Nat
        BY CountType
      <4>6. Cardinality(Holders(s) \cup {transfer}) <= Cardinality(Holders(s)) + 1
        BY <2>4
      <4> QED
        BY <4>2, <4>3, <4>4, <4>5, <4>6
    <3>2. CASE s # type[transfer]
      <4>1. Cardinality(Holders(s)') <= Cardinality(Holders(s))
        BY <2>3, <3>2, HoldersFinite, FS_Subset
      <4> QED
        BY <2>5, <3>2, <4>1, CountType DEF SlotsCounted, Typed
    <3> QED
      BY <3>1, <3>2
  <2> QED
    BY <2>6 DEF SlotsCounted
<1>26. CASE AddClient
  <2>1. \A s \in Types : Holders(s)' \subseteq Holders(s)
    BY <1>26, GrantedIsListed DEF Holders, Holds, PastRelease, Typed, Place, Pass, InRun, Listed, Granting, AddClient, transferVars, scanVars
  <2>2. active' = active
    BY <1>26 DEF AddClient, transferVars, scanVars
  <2> QED
    BY <2>1, <2>2, SlotsKept
<1>27. CASE StorePosition
  <2>1. \A s \in Types : Holders(s)' \subseteq Holders(s)
    BY <1>27, GrantedIsListed DEF Holders, Holds, PastRelease, Typed, Place, Pass, InRun, Listed, Granting, StorePosition, slotVars, scanVars
  <2>2. active' = active
    BY <1>27 DEF StorePosition, slotVars, scanVars
  <2> QED
    BY <2>1, <2>2, SlotsKept
<1>28. CASE EndPass
  <2>1. \A s \in Types : Holders(s)' \subseteq Holders(s)
    BY <1>28, GrantedIsListed DEF Holders, Holds, PastRelease, Typed, Place, Pass, InRun, Listed, Granting, EndPass, transferVars, slotVars, scanVars
  <2>2. active' = active
    BY <1>28 DEF EndPass, transferVars, slotVars, scanVars
  <2> QED
    BY <2>1, <2>2, SlotsKept
<1>29. CASE ApplySettings
  <2>1. \A s \in Types : Holders(s)' \subseteq Holders(s)
    BY <1>29, GrantedIsListed DEF Holders, Holds, PastRelease, Typed, Place, Pass, InRun, Listed, Granting, ApplySettings, transferVars, slotVars, queueVars, scanVars
  <2>2. active' = active
    BY <1>29 DEF ApplySettings, transferVars, slotVars, queueVars, scanVars
  <2> QED
    BY <2>1, <2>2, SlotsKept
<1>30. CASE SignalSettings
  <2>1. \A s \in Types : Holders(s)' \subseteq Holders(s)
    BY <1>30, GrantedIsListed DEF Holders, Holds, PastRelease, Typed, Place, Pass, InRun, Listed, Granting, SignalSettings, SignalQueue, transferVars, slotVars, queueVars, scanVars
  <2>2. active' = active
    BY <1>30 DEF SignalSettings, SignalQueue, transferVars, slotVars, queueVars, scanVars
  <2> QED
    BY <2>1, <2>2, SlotsKept
<1>31. CASE UNCHANGED vars
  <2>1. \A s \in Types : Holders(s)' \subseteq Holders(s)
    BY <1>31 DEF Holders, Holds, vars, transferVars, slotVars, queueVars, scanVars
  <2>2. active' = active
    BY <1>31 DEF vars, slotVars
  <2> QED
    BY <2>1, <2>2, SlotsKept
<1> QED
  BY <1>1, <1>2, <1>3, <1>4, <1>5, <1>6, <1>7, <1>8, <1>9, <1>10, <1>11, <1>12, <1>13, <1>14, <1>15, <1>16, <1>17, <1>18, <1>19, <1>20, <1>21, <1>22, <1>23, <1>24, <1>25, <1>26, <1>27, <1>28, <1>29, <1>30, <1>31 DEF Next, TransferStep, ExitStep, QueueStep

-----------------------------------------------------------------------------
(* The limits in force change only with the settings. *)
LEMMA TotalsKept == ASSUME Typed, [Next]_vars PROVE Totals' = Totals
<1>1. "settings" \notin Faults => total' = total
  <2>1. ASSUME "settings" \notin Faults, ApplySettings PROVE FALSE
    BY <2>1 DEF ApplySettings
  <2>2. ASSUME NEW u \in Users, TransferStep(u) PROVE total' = total
    BY <2>2 DEF TransferStep, CreateTransfer, AddTransfer, SignalAdded, WakeUp, WritePosition,
           FailToWritePosition, FinishTransfer, ReleaseSlot, SkipRelease, ReleaseClient,
           DeleteTransfer, SignalEnd, EndTransfer
  <2>3. ASSUME NEW u \in Users, ExitStep(u) PROVE total' = total
    BY <2>3 DEF ExitStep, LeaveLoop, LookForClient, LockTransfers, ScanTransfer, EndScan,
           SignalRemoved, LeaveUsers
  <2>4. ASSUME NEW u \in Users, Disconnect(u) \/ Login(u) PROVE total' = total
    BY <2>4 DEF Disconnect, Login
  <2>5. CASE QueueStep
    BY <2>5 DEF QueueStep, CheckTransfer, BeginPass, CollectTransfers, AddActive, AddClient,
           StorePosition, EndPass
  <2>6. CASE SignalSettings \/ UNCHANGED vars
    BY <2>6 DEF SignalSettings, vars
  <2> QED
    BY <2>1, <2>2, <2>3, <2>4, <2>5, <2>6 DEF Next
<1> QED
  BY <1>1 DEF Totals

LEMMA RoomBelow ==
  ASSUME Typed, NEW s \in Types, NEW m \in Int, NEW n \in Int, n <= m, Room(s, m)
  PROVE  Room(s, n)
<1>1. PICK c \in Totals : c[s] = 0 \/ m <= c[s]
  BY DEF Room
<1>2. c[s] \in Nat
  BY <1>1, LimitsAssumption DEF Totals, Typed
<1> QED
  BY <1>1, <1>2 DEF Room

(* Every step keeps the counts within the limits. *)
LEMMA LimitStep ==
  ASSUME Typed, Place, Pass, WithinLimit, [Next]_vars
  PROVE  WithinLimit'
<1> USE UsersAssumption, KeysAssumption, LimitsAssumption
<1>1. ASSUME NEW u \in Users, NEW t \in Types, CreateTransfer(u, t) PROVE WithinLimit'
  <2>1. active' = active /\ qpc' = qpc /\ transfer' = transfer
    BY <1>1 DEF CreateTransfer, slotVars, queueVars, scanVars, Goto
  <2>2. qpc = "add_active" => type'[transfer] = type[transfer] /\ type[transfer] \in Types
    BY <1>1, GrantedIsListed DEF Granting, Listed, InRun, Typed, CreateTransfer, slotVars, queueVars, scanVars, Goto
  <2> QED
    BY <2>1, <2>2, TotalsKept DEF WithinLimit, Room
<1>2. ASSUME NEW u \in Users, AddTransfer(u) PROVE WithinLimit'
  <2>1. active' = active /\ qpc' = qpc /\ transfer' = transfer
    BY <1>2 DEF AddTransfer, transferVars, slotVars, queueVars, scanVars, Goto
  <2>2. qpc = "add_active" => type'[transfer] = type[transfer] /\ type[transfer] \in Types
    BY <1>2, GrantedIsListed DEF Granting, Listed, InRun, Typed, AddTransfer, transferVars, slotVars, queueVars, scanVars, Goto
  <2> QED
    BY <2>1, <2>2, TotalsKept DEF WithinLimit, Room
<1>3. ASSUME NEW u \in Users, SignalAdded(u) PROVE WithinLimit'
  <2>1. active' = active /\ qpc' = qpc /\ transfer' = transfer
    BY <1>3 DEF SignalAdded, SignalQueue, transferVars, slotVars, queueVars, scanVars, Goto
  <2>2. qpc = "add_active" => type'[transfer] = type[transfer] /\ type[transfer] \in Types
    BY <1>3, GrantedIsListed DEF Granting, Listed, InRun, Typed, SignalAdded, SignalQueue, transferVars, slotVars, queueVars, scanVars, Goto
  <2> QED
    BY <2>1, <2>2, TotalsKept DEF WithinLimit, Room
<1>4. ASSUME NEW u \in Users, WakeUp(u) PROVE WithinLimit'
  <2>1. active' = active /\ qpc' = qpc /\ transfer' = transfer
    BY <1>4 DEF WakeUp, StartTransfer, slotVars, queueVars, scanVars, Goto
  <2>2. qpc = "add_active" => type'[transfer] = type[transfer] /\ type[transfer] \in Types
    BY <1>4, GrantedIsListed DEF Granting, Listed, InRun, Typed, WakeUp, StartTransfer, slotVars, queueVars, scanVars, Goto
  <2> QED
    BY <2>1, <2>2, TotalsKept DEF WithinLimit, Room
<1>5. ASSUME NEW u \in Users, WritePosition(u) PROVE WithinLimit'
  <2>1. active' = active /\ qpc' = qpc /\ transfer' = transfer
    BY <1>5 DEF WritePosition, StartTransfer, slotVars, queueVars, scanVars, Goto
  <2>2. qpc = "add_active" => type'[transfer] = type[transfer] /\ type[transfer] \in Types
    BY <1>5, GrantedIsListed DEF Granting, Listed, InRun, Typed, WritePosition, StartTransfer, slotVars, queueVars, scanVars, Goto
  <2> QED
    BY <2>1, <2>2, TotalsKept DEF WithinLimit, Room
<1>6. ASSUME NEW u \in Users, FailToWritePosition(u) PROVE WithinLimit'
  <2>1. active' = active /\ qpc' = qpc /\ transfer' = transfer
    BY <1>6 DEF FailToWritePosition, slotVars, queueVars, scanVars, Goto
  <2>2. qpc = "add_active" => type'[transfer] = type[transfer] /\ type[transfer] \in Types
    BY <1>6, GrantedIsListed DEF Granting, Listed, InRun, Typed, FailToWritePosition, slotVars, queueVars, scanVars, Goto
  <2> QED
    BY <2>1, <2>2, TotalsKept DEF WithinLimit, Room
<1>7. ASSUME NEW u \in Users, FinishTransfer(u) PROVE WithinLimit'
  <2>1. active' = active /\ qpc' = qpc /\ transfer' = transfer
    BY <1>7 DEF FinishTransfer, slotVars, queueVars, scanVars, Goto
  <2>2. qpc = "add_active" => type'[transfer] = type[transfer] /\ type[transfer] \in Types
    BY <1>7, GrantedIsListed DEF Granting, Listed, InRun, Typed, FinishTransfer, slotVars, queueVars, scanVars, Goto
  <2> QED
    BY <2>1, <2>2, TotalsKept DEF WithinLimit, Room
<1>8. ASSUME NEW u \in Users, ReleaseSlot(u) PROVE WithinLimit'
  <2>1. type[u] \in Types /\ active' = [active EXCEPT ![type[u]] = @ - 1]
    BY <1>8 DEF ReleaseSlot, Place, InRun
  <2>2. \A s \in Types : active'[s] <= active[s] /\ active'[s] \in Int /\ active[s] \in Int
    BY <2>1 DEF Typed
  <2>3. qpc' = qpc /\ transfer' = transfer /\ type' = type
    BY <1>8 DEF ReleaseSlot, transferVars, queueVars
  <2>4. qpc = "add_active" => type[transfer] \in Types
    BY GrantedIsListed DEF Granting
  <2>5. \A s \in Types : Room(s, active'[s])
    BY <2>2, RoomBelow DEF WithinLimit
  <2>6. qpc = "add_active" => Room(type[transfer], active'[type[transfer]] + 1)
    BY <2>2, <2>4, RoomBelow DEF WithinLimit
  <2> QED
    BY <2>3, <2>5, <2>6, TotalsKept DEF WithinLimit, Room
<1>9. ASSUME NEW u \in Users, SkipRelease(u) PROVE WithinLimit'
  <2>1. active' = active /\ qpc' = qpc /\ transfer' = transfer
    BY <1>9 DEF SkipRelease, transferVars, slotVars, queueVars, scanVars, Goto
  <2>2. qpc = "add_active" => type'[transfer] = type[transfer] /\ type[transfer] \in Types
    BY <1>9, GrantedIsListed DEF Granting, Listed, InRun, Typed, SkipRelease, transferVars, slotVars, queueVars, scanVars, Goto
  <2> QED
    BY <2>1, <2>2, TotalsKept DEF WithinLimit, Room
<1>10. ASSUME NEW u \in Users, ReleaseClient(u) PROVE WithinLimit'
  <2>1. active' = active /\ qpc' = qpc /\ transfer' = transfer
    BY <1>10 DEF ReleaseClient, transferVars, queueVars, scanVars, Goto
  <2>2. qpc = "add_active" => type'[transfer] = type[transfer] /\ type[transfer] \in Types
    BY <1>10, GrantedIsListed DEF Granting, Listed, InRun, Typed, ReleaseClient, transferVars, queueVars, scanVars, Goto
  <2> QED
    BY <2>1, <2>2, TotalsKept DEF WithinLimit, Room
<1>11. ASSUME NEW u \in Users, DeleteTransfer(u) PROVE WithinLimit'
  <2>1. active' = active /\ qpc' = qpc /\ transfer' = transfer
    BY <1>11 DEF DeleteTransfer, transferVars, slotVars, queueVars, scanVars, Goto
  <2>2. qpc = "add_active" => type'[transfer] = type[transfer] /\ type[transfer] \in Types
    BY <1>11, GrantedIsListed DEF Granting, Listed, InRun, Typed, DeleteTransfer, transferVars, slotVars, queueVars, scanVars, Goto
  <2> QED
    BY <2>1, <2>2, TotalsKept DEF WithinLimit, Room
<1>12. ASSUME NEW u \in Users, SignalEnd(u) PROVE WithinLimit'
  <2>1. active' = active /\ qpc' = qpc /\ transfer' = transfer
    BY <1>12 DEF SignalEnd, EndTransfer, SignalQueue, slotVars, queueVars, scanVars, Goto
  <2>2. qpc = "add_active" => type'[transfer] = type[transfer] /\ type[transfer] \in Types
    BY <1>12, GrantedIsListed DEF Granting, Listed, InRun, Typed, SignalEnd, EndTransfer, SignalQueue, slotVars, queueVars, scanVars, Goto
  <2> QED
    BY <2>1, <2>2, TotalsKept DEF WithinLimit, Room
<1>13. ASSUME NEW u \in Users, LeaveLoop(u) PROVE WithinLimit'
  <2>1. active' = active /\ qpc' = qpc /\ transfer' = transfer
    BY <1>13 DEF LeaveLoop, transferVars, slotVars, queueVars, scanVars, Goto
  <2>2. qpc = "add_active" => type'[transfer] = type[transfer] /\ type[transfer] \in Types
    BY <1>13, GrantedIsListed DEF Granting, Listed, InRun, Typed, LeaveLoop, transferVars, slotVars, queueVars, scanVars, Goto
  <2> QED
    BY <2>1, <2>2, TotalsKept DEF WithinLimit, Room
<1>14. ASSUME NEW u \in Users, LookForClient(u) PROVE WithinLimit'
  <2>1. active' = active /\ qpc' = qpc /\ transfer' = transfer
    BY <1>14 DEF LookForClient, transferVars, slotVars, queueVars, scanVars, Goto
  <2>2. qpc = "add_active" => type'[transfer] = type[transfer] /\ type[transfer] \in Types
    BY <1>14, GrantedIsListed DEF Granting, Listed, InRun, Typed, LookForClient, transferVars, slotVars, queueVars, scanVars, Goto
  <2> QED
    BY <2>1, <2>2, TotalsKept DEF WithinLimit, Room
<1>15. ASSUME NEW u \in Users, LockTransfers(u) PROVE WithinLimit'
  <2>1. active' = active /\ qpc' = qpc /\ transfer' = transfer
    BY <1>15 DEF LockTransfers, transferVars, slotVars, queueVars, Goto
  <2>2. qpc = "add_active" => type'[transfer] = type[transfer] /\ type[transfer] \in Types
    BY <1>15, GrantedIsListed DEF Granting, Listed, InRun, Typed, LockTransfers, transferVars, slotVars, queueVars, Goto
  <2> QED
    BY <2>1, <2>2, TotalsKept DEF WithinLimit, Room
<1>16. ASSUME NEW u \in Users, ScanTransfer(u) PROVE WithinLimit'
  <2>1. active' = active /\ qpc' = qpc /\ transfer' = transfer
    BY <1>16 DEF ScanTransfer, transferVars, slotVars, queueVars
  <2>2. qpc = "add_active" => type'[transfer] = type[transfer] /\ type[transfer] \in Types
    BY <1>16, GrantedIsListed DEF Granting, Listed, InRun, Typed, ScanTransfer, transferVars, slotVars, queueVars
  <2> QED
    BY <2>1, <2>2, TotalsKept DEF WithinLimit, Room
<1>17. ASSUME NEW u \in Users, EndScan(u) PROVE WithinLimit'
  <2>1. active' = active /\ qpc' = qpc /\ transfer' = transfer
    BY <1>17 DEF EndScan, transferVars, slotVars, queueVars, scanVars, Goto
  <2>2. qpc = "add_active" => type'[transfer] = type[transfer] /\ type[transfer] \in Types
    BY <1>17, GrantedIsListed DEF Granting, Listed, InRun, Typed, EndScan, transferVars, slotVars, queueVars, scanVars, Goto
  <2> QED
    BY <2>1, <2>2, TotalsKept DEF WithinLimit, Room
<1>18. ASSUME NEW u \in Users, SignalRemoved(u) PROVE WithinLimit'
  <2>1. active' = active /\ qpc' = qpc /\ transfer' = transfer
    BY <1>18 DEF SignalRemoved, SignalQueue, transferVars, slotVars, queueVars, scanVars, Goto
  <2>2. qpc = "add_active" => type'[transfer] = type[transfer] /\ type[transfer] \in Types
    BY <1>18, GrantedIsListed DEF Granting, Listed, InRun, Typed, SignalRemoved, SignalQueue, transferVars, slotVars, queueVars, scanVars, Goto
  <2> QED
    BY <2>1, <2>2, TotalsKept DEF WithinLimit, Room
<1>19. ASSUME NEW u \in Users, LeaveUsers(u) PROVE WithinLimit'
  <2>1. active' = active /\ qpc' = qpc /\ transfer' = transfer
    BY <1>19 DEF LeaveUsers, transferVars, slotVars, queueVars, scanVars, Goto
  <2>2. qpc = "add_active" => type'[transfer] = type[transfer] /\ type[transfer] \in Types
    BY <1>19, GrantedIsListed DEF Granting, Listed, InRun, Typed, LeaveUsers, transferVars, slotVars, queueVars, scanVars, Goto
  <2> QED
    BY <2>1, <2>2, TotalsKept DEF WithinLimit, Room
<1>20. ASSUME NEW u \in Users, Disconnect(u) PROVE WithinLimit'
  <2>1. active' = active /\ qpc' = qpc /\ transfer' = transfer
    BY <1>20 DEF Disconnect, transferVars, slotVars, queueVars, scanVars
  <2>2. qpc = "add_active" => type'[transfer] = type[transfer] /\ type[transfer] \in Types
    BY <1>20, GrantedIsListed DEF Granting, Listed, InRun, Typed, Disconnect, transferVars, slotVars, queueVars, scanVars
  <2> QED
    BY <2>1, <2>2, TotalsKept DEF WithinLimit, Room
<1>21. ASSUME NEW u \in Users, Login(u) PROVE WithinLimit'
  <2>1. active' = active /\ qpc' = qpc /\ transfer' = transfer
    BY <1>21 DEF Login, transferVars, slotVars, queueVars, scanVars, Goto
  <2>2. qpc = "add_active" => type'[transfer] = type[transfer] /\ type[transfer] \in Types
    BY <1>21, GrantedIsListed DEF Granting, Listed, InRun, Typed, Login, transferVars, slotVars, queueVars, scanVars, Goto
  <2> QED
    BY <2>1, <2>2, TotalsKept DEF WithinLimit, Room
<1>22. ASSUME NEW u \in Users, CheckTransfer(u) PROVE WithinLimit'
  <2>1. active' = active /\ type' = type
    BY <1>22 DEF CheckTransfer, transferVars, slotVars
  <2>2. ASSUME qpc' = "add_active"
        PROVE  /\ transfer' = u /\ type[u] \in Types
               /\ total[type[u]] = 0 \/ active[type[u]] + 1 <= total[type[u]]
    <3>1. transfer' = u /\ ~Blocked(type[u], KeyOf[u]) /\ u \in todo
      BY <1>22, <2>2 DEF CheckTransfer, IsNext
    <3>2. type[u] \in Types
      BY <3>1 DEF Pass, Place, Listed
    <3>3. total[type[u]] \in Nat /\ active[type[u]] \in Int
      BY <3>2 DEF Typed
    <3> QED
      BY <3>1, <3>2, <3>3 DEF Blocked
  <2>3. total \in Totals
    BY DEF Totals, Typed
  <2> QED
    BY <2>1, <2>2, <2>3, TotalsKept DEF WithinLimit, Room
<1>23. CASE BeginPass
  <2>1. active' = active /\ qpc' # "add_active"
    BY <1>23 DEF BeginPass, transferVars, slotVars, scanVars
  <2> QED
    BY <2>1, TotalsKept DEF WithinLimit, Room
<1>24. CASE CollectTransfers
  <2>1. active' = active /\ qpc' # "add_active"
    BY <1>24 DEF CollectTransfers, InArray, IsQueued, transferVars, slotVars, scanVars
  <2> QED
    BY <2>1, TotalsKept DEF WithinLimit, Room
<1>25. CASE AddActive
  <2>1. transfer \in Users /\ type[transfer] \in Types
    BY <1>25, GrantedIsListed DEF AddActive, Granting
  <2>2. active' = [active EXCEPT ![type[transfer]] = @ + 1] /\ qpc' = "add_client"
    BY <1>25 DEF AddActive
  <2>3. \A s \in Types : active'[s] = IF s = type[transfer] THEN active[s] + 1 ELSE active[s]
    BY <2>1, <2>2 DEF Typed
  <2>4. Room(type[transfer], active[type[transfer]] + 1)
    BY <1>25 DEF WithinLimit, AddActive
  <2>5. \A s \in Types : Room(s, active'[s])
    BY <2>3, <2>4 DEF WithinLimit
  <2> QED
    BY <2>2, <2>5, TotalsKept DEF WithinLimit, Room
<1>26. CASE AddClient
  <2>1. active' = active /\ qpc' # "add_active"
    BY <1>26 DEF AddClient, transferVars, scanVars
  <2> QED
    BY <2>1, TotalsKept DEF WithinLimit, Room
<1>27. CASE StorePosition
  <2>1. active' = active /\ qpc' # "add_active"
    BY <1>27 DEF StorePosition, slotVars, scanVars
  <2> QED
    BY <2>1, TotalsKept DEF WithinLimit, Room
<1>28. CASE EndPass
  <2>1. active' = active /\ qpc' # "add_active"
    BY <1>28 DEF EndPass, transferVars, slotVars, scanVars
  <2> QED
    BY <2>1, TotalsKept DEF WithinLimit, Room
<1>29. CASE ApplySettings
  <2>1. active' = active /\ qpc' = qpc /\ transfer' = transfer
    BY <1>29 DEF ApplySettings, transferVars, slotVars, queueVars, scanVars
  <2>2. qpc = "add_active" => type'[transfer] = type[transfer] /\ type[transfer] \in Types
    BY <1>29, GrantedIsListed DEF Granting, Listed, InRun, Typed, ApplySettings, transferVars, slotVars, queueVars, scanVars
  <2> QED
    BY <2>1, <2>2, TotalsKept DEF WithinLimit, Room
<1>30. CASE SignalSettings
  <2>1. active' = active /\ qpc' = qpc /\ transfer' = transfer
    BY <1>30 DEF SignalSettings, SignalQueue, transferVars, slotVars, queueVars, scanVars
  <2>2. qpc = "add_active" => type'[transfer] = type[transfer] /\ type[transfer] \in Types
    BY <1>30, GrantedIsListed DEF Granting, Listed, InRun, Typed, SignalSettings, SignalQueue, transferVars, slotVars, queueVars, scanVars
  <2> QED
    BY <2>1, <2>2, TotalsKept DEF WithinLimit, Room
<1>31. CASE UNCHANGED vars
  BY <1>31, TotalsKept DEF WithinLimit, Room, vars, transferVars, slotVars, queueVars
<1> QED
  BY <1>1, <1>2, <1>3, <1>4, <1>5, <1>6, <1>7, <1>8, <1>9, <1>10, <1>11, <1>12, <1>13, <1>14, <1>15, <1>16, <1>17, <1>18, <1>19, <1>20, <1>21, <1>22, <1>23, <1>24, <1>25, <1>26, <1>27, <1>28, <1>29, <1>30, <1>31 DEF Next, TransferStep, ExitStep, QueueStep

-----------------------------------------------------------------------------
LEMMA InitIInv == Init => IInv
<1> SUFFICES ASSUME Init PROVE IInv
  OBVIOUS
<1> USE UsersAssumption, KeysAssumption, LimitsAssumption DEF Init
<1>1. Typed
  <2>1. /\ wd_transfers \in [Users -> Nat]
        /\ queue_time \in [Users -> Nat]
        /\ type \in [Users -> Types \cup {None}]
        /\ queue \in [Users -> Nat \cup {-1}]
        /\ cond \in [Users -> {0, 1}]
        /\ state \in [Users -> {"QUEUED", "RUNNING"}]
        /\ failed \in [Users -> BOOLEAN]
        /\ pc \in [Users -> PCs]
        /\ user_state \in [Users -> {"NONE", "LOGGED_IN", "DISCONNECTED"}]
    BY DEF PCs
  <2>2. active \in [Types -> Int]
    OBVIOUS
  <2>3. user_transfers \in [Types -> [Keys -> Nat]]
    OBVIOUS
  <2>4. total \in TotalChoices /\ qlock \in BOOLEAN /\ qcond \in {0, 1}
    OBVIOUS
  <2>5. /\ array_lock \in Users \cup {None, "queue"}
        /\ qpc \in {"wait", "rdlock", "next", "add_active", "add_client", "store"}
        /\ collected \subseteq Users /\ todo \subseteq Users
        /\ transfer \in Users \cup {None}
    OBVIOUS
  <2>6. position \in Nat /\ position >= 1 /\ new_position \in Nat /\ scan \in Nat
    <3>1. position = 1 /\ new_position = 0 /\ scan = 1
      OBVIOUS
    <3> QED
      BY ONLY <3>1
  <2>7. update \in BOOLEAN /\ spc \in {"idle", "signal"}
    OBVIOUS
  <2> QED
    BY <2>1, <2>2, <2>3, <2>4, <2>5, <2>6, <2>7 DEF Typed
<1>2. Place /\ Pass
  BY DEF Place, Pass, InRun, Listed, Granting, None
<1>3. \A t \in Types : Holders(t) = {}
  BY DEF Holders, Holds
<1>4. SlotsCounted
  <2>1. \A t \in Types : active[t] = 0 /\ Cardinality(Holders(t)) = 0
    BY <1>3, FS_EmptySet
  <2> QED
    BY <2>1 DEF SlotsCounted
<1>5. WithinLimit
  <2>1. total \in Totals /\ \A t \in Types : total[t] \in Nat
    BY DEF Totals
  <2> QED
    BY <2>1 DEF WithinLimit, Room
<1> QED
  BY <1>1, <1>2, <1>4, <1>5 DEF IInv

LEMMA StepIInv == IInv /\ [Next]_vars => IInv'
<1> SUFFICES ASSUME IInv, [Next]_vars PROVE IInv'
  OBVIOUS
<1>1. Typed /\ Place /\ Pass /\ SlotsCounted /\ WithinLimit
  BY DEF IInv
<1> QED
  BY <1>1, TypedStep, PlaceStep, PassStep, SlotsStep, LimitStep DEF IInv

(* The invariant all the results rest on. *)
THEOREM Inductive == Spec => []IInv
BY InitIInv, StepIInv, PTL DEF Spec

(* The variables keep their types; in particular the unsigned counters of  *)
(* active downloads and uploads never wrap below zero.                     *)
THEOREM TypeCorrect == Spec => []TypeOK
<1>1. IInv => TypeOK
  <2> SUFFICES ASSUME IInv PROVE TypeOK
    OBVIOUS
  <2>1. Typed /\ SlotsCounted
    BY DEF IInv
  <2>2. ASSUME NEW t \in Types PROVE active[t] \in Nat
    <3>1. active[t] \in Int /\ Cardinality(Holders(t)) <= active[t]
      BY <2>1 DEF Typed, SlotsCounted
    <3> QED
      BY <3>1, CountType
  <2>3. active \in [Types -> Nat]
    BY <2>1, <2>2 DEF Typed
  <2> QED
    BY <2>1, <2>3 DEF Typed, TypeOK
<1> QED
  BY <1>1, Inductive, PTL

(* Every slot in use is counted, whatever is granted, released or removed  *)
(* meanwhile (wd_transfers_add_or_remove_transfer).                        *)
THEOREM SlotsAreCounted == Spec => []SlotsCounted
<1>1. IInv => SlotsCounted
  BY DEF IInv
<1> QED
  BY <1>1, Inductive, PTL

(* No more transfers move data than "total downloads" or "total uploads"   *)
(* allow: whoever moves data holds a slot, slots in use are counted, and   *)
(* the count is raised only below the limit.                               *)
THEOREM TotalIsRespected == Spec => []TotalRespected
<1>1. IInv => TotalRespected
  <2> SUFFICES ASSUME IInv, NEW t \in Types
               PROVE  \E c \in Totals : c[t] = 0 \/ Cardinality(Streams(t)) <= c[t]
    BY DEF TotalRespected
  <2>1. Typed /\ Place /\ SlotsCounted /\ WithinLimit
    BY DEF IInv
  <2>2. Streams(t) \subseteq Holders(t)
    BY <2>1 DEF Streams, Moves, Holders, Holds, Place, PastRelease
  <2>3. Cardinality(Streams(t)) \in Nat /\ Cardinality(Streams(t)) <= Cardinality(Holders(t))
    BY <2>2, HoldersFinite, FS_Subset, FS_CardinalityType
  <2>4. Cardinality(Holders(t)) <= active[t] /\ active[t] \in Int
    BY <2>1 DEF SlotsCounted, Typed
  <2>5. PICK c \in Totals : c[t] = 0 \/ active[t] <= c[t]
    BY <2>1 DEF WithinLimit, Room
  <2>6. c[t] \in Nat
    BY <2>1, <2>5, LimitsAssumption DEF Totals, Typed
  <2> QED
    BY <2>3, <2>4, <2>5, <2>6, CountType
<1> QED
  BY <1>1, Inductive, PTL
====
