---- MODULE WakeupProofs ----
(***************************************************************************)
(* Proofs about the waits in TransferQueue: no wakeup of the queue thread  *)
(* is lost, whatever happens while a pass is under way; who waits waits    *)
(* for transfers that run; and the positions number those who wait.        *)
(***************************************************************************)
EXTENDS ClientQueueProofs

(* Somebody is on the way to signal the queue thread ...                   *)
Due == spc = "signal" \/ \E v \in Users : pc[v] \in {"signal", "release_client", "delete", "signal_end"}

(* ... or has done so, and the pass has not collected the transfers yet.   *)
Awake == qpc = "rdlock" \/ (qpc = "wait" /\ qcond = 1)

Fits(u) == ~Blocked(type[u], KeyOf[u])

(* Who waits although there is room for it will be looked at.  What was    *)
(* blocked and fits when its position is stored was released since then.   *)
NoneMissed ==
  /\ qlock = (qpc # "wait")
  /\ \A u \in Users : Waiting(u) /\ Fits(u) => Due \/ Awake \/ u \in todo
  /\ qpc = "store" /\ new_position > 0 /\ Fits(transfer) => Due

-----------------------------------------------------------------------------
(* A step that changes no counter and no limit, and lets nobody wait who   *)
(* did not, keeps the invariant if the signals stay due and the pass goes  *)
(* on as it was.                                                           *)
Calmly ==
  /\ UNCHANGED <<total, active, user_transfers>>
  /\ \A u \in Users : Waiting(u)' => (Waiting(u) \/ Due') /\ type'[u] = type[u]
  /\ Due => Due'
PassKept ==
  UNCHANGED <<qlock, qcond, qpc, todo, transfer, new_position>> /\ (qpc = "store" => type'[transfer] = type[transfer])

LEMMA CalmMissesNone ==
  ASSUME NoneMissed, Calmly, PassKept PROVE NoneMissed'
<1>1. \A u \in Users : Waiting(u)' /\ Fits(u)' => Due' \/ (Waiting(u) /\ Fits(u))
  BY DEF Calmly, Fits, Blocked
<1>2. qpc = "store" /\ Fits(transfer)' => Fits(transfer)
  BY DEF Calmly, PassKept, Fits, Blocked
<1>3. Awake' = Awake
  BY DEF PassKept, Awake
<1> QED
  BY <1>1, <1>2, <1>3 DEF NoneMissed, Calmly, PassKept

LEMMA ScanRemoves ==
  ASSUME Typed, NEW u \in Users, ScanTransfer(u)
  PROVE  \A v \in Users : wd_transfers'[v] > 0 => wd_transfers[v] > 0
<1>1. wd_transfers \in [Users -> Nat]
  BY DEF Typed
<1> QED
  BY <1>1, OrderType DEF ScanTransfer

LEMMA CreateCalm ==
  ASSUME Typed, Place, Pass, NEW u \in Users, NEW t \in Types, CreateTransfer(u, t)
  PROVE  Calmly /\ PassKept
<1>1. /\ pc[u] = "idle" /\ type' = [type EXCEPT ![u] = t] /\ pc' = [pc EXCEPT ![u] = "add"]
      /\ UNCHANGED <<wd_transfers, queue, state, total, active, user_transfers, spc>>
      /\ UNCHANGED <<qlock, qcond, qpc, todo, transfer, new_position>>
  BY DEF CreateTransfer, Goto, slotVars, queueVars
<1>2. ~(wd_transfers[u] > 0)
  BY <1>1 DEF Place, Listed, InRun
<1>3. qpc = "store" => transfer # u /\ transfer \in Users
  BY <1>2, GrantedIsListed DEF Granting
<1>4. \A v \in Users \ {u} : type'[v] = type[v] /\ pc'[v] = pc[v]
  BY <1>1 DEF Typed
<1>5. \A v \in Users : Waiting(v)' => v # u /\ Waiting(v)
  BY <1>1, <1>2 DEF Waiting, InArray
<1>6. Due => Due'
  BY <1>1, <1>4 DEF Due
<1> QED
  BY <1>1, <1>3, <1>4, <1>5, <1>6 DEF Calmly, PassKept

LEMMA TransferCalm ==
  ASSUME Typed, Place, Pass, NEW u \in Users, TransferStep(u) \/ ExitStep(u) \/ Disconnect(u) \/ Login(u),
         ~SignalAdded(u), ~SignalEnd(u), ~SignalRemoved(u), ~ReleaseSlot(u), ~ReleaseClient(u)
  PROVE  Calmly /\ PassKept
<1> USE OrderType, GrantedIsListed
    DEF Typed, Place, Pass, InRun, Listed, Granting, Calmly, PassKept, Due, Waiting, InArray, Goto,
        transferVars, slotVars, queueVars, scanVars
<1>1. ASSUME NEW t \in Types, CreateTransfer(u, t) PROVE Calmly /\ PassKept
  BY <1>1, CreateCalm
<1>2. CASE AddTransfer(u)
  BY <1>2 DEF AddTransfer
<1>3. CASE WakeUp(u)
  BY <1>3 DEF WakeUp, StartTransfer
<1>4. CASE WritePosition(u)
  BY <1>4 DEF WritePosition, StartTransfer
<1>5. CASE FailToWritePosition(u)
  BY <1>5 DEF FailToWritePosition
<1>6. CASE FinishTransfer(u)
  BY <1>6 DEF FinishTransfer
<1>7. CASE SkipRelease(u)
  BY <1>7 DEF SkipRelease
<1>8. CASE DeleteTransfer(u)
  BY <1>8 DEF DeleteTransfer
<1>9. CASE LeaveLoop(u)
  BY <1>9 DEF LeaveLoop
<1>10. CASE LookForClient(u)
  BY <1>10 DEF LookForClient
<1>11. CASE LockTransfers(u)
  BY <1>11 DEF LockTransfers
<1>12. CASE ScanTransfer(u)
  <2>1. \A v \in Users : wd_transfers'[v] > 0 => wd_transfers[v] > 0
    BY <1>12, ScanRemoves
  <2>2. /\ UNCHANGED <<type, queue, state, pc, total, active, user_transfers, spc>>
        /\ UNCHANGED <<qlock, qcond, qpc, todo, transfer, new_position>>
    BY <1>12 DEF ScanTransfer
  <2> QED
    BY <2>1, <2>2
<1>13. CASE EndScan(u)
  BY <1>13 DEF EndScan
<1>14. CASE LeaveUsers(u)
  BY <1>14 DEF LeaveUsers
<1>15. CASE Disconnect(u)
  BY <1>15 DEF Disconnect
<1>16. CASE Login(u)
  BY <1>16 DEF Login
<1> QED
  BY <1>1, <1>2, <1>3, <1>4, <1>5, <1>6, <1>7, <1>8, <1>9, <1>10, <1>11, <1>12,
     <1>13, <1>14, <1>15, <1>16
  DEF TransferStep, ExitStep

(* Slots are given back on the way to a signal. *)
LEMMA ReleaseMissesNone ==
  ASSUME Typed, NoneMissed, NEW u \in Users, ReleaseSlot(u) \/ ReleaseClient(u)
  PROVE  NoneMissed'
<1>1. pc'[u] \in {"release_client", "delete"} /\ UNCHANGED <<qlock, qpc>>
  BY DEF Typed, ReleaseSlot, ReleaseClient, Goto, queueVars
<1>2. Due'
  BY <1>1 DEF Due
<1> QED
  BY <1>1, <1>2 DEF NoneMissed

(* A signal comes while the queue thread sleeps, and wakes it up. *)
LEMMA SignalMissesNone ==
  ASSUME Typed, Pass, NoneMissed,
         SignalSettings \/ \E u \in Users : SignalAdded(u) \/ SignalEnd(u) \/ SignalRemoved(u)
  PROVE  NoneMissed'
<1>1. qlock = FALSE /\ qcond' = 1 /\ UNCHANGED <<qlock, qpc>>
  BY DEF SignalSettings, SignalAdded, SignalEnd, EndTransfer, SignalRemoved, SignalQueue, queueVars
<1>2. qpc' = "wait"
  BY <1>1 DEF NoneMissed
<1> QED
  BY <1>1, <1>2 DEF NoneMissed, Awake

(* A pass looks at everybody who waits. *)
LEMMA PassMissesNone ==
  ASSUME Typed, Place, Pass, NoneMissed, QueueStep
  PROVE  NoneMissed'
<1> USE DEF transferVars, slotVars, scanVars
<1>1. CASE BeginPass
  BY <1>1 DEF BeginPass, NoneMissed, Awake
<1>2. CASE CollectTransfers
  <2>1. qpc' = "next" /\ qlock' = qlock /\ qpc = "rdlock"
        /\ UNCHANGED <<wd_transfers, state, queue>>
    BY <1>2 DEF CollectTransfers
  <2>2. \A u \in Users : Waiting(u)' => u \in todo'
    BY <1>2, <2>1 DEF CollectTransfers, Waiting, IsQueued, InArray
  <2> QED
    BY <2>1, <2>2 DEF NoneMissed
<1>3. ASSUME NEW w \in Users, CheckTransfer(w) PROVE NoneMissed'
  <2>1. /\ qpc = "next" /\ w \in todo /\ qpc' # "wait" /\ qlock' = qlock
        /\ UNCHANGED <<wd_transfers, state, queue, type, total, active, user_transfers, pc, spc>>
    BY <1>3 DEF CheckTransfer, IsNext
  <2>2. queue[w] # 0 /\ ~Awake
    BY <2>1 DEF Pass, Awake
  <2>3. Fits(w) => todo' = todo /\ new_position' = 0
    BY <1>3, <2>2 DEF CheckTransfer, Fits
  <2>4. todo \ {w} \subseteq todo' /\ (qpc' = "store" => transfer' = w)
    BY <1>3 DEF CheckTransfer
  <2>5. \A u \in Users : Waiting(u)' = Waiting(u) /\ Fits(u)' = Fits(u)
    BY <2>1 DEF Waiting, InArray, Fits, Blocked
  <2>6. Due' = Due
    BY <2>1 DEF Due
  <2>7. \A u \in Users : Waiting(u)' /\ Fits(u)' => Due' \/ u \in todo'
    BY <2>2, <2>3, <2>4, <2>5, <2>6 DEF NoneMissed
  <2>8. qpc' = "store" /\ new_position' > 0 => ~Fits(transfer)'
    <3>1. qpc' = "store" /\ new_position' > 0 => ~Fits(w) /\ transfer' = w
      BY <2>3, <2>4
    <3> QED
      BY <2>1, <3>1 DEF Fits, Blocked
  <2> QED
    BY <2>1, <2>7, <2>8 DEF NoneMissed
<1>4. CASE AddActive
  <2>1. transfer \in Users /\ type[transfer] \in Types
    BY <1>4, GrantedIsListed DEF AddActive, Granting
  <2>2. /\ UNCHANGED <<wd_transfers, state, queue, type, total, user_transfers, pc, spc, qlock, todo>>
        /\ active' = [active EXCEPT ![type[transfer]] = @ + 1]
        /\ qpc = "add_active" /\ qpc' = "add_client"
    BY <1>4 DEF AddActive
  <2>3. \A u \in Users : Waiting(u) /\ Fits(u)' => Fits(u)
    <3>1. \A u \in Users : Waiting(u) => type[u] \in Types
      BY DEF Waiting, InArray, Place, Listed
    <3>2. \A t \in Types : active[t] <= active'[t] /\ active[t] \in Int /\ active'[t] \in Int
                         /\ total[t] \in Nat
      BY <2>1, <2>2, LimitsAssumption DEF Typed
    <3> QED
      BY <2>2, <3>1, <3>2 DEF Fits, Blocked
  <2>4. ~Awake /\ Due' = Due /\ \A u \in Users : Waiting(u)' = Waiting(u)
    BY <2>2 DEF Awake, Due, Waiting, InArray
  <2> QED
    BY <2>2, <2>3, <2>4 DEF NoneMissed
<1>5. CASE AddClient
  <2>1. transfer \in Users /\ type[transfer] \in Types /\ KeyOf[transfer] \in Keys
    BY <1>5, GrantedIsListed, KeysAssumption DEF AddClient, Granting
  <2>2. /\ UNCHANGED <<wd_transfers, state, queue, type, total, active, pc, spc, qlock, todo>>
        /\ user_transfers' = [user_transfers EXCEPT ![type[transfer]][KeyOf[transfer]] = @ + 1]
        /\ qpc = "add_client" /\ qpc' = "store" /\ new_position' = 0
    BY <1>5 DEF AddClient, Pass
  <2>3. \A u \in Users : Waiting(u) /\ Fits(u)' => Fits(u)
    <3>1. \A u \in Users : Waiting(u) => type[u] \in Types /\ KeyOf[u] \in Keys
      BY KeysAssumption DEF Waiting, InArray, Place, Listed
    <3>2. ASSUME NEW t \in Types, NEW k \in Keys
          PROVE  /\ user_transfers[t][k] <= user_transfers'[t][k]
                 /\ user_transfers[t][k] \in Nat /\ user_transfers'[t][k] \in Nat
                 /\ AccountLimit[t][k] \in Nat
      <4>1. user_transfers[t][k] \in Nat /\ AccountLimit[t][k] \in Nat
        BY LimitsAssumption DEF Typed
      <4>2. user_transfers'[t][k] \in {user_transfers[t][k], user_transfers[t][k] + 1}
        BY <2>1, <2>2 DEF Typed
      <4> QED
        BY <4>1, <4>2
    <3> QED
      BY <2>2, <3>1, <3>2 DEF Fits, Blocked
  <2>4. ~Awake /\ Due' = Due /\ \A u \in Users : Waiting(u)' = Waiting(u)
    BY <2>2 DEF Awake, Due, Waiting, InArray
  <2> QED
    BY <2>2, <2>3, <2>4 DEF NoneMissed
<1>6. CASE StorePosition
  <2>1. transfer \in Users
    BY <1>6, GrantedIsListed DEF StorePosition, Granting
  <2>2. /\ UNCHANGED <<wd_transfers, state, type, total, active, user_transfers, pc, spc, qlock>>
        /\ queue' = [queue EXCEPT ![transfer] = new_position] /\ todo' = todo \ {transfer}
        /\ qpc = "store" /\ qpc' = "next"
    BY <1>6 DEF StorePosition
  <2>3. \A u \in Users : Fits(u)' = Fits(u)
    BY <2>2 DEF Fits, Blocked
  <2>4. ~Awake /\ Due' = Due
    BY <2>2 DEF Awake, Due
  <2>5. ASSUME NEW u \in Users, Waiting(u)', Fits(u) PROVE Due \/ u \in todo'
    <3>1. CASE u = transfer
      <4>1. new_position \in Nat /\ new_position # 0
        BY <2>1, <2>2, <2>5, <3>1 DEF Waiting, Typed
      <4> QED
        BY <2>2, <2>5, <3>1, <4>1 DEF NoneMissed
    <3>2. CASE u # transfer
      <4>1. Waiting(u)
        BY <2>1, <2>2, <2>5, <3>2 DEF Waiting, InArray, Typed
      <4> QED
        BY <2>2, <2>4, <2>5, <3>2, <4>1 DEF NoneMissed
    <3> QED
      BY <3>1, <3>2
  <2> QED
    BY <2>2, <2>3, <2>4, <2>5 DEF NoneMissed
<1>7. CASE EndPass
  <2>1. /\ qpc = "next" /\ todo = {} /\ qpc' = "wait" /\ qlock' = FALSE
        /\ UNCHANGED <<wd_transfers, state, queue, type, total, active, user_transfers, pc, spc>>
    BY <1>7 DEF EndPass
  <2>2. ~Awake /\ Due' = Due
    BY <2>1 DEF Awake, Due
  <2>3. \A u \in Users : Waiting(u)' = Waiting(u) /\ Fits(u)' = Fits(u)
    BY <2>1 DEF Waiting, InArray, Fits, Blocked
  <2> QED
    BY <2>1, <2>2, <2>3 DEF NoneMissed
<1> QED
  BY <1>1, <1>2, <1>3, <1>4, <1>5, <1>6, <1>7 DEF QueueStep

LEMMA NoneMissedStep == ASSUME Typed, Place, Pass, NoneMissed, [Next]_vars PROVE NoneMissed'
<1>1. CASE UNCHANGED vars
  BY <1>1 DEF vars, transferVars, slotVars, queueVars, NoneMissed, Due, Awake, Fits, Blocked,
              Waiting, InArray
<1>2. ASSUME NEW u \in Users, TransferStep(u) \/ ExitStep(u) \/ Disconnect(u) \/ Login(u)
      PROVE  NoneMissed'
  BY <1>2, TransferCalm, CalmMissesNone, ReleaseMissesNone, SignalMissesNone
<1>3. CASE ApplySettings
  <2>1. spc' = "signal" /\ UNCHANGED <<qlock, qpc>>
    BY <1>3 DEF ApplySettings, queueVars
  <2> QED
    BY <2>1 DEF NoneMissed, Due
<1> QED
  BY <1>1, <1>2, <1>3, PassMissesNone, SignalMissesNone DEF Next

(* No wakeup of the queue thread is lost: a slot that is given back, a     *)
(* limit that is raised or a transfer that is added while a pass is under  *)
(* way leads to another pass, because the signal waits for the pass to end *)
(* and is not undone by it.                                                *)
THEOREM NoWakeupIsLost == Spec => []WaitingIsBlocked
<1>1. Init => NoneMissed
  BY DEF Init, NoneMissed, Awake
<1>2. IInv /\ NoneMissed /\ [Next]_vars => NoneMissed'
  BY NoneMissedStep DEF IInv
<1>3. IInv /\ NoneMissed => WaitingIsBlocked
  <2> SUFFICES ASSUME IInv, NoneMissed, Settled, NEW u \in Users, Waiting(u), Fits(u) PROVE FALSE
    BY DEF WaitingIsBlocked, Fits
  <2>1. ~Due /\ ~Awake
    BY DEF Settled, Due, Awake
  <2>2. todo = {}
    BY DEF IInv, Pass, Settled
  <2> QED
    BY <2>1, <2>2 DEF NoneMissed
<1> QED
  BY <1>1, <1>2, <1>3, Inductive, PTL DEF Spec

-----------------------------------------------------------------------------
(* Exact counts.  Where no position is written in vain, a thread that is   *)
(* past its wait has a slot, and gives it back.                            *)
NoLeak == Faults \cap {"write", "disconnect"} = {}

(* A connection in a transfer is logged in; past its wait it has a slot.   *)
Steady ==
  \A u \in Users :
    /\ pc[u] \in InRun => user_state[u] = "LOGGED_IN"
    /\ pc[u] \in {"data", "release", "release_client", "delete", "signal_end"} => queue[u] = 0

LEMMA SteadyStep ==
  ASSUME NoLeak, Typed, Place, Pass, Steady, [Next]_vars PROVE Steady'
<1> USE GrantedIsListed
    DEF NoLeak, Typed, Place, Pass, Steady, InRun, Listed, Granting, Goto, transferVars, slotVars,
        queueVars, scanVars
<1>1. ASSUME NEW u \in Users, NEW t \in Types, CreateTransfer(u, t) PROVE Steady'
  BY <1>1 DEF CreateTransfer
<1>2. ASSUME NEW u \in Users, AddTransfer(u) PROVE Steady'
  BY <1>2 DEF AddTransfer
<1>3. ASSUME NEW u \in Users, SignalAdded(u) PROVE Steady'
  BY <1>3 DEF SignalAdded, SignalQueue
<1>4. ASSUME NEW u \in Users, WakeUp(u) PROVE Steady'
  BY <1>4 DEF WakeUp, StartTransfer
<1>5. ASSUME NEW u \in Users, WritePosition(u) PROVE Steady'
  BY <1>5 DEF WritePosition, StartTransfer
<1>6. ASSUME NEW u \in Users, FailToWritePosition(u) PROVE Steady'
  BY <1>6 DEF FailToWritePosition
<1>7. ASSUME NEW u \in Users, FinishTransfer(u) PROVE Steady'
  BY <1>7 DEF FinishTransfer
<1>8. ASSUME NEW u \in Users, ReleaseSlot(u) PROVE Steady'
  BY <1>8 DEF ReleaseSlot
<1>9. ASSUME NEW u \in Users, SkipRelease(u) PROVE Steady'
  BY <1>9 DEF SkipRelease
<1>10. ASSUME NEW u \in Users, ReleaseClient(u) PROVE Steady'
  BY <1>10 DEF ReleaseClient
<1>11. ASSUME NEW u \in Users, DeleteTransfer(u) PROVE Steady'
  BY <1>11 DEF DeleteTransfer
<1>12. ASSUME NEW u \in Users, SignalEnd(u) PROVE Steady'
  BY <1>12 DEF SignalEnd, EndTransfer, SignalQueue
<1>13. ASSUME NEW u \in Users, LeaveLoop(u) PROVE Steady'
  BY <1>13 DEF LeaveLoop
<1>14. ASSUME NEW u \in Users, LookForClient(u) PROVE Steady'
  BY <1>14 DEF LookForClient
<1>15. ASSUME NEW u \in Users, LockTransfers(u) PROVE Steady'
  BY <1>15 DEF LockTransfers
<1>16. ASSUME NEW u \in Users, ScanTransfer(u) PROVE Steady'
  BY <1>16 DEF ScanTransfer
<1>17. ASSUME NEW u \in Users, EndScan(u) PROVE Steady'
  BY <1>17 DEF EndScan
<1>18. ASSUME NEW u \in Users, SignalRemoved(u) PROVE Steady'
  BY <1>18 DEF SignalRemoved, SignalQueue
<1>19. ASSUME NEW u \in Users, LeaveUsers(u) PROVE Steady'
  BY <1>19 DEF LeaveUsers
<1>20. ASSUME NEW u \in Users, Disconnect(u) PROVE Steady'
  BY <1>20 DEF Disconnect
<1>21. ASSUME NEW u \in Users, Login(u) PROVE Steady'
  BY <1>21 DEF Login
<1>22. CASE BeginPass
  BY <1>22 DEF BeginPass
<1>23. CASE CollectTransfers
  BY <1>23 DEF CollectTransfers
<1>24. CASE AddActive
  BY <1>24 DEF AddActive
<1>25. CASE AddClient
  BY <1>25 DEF AddClient
<1>26. CASE StorePosition
  BY <1>26 DEF StorePosition
<1>27. CASE EndPass
  BY <1>27 DEF EndPass
<1>28. CASE ApplySettings
  BY <1>28 DEF ApplySettings
<1>29. CASE SignalSettings
  BY <1>29 DEF SignalSettings, SignalQueue
<1>30. ASSUME NEW u \in Users, CheckTransfer(u) PROVE Steady'
  BY <1>30 DEF CheckTransfer
<1>31. CASE UNCHANGED vars
  BY <1>31 DEF vars
<1> QED
  BY <1>1, <1>2, <1>3, <1>4, <1>5, <1>6, <1>7, <1>8, <1>9, <1>10, <1>11, <1>12,
     <1>13, <1>14, <1>15, <1>16, <1>17, <1>18, <1>19, <1>20, <1>21, <1>22, <1>23,
     <1>24, <1>25, <1>26, <1>27, <1>28, <1>29, <1>30, <1>31
  DEF Next, TransferStep, ExitStep, QueueStep

(* The same transfers hold a slot, and are of the same type.              *)
SameHolders ==
  \A u \in Users : Holds(u)' = Holds(u) /\ (Holds(u) => type'[u] = type[u])
SameClientHolders ==
  \A u \in Users : ClientHolds(u)' = ClientHolds(u) /\ (ClientHolds(u) => type'[u] = type[u])

LEMMA HoldersStep ==
  ASSUME NoLeak, Typed, Place, Pass, Steady, [Next]_vars, ~AddActive, \A u \in Users : ~ReleaseSlot(u)
  PROVE  active' = active /\ SameHolders
<1> USE GrantedIsListed
    DEF NoLeak, Typed, Place, Pass, Steady, InRun, Listed, Granting, Goto, transferVars, slotVars,
        queueVars, scanVars, SameHolders, Holds, PastRelease
<1>1. ASSUME NEW u \in Users, NEW t \in Types, CreateTransfer(u, t) PROVE active' = active /\ SameHolders
  BY <1>1, SMTT(30) DEF CreateTransfer
<1>2. ASSUME NEW u \in Users, AddTransfer(u) PROVE active' = active /\ SameHolders
  BY <1>2 DEF AddTransfer
<1>3. ASSUME NEW u \in Users, SignalAdded(u) PROVE active' = active /\ SameHolders
  BY <1>3 DEF SignalAdded, SignalQueue
<1>4. ASSUME NEW u \in Users, WakeUp(u) PROVE active' = active /\ SameHolders
  BY <1>4 DEF WakeUp, StartTransfer
<1>5. ASSUME NEW u \in Users, WritePosition(u) PROVE active' = active /\ SameHolders
  BY <1>5 DEF WritePosition, StartTransfer
<1>6. ASSUME NEW u \in Users, FailToWritePosition(u) PROVE active' = active /\ SameHolders
  BY <1>6 DEF FailToWritePosition
<1>7. ASSUME NEW u \in Users, FinishTransfer(u) PROVE active' = active /\ SameHolders
  BY <1>7 DEF FinishTransfer
<1>8. ASSUME NEW u \in Users, SkipRelease(u) PROVE active' = active /\ SameHolders
  BY <1>8 DEF SkipRelease
<1>9. ASSUME NEW u \in Users, ReleaseClient(u) PROVE active' = active /\ SameHolders
  BY <1>9 DEF ReleaseClient
<1>10. ASSUME NEW u \in Users, DeleteTransfer(u) PROVE active' = active /\ SameHolders
  BY <1>10 DEF DeleteTransfer
<1>11. ASSUME NEW u \in Users, SignalEnd(u) PROVE active' = active /\ SameHolders
  BY <1>11 DEF SignalEnd, EndTransfer, SignalQueue
<1>12. ASSUME NEW u \in Users, LeaveLoop(u) PROVE active' = active /\ SameHolders
  BY <1>12 DEF LeaveLoop
<1>13. ASSUME NEW u \in Users, LookForClient(u) PROVE active' = active /\ SameHolders
  BY <1>13 DEF LookForClient
<1>14. ASSUME NEW u \in Users, LockTransfers(u) PROVE active' = active /\ SameHolders
  BY <1>14 DEF LockTransfers
<1>15. ASSUME NEW u \in Users, ScanTransfer(u) PROVE active' = active /\ SameHolders
  BY <1>15 DEF ScanTransfer
<1>16. ASSUME NEW u \in Users, EndScan(u) PROVE active' = active /\ SameHolders
  BY <1>16 DEF EndScan
<1>17. ASSUME NEW u \in Users, SignalRemoved(u) PROVE active' = active /\ SameHolders
  BY <1>17 DEF SignalRemoved, SignalQueue
<1>18. ASSUME NEW u \in Users, LeaveUsers(u) PROVE active' = active /\ SameHolders
  BY <1>18 DEF LeaveUsers
<1>19. ASSUME NEW u \in Users, Disconnect(u) PROVE active' = active /\ SameHolders
  BY <1>19 DEF Disconnect
<1>20. ASSUME NEW u \in Users, Login(u) PROVE active' = active /\ SameHolders
  BY <1>20 DEF Login
<1>21. CASE BeginPass
  BY <1>21 DEF BeginPass
<1>22. CASE CollectTransfers
  BY <1>22 DEF CollectTransfers
<1>23. CASE AddClient
  BY <1>23 DEF AddClient
<1>24. CASE StorePosition
  BY <1>24 DEF StorePosition
<1>25. CASE EndPass
  BY <1>25 DEF EndPass
<1>26. CASE ApplySettings
  BY <1>26 DEF ApplySettings
<1>27. CASE SignalSettings
  BY <1>27 DEF SignalSettings, SignalQueue
<1>28. ASSUME NEW u \in Users, CheckTransfer(u) PROVE active' = active /\ SameHolders
  BY <1>28 DEF CheckTransfer
<1>29. CASE UNCHANGED vars
  BY <1>29 DEF vars
<1> QED
  BY <1>1, <1>2, <1>3, <1>4, <1>5, <1>6, <1>7, <1>8, <1>9, <1>10, <1>11, <1>12,
     <1>13, <1>14, <1>15, <1>16, <1>17, <1>18, <1>19, <1>20, <1>21, <1>22, <1>23,
     <1>24, <1>25, <1>26, <1>27, <1>28, <1>29
  DEF Next, TransferStep, ExitStep, QueueStep

LEMMA ClientHoldersStep ==
  ASSUME NoLeak, Typed, Place, Pass, Steady, [Next]_vars, ~AddClient, \A u \in Users : ~ReleaseClient(u)
  PROVE  user_transfers' = user_transfers /\ SameClientHolders
<1> USE GrantedIsListed
    DEF NoLeak, Typed, Place, Pass, Steady, InRun, Listed, Granting, Goto, transferVars, slotVars,
        queueVars, scanVars, SameClientHolders, ClientHolds
<1>1. ASSUME NEW u \in Users, NEW t \in Types, CreateTransfer(u, t) PROVE user_transfers' = user_transfers /\ SameClientHolders
  BY <1>1 DEF CreateTransfer
<1>2. ASSUME NEW u \in Users, AddTransfer(u) PROVE user_transfers' = user_transfers /\ SameClientHolders
  BY <1>2 DEF AddTransfer
<1>3. ASSUME NEW u \in Users, SignalAdded(u) PROVE user_transfers' = user_transfers /\ SameClientHolders
  BY <1>3 DEF SignalAdded, SignalQueue
<1>4. ASSUME NEW u \in Users, WakeUp(u) PROVE user_transfers' = user_transfers /\ SameClientHolders
  BY <1>4 DEF WakeUp, StartTransfer
<1>5. ASSUME NEW u \in Users, WritePosition(u) PROVE user_transfers' = user_transfers /\ SameClientHolders
  BY <1>5 DEF WritePosition, StartTransfer
<1>6. ASSUME NEW u \in Users, FailToWritePosition(u) PROVE user_transfers' = user_transfers /\ SameClientHolders
  BY <1>6 DEF FailToWritePosition
<1>7. ASSUME NEW u \in Users, FinishTransfer(u) PROVE user_transfers' = user_transfers /\ SameClientHolders
  BY <1>7 DEF FinishTransfer
<1>8. ASSUME NEW u \in Users, ReleaseSlot(u) PROVE user_transfers' = user_transfers /\ SameClientHolders
  BY <1>8 DEF ReleaseSlot
<1>9. ASSUME NEW u \in Users, SkipRelease(u) PROVE user_transfers' = user_transfers /\ SameClientHolders
  BY <1>9 DEF SkipRelease
<1>10. ASSUME NEW u \in Users, DeleteTransfer(u) PROVE user_transfers' = user_transfers /\ SameClientHolders
  BY <1>10 DEF DeleteTransfer
<1>11. ASSUME NEW u \in Users, SignalEnd(u) PROVE user_transfers' = user_transfers /\ SameClientHolders
  BY <1>11 DEF SignalEnd, EndTransfer, SignalQueue
<1>12. ASSUME NEW u \in Users, LeaveLoop(u) PROVE user_transfers' = user_transfers /\ SameClientHolders
  BY <1>12 DEF LeaveLoop
<1>13. ASSUME NEW u \in Users, LookForClient(u) PROVE user_transfers' = user_transfers /\ SameClientHolders
  BY <1>13 DEF LookForClient
<1>14. ASSUME NEW u \in Users, LockTransfers(u) PROVE user_transfers' = user_transfers /\ SameClientHolders
  BY <1>14 DEF LockTransfers
<1>15. ASSUME NEW u \in Users, ScanTransfer(u) PROVE user_transfers' = user_transfers /\ SameClientHolders
  BY <1>15 DEF ScanTransfer
<1>16. ASSUME NEW u \in Users, EndScan(u) PROVE user_transfers' = user_transfers /\ SameClientHolders
  BY <1>16 DEF EndScan
<1>17. ASSUME NEW u \in Users, SignalRemoved(u) PROVE user_transfers' = user_transfers /\ SameClientHolders
  BY <1>17 DEF SignalRemoved, SignalQueue
<1>18. ASSUME NEW u \in Users, LeaveUsers(u) PROVE user_transfers' = user_transfers /\ SameClientHolders
  BY <1>18 DEF LeaveUsers
<1>19. ASSUME NEW u \in Users, Disconnect(u) PROVE user_transfers' = user_transfers /\ SameClientHolders
  BY <1>19 DEF Disconnect
<1>20. ASSUME NEW u \in Users, Login(u) PROVE user_transfers' = user_transfers /\ SameClientHolders
  BY <1>20 DEF Login
<1>21. CASE BeginPass
  BY <1>21 DEF BeginPass
<1>22. CASE CollectTransfers
  BY <1>22 DEF CollectTransfers
<1>23. CASE AddActive
  BY <1>23 DEF AddActive
<1>24. CASE StorePosition
  BY <1>24 DEF StorePosition
<1>25. CASE EndPass
  BY <1>25 DEF EndPass
<1>26. CASE ApplySettings
  BY <1>26 DEF ApplySettings
<1>27. CASE SignalSettings
  BY <1>27 DEF SignalSettings, SignalQueue
<1>28. ASSUME NEW u \in Users, CheckTransfer(u) PROVE user_transfers' = user_transfers /\ SameClientHolders
  BY <1>28 DEF CheckTransfer
<1>29. CASE UNCHANGED vars
  BY <1>29 DEF vars
<1> QED
  BY <1>1, <1>2, <1>3, <1>4, <1>5, <1>6, <1>7, <1>8, <1>9, <1>10, <1>11, <1>12,
     <1>13, <1>14, <1>15, <1>16, <1>17, <1>18, <1>19, <1>20, <1>21, <1>22, <1>23,
     <1>24, <1>25, <1>26, <1>27, <1>28, <1>29
  DEF Next, TransferStep, ExitStep, QueueStep

(* Each slot that is counted is held. *)
ExactTotals == \A t \in Types : Cardinality(Holders(t)) = active[t]
ExactClients ==
  \A t \in Types, k \in Keys : Cardinality(ClientHolders(t, k)) = user_transfers[t][k]

LEMMA ReleaseTotalExact ==
  ASSUME Typed, Place, Pass, ExactTotals, NEW u \in Users, ReleaseSlot(u)
  PROVE  ExactTotals'
<1>1. type[u] \in Types /\ queue[u] = 0 /\ pc[u] = "release"
  BY DEF Place, InRun, ReleaseSlot
<1> PICK t \in Types : t = type[u]
  BY <1>1
<1>2. /\ UNCHANGED <<queue, type, transfer, new_position, qpc>>
      /\ pc' = [pc EXCEPT ![u] = "release_client"]
      /\ active' = [active EXCEPT ![t] = @ - 1]
  BY DEF ReleaseSlot, Goto, transferVars, queueVars
<1>3. transfer = u => qpc \notin Granting
  BY <1>1, GrantedIsListed
<1>4. /\ u \in Holders(t) /\ Holders(t)' = Holders(t) \ {u}
      /\ \A s : s # t => Holders(s)' = Holders(s)
  BY <1>1, <1>2, <1>3 DEF Holders, Holds, PastRelease, Granting, Typed
<1>5. Cardinality(Holders(t)') = Cardinality(Holders(t)) - 1
  BY <1>4, HoldersFinite, FS_RemoveElement
<1>6. active'[t] = active[t] - 1 /\ \A s \in Types : s # t => active'[s] = active[s]
  BY <1>1, <1>2 DEF Typed
<1>7. ASSUME NEW s \in Types PROVE Cardinality(Holders(s)') = active'[s]
  <2>1. Cardinality(Holders(s)) = active[s]
    BY DEF ExactTotals
  <2>2. CASE s = t
    BY <1>5, <1>6, <2>1, <2>2
  <2>3. CASE s # t
    BY <1>4, <1>6, <2>1, <2>3
  <2> QED
    BY <2>2, <2>3
<1> QED
  BY <1>7 DEF ExactTotals

LEMMA GrantTotalExact ==
  ASSUME Typed, Place, Pass, ExactTotals, AddActive
  PROVE  ExactTotals'
<1>1. /\ transfer \in Users /\ type[transfer] \in Types
      /\ queue[transfer] # 0 /\ new_position = 0
  BY GrantedIsListed DEF AddActive, Granting, Pass
<1> PICK t \in Types : t = type[transfer]
  BY <1>1
<1> PICK u \in Users : u = transfer
  BY <1>1
<1>2. /\ UNCHANGED <<queue, type, transfer, new_position, pc>>
      /\ qpc = "add_active" /\ qpc' = "add_client"
      /\ active' = [active EXCEPT ![t] = @ + 1]
  BY DEF AddActive, transferVars
<1>3. /\ u \notin Holders(t) /\ Holders(t)' = Holders(t) \cup {u}
      /\ \A s : s # t => Holders(s)' = Holders(s)
  BY <1>1, <1>2 DEF Holders, Holds
<1>4. Cardinality(Holders(t)') = Cardinality(Holders(t)) + 1
  BY <1>3, HoldersFinite, FS_AddElement
<1>5. active'[t] = active[t] + 1 /\ \A s \in Types : s # t => active'[s] = active[s]
  BY <1>1, <1>2 DEF Typed
<1>6. ASSUME NEW s \in Types PROVE Cardinality(Holders(s)') = active'[s]
  <2>1. Cardinality(Holders(s)) = active[s]
    BY DEF ExactTotals
  <2>2. CASE s = t
    BY <1>4, <1>5, <2>1, <2>2
  <2>3. CASE s # t
    BY <1>3, <1>5, <2>1, <2>3
  <2> QED
    BY <2>2, <2>3
<1> QED
  BY <1>6 DEF ExactTotals

LEMMA ReleaseClientExact ==
  ASSUME Typed, Place, Pass, ExactClients, NEW u \in Users, ReleaseClient(u)
  PROVE  ExactClients'
<1> DEFINE k == KeyOf[u]
<1>1. type[u] \in Types /\ k \in Keys /\ queue[u] = 0 /\ pc[u] = "release_client"
  BY KeysAssumption DEF Place, InRun, ReleaseClient
<1> PICK t \in Types : t = type[u]
  BY <1>1
<1>2. /\ UNCHANGED <<queue, type, transfer, new_position, qpc>>
      /\ pc' = [pc EXCEPT ![u] = "delete"]
      /\ user_transfers' = [user_transfers EXCEPT ![t][k] = IF @ > 0 THEN @ - 1 ELSE 0]
  BY DEF ReleaseClient, Goto, transferVars, queueVars
<1>3. transfer = u => qpc \notin Granting
  BY <1>1, GrantedIsListed
<1>4. /\ u \in ClientHolders(t, k) /\ ClientHolders(t, k)' = ClientHolders(t, k) \ {u}
      /\ \A s, j : s # t \/ j # k => ClientHolders(s, j)' = ClientHolders(s, j)
  BY <1>1, <1>2, <1>3 DEF ClientHolders, ClientHolds, Granting, Typed
<1>5. Cardinality(ClientHolders(t, k)') = Cardinality(ClientHolders(t, k)) - 1
  BY <1>4, ClientsFinite, FS_RemoveElement
<1>6. /\ user_transfers'[t][k] = IF user_transfers[t][k] > 0 THEN user_transfers[t][k] - 1 ELSE 0
      /\ \A s \in Types, j \in Keys : s # t \/ j # k => user_transfers'[s][j] = user_transfers[s][j]
  BY <1>1, <1>2 DEF Typed
<1>7. user_transfers'[t][k] = Cardinality(ClientHolders(t, k)')
  <2>1. Cardinality(ClientHolders(t, k)') \in Nat /\ Cardinality(ClientHolders(t, k)) \in Nat
    BY ClientsFinite
  <2>2. Cardinality(ClientHolders(t, k)) = user_transfers[t][k]
    BY <1>1 DEF ExactClients
  <2> QED
    BY <1>5, <1>6, <2>1, <2>2
<1>8. ASSUME NEW s \in Types, NEW j \in Keys
      PROVE  Cardinality(ClientHolders(s, j)') = user_transfers'[s][j]
  <2>1. CASE s = t /\ j = k
    BY <1>7, <2>1
  <2>2. CASE s # t \/ j # k
    <3>1. ClientHolders(s, j)' = ClientHolders(s, j) /\ user_transfers'[s][j] = user_transfers[s][j]
      BY <1>4, <1>6, <2>2
    <3> QED
      BY <3>1 DEF ExactClients
  <2> QED
    BY <2>1, <2>2
<1> QED
  BY <1>8 DEF ExactClients

LEMMA GrantClientExact ==
  ASSUME Typed, Place, Pass, ExactClients, AddClient
  PROVE  ExactClients'
<1>1. /\ transfer \in Users /\ type[transfer] \in Types /\ KeyOf[transfer] \in Keys
      /\ queue[transfer] # 0 /\ new_position = 0
  BY GrantedIsListed, KeysAssumption DEF AddClient, Granting, Pass
<1> PICK u \in Users : u = transfer
  BY <1>1
<1> DEFINE k == KeyOf[u]
<1> PICK t \in Types : t = type[u]
  BY <1>1
<1>2. /\ UNCHANGED <<queue, type, transfer, new_position, pc>>
      /\ qpc = "add_client" /\ qpc' = "store"
      /\ user_transfers' = [user_transfers EXCEPT ![t][k] = @ + 1]
  BY DEF AddClient, transferVars
<1>3. /\ u \notin ClientHolders(t, k)
      /\ ClientHolders(t, k)' = ClientHolders(t, k) \cup {u}
      /\ \A s, j : s # t \/ j # k => ClientHolders(s, j)' = ClientHolders(s, j)
  BY <1>1, <1>2 DEF ClientHolders, ClientHolds
<1>4. Cardinality(ClientHolders(t, k)') = Cardinality(ClientHolders(t, k)) + 1
  <2>1. IsFiniteSet(ClientHolders(t, k))
    BY ClientsFinite
  <2>2. Cardinality(ClientHolders(t, k) \cup {u}) = Cardinality(ClientHolders(t, k)) + 1
    BY <1>3, <2>1, FS_AddElement
  <2> QED
    BY <1>3, <2>2
<1>5. /\ user_transfers'[t][k] = user_transfers[t][k] + 1
      /\ \A s \in Types, j \in Keys : s # t \/ j # k => user_transfers'[s][j] = user_transfers[s][j]
  BY <1>1, <1>2 DEF Typed
<1>6. ASSUME NEW s \in Types, NEW j \in Keys
      PROVE  Cardinality(ClientHolders(s, j)') = user_transfers'[s][j]
  <2>1. CASE s = t /\ j = k
    BY <1>4, <1>5, <2>1 DEF ExactClients
  <2>2. CASE s # t \/ j # k
    <3>1. ClientHolders(s, j)' = ClientHolders(s, j) /\ user_transfers'[s][j] = user_transfers[s][j]
      BY <1>3, <1>5, <2>2
    <3> QED
      BY <3>1 DEF ExactClients
  <2> QED
    BY <2>1, <2>2
<1> QED
  BY <1>6 DEF ExactClients

LEMMA ExactStep ==
  ASSUME NoLeak, Typed, Place, Pass, Steady, ExactTotals, ExactClients, [Next]_vars
  PROVE  (ExactTotals /\ ExactClients)'
<1>1. ASSUME ~AddActive, \A u \in Users : ~ReleaseSlot(u) PROVE ExactTotals'
  <2>1. active' = active /\ SameHolders
    BY <1>1, HoldersStep
  <2>2. ASSUME NEW t \in Types PROVE Cardinality(Holders(t)') = active'[t]
    <3>1. Holders(t)' = Holders(t)
      BY <2>1 DEF SameHolders, Holders
    <3> QED
      BY <2>1, <3>1 DEF ExactTotals
  <2> QED
    BY <2>2 DEF ExactTotals
<1>2. ASSUME ~AddClient, \A u \in Users : ~ReleaseClient(u) PROVE ExactClients'
  <2>1. user_transfers' = user_transfers /\ SameClientHolders
    BY <1>2, ClientHoldersStep
  <2>2. ASSUME NEW t \in Types, NEW k \in Keys
        PROVE  Cardinality(ClientHolders(t, k)') = user_transfers'[t][k]
    <3>1. ClientHolders(t, k)' = ClientHolders(t, k)
      BY <2>1 DEF SameClientHolders, ClientHolders
    <3> QED
      BY <2>1, <3>1 DEF ExactClients
  <2> QED
    BY <2>2 DEF ExactClients
<1> QED
  BY <1>1, <1>2, ReleaseTotalExact, GrantTotalExact, ReleaseClientExact, GrantClientExact

(* A transfer waits only for transfers that do run: where no position is   *)
(* written in vain and nobody is disconnected from outside, the counters   *)
(* are exact, and when no signal is due whoever is counted is waiting for  *)
(* its thread to wake up or moves data.                                    *)
THEOREM WaitsForRunning == ASSUME NoLeak PROVE Spec => []WaitingForRunning
<1> DEFINE Inv == Steady /\ ExactTotals /\ ExactClients /\ NoneMissed
<1>1. Init => Inv
  <2> SUFFICES ASSUME Init PROVE Inv
    OBVIOUS
  <2>1. Steady /\ NoneMissed
    BY DEF Init, Steady, InRun, NoneMissed, Awake
  <2>2. \A t, k : Holders(t) = {} /\ ClientHolders(t, k) = {}
    BY DEF Init, Holders, Holds, ClientHolders, ClientHolds
  <2>3. \A t, k : Cardinality(Holders(t)) = 0 /\ Cardinality(ClientHolders(t, k)) = 0
    BY <2>2, FS_EmptySet
  <2> QED
    BY <2>1, <2>3 DEF Init, ExactTotals, ExactClients
<1>2. IInv /\ Inv /\ [Next]_vars => Inv'
  BY NoneMissedStep, SteadyStep, ExactStep DEF IInv
<1>3. IInv /\ Inv => WaitingForRunning
  <2> SUFFICES ASSUME IInv, Inv, Settled, NEW u \in Users, Waiting(u)
               PROVE  LET running(k) == {v \in Users : type[v] = type[u]
                                           /\ pc[v] \in {"wait", "write", "data"}
                                           /\ queue[v] = 0 /\ KeyOf[v] \in k}
                          limit == AccountLimit[type[u]][KeyOf[u]]
                      IN \/ total[type[u]] > 0 /\ Cardinality(running(Keys)) >= total[type[u]]
                         \/ limit > 0 /\ Cardinality(running({KeyOf[u]})) >= limit
    BY DEF WaitingForRunning
  <2> DEFINE t == type[u]
             k == KeyOf[u]
             running(K) == {v \in Users : type[v] = t /\ pc[v] \in {"wait", "write", "data"}
                                            /\ queue[v] = 0 /\ KeyOf[v] \in K}
  <2>1. t \in Types /\ k \in Keys /\ \A v \in Users : KeyOf[v] \in Keys
    BY KeysAssumption DEF IInv, Place, Listed, Waiting, InArray
  <2>2. Fits(u) => u \in todo
    BY DEF NoneMissed, Settled, Due, Awake
  <2>3. Blocked(t, k)
    BY <2>2 DEF IInv, Pass, Settled, Fits
  <2>4. \A v \in Users : queue[v] = 0 => pc[v] \in {"wait", "write", "data"}
    BY DEF IInv, Place, InRun, Settled
  <2>5. Holders(t) = running(Keys)
    BY <2>1, <2>4 DEF Holders, Holds, PastRelease, Settled
  <2>6. ClientHolders(t, k) = running({k})
    BY <2>4 DEF ClientHolders, ClientHolds, Settled
  <2>7. Cardinality(running(Keys)) = active[t] /\ Cardinality(running({k})) = user_transfers[t][k]
    BY <2>1, <2>5, <2>6 DEF ExactTotals, ExactClients
  <2> HIDE DEF running
  <2>8. \/ total[t] > 0 /\ Cardinality(running(Keys)) >= total[t]
        \/ AccountLimit[t][k] > 0 /\ Cardinality(running({k})) >= AccountLimit[t][k]
    BY <2>3, <2>7 DEF Blocked
  <2> QED
    BY <2>8 DEF running
<1> QED
  BY <1>1, <1>2, <1>3, Inductive, PTL DEF Spec

-----------------------------------------------------------------------------
(* Positions.  While a pass numbers the transfers, those that it has placed*)
(* have the positions below the next one; once it has ended they keep them *)
(* until somebody is on the way to signal another pass.                    *)
Waiters == {u \in Users : Waiting(u)}
Placed  == Waiters \ todo

Ranked(n) == Cardinality(Placed) = n /\ {queue[u] : u \in Placed} = 1..n

(* A transfer has left the array or stopped waiting, or was added, and its *)
(* signal is still due.                                                    *)
Unsettled ==
  \E u \in Users :
    \/ pc[u] \in {"signal", "release", "release_client", "delete", "signal_end"}
    \/ pc[u] = "scan" /\ update
    \/ pc[u] = "data" /\ InArray(u) /\ user_state[u] # "LOGGED_IN"

Numbered ==
  ~Unsettled =>
    /\ qpc = "wait" /\ qcond = 0 => Ranked(Cardinality(Waiters))
    /\ qpc \in {"next"} \cup Granting => todo \subseteq Waiters
    /\ qpc \in {"next", "add_active", "add_client"} => Ranked(position - 1)
    /\ qpc = "store" => IF new_position = 0 THEN Ranked(position - 1)
                        ELSE position = new_position + 1 /\ Ranked(new_position - 1)

(* A step that no position depends on, or after which a signal is due. *)
Undisturbed ==
  /\ UNCHANGED <<qpc, qcond, todo, position, new_position>>
  /\ ~Unsettled' =>
       /\ ~Unsettled
       /\ \A u \in Users : /\ Waiting(u)' <=> Waiting(u)
                           /\ Waiting(u) => queue'[u] = queue[u]

LEMMA UndisturbedNumbered ==
  ASSUME Numbered, Undisturbed PROVE Numbered'
<1> SUFFICES ASSUME ~Unsettled' PROVE Numbered'
  BY DEF Numbered
<1>1. Waiters' = Waiters /\ \A u \in Waiters : queue'[u] = queue[u]
  BY DEF Undisturbed, Waiters
<1>2. Placed' = Placed
  BY <1>1 DEF Undisturbed, Placed
<1>3. {queue'[u] : u \in Placed} = {queue[u] : u \in Placed}
  BY <1>1 DEF Placed
<1>4. \A n : Ranked(n)' <=> Ranked(n)
  BY <1>2, <1>3 DEF Ranked
<1>5. ~Unsettled /\ UNCHANGED <<qpc, qcond, todo, position, new_position>>
  BY DEF Undisturbed
<1>6. Ranked(Cardinality(Waiters))' <=> Ranked(Cardinality(Waiters))
  BY <1>1, <1>2, <1>3 DEF Ranked
<1>7. /\ Ranked(position - 1)' <=> Ranked(position - 1)
      /\ Ranked(new_position - 1)' <=> Ranked(new_position - 1)
  BY <1>2, <1>3, <1>5 DEF Ranked
<1> HIDE DEF Ranked, Waiters
<1> QED
  BY <1>1, <1>5, <1>6, <1>7 DEF Numbered

LEMMA ThreadsUndisturbed ==
  ASSUME Typed, Place, Pass, NEW u \in Users,
         TransferStep(u) \/ ExitStep(u) \/ Disconnect(u) \/ Login(u),
         ~SignalAdded(u), ~SignalEnd(u), ~SignalRemoved(u)
  PROVE  Undisturbed
<1> USE OrderType
    DEF Typed, Place, Pass, InRun, Listed, Granting, Undisturbed, Unsettled, Waiting, InArray,
        Goto, transferVars, slotVars, queueVars, scanVars
<1>1. ASSUME NEW t \in Types, CreateTransfer(u, t) PROVE Undisturbed
  BY <1>1 DEF CreateTransfer
<1>2. CASE AddTransfer(u)
  BY <1>2 DEF AddTransfer
<1>3. CASE WakeUp(u)
  BY <1>3 DEF WakeUp, StartTransfer
<1>4. CASE WritePosition(u)
  BY <1>4 DEF WritePosition, StartTransfer
<1>5. CASE FailToWritePosition(u)
  BY <1>5 DEF FailToWritePosition
<1>6. CASE FinishTransfer(u)
  BY <1>6 DEF FinishTransfer
<1>7. CASE ReleaseSlot(u) \/ SkipRelease(u) \/ ReleaseClient(u)
  BY <1>7 DEF ReleaseSlot, SkipRelease, ReleaseClient
<1>8. CASE DeleteTransfer(u)
  BY <1>8 DEF DeleteTransfer
<1>9. CASE LeaveLoop(u)
  BY <1>9 DEF LeaveLoop
<1>10. CASE LookForClient(u)
  BY <1>10 DEF LookForClient
<1>11. CASE LockTransfers(u)
  BY <1>11, UsersAssumption DEF LockTransfers
<1>12. CASE ScanTransfer(u)
  BY <1>12 DEF ScanTransfer
<1>13. CASE EndScan(u)
  BY <1>13 DEF EndScan
<1>14. CASE LeaveUsers(u)
  BY <1>14 DEF LeaveUsers
<1>15. CASE Disconnect(u)
  BY <1>15 DEF Disconnect
<1>16. CASE Login(u)
  BY <1>16 DEF Login
<1> QED
  BY <1>1, <1>2, <1>3, <1>4, <1>5, <1>6, <1>7, <1>8, <1>9, <1>10, <1>11, <1>12,
     <1>13, <1>14, <1>15, <1>16
  DEF TransferStep, ExitStep

(* One more transfer gets the next position. *)
LEMMA PlaceOne ==
  ASSUME NEW n \in Nat \ {0}, Ranked(n - 1),
         NEW w \in Users, w \notin Placed, Placed' = Placed \cup {w},
         queue'[w] = n, \A u \in Placed : queue'[u] = queue[u]
  PROVE  Ranked(n)'
<1>1. IsFiniteSet(Placed)
  BY UsersAssumption, FS_Subset DEF Placed, Waiters
<1>2. Cardinality(Placed) = n - 1
  BY DEF Ranked
<1>3. Cardinality(Placed \cup {w}) = Cardinality(Placed) + 1
  BY <1>1, FS_AddElement
<1>4. Cardinality(Placed') = n
  BY <1>2, <1>3
<1>5. {queue'[u] : u \in Placed \cup {w}} = {queue[u] : u \in Placed} \cup {n}
  OBVIOUS
<1>6. {queue'[u] : u \in Placed'} = 1..n
  BY <1>5 DEF Ranked
<1> QED
  BY <1>4, <1>6 DEF Ranked

(* A pass numbers the transfers. *)
LEMMA PassNumbers ==
  ASSUME Typed, Place, Pass, Numbered, QueueStep
  PROVE  Numbered'
<1> SUFFICES ASSUME ~Unsettled' PROVE Numbered'
  BY DEF Numbered
<1> USE DEF transferVars, slotVars, scanVars
<1>1. UNCHANGED <<wd_transfers, state, pc, user_state, update>>
  BY DEF QueueStep, BeginPass, CollectTransfers, CheckTransfer, AddActive, AddClient,
         StorePosition, EndPass
<1>2. ~Unsettled
  BY <1>1 DEF Unsettled, InArray
<1>3. CASE BeginPass
  BY <1>3 DEF BeginPass, Numbered, Granting
<1>4. CASE CollectTransfers
  <2>1. qpc' = "next" /\ position' = 1 /\ UNCHANGED <<queue, state, wd_transfers>>
    BY <1>4 DEF CollectTransfers
  <2>2. todo' = Waiters /\ Waiters' = Waiters
    BY <1>4, <2>1 DEF CollectTransfers, Waiters, Waiting, IsQueued, InArray
  <2>3. Placed' = {}
    BY <2>2 DEF Placed
  <2>4. Ranked(0)'
    BY <2>3, FS_EmptySet DEF Ranked
  <2>5. position' - 1 = 0
    BY <2>1
  <2>6. Ranked(position - 1)'
    BY <2>4, <2>5 DEF Ranked
  <2> QED
    BY <2>1, <2>2, <2>6 DEF Numbered
<1>5. ASSUME NEW w \in Users, CheckTransfer(w) PROVE Numbered'
  <2>1. /\ qpc = "next" /\ w \in todo /\ todo \subseteq Waiters /\ Ranked(position - 1)
        /\ UNCHANGED <<queue, qcond>>
    BY <1>2, <1>5 DEF CheckTransfer, IsNext, Numbered
  <2>2. Waiters' = Waiters /\ queue[w] # 0 /\ position \in Nat \ {0} /\ position' \in Nat
    BY <1>1, <1>5, <2>1 DEF Typed, Pass, CheckTransfer, Waiters, Waiting, InArray
  <2>3. CASE Blocked(type[w], KeyOf[w]) /\ queue[w] = position
    <3>1. todo' = todo \ {w} /\ position' = position + 1 /\ qpc' = "next"
      BY <1>5, <2>1, <2>3 DEF CheckTransfer
    <3>2. w \notin Placed /\ Placed' = Placed \cup {w}
      BY <2>1, <2>2, <3>1 DEF Placed
    <3> PICK n \in Nat \ {0} : n = position
      BY <2>2
    <3>3. Ranked(n)'
      BY <2>1, <2>3, <3>2, PlaceOne
    <3>4. position' - 1 = n
      BY <3>1
    <3>5. Ranked(position - 1)'
      BY <3>3, <3>4
    <3> QED
      BY <2>1, <2>2, <3>1, <3>5 DEF Numbered
  <2>4. CASE Blocked(type[w], KeyOf[w]) /\ queue[w] # position
    <3>1. /\ todo' = todo /\ position' = position + 1 /\ qpc' = "store"
          /\ new_position' = position
      BY <1>5, <2>1, <2>4 DEF CheckTransfer
    <3>2. Placed' = Placed
      BY <2>2, <3>1 DEF Placed
    <3> QED
      BY <2>1, <2>2, <3>1, <3>2 DEF Numbered, Ranked
  <2>5. CASE ~Blocked(type[w], KeyOf[w])
    <3>1. todo' = todo /\ position' = position /\ qpc' = "add_active"
      BY <1>5, <2>1, <2>2, <2>5 DEF CheckTransfer
    <3>2. Placed' = Placed
      BY <2>2, <3>1 DEF Placed
    <3> QED
      BY <2>1, <2>2, <3>1, <3>2 DEF Numbered, Ranked
  <2> QED
    BY <2>3, <2>4, <2>5
<1>6. CASE AddActive \/ AddClient
  <2>1. /\ UNCHANGED <<queue, todo, position, new_position, wd_transfers, state>>
        /\ qpc \in {"add_active", "add_client"} /\ qpc' \in {"add_client", "store"}
        /\ new_position = 0
    BY <1>6 DEF AddActive, AddClient, Pass
  <2>2. Waiters' = Waiters /\ Placed' = Placed
    BY <2>1 DEF Waiters, Placed, Waiting, InArray
  <2> QED
    BY <1>2, <2>1, <2>2 DEF Numbered, Ranked, Granting
<1>7. CASE StorePosition
  <2>1. transfer \in Users /\ transfer \in todo
    BY <1>7, GrantedIsListed DEF StorePosition, Granting
  <2> PICK w \in Users : w = transfer
    BY <2>1
  <2>2. /\ queue' = [queue EXCEPT ![w] = new_position] /\ todo' = todo \ {w}
        /\ qpc = "store" /\ qpc' = "next" /\ position' = position /\ w \in todo
    BY <1>7, <2>1 DEF StorePosition
  <2>3. todo \subseteq Waiters /\ w \notin Placed
    BY <1>2, <2>2 DEF Numbered, Granting, Placed
  <2>4. /\ queue'[w] = new_position
        /\ \A u \in Users : u # w => queue'[u] = queue[u] /\ (Waiting(u)' <=> Waiting(u))
    BY <1>1, <2>2 DEF Typed, Waiting, InArray
  <2>5. todo' \subseteq Waiters' /\ \A u \in Placed : queue'[u] = queue[u] /\ u # w
    BY <2>2, <2>3, <2>4 DEF Waiters, Placed
  <2>6. CASE new_position = 0
    <3>1. ~Waiting(w)'
      BY <2>4, <2>6 DEF Waiting
    <3>2. Placed' = Placed
      BY <2>2, <2>4, <3>1 DEF Placed, Waiters
    <3>3. Ranked(position - 1)
      BY <1>2, <2>2, <2>6 DEF Numbered
    <3>4. {queue'[u] : u \in Placed} = {queue[u] : u \in Placed}
      BY <2>5
    <3> QED
      BY <2>2, <2>5, <3>2, <3>3, <3>4 DEF Numbered, Ranked
  <2>7. CASE new_position # 0
    <3>1. position = new_position + 1 /\ Ranked(new_position - 1) /\ new_position \in Nat \ {0}
      BY <1>2, <2>2, <2>7 DEF Numbered, Typed
    <3>2. Waiting(w)'
      BY <1>1, <2>2, <2>3, <2>4, <2>7 DEF Waiting, Waiters, InArray
    <3>3. Placed' = Placed \cup {w}
      BY <2>2, <2>4, <3>2 DEF Placed, Waiters
    <3> PICK n \in Nat \ {0} : n = new_position
      BY <3>1
    <3>4. Ranked(n)'
      BY <2>3, <2>4, <2>5, <3>1, <3>3, PlaceOne
    <3>5. position' - 1 = n
      BY <2>2, <3>1
    <3>6. Ranked(position - 1)'
      BY <3>4, <3>5
    <3> QED
      BY <2>2, <2>5, <3>6 DEF Numbered
  <2> QED
    BY <2>6, <2>7
<1>8. CASE EndPass
  <2>1. /\ qpc = "next" /\ qpc' = "wait" /\ todo = {} /\ todo' = todo
        /\ UNCHANGED <<queue, state, wd_transfers>>
    BY <1>8 DEF EndPass
  <2>2. Waiters' = Waiters /\ Placed = Waiters /\ Placed' = Waiters
    BY <2>1 DEF Waiters, Placed, Waiting, InArray
  <2>3. Ranked(position - 1)
    BY <1>2, <2>1 DEF Numbered
  <2> QED
    BY <2>1, <2>2, <2>3 DEF Numbered, Ranked, Granting
<1> QED
  BY <1>3, <1>4, <1>5, <1>6, <1>7, <1>8 DEF QueueStep

LEMMA NumberedStep ==
  ASSUME Typed, Place, Pass, NoneMissed, Numbered, [Next]_vars PROVE Numbered'
<1>1. CASE UNCHANGED vars
  <2>1. Undisturbed
    BY <1>1 DEF vars, transferVars, slotVars, queueVars, scanVars, Undisturbed, Unsettled,
                Waiting, InArray
  <2> QED
    BY <2>1, UndisturbedNumbered
<1>2. ASSUME SignalSettings \/ \E u \in Users : SignalAdded(u) \/ SignalEnd(u) \/ SignalRemoved(u)
      PROVE  Numbered'
  <2>1. qlock = FALSE /\ qcond' = 1 /\ qpc' = qpc
    BY <1>2 DEF SignalSettings, SignalAdded, SignalEnd, EndTransfer, SignalRemoved, SignalQueue,
                queueVars
  <2>2. qpc' = "wait"
    BY <2>1 DEF NoneMissed
  <2> QED
    BY <2>1, <2>2 DEF Numbered, Granting
<1>3. ASSUME NEW u \in Users, TransferStep(u) \/ ExitStep(u) \/ Disconnect(u) \/ Login(u)
      PROVE  Numbered'
  BY <1>2, <1>3, ThreadsUndisturbed, UndisturbedNumbered
<1>4. CASE ApplySettings
  <2>1. Undisturbed
    BY <1>4 DEF ApplySettings, transferVars, queueVars, scanVars, Undisturbed, Unsettled,
                Waiting, InArray
  <2> QED
    BY <2>1, UndisturbedNumbered
<1> QED
  BY <1>1, <1>2, <1>3, <1>4, PassNumbers DEF Next

(* When no signal is due the positions number the waiting transfers from 1 *)
(* without a gap or a tie, whatever clients, administrators and the        *)
(* settings do: whatever leaves a gap or a transfer without a position is  *)
(* followed by a signal, and a pass numbers all that wait.                 *)
THEOREM WaitingAreNumbered == Spec => []PositionsAreRanks
<1> DEFINE Inv == NoneMissed /\ Numbered
<1>1. Init => Inv
  <2> SUFFICES ASSUME Init PROVE Inv
    OBVIOUS
  <2>1. NoneMissed
    BY DEF Init, NoneMissed, Awake
  <2>2. qpc = "wait" /\ qcond = 1
    BY DEF Init
  <2>3. Numbered
    BY <2>2 DEF Numbered, Granting
  <2> QED
    BY <2>1, <2>3
<1>2. IInv /\ Inv /\ [Next]_vars => Inv'
  BY NoneMissedStep, NumberedStep DEF IInv
<1>3. IInv /\ Inv => PositionsAreRanks
  <2> SUFFICES ASSUME IInv, Numbered, Settled
               PROVE  {queue[u] : u \in Waiters} = 1..Cardinality(Waiters)
    BY DEF PositionsAreRanks, Waiters
  <2>1. ~Unsettled
    BY DEF Settled, Unsettled
  <2>2. todo = {}
    BY DEF IInv, Pass, Settled
  <2>3. Ranked(Cardinality(Waiters))
    BY <2>1 DEF Settled, Numbered
  <2> QED
    BY <2>2, <2>3 DEF Ranked, Placed
<1> QED
  BY <1>1, <1>2, <1>3, Inductive, PTL DEF Spec
====
