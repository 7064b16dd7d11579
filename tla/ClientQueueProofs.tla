---- MODULE ClientQueueProofs ----
(***************************************************************************)
(* Proofs about the limit of each client in TransferQueue.  The client's   *)
(* count is changed under another lock than the total and later, so a      *)
(* client holds a slot from when its count is raised until it is lowered.  *)
(* With both limits, the queue implements Slots: what is found free, while *)
(* nobody else is being given a slot, is free in Slots as well.            *)
(***************************************************************************)
EXTENDS TransferQueueProofs

ClientHolds(u) ==
  \/ queue[u] = 0 /\ pc[u] \notin {"delete", "signal_end"}
  \/ transfer = u /\ new_position = 0 /\ qpc = "store"

ClientHolders(t, k) == {u \in Users : type[u] = t /\ KeyOf[u] = k /\ ClientHolds(u)}

ClientsCounted ==
  \A t \in Types, k \in Keys : Cardinality(ClientHolders(t, k)) <= user_transfers[t][k]

(* The count is raised only after it was found below the limit.  Only the  *)
(* queue thread raises it.                                                 *)
Below(t, k, n) == AccountLimit[t][k] > 0 => n <= AccountLimit[t][k]

ClientsBelow ==
  /\ \A t \in Types, k \in Keys : Below(t, k, user_transfers[t][k])
  /\ qpc \in {"add_active", "add_client"} =>
       LET t == type[transfer]
           k == KeyOf[transfer]
       IN Below(t, k, user_transfers[t][k] + 1)

(* No client gets a slot, and the transfer that is to get one is the same. *)
HoldersKept ==
  \A u \in Users : ClientHolds(u)' => ClientHolds(u) /\ type'[u] = type[u]
GrantKept ==
  qpc' \in {"add_active", "add_client"} =>
    /\ qpc \in {"add_active", "add_client"} /\ transfer' = transfer
    /\ type'[transfer] = type[transfer]

-----------------------------------------------------------------------------
LEMMA ClientStep ==
  ASSUME Typed, Place, Pass, [Next]_vars, ~AddClient, \A u \in Users : ~ReleaseClient(u)
  PROVE  /\ user_transfers' = user_transfers /\ HoldersKept
         /\ GrantKept \/ \E u \in Users : CheckTransfer(u)
<1> USE GrantedIsListed
    DEF Typed, Place, Pass, InRun, Listed, Granting, HoldersKept, GrantKept, ClientHolds, Goto,
        transferVars, slotVars, queueVars, scanVars
<1> DEFINE Kept == user_transfers' = user_transfers /\ HoldersKept /\ GrantKept
<1>1. ASSUME NEW u \in Users, NEW t \in Types, CreateTransfer(u, t) PROVE Kept
  BY <1>1 DEF CreateTransfer
<1>2. ASSUME NEW u \in Users, AddTransfer(u) PROVE Kept
  BY <1>2 DEF AddTransfer
<1>3. ASSUME NEW u \in Users, SignalAdded(u) PROVE Kept
  BY <1>3 DEF SignalAdded, SignalQueue
<1>4. ASSUME NEW u \in Users, WakeUp(u) PROVE Kept
  BY <1>4 DEF WakeUp, StartTransfer
<1>5. ASSUME NEW u \in Users, WritePosition(u) PROVE Kept
  BY <1>5 DEF WritePosition, StartTransfer
<1>6. ASSUME NEW u \in Users, FailToWritePosition(u) PROVE Kept
  BY <1>6 DEF FailToWritePosition
<1>7. ASSUME NEW u \in Users, FinishTransfer(u) PROVE Kept
  BY <1>7 DEF FinishTransfer
<1>8. ASSUME NEW u \in Users, ReleaseSlot(u) PROVE Kept
  BY <1>8 DEF ReleaseSlot
<1>9. ASSUME NEW u \in Users, SkipRelease(u) PROVE Kept
  BY <1>9 DEF SkipRelease
<1>10. ASSUME NEW u \in Users, DeleteTransfer(u) PROVE Kept
  BY <1>10 DEF DeleteTransfer
<1>11. ASSUME NEW u \in Users, SignalEnd(u) PROVE Kept
  BY <1>11 DEF SignalEnd, EndTransfer, SignalQueue
<1>12. ASSUME NEW u \in Users, LeaveLoop(u) PROVE Kept
  BY <1>12 DEF LeaveLoop
<1>13. ASSUME NEW u \in Users, LookForClient(u) PROVE Kept
  BY <1>13 DEF LookForClient
<1>14. ASSUME NEW u \in Users, LockTransfers(u) PROVE Kept
  BY <1>14 DEF LockTransfers
<1>15. ASSUME NEW u \in Users, ScanTransfer(u) PROVE Kept
  BY <1>15 DEF ScanTransfer
<1>16. ASSUME NEW u \in Users, EndScan(u) PROVE Kept
  BY <1>16 DEF EndScan
<1>17. ASSUME NEW u \in Users, SignalRemoved(u) PROVE Kept
  BY <1>17 DEF SignalRemoved, SignalQueue
<1>18. ASSUME NEW u \in Users, LeaveUsers(u) PROVE Kept
  BY <1>18 DEF LeaveUsers
<1>19. ASSUME NEW u \in Users, Disconnect(u) PROVE Kept
  BY <1>19 DEF Disconnect
<1>20. ASSUME NEW u \in Users, Login(u) PROVE Kept
  BY <1>20 DEF Login
<1>21. CASE BeginPass
  BY <1>21 DEF BeginPass
<1>22. CASE CollectTransfers
  BY <1>22 DEF CollectTransfers
<1>23. CASE AddActive
  BY <1>23 DEF AddActive
<1>24. CASE StorePosition
  BY <1>24 DEF StorePosition
<1>25. CASE EndPass
  BY <1>25 DEF EndPass
<1>26. CASE ApplySettings
  BY <1>26 DEF ApplySettings
<1>27. CASE SignalSettings
  BY <1>27 DEF SignalSettings, SignalQueue
<1>28. ASSUME NEW u \in Users, CheckTransfer(u)
      PROVE  user_transfers' = user_transfers /\ HoldersKept
  BY <1>28 DEF CheckTransfer
<1>29. CASE UNCHANGED vars
  BY <1>29 DEF vars
<1> QED
  BY <1>1, <1>2, <1>3, <1>4, <1>5, <1>6, <1>7, <1>8, <1>9, <1>10, <1>11, <1>12,
     <1>13, <1>14, <1>15, <1>16, <1>17, <1>18, <1>19, <1>20, <1>21, <1>22, <1>23,
     <1>24, <1>25, <1>26, <1>27, <1>28, <1>29
  DEF Next, TransferStep, ExitStep, QueueStep

LEMMA ClientsFinite ==
  \A t, k : /\ IsFiniteSet(ClientHolders(t, k)) /\ Cardinality(ClientHolders(t, k)) \in Nat
           /\ IsFiniteSet(ClientHolders(t, k)') /\ Cardinality(ClientHolders(t, k)') \in Nat
<1>1. \A t, k : ClientHolders(t, k) \subseteq Users /\ ClientHolders(t, k)' \subseteq Users
  BY DEF ClientHolders
<1> QED
  BY <1>1, UsersAssumption, FS_Subset, FS_CardinalityType

(* A client gives its slot back. *)
LEMMA ReleaseCounted ==
  ASSUME Typed, Place, Pass, ClientsCounted, ClientsBelow, NEW u \in Users, ReleaseClient(u)
  PROVE  (ClientsCounted /\ ClientsBelow)'
<1> DEFINE t == type[u]
           k == KeyOf[u]
<1>1. t \in Types /\ k \in Keys /\ queue[u] = 0 /\ pc[u] = "release_client"
  BY KeysAssumption DEF Place, InRun, ReleaseClient
<1>2. /\ UNCHANGED <<queue, type, transfer, new_position, qpc>>
      /\ pc' = [pc EXCEPT ![u] = "delete"]
      /\ user_transfers' = [user_transfers EXCEPT ![t][k] = IF @ > 0 THEN @ - 1 ELSE 0]
  BY DEF ReleaseClient, Goto, transferVars, queueVars
<1>3. qpc \in Granting => transfer \in todo /\ transfer \in Users /\ queue[transfer] # 0
  BY GrantedIsListed
<1>4. transfer = u => qpc \notin Granting
  BY <1>1, <1>3
<1>5. u \in ClientHolders(t, k) /\ \A s, j : ClientHolders(s, j)' \subseteq ClientHolders(s, j) \ {u}
  BY <1>1, <1>2, <1>4 DEF ClientHolders, ClientHolds, Granting, Typed
<1>6. Cardinality(ClientHolders(t, k) \ {u}) = Cardinality(ClientHolders(t, k)) - 1
      /\ IsFiniteSet(ClientHolders(t, k) \ {u})
  BY <1>5, ClientsFinite, FS_RemoveElement
<1>7. ASSUME NEW s \in Types, NEW j \in Keys
      PROVE  /\ Cardinality(ClientHolders(s, j)') <= user_transfers'[s][j]
             /\ user_transfers'[s][j] <= user_transfers[s][j]
             /\ user_transfers'[s][j] \in Nat /\ user_transfers[s][j] \in Nat
  <2>1. user_transfers[s][j] \in Nat /\ Cardinality(ClientHolders(s, j)) <= user_transfers[s][j]
    BY DEF Typed, ClientsCounted
  <2>2. CASE s = t /\ j = k
    <3>1. Cardinality(ClientHolders(s, j)') <= Cardinality(ClientHolders(s, j)) - 1
      BY <1>5, <1>6, <2>2, FS_Subset
    <3>2. user_transfers'[s][j] = IF user_transfers[s][j] > 0 THEN user_transfers[s][j] - 1 ELSE 0
      BY <1>1, <1>2, <2>2 DEF Typed
    <3> QED
      BY <2>1, <3>1, <3>2, ClientsFinite
  <2>3. CASE s # t \/ j # k
    <3>1. user_transfers'[s][j] = user_transfers[s][j]
      BY <1>1, <1>2, <2>3 DEF Typed
    <3>2. ClientHolders(s, j)' \subseteq ClientHolders(s, j)
      BY <1>5
    <3>3. Cardinality(ClientHolders(s, j)') <= Cardinality(ClientHolders(s, j))
      BY <3>2, ClientsFinite, FS_Subset
    <3> QED
      BY <2>1, <3>1, <3>3, ClientsFinite
  <2> QED
    BY <2>2, <2>3
<1>8. ClientsCounted'
  BY <1>7 DEF ClientsCounted
<1>9. \A s \in Types, j \in Keys : AccountLimit[s][j] \in Nat
  BY LimitsAssumption
<1>10. \A s \in Types, j \in Keys : Below(s, j, user_transfers'[s][j])
  BY <1>7, <1>9 DEF ClientsBelow, Below
<1>11. ASSUME qpc \in {"add_active", "add_client"}
       PROVE  Below(type[transfer], KeyOf[transfer],
                    user_transfers'[type[transfer]][KeyOf[transfer]] + 1)
  <2>1. type[transfer] \in Types /\ KeyOf[transfer] \in Keys
    BY <1>11, GrantedIsListed, KeysAssumption DEF Granting
  <2> QED
    BY <1>7, <1>9, <1>11, <2>1 DEF ClientsBelow, Below
<1> QED
  BY <1>2, <1>8, <1>10, <1>11 DEF ClientsBelow

(* The queue thread counts the slot that it is giving to a client. *)
LEMMA GrantCounted ==
  ASSUME Typed, Place, Pass, ClientsCounted, ClientsBelow, AddClient
  PROVE  (ClientsCounted /\ ClientsBelow)'
<1> DEFINE t == type[transfer]
           k == KeyOf[transfer]
<1>1. transfer \in Users /\ t \in Types /\ k \in Keys /\ queue[transfer] # 0
  BY GrantedIsListed, KeysAssumption DEF AddClient, Granting
<1>2. /\ UNCHANGED <<queue, type, transfer, new_position, pc>>
      /\ qpc = "add_client" /\ qpc' = "store"
      /\ user_transfers' = [user_transfers EXCEPT ![t][k] = @ + 1]
  BY DEF AddClient, transferVars
<1>3. /\ transfer \notin ClientHolders(t, k)
      /\ \A s, j : ClientHolders(s, j)' \subseteq ClientHolders(s, j) \cup {transfer}
      /\ \A s, j : s # t \/ j # k => ClientHolders(s, j)' \subseteq ClientHolders(s, j)
  BY <1>1, <1>2 DEF ClientHolders, ClientHolds
<1>4. Cardinality(ClientHolders(t, k) \cup {transfer}) = Cardinality(ClientHolders(t, k)) + 1
      /\ IsFiniteSet(ClientHolders(t, k) \cup {transfer})
  BY <1>3, ClientsFinite, FS_AddElement
<1>5. Below(t, k, user_transfers[t][k] + 1)
  BY <1>2 DEF ClientsBelow
<1>6. ASSUME NEW s \in Types, NEW j \in Keys
      PROVE  /\ Cardinality(ClientHolders(s, j)') <= user_transfers'[s][j]
             /\ Below(s, j, user_transfers'[s][j])
  <2>1. /\ user_transfers[s][j] \in Nat /\ Below(s, j, user_transfers[s][j])
        /\ Cardinality(ClientHolders(s, j)) <= user_transfers[s][j]
    BY DEF Typed, ClientsCounted, ClientsBelow
  <2>2. CASE s = t /\ j = k
    <3>1. Cardinality(ClientHolders(s, j)') <= Cardinality(ClientHolders(s, j)) + 1
      BY <1>3, <1>4, <2>2, FS_Subset
    <3>2. user_transfers'[s][j] = user_transfers[s][j] + 1
      BY <1>1, <1>2, <2>2 DEF Typed
    <3> QED
      BY <1>5, <2>1, <2>2, <3>1, <3>2, ClientsFinite
  <2>3. CASE s # t \/ j # k
    <3>1. user_transfers'[s][j] = user_transfers[s][j]
      BY <1>1, <1>2, <2>3 DEF Typed
    <3>2. Cardinality(ClientHolders(s, j)') <= Cardinality(ClientHolders(s, j))
      BY <1>3, <2>3, ClientsFinite, FS_Subset
    <3> QED
      BY <2>1, <3>1, <3>2, ClientsFinite
  <2> QED
    BY <2>2, <2>3
<1> QED
  BY <1>2, <1>6 DEF ClientsCounted, ClientsBelow

LEMMA ClientsStep ==
  ASSUME Typed, Place, Pass, ClientsCounted, ClientsBelow, [Next]_vars
  PROVE  (ClientsCounted /\ ClientsBelow)'
<1>1. CASE ~AddClient /\ \A u \in Users : ~ReleaseClient(u)
  <2>1. /\ user_transfers' = user_transfers /\ HoldersKept
        /\ GrantKept \/ \E u \in Users : CheckTransfer(u)
    BY <1>1, ClientStep
  <2>2. \A s \in Types, j \in Keys : ClientHolders(s, j)' \subseteq ClientHolders(s, j)
    BY <2>1 DEF HoldersKept, ClientHolders
  <2>3. ASSUME NEW s \in Types, NEW j \in Keys
        PROVE  Cardinality(ClientHolders(s, j)') <= user_transfers[s][j]
    <3>1. Cardinality(ClientHolders(s, j)') <= Cardinality(ClientHolders(s, j))
      BY <2>2, ClientsFinite, FS_Subset
    <3>2. user_transfers[s][j] \in Nat /\ Cardinality(ClientHolders(s, j)) <= user_transfers[s][j]
      BY DEF Typed, ClientsCounted
    <3> QED
      BY <3>1, <3>2, ClientsFinite
  <2>4. ClientsCounted'
    BY <2>1, <2>3 DEF ClientsCounted
  <2>5. CASE GrantKept
    BY <2>1, <2>4, <2>5 DEF ClientsBelow, GrantKept
  <2>6. ASSUME NEW u \in Users, CheckTransfer(u), qpc' \in {"add_active", "add_client"}
        PROVE  Below(type[u], KeyOf[u], user_transfers[type[u]][KeyOf[u]] + 1)
               /\ transfer' = u /\ type' = type
    <3>1. transfer' = u /\ ~Blocked(type[u], KeyOf[u]) /\ u \in todo /\ type' = type
      BY <2>6 DEF CheckTransfer, IsNext, transferVars
    <3>2. type[u] \in Types /\ KeyOf[u] \in Keys
      BY <3>1, KeysAssumption DEF Pass, Place, Listed
    <3>3. AccountLimit[type[u]][KeyOf[u]] \in Nat /\ user_transfers[type[u]][KeyOf[u]] \in Nat
      BY <3>2, LimitsAssumption DEF Typed
    <3> QED
      BY <3>1, <3>3 DEF Blocked, Below
  <2>7. CASE \E u \in Users : CheckTransfer(u)
    BY <2>1, <2>4, <2>6, <2>7 DEF ClientsBelow
  <2> QED
    BY <2>1, <2>5, <2>7
<1> QED
  BY <1>1, ReleaseCounted, GrantCounted

LEMMA ClientsInvariant == Spec => [](ClientsCounted /\ ClientsBelow)
<1>1. Init => ClientsCounted /\ ClientsBelow
  <2> SUFFICES ASSUME Init PROVE ClientsCounted /\ ClientsBelow
    OBVIOUS
  <2>1. \A t, k : ClientHolders(t, k) = {}
    BY DEF Init, ClientHolders, ClientHolds
  <2>2. \A t \in Types, k \in Keys : user_transfers[t][k] = 0 /\ AccountLimit[t][k] \in Nat
    BY LimitsAssumption DEF Init
  <2>3. ClientsCounted
    <3>1. \A t, k : Cardinality(ClientHolders(t, k)) = 0
      BY <2>1, FS_EmptySet
    <3> QED
      BY <2>2, <3>1 DEF ClientsCounted
  <2>4. ClientsBelow
    <3>1. qpc = "wait"
      BY DEF Init
    <3> QED
      BY <2>2, <3>1 DEF ClientsBelow, Below
  <2> QED
    BY <2>3, <2>4
<1>2. IInv /\ ClientsCounted /\ ClientsBelow /\ [Next]_vars => (ClientsCounted /\ ClientsBelow)'
  BY ClientsStep DEF IInv
<1> QED
  BY <1>1, <1>2, Inductive, PTL DEF Spec

(* No client moves more transfers than its account allows: whoever moves   *)
(* data holds one of its client's slots, those are counted, and the count  *)
(* is raised only below the limit, although it is compared and raised in   *)
(* steps of their own.                                                     *)
THEOREM ClientIsRespected == Spec => []ClientRespected
<1>1. IInv /\ ClientsCounted /\ ClientsBelow => ClientRespected
  <2> SUFFICES ASSUME IInv, ClientsCounted, ClientsBelow, NEW t \in Types, NEW k \in Keys,
                      AccountLimit[t][k] > 0
               PROVE  Cardinality(ClientStreams(t, k)) <= AccountLimit[t][k]
    BY DEF ClientRespected
  <2>1. ClientStreams(t, k) \subseteq ClientHolders(t, k)
    BY DEF IInv, Place, ClientStreams, Streams, Moves, ClientHolders, ClientHolds
  <2>2. /\ Cardinality(ClientStreams(t, k)) \in Nat
        /\ Cardinality(ClientStreams(t, k)) <= Cardinality(ClientHolders(t, k))
    BY <2>1, ClientsFinite, FS_Subset, FS_CardinalityType
  <2>3. /\ Cardinality(ClientHolders(t, k)) <= user_transfers[t][k]
        /\ user_transfers[t][k] <= AccountLimit[t][k]
        /\ user_transfers[t][k] \in Nat /\ AccountLimit[t][k] \in Nat
    BY LimitsAssumption DEF IInv, Typed, ClientsCounted, ClientsBelow, Below
  <2> QED
    BY <2>2, <2>3, ClientsFinite
<1> QED
  BY <1>1, Inductive, ClientsInvariant, PTL

-----------------------------------------------------------------------------
(* The transfers as an abstract queue of slots sees them. *)
Phases == [u \in Users |-> Phase(u)]

Unseen == Phases' = Phases /\ type' = type /\ total' = total

(* The step of one transfer, the only one that Slots may see. *)
Turned(u, from, to) ==
  /\ Phase(u) = from /\ Phases' = [Phases EXCEPT ![u] = to]
  /\ type' = type /\ total' = total

LEMMA UnseenSteps ==
  ASSUME Typed, Place, Pass, NEW u \in Users,
         \/ AddTransfer(u) \/ SignalAdded(u) \/ WritePosition(u) \/ FailToWritePosition(u)
         \/ SkipRelease(u) \/ ReleaseClient(u) \/ DeleteTransfer(u)
         \/ ExitStep(u) \/ Login(u)
         \/ BeginPass \/ CollectTransfers \/ AddActive \/ AddClient \/ EndPass
         \/ SignalSettings \/ UNCHANGED vars
  PROVE  Unseen
<1> USE UsersAssumption
    DEF Typed, Place, Pass, InRun, Listed, Granting, PastRelease, Goto, Unseen, Phases,
        Phase, Reserved, Moves, transferVars, slotVars, queueVars, scanVars
<1>1. CASE AddTransfer(u)
  BY <1>1 DEF AddTransfer
<1>2. CASE SignalAdded(u)
  BY <1>2 DEF SignalAdded, SignalQueue
<1>3. CASE WritePosition(u)
  BY <1>3 DEF WritePosition, StartTransfer
<1>4. CASE FailToWritePosition(u)
  BY <1>4 DEF FailToWritePosition
<1>5. CASE SkipRelease(u)
  BY <1>5 DEF SkipRelease
<1>6. CASE ReleaseClient(u)
  BY <1>6 DEF ReleaseClient
<1>7. CASE DeleteTransfer(u)
  BY <1>7 DEF DeleteTransfer
<1>8. CASE LeaveLoop(u)
  BY <1>8 DEF LeaveLoop
<1>9. CASE LookForClient(u)
  BY <1>9 DEF LookForClient
<1>10. CASE LockTransfers(u)
  BY <1>10 DEF LockTransfers
<1>11. CASE ScanTransfer(u)
  BY <1>11 DEF ScanTransfer
<1>12. CASE EndScan(u)
  BY <1>12 DEF EndScan
<1>13. CASE SignalRemoved(u)
  BY <1>13 DEF SignalRemoved, SignalQueue
<1>14. CASE LeaveUsers(u)
  BY <1>14 DEF LeaveUsers
<1>15. CASE Login(u)
  BY <1>15 DEF Login
<1>16. CASE BeginPass
  BY <1>16 DEF BeginPass
<1>17. CASE CollectTransfers
  BY <1>17 DEF CollectTransfers
<1>18. CASE AddActive
  BY <1>18 DEF AddActive
<1>19. CASE AddClient
  BY <1>19 DEF AddClient
<1>20. CASE EndPass
  BY <1>20 DEF EndPass
<1>21. CASE SignalSettings
  BY <1>21 DEF SignalSettings, SignalQueue
<1>22. CASE UNCHANGED vars
  BY <1>22 DEF vars
<1> QED
  BY <1>1, <1>2, <1>3, <1>4, <1>5, <1>6, <1>7, <1>8, <1>9, <1>10, <1>11, <1>12, <1>13,
     <1>14, <1>15, <1>16, <1>17, <1>18, <1>19, <1>20, <1>21, <1>22 DEF ExitStep

(* What a phase depends on stays as it is for everybody but one. *)
Promised(v) == transfer = v /\ new_position = 0 /\ qpc \in Granting

Aside(u) ==
  \A v \in Users \ {u} :
    /\ type'[v] = type[v] /\ queue'[v] = queue[v]
    /\ pc'[v] = pc[v] /\ user_state'[v] = user_state[v]
    /\ Promised(v)' <=> Promised(v)

LEMMA OneTurns ==
  ASSUME NEW u \in Users, Aside(u)
  PROVE  Phases' = [Phases EXCEPT ![u] = Phase(u)']
         /\ (Phase(u)' = Phase(u) => Phases' = Phases)
<1>1. \A v \in Users \ {u} : Phase(v)' = Phase(v)
  BY DEF Aside, Promised, Granting, Phase, Reserved, Moves
<1>2. \A v \in Users : Phases'[v] = Phase(v)' /\ Phases[v] = Phase(v)
  BY DEF Phases
<1>3. DOMAIN Phases = Users /\ DOMAIN Phases' = Users
      /\ Phases = [v \in Users |-> Phases[v]] /\ Phases' = [v \in Users |-> Phases'[v]]
  BY DEF Phases
<1> QED
  BY <1>1, <1>2, <1>3

LEMMA CreateAsks ==
  ASSUME Typed, Place, Pass, NEW u \in Users, NEW t \in Types, CreateTransfer(u, t)
  PROVE  /\ Phase(u) = None /\ Phases' = [Phases EXCEPT ![u] = "waiting"]
         /\ type' = [type EXCEPT ![u] = t] /\ total' = total
<1>1. type[u] \notin Types /\ type[u] = None /\ queue[u] # 0 /\ wd_transfers[u] <= 0
  BY DEF CreateTransfer, Typed, Place, InRun, Listed
<1>2. ~Promised(u)
  BY <1>1, GrantedIsListed DEF Promised
<1>3. /\ type' = [type EXCEPT ![u] = t] /\ type'[u] = t
      /\ pc' = [pc EXCEPT ![u] = "add"]
      /\ UNCHANGED <<queue, user_state, total, transfer, new_position, qpc>>
  BY DEF CreateTransfer, Goto, slotVars, queueVars, scanVars, Typed
<1>4. Phase(u) = None /\ Phase(u)' = "waiting"
  BY <1>1, <1>2, <1>3, UsersAssumption DEF Phase, Reserved, Promised, Granting
<1>5. Aside(u)
  BY <1>3 DEF Aside, Promised, Typed
<1> QED
  BY <1>3, <1>4, <1>5, OneTurns

LEMMA EndLeaves ==
  ASSUME Typed, Place, Pass, NEW u \in Users, SignalEnd(u)
  PROVE  /\ Phase(u) \in {"waiting", "returned"} /\ Phases' = [Phases EXCEPT ![u] = None]
         /\ type' = [type EXCEPT ![u] = None] /\ total' = total
<1>1. type[u] \in Types /\ type[u] # None /\ pc[u] = "signal_end"
  BY UsersAssumption DEF SignalEnd, Place, InRun
<1>2. ~Promised(u)
  BY <1>1, GrantedIsListed DEF Promised, Listed
<1>3. /\ type' = [type EXCEPT ![u] = None] /\ type'[u] = None
      /\ pc' = [pc EXCEPT ![u] = "idle"] /\ queue' = [queue EXCEPT ![u] = -1]
      /\ \A v \in Users \ {u} : user_state'[v] = user_state[v]
      /\ UNCHANGED <<total, transfer, new_position, qpc>>
  BY DEF SignalEnd, EndTransfer, Goto, queueVars, Typed
<1>4. Phase(u) \in {"waiting", "returned"} /\ Phase(u)' = None
  BY <1>1, <1>2, <1>3, UsersAssumption DEF Phase, Reserved, Promised, Granting, PastRelease
<1>5. Aside(u)
  BY <1>3 DEF Aside, Promised, Typed
<1> QED
  BY <1>3, <1>4, <1>5, OneTurns

(* A connection thread starts, stops or ends its transfer. *)
LEMMA TurnSteps ==
  ASSUME Typed, Place, Pass, NEW u \in Users
  PROVE  /\ WakeUp(u) => Unseen \/ Turned(u, "granted", "moving")
         /\ FinishTransfer(u) \/ Disconnect(u) => Unseen \/ Turned(u, "moving", "granted")
         /\ ReleaseSlot(u) => Turned(u, "granted", "returned")
<1> USE DEF transferVars, slotVars, queueVars, scanVars, Goto
<1> DEFINE Still == UNCHANGED <<type, queue, total, transfer, new_position, qpc>>
<1>1. ASSUME Still, Aside(u), Phase(u)' = Phase(u) PROVE Unseen
  BY <1>1, OneTurns DEF Unseen
<1>2. ASSUME Still, Aside(u), NEW from, NEW to, Phase(u) = from, Phase(u)' = to
      PROVE  Turned(u, from, to)
  BY <1>2, OneTurns DEF Turned
<1>3. pc[u] \in {"wait", "data", "release"} => type[u] \in Types /\ type[u] # None
  BY UsersAssumption DEF Place, InRun
<1>4. pc[u] = "data" /\ user_state[u] = "LOGGED_IN" => queue[u] = 0
  BY DEF Place
<1>5. queue[u] = 0 => ~Promised(u)
  BY GrantedIsListed DEF Promised
<1>6. ASSUME WakeUp(u) PROVE Unseen \/ Turned(u, "granted", "moving")
  <2>1. /\ Still /\ pc[u] = "wait" /\ user_state' = user_state
        /\ \/ queue[u] > 0 /\ pc' = [pc EXCEPT ![u] = "write"]
           \/ queue[u] = 0 /\ pc' = [pc EXCEPT ![u] = "data"]
    BY <1>6 DEF WakeUp, StartTransfer
  <2>2. Aside(u) /\ pc'[u] \in {"write", "data"} /\ (pc'[u] = "data" => queue[u] = 0)
    BY <2>1 DEF Aside, Promised, Typed
  <2>3. \/ Phase(u)' = Phase(u)
        \/ Phase(u) = "granted" /\ Phase(u)' = "moving"
    BY <1>3, <2>1, <2>2 DEF Phase, Reserved, Moves, PastRelease
  <2> QED
    BY <1>1, <1>2, <2>1, <2>2, <2>3
<1>7. ASSUME FinishTransfer(u) PROVE Unseen \/ Turned(u, "moving", "granted")
  <2>1. /\ Still /\ pc[u] = "data" /\ user_state' = user_state
        /\ pc' = [pc EXCEPT ![u] = "release"]
    BY <1>7 DEF FinishTransfer
  <2>2. Aside(u) /\ pc'[u] = "release"
    BY <2>1 DEF Aside, Promised, Typed
  <2>3. \/ Phase(u)' = Phase(u)
        \/ Phase(u) = "moving" /\ Phase(u)' = "granted"
    BY <1>3, <1>4, <2>1, <2>2 DEF Phase, Reserved, Moves, PastRelease
  <2> QED
    BY <1>1, <1>2, <2>1, <2>2, <2>3
<1>8. ASSUME Disconnect(u) PROVE Unseen \/ Turned(u, "moving", "granted")
  <2>1. /\ Still /\ user_state[u] = "LOGGED_IN" /\ pc' = pc
        /\ user_state' = [user_state EXCEPT ![u] = "DISCONNECTED"]
    BY <1>8 DEF Disconnect
  <2>2. Aside(u) /\ user_state'[u] = "DISCONNECTED"
    BY <2>1 DEF Aside, Promised, Typed
  <2>3. \/ Phase(u)' = Phase(u)
        \/ Phase(u) = "moving" /\ Phase(u)' = "granted"
    BY <1>3, <1>4, <2>1, <2>2 DEF Phase, Reserved, Moves, PastRelease
  <2> QED
    BY <1>1, <1>2, <2>1, <2>2, <2>3
<1>9. ASSUME ReleaseSlot(u) PROVE Turned(u, "granted", "returned")
  <2>1. /\ Still /\ pc[u] = "release" /\ queue[u] = 0 /\ user_state' = user_state
        /\ pc' = [pc EXCEPT ![u] = "release_client"]
    BY <1>9 DEF ReleaseSlot
  <2>2. Aside(u) /\ pc'[u] = "release_client" /\ ~Promised(u)' /\ ~Promised(u)
    BY <1>5, <2>1 DEF Aside, Promised, Typed
  <2>3. Phase(u) = "granted" /\ Phase(u)' = "returned"
    BY <1>3, <2>1, <2>2 DEF Phase, Reserved, Moves, PastRelease, Promised, Granting
  <2> QED
    BY <1>2, <2>1, <2>2, <2>3
<1> QED
  BY <1>6, <1>7, <1>8, <1>9

(* The queue thread looks at a transfer: it may decide to give it a slot.  *)
LEMMA CheckGrants ==
  ASSUME Typed, Place, Pass, NEW u \in Users, CheckTransfer(u)
  PROVE  \/ Unseen
         \/ Turned(u, "waiting", "granted") /\ ~Blocked(type[u], KeyOf[u])
            /\ qpc = "next" /\ type[u] \in Types
<1>1. /\ qpc = "next" /\ transfer = None /\ u \in todo
      /\ queue[u] # 0 /\ type[u] \in Types /\ type[u] # None
      /\ UNCHANGED <<type, queue, pc, user_state, total>>
  BY UsersAssumption DEF CheckTransfer, IsNext, Pass, Place, Granting, Listed, transferVars
<1>2. ~(pc[u] = "data" /\ user_state[u] = "LOGGED_IN")
  BY <1>1 DEF Place
<1>3. Aside(u) /\ ~Promised(u)
  BY <1>1, UsersAssumption DEF Aside, Promised, CheckTransfer, Granting
<1>4. CASE Promised(u)'
  <2>1. Phase(u) = "waiting" /\ Phase(u)' = "granted"
    BY <1>1, <1>2, <1>3, <1>4 DEF Phase, Reserved, Moves, Promised, Granting
  <2>2. ~Blocked(type[u], KeyOf[u])
    BY <1>1, <1>4 DEF CheckTransfer, Promised, Granting, Typed
  <2> QED
    BY <1>1, <1>3, <2>1, <2>2, OneTurns DEF Turned
<1>5. CASE ~Promised(u)'
  <2>1. Phase(u)' = Phase(u)
    BY <1>1, <1>3, <1>5 DEF Phase, Reserved, Moves, Promised, Granting
  <2> QED
    BY <1>1, <1>3, <2>1, OneTurns DEF Unseen
<1> QED
  BY <1>4, <1>5

(* The slot is stored; its transfer may have ended meanwhile. *)
LEMMA StoreReturns ==
  ASSUME Typed, Place, Pass, StorePosition
  PROVE  Unseen \/ \E u \in Users : Turned(u, "granted", "returned")
<1>1. PICK u \in Users : u = transfer
  BY GrantedIsListed DEF StorePosition, Granting
<1>2. /\ queue[u] # 0 /\ type[u] \in Types /\ type[u] # None
      /\ ~(pc[u] = "data" /\ user_state[u] = "LOGGED_IN")
  BY <1>1, GrantedIsListed, UsersAssumption DEF StorePosition, Granting, Place
<1>3. /\ qpc = "store" /\ qpc' = "next" /\ transfer = u /\ transfer' = None
      /\ queue' = [queue EXCEPT ![u] = new_position] /\ queue'[u] = new_position
      /\ UNCHANGED <<type, pc, user_state, total>>
  BY <1>1 DEF StorePosition, Typed
<1>4. Aside(u) /\ ~Promised(u)' /\ (Promised(u) <=> new_position = 0)
  BY <1>3, UsersAssumption DEF Aside, Promised, Granting, Typed
<1>5. \/ Phase(u)' = Phase(u)
      \/ Phase(u) = "granted" /\ Phase(u)' = "returned"
  BY <1>2, <1>3, <1>4 DEF Phase, Reserved, Moves, Promised, Granting
<1> QED
  BY <1>3, <1>4, <1>5, OneTurns DEF Unseen, Turned

LEMMA SameCardinality == \A X : S!Cardinality(X) = Cardinality(X)
BY DEF S!Cardinality, Cardinality

(* Between two decisions those who have a slot are counted, so that a      *)
(* transfer which is not blocked finds one free.                           *)
LEMMA UnblockedIsFree ==
  ASSUME Typed, SlotsCounted, ClientsCounted, qpc = "next",
         NEW t \in Types, NEW k \in Keys, ~Blocked(t, k)
  PROVE  S!Free(t, k)
<1> DEFINE H == S!Holders(t)
           C == {u \in H : KeyOf[u] = k}
<1>1. total[t] \in Nat /\ AccountLimit[t][k] \in Nat
      /\ active[t] \in Int /\ user_transfers[t][k] \in Nat
  BY LimitsAssumption DEF Typed
<1>2. \A u \in H : u \in Users /\ type[u] = t /\ Phase(u) \in {"granted", "moving"}
  BY DEF S!Holders
<1>3. \A u \in H : queue[u] = 0 /\ pc[u] \notin PastRelease
  BY <1>2 DEF Phase, Reserved, None
<1>4. H \subseteq Holders(t)
  BY <1>2, <1>3 DEF Holders, Holds
<1>5. C \subseteq ClientHolders(t, k)
  BY <1>2, <1>3 DEF ClientHolders, ClientHolds, PastRelease
<1>6. IsFiniteSet(Holders(t)) /\ Cardinality(Holders(t)) \in Nat
  BY UsersAssumption, FS_Subset, FS_CardinalityType DEF Holders
<1>7. /\ Cardinality(H) <= Cardinality(Holders(t))
      /\ Cardinality(C) <= Cardinality(ClientHolders(t, k))
      /\ Cardinality(H) \in Nat /\ Cardinality(C) \in Nat
  BY <1>4, <1>5, <1>6, ClientsFinite, FS_Subset, FS_CardinalityType
<1>8. Cardinality(Holders(t)) <= active[t]
      /\ Cardinality(ClientHolders(t, k)) <= user_transfers[t][k]
  BY DEF SlotsCounted, ClientsCounted
<1>9. /\ total[t] > 0 => Cardinality(H) < total[t]
      /\ AccountLimit[t][k] > 0 => Cardinality(C) < AccountLimit[t][k]
  BY <1>1, <1>6, <1>7, <1>8, ClientsFinite DEF Blocked
<1> QED
  BY <1>9, SameCardinality DEF S!Free

LEMMA StepIsOfSlots ==
  ASSUME Typed, Place, Pass, SlotsCounted, ClientsCounted, [Next]_vars
  PROVE  S!Next \/ UNCHANGED S!vars
<1> DEFINE Turn(u, from, to) == S!Turns(u, from, to) /\ Phases'[u] # Phases[u]
<1>1. ASSUME Unseen PROVE UNCHANGED S!vars
  BY <1>1 DEF Unseen, Phases, S!vars
<1>2. ASSUME NEW u \in Users, NEW from, NEW to, from # to, Turned(u, from, to)
      PROVE  Turn(u, from, to)
  BY <1>2 DEF Turned, Phases, S!Turns
<1>3. ASSUME NEW u \in Users, NEW t \in Types, CreateTransfer(u, t) PROVE S!Next
  <2>1. S!Ask(u, t)
    BY <1>3, CreateAsks DEF Phases, S!Ask, S!None, None
  <2>2. Phases'[u] # Phases[u]
    BY <1>3, CreateAsks DEF Phases, None
  <2> QED
    BY <2>1, <2>2 DEF Phases, S!Next
<1>4. ASSUME NEW u \in Users, SignalEnd(u) PROVE S!Next
  <2>1. S!Leave(u)
    BY <1>4, EndLeaves DEF Phases, S!Leave, S!None, None
  <2>2. Phases'[u] # Phases[u]
    BY <1>4, EndLeaves DEF Phases, None
  <2> QED
    BY <2>1, <2>2 DEF Phases, S!Next
<1>5. ASSUME NEW u \in Users, CheckTransfer(u), ~Unseen PROVE S!Next
  <2>1. /\ Turned(u, "waiting", "granted") /\ ~Blocked(type[u], KeyOf[u])
        /\ qpc = "next" /\ type[u] \in Types /\ KeyOf[u] \in Keys
    BY <1>5, CheckGrants, KeysAssumption
  <2>2. S!Free(type[u], KeyOf[u])
    BY <2>1, UnblockedIsFree
  <2> QED
    BY <1>2, <2>1, <2>2 DEF Phases, S!Next, S!Grant
<1>6. ASSUME NEW u \in Users, Turned(u, "granted", "moving") PROVE S!Next
  BY <1>2, <1>6 DEF Phases, S!Next, S!Move
<1>7. ASSUME NEW u \in Users, Turned(u, "moving", "granted") PROVE S!Next
  BY <1>2, <1>7 DEF Phases, S!Next, S!Stop
<1>8. ASSUME NEW u \in Users, Turned(u, "granted", "returned") PROVE S!Next
  BY <1>2, <1>8 DEF Phases, S!Next, S!GiveBack
<1>9. ASSUME ApplySettings PROVE S!Next \/ UNCHANGED S!vars
  <2>1. Phases' = Phases /\ type' = type /\ total' \in TotalChoices
    BY <1>9 DEF ApplySettings, Phases, Phase, Reserved, Moves, transferVars, queueVars
  <2>2. CASE total' = total
    BY <2>1, <2>2 DEF Phases, S!vars
  <2>3. CASE total' # total
    BY <2>1, <2>3 DEF Phases, S!Next, S!Configure
  <2> QED
    BY <2>2, <2>3
<1>10. ASSUME NEW u \in Users, TransferStep(u) PROVE Unseen \/ S!Next
  BY <1>3, <1>4, <1>6, <1>7, <1>8, <1>10, UnseenSteps, TurnSteps DEF TransferStep
<1>11. ASSUME NEW u \in Users, ExitStep(u) \/ Disconnect(u) \/ Login(u) PROVE Unseen \/ S!Next
  BY <1>7, <1>11, UnseenSteps, TurnSteps
<1>12. ASSUME QueueStep \/ SignalSettings \/ UNCHANGED vars PROVE Unseen \/ S!Next
  BY <1>5, <1>8, <1>12, UnseenSteps, StoreReturns, UsersAssumption DEF QueueStep
<1> QED
  BY <1>1, <1>9, <1>10, <1>11, <1>12 DEF Next

(* Slots are given out, used and given back as Slots says: every step of   *)
(* the three kinds of threads is one step of one transfer there, a change  *)
(* of the limits, or nothing that shows.                                   *)
THEOREM SlotsImplemented == Spec => ImplementsSlots
<1>1. Init => S!Init
  <2> SUFFICES ASSUME Init PROVE S!Init
    OBVIOUS
  <2>1. type = [u \in Users |-> None] /\ total \in TotalChoices
    BY DEF Init
  <2>2. \A u \in Users : Phase(u) = None
    BY <2>1 DEF Phase
  <2> QED
    BY <2>1, <2>2 DEF S!Init, S!None, None
<1>2. IInv /\ ClientsCounted /\ ClientsBelow /\ [Next]_vars => S!Next \/ UNCHANGED S!vars
  BY StepIsOfSlots DEF IInv
<1> QED
  BY <1>1, <1>2, Inductive, ClientsInvariant, PTL DEF Spec, ImplementsSlots, S!Spec
====
