---- MODULE TransferQueue ----
(***************************************************************************)
(* The transfer queue of the wired daemon (wired/transfers.c): the thread  *)
(* that hands out transfer slots (wd_transfers_queue_thread), the          *)
(* connection threads that queue, run and end a transfer                   *)
(* (wd_transfers_run_transfer), the clean-up a connection thread runs when *)
(* its client is gone (wd_transfers_remove_user), and the change of the    *)
(* limits (wd_transfers_apply_settings).                                   *)
(*                                                                         *)
(* A connection runs at most one transfer at a time, on its own thread, so *)
(* a transfer is named by its user.  A lock that is taken and released     *)
(* with nothing but assignments in between is one step; wd_transfers_queue *)
(* _lock and the lock of the array wd_transfers, which are held across     *)
(* several steps, are variables.  finished_lock is left out: it bounds a   *)
(* wait by one second and both outcomes go on in the same way.             *)
(***************************************************************************)
EXTENDS Integers, FiniteSets

CONSTANTS
  Users,         \* connections
  Keys,          \* login and address of a client, what the queue is fair to
  KeyOf,         \* the key of each connection
  Types,         \* WD_TRANSFER_DOWNLOAD, WD_TRANSFER_UPLOAD
  AccountLimit,  \* per type and key: the account's transfer limit, 0 is none
  TotalChoices,  \* the "total downloads" and "total uploads" a configuration sets
  Faults         \* what the environment does: see below

(* "leave": a client closes its connection, or its transfer fails;         *)
(* "disconnect": an administrator disconnects a client, or a write to it   *)
(* from another thread fails; "write": the write of a queue position       *)
(* fails; "login": a client comes back; "settings": the limits change.     *)
AllFaults == {"leave", "disconnect", "write", "login", "settings"}

None == "none"

ASSUME UsersAssumption ==
  IsFiniteSet(Users) /\ Users # {} /\ None \notin Users /\ "queue" \notin Users /\ None \notin Types
ASSUME KeysAssumption == KeyOf \in [Users -> Keys]
ASSUME LimitsAssumption ==
  /\ AccountLimit \in [Types -> [Keys -> Nat]]
  /\ TotalChoices \subseteq [Types -> Nat]
  /\ TotalChoices # {}
ASSUME FaultsAssumption == Faults \subseteq AllFaults

VARIABLES
  wd_transfers,   \* position of each user's transfer in the array, 0 if not there
  queue_time,     \* rank of each live transfer by creation time, 0 if none
  type,           \* transfer->type, None while the user has no transfer
  queue,          \* transfer->queue: -1 at first, 0 a slot, n > 0 a position
  cond,           \* the condition of transfer->queue_lock
  state,          \* transfer->state
  failed,         \* run_transfer returned false
  pc,             \* where the connection thread of each user is
  user_state,     \* wd_user_state(user)
  total,          \* wd_transfers_total_downloads, wd_transfers_total_uploads
  active,         \* wd_transfers_active_downloads, wd_transfers_active_uploads
  user_transfers, \* wd_transfers_user_downloads, wd_transfers_user_uploads
  qlock,          \* the queue thread holds wd_transfers_queue_lock
  qcond,          \* the condition of wd_transfers_queue_lock
  array_lock,     \* who holds the lock of wd_transfers across steps
  qpc,            \* where the queue thread is
  collected,      \* the transfers in key_queues when the pass began
  todo,           \* the transfers still in key_queues
  transfer,       \* the transfer the queue thread is handling
  position,       \* the next position the pass gives
  new_position,   \* the position of the transfer it is handling
  scan,           \* the index of the loop in wd_transfers_remove_user
  update,         \* its flag: a transfer was removed
  spc             \* where wd_transfers_apply_settings is

transferVars == <<queue_time, type, queue, cond, state, failed>>
slotVars     == <<active, user_transfers>>
queueVars    == <<qpc, collected, todo, transfer, position, new_position>>
scanVars     == <<scan, update>>
vars == <<wd_transfers, transferVars, pc, user_state, total, slotVars, qlock, qcond,
          array_lock, queueVars, scanVars, spc>>

PCs == {"off", "idle", "add", "signal", "wait", "write", "data", "release",
        "release_client", "delete", "signal_end", "exit", "lock", "scan",
        "gone"}

N == Cardinality(Users)

TypeOK ==
  /\ wd_transfers \in [Users -> Nat]
  /\ queue_time \in [Users -> Nat]
  /\ type \in [Users -> Types \cup {None}]
  /\ queue \in [Users -> Nat \cup {-1}]
  /\ cond \in [Users -> {0, 1}]
  /\ state \in [Users -> {"QUEUED", "RUNNING"}]
  /\ failed \in [Users -> BOOLEAN]
  /\ pc \in [Users -> PCs]
  /\ user_state \in [Users -> {"NONE", "LOGGED_IN", "DISCONNECTED"}]
  /\ total \in TotalChoices
  /\ active \in [Types -> Nat]
  /\ user_transfers \in [Types -> [Keys -> Nat]]
  /\ qlock \in BOOLEAN
  /\ qcond \in {0, 1}
  /\ array_lock \in Users \cup {None, "queue"}
  /\ qpc \in {"wait", "rdlock", "next", "add_active", "add_client", "store"}
  /\ collected \subseteq Users
  /\ todo \subseteq Users
  /\ transfer \in Users \cup {None}
  /\ position \in Nat /\ position >= 1
  /\ new_position \in Nat
  /\ scan \in Nat
  /\ update \in BOOLEAN
  /\ spc \in {"idle", "signal"}

-----------------------------------------------------------------------------
(* An ordered collection of transfers is kept as the position of each one. *)

Appended(f, u) == [f EXCEPT ![u] = Cardinality({v \in Users : f[v] > 0}) + 1]

Removed(f, u) ==
  [v \in Users |-> IF v = u THEN 0
                   ELSE IF f[u] > 0 /\ f[v] > f[u] THEN f[v] - 1 ELSE f[v]]

InArray(u) == wd_transfers[u] > 0

Goto(u, label) == pc' = [pc EXCEPT ![u] = label]


Init ==
  /\ wd_transfers = [u \in Users |-> 0]
  /\ queue_time = [u \in Users |-> 0]
  /\ type = [u \in Users |-> None]
  /\ queue = [u \in Users |-> -1]
  /\ cond = [u \in Users |-> 0]
  /\ state = [u \in Users |-> "QUEUED"]
  /\ failed = [u \in Users |-> FALSE]
  /\ pc = [u \in Users |-> "idle"]
  /\ user_state = [u \in Users |-> "LOGGED_IN"]
  /\ total \in TotalChoices
  /\ active = [t \in Types |-> 0]
  /\ user_transfers = [t \in Types |-> [k \in Keys |-> 0]]
  /\ qlock = FALSE /\ qcond = 1 /\ array_lock = None
  /\ qpc = "wait" /\ collected = {} /\ todo = {} /\ transfer = None
  /\ position = 1 /\ new_position = 0
  /\ scan = 1 /\ update = FALSE
  /\ spc = "idle"

-----------------------------------------------------------------------------
(* The connection thread: one transfer, from the client's request to its   *)
(* end (wd_message_transfer_download_file, wd_transfers_run_transfer).     *)

(* wd_transfer_init.  The request may also be handled just after the user  *)
(* is disconnected; that is the same as a disconnect just after this step. *)
CreateTransfer(u, t) ==
  /\ pc[u] = "idle" /\ user_state[u] = "LOGGED_IN"
  /\ type' = [type EXCEPT ![u] = t]
  /\ queue_time' = Appended(queue_time, u)
  /\ Goto(u, "add")
  /\ UNCHANGED <<wd_transfers, queue, cond, state, failed, user_state, total, slotVars,
                 qlock, qcond, array_lock, queueVars, scanVars, spc>>

AddTransfer(u) ==
  /\ pc[u] = "add" /\ array_lock = None
  /\ wd_transfers' = Appended(wd_transfers, u)
  /\ Goto(u, "signal")
  /\ UNCHANGED <<transferVars, user_state, total, slotVars, qlock, qcond, array_lock,
                 queueVars, scanVars, spc>>

(* Lock the queue, unlock it with condition 1. *)
SignalQueue == qlock = FALSE /\ qcond' = 1

SignalAdded(u) ==
  /\ pc[u] = "signal" /\ SignalQueue
  /\ Goto(u, "wait")
  /\ UNCHANGED <<wd_transfers, transferVars, user_state, total, slotVars, qlock, array_lock,
                 queueVars, scanVars, spc>>

(* wait_until_ready returns true and the transfer runs. *)
StartTransfer(u) ==
  /\ state' = [state EXCEPT ![u] = "RUNNING"]
  /\ Goto(u, "data")

(* wd_transfers_wait_until_ready.  A wait that times out starts again. *)
WakeUp(u) ==
  /\ pc[u] = "wait" /\ cond[u] = 1
  /\ cond' = [cond EXCEPT ![u] = 0]
  /\ \/ queue[u] > 0 /\ Goto(u, "write") /\ UNCHANGED state
     \/ queue[u] = 0 /\ StartTransfer(u)
  /\ UNCHANGED <<wd_transfers, queue_time, type, queue, failed, user_state, total,
                 slotVars, qlock, qcond, array_lock, queueVars, scanVars, spc>>

(* The position is written; the wait goes on unless the user is gone. *)
WritePosition(u) ==
  /\ pc[u] = "write"
  /\ \/ user_state[u] = "LOGGED_IN" /\ Goto(u, "wait") /\ UNCHANGED state
     \/ user_state[u] # "LOGGED_IN" /\ StartTransfer(u)
  /\ UNCHANGED <<wd_transfers, queue_time, type, queue, cond, failed, user_state, total,
                 slotVars, qlock, qcond, array_lock, queueVars, scanVars, spc>>

FailToWritePosition(u) ==
  /\ "write" \in Faults
  /\ pc[u] = "write"
  /\ failed' = [failed EXCEPT ![u] = TRUE]
  /\ Goto(u, "release")
  /\ UNCHANGED <<wd_transfers, queue_time, type, queue, cond, state, user_state, total,
                 slotVars, qlock, qcond, array_lock, queueVars, scanVars, spc>>

(* wd_transfers_run_download and run_upload return: the ready message      *)
(* could not be written, the file or the socket failed, the user was found *)
(* disconnected (false inside the loop, true at its head), or all is sent. *)
FinishTransfer(u) ==
  /\ pc[u] = "data"
  /\ \E result \in BOOLEAN :
       /\ result \/ "leave" \in Faults \/ user_state[u] = "DISCONNECTED"
       /\ failed' = [failed EXCEPT ![u] = ~result]
  /\ Goto(u, "release")
  /\ UNCHANGED <<wd_transfers, queue_time, type, queue, cond, state, user_state, total,
                 slotVars, qlock, qcond, array_lock, queueVars, scanVars, spc>>

(* if(transfer->queue == 0), read without a lock, and the first half of    *)
(* wd_transfers_add_or_remove_transfer(transfer, false).                   *)
ReleaseAnySlot(u) ==     \* without the test
  /\ pc[u] = "release"
  /\ active' = [active EXCEPT ![type[u]] = @ - 1]
  /\ Goto(u, "release_client")
  /\ UNCHANGED <<wd_transfers, transferVars, user_state, total, user_transfers, qlock, qcond,
                 array_lock, queueVars, scanVars, spc>>

ReleaseSlot(u) ==
  /\ pc[u] = "release" /\ queue[u] = 0
  /\ active' = [active EXCEPT ![type[u]] = @ - 1]
  /\ Goto(u, "release_client")
  /\ UNCHANGED <<wd_transfers, transferVars, user_state, total, user_transfers, qlock, qcond,
                 array_lock, queueVars, scanVars, spc>>

SkipRelease(u) ==
  /\ pc[u] = "release" /\ queue[u] # 0
  /\ Goto(u, "delete")
  /\ UNCHANGED <<wd_transfers, transferVars, user_state, total, slotVars, qlock, qcond,
                 array_lock, queueVars, scanVars, spc>>

(* The second half, under the dictionary's lock; a key without a count     *)
(* reads as 0 and stays 0.                                                 *)
ReleaseClient(u) ==
  /\ pc[u] = "release_client"
  /\ user_transfers' = [user_transfers EXCEPT ![type[u]][KeyOf[u]] =
                          IF @ > 0 THEN @ - 1 ELSE 0]
  /\ Goto(u, "delete")
  /\ UNCHANGED <<wd_transfers, transferVars, user_state, total, active, qlock, qcond,
                 array_lock, queueVars, scanVars, spc>>

DeleteTransfer(u) ==
  /\ pc[u] = "delete" /\ array_lock = None
  /\ wd_transfers' = Removed(wd_transfers, u)
  /\ Goto(u, "signal_end")
  /\ UNCHANGED <<transferVars, user_state, total, slotVars, qlock, qcond, array_lock,
                 queueVars, scanVars, spc>>

(* run_transfer returns: its caller disconnects the user if the transfer   *)
(* failed, and drops the transfer.                                         *)
EndTransfer(u) ==
  /\ user_state' = [user_state EXCEPT ![u] = IF failed[u] THEN "DISCONNECTED" ELSE @]
  /\ queue_time' = Removed(queue_time, u)
  /\ type' = [type EXCEPT ![u] = None]
  /\ queue' = [queue EXCEPT ![u] = -1]
  /\ cond' = [cond EXCEPT ![u] = 0]
  /\ state' = [state EXCEPT ![u] = "QUEUED"]
  /\ failed' = [failed EXCEPT ![u] = FALSE]
  /\ Goto(u, "idle")
  /\ UNCHANGED <<wd_transfers, total, slotVars, qlock, array_lock, queueVars, scanVars, spc>>

EndUnsignalled(u) ==     \* without the last signal
  pc[u] = "signal_end" /\ EndTransfer(u) /\ UNCHANGED qcond

SignalEnd(u) == pc[u] = "signal_end" /\ SignalQueue /\ EndTransfer(u)

-----------------------------------------------------------------------------
(* The connection thread after its message loop: wd_users_remove_user,     *)
(* which calls wd_transfers_remove_user.                                   *)

(* The client closed the connection, was idle for too long, or the loop    *)
(* found the user disconnected.                                            *)
LeaveLoop(u) ==
  /\ pc[u] = "idle"
  /\ "leave" \in Faults \/ user_state[u] = "DISCONNECTED"
  /\ user_state' = [user_state EXCEPT ![u] = "DISCONNECTED"]
  /\ Goto(u, "exit")
  /\ UNCHANGED <<wd_transfers, transferVars, total, slotVars, qlock, qcond, array_lock,
                 queueVars, scanVars, spc>>

(* Another logged in user has the same key: its transfers stay. *)
Present(u) == \E v \in Users : user_state[v] = "LOGGED_IN" /\ KeyOf[v] = KeyOf[u]

LookForClient(u) ==
  /\ pc[u] = "exit"
  /\ Goto(u, IF Present(u) THEN "gone" ELSE "lock")
  /\ UNCHANGED <<wd_transfers, transferVars, user_state, total, slotVars, qlock, qcond,
                 array_lock, queueVars, scanVars, spc>>

LockTransfers(u) ==
  /\ pc[u] = "lock" /\ array_lock = None
  /\ array_lock' = u
  /\ scan' = 1 /\ update' = FALSE
  /\ Goto(u, "scan")
  /\ UNCHANGED <<wd_transfers, transferVars, user_state, total, slotVars, qlock, qcond,
                 queueVars, spc>>

(* One turn of the loop: a running transfer of the client is waited for,   *)
(* for at most a second; one that does not run leaves the array.           *)
ScanTransfer(u) ==
  /\ pc[u] = "scan"
  /\ \E v \in Users :
       /\ wd_transfers[v] = scan
       /\ IF KeyOf[v] = KeyOf[u] /\ state[v] # "RUNNING"
          THEN /\ wd_transfers' = Removed(wd_transfers, v)
               /\ update' = TRUE
               /\ UNCHANGED scan
          ELSE /\ scan' = scan + 1
               /\ UNCHANGED <<wd_transfers, update>>
  /\ UNCHANGED <<transferVars, pc, user_state, total, slotVars, qlock, qcond, array_lock,
                 queueVars, spc>>

(* The loop is over and nothing was removed. *)
EndScan(u) ==
  /\ pc[u] = "scan" /\ ~update
  /\ \A v \in Users : wd_transfers[v] # scan
  /\ array_lock' = None
  /\ Goto(u, "gone")
  /\ UNCHANGED <<wd_transfers, transferVars, user_state, total, slotVars, qlock, qcond,
                 queueVars, scanVars, spc>>

(* Something was removed: signal the queue thread, and only then unlock    *)
(* the array.                                                              *)
SignalRemoved(u) ==
  /\ pc[u] = "scan" /\ update
  /\ \A v \in Users : wd_transfers[v] # scan
  /\ SignalQueue
  /\ array_lock' = None
  /\ Goto(u, "gone")
  /\ UNCHANGED <<wd_transfers, transferVars, user_state, total, slotVars, qlock,
                 queueVars, scanVars, spc>>

LeaveUsers(u) ==
  /\ pc[u] = "gone"
  /\ user_state' = [user_state EXCEPT ![u] = "NONE"]
  /\ Goto(u, "off")
  /\ UNCHANGED <<wd_transfers, transferVars, total, slotVars, qlock, qcond, array_lock,
                 queueVars, scanVars, spc>>

-----------------------------------------------------------------------------
(* The queue thread: one pass of wd_transfers_queue_thread for each signal.*)

BeginPass ==
  /\ qpc = "wait" /\ qlock = FALSE /\ qcond = 1
  /\ qlock' = TRUE
  /\ qpc' = "rdlock"
  /\ UNCHANGED <<wd_transfers, transferVars, pc, user_state, total, slotVars, qcond,
                 array_lock, collected, todo, transfer, position, new_position, scanVars, spc>>

(* What a pass collects; a pass that left out the transfers which have a   *)
(* position already would number the others from 1 again.                  *)
IsUnnumbered(u) == state[u] = "QUEUED" /\ queue[u] = -1
IsQueued(u) == state[u] = "QUEUED" /\ queue[u] # 0

(* Lock the array and put every transfer that waits in its key's queue. *)
CollectTransfers ==
  /\ qpc = "rdlock" /\ array_lock = None
  /\ array_lock' = "queue"
  /\ collected' = {u \in Users : InArray(u) /\ IsQueued(u)}
  /\ todo' = collected'
  /\ position' = 1
  /\ qpc' = "next"
  /\ UNCHANGED <<wd_transfers, transferVars, pc, user_state, total, slotVars, qlock, qcond,
                 transfer, new_position, scanVars, spc>>

(* A key's queue holds its transfers in the order of the array. *)
KeyQueue(u) == {v \in collected : KeyOf[v] = KeyOf[u]}
Round(u) == Cardinality({v \in KeyQueue(u) : wd_transfers[v] <= wd_transfers[u]})

(* wd_transfers_queue_compare: keys in the order of their first transfers. *)
FirstTime(u) ==
  LET first == CHOOSE v \in KeyQueue(u) : Round(v) = 1 IN queue_time[first]

(* Round after round, one transfer of each key that has one left. *)
Before(u, v) ==
  \/ Round(u) < Round(v)
  \/ Round(u) = Round(v) /\ FirstTime(u) < FirstTime(v)

IsNext(u) == u \in todo /\ \A v \in todo \ {u} : Before(u, v)

(* No slot is left for a transfer of this type and key.  Off by one for    *)
(* all, or without the limit of the client, it would be:                   *)
BlockedTooLate(t, k) ==
  \/ total[t] > 0 /\ active[t] > total[t]
  \/ AccountLimit[t][k] > 0 /\ user_transfers[t][k] >= AccountLimit[t][k]
BlockedByTotal(t, k) == total[t] > 0 /\ active[t] >= total[t]
Blocked(t, k) ==
  \/ total[t] > 0 /\ active[t] >= total[t]
  \/ AccountLimit[t][k] > 0 /\ user_transfers[t][k] >= AccountLimit[t][k]

(* The transfer keeps its position, or gets another one, or a slot.  The   *)
(* counters are read under wd_transfers_status_lock, which is given back   *)
(* before they are changed.                                                *)
CheckTransfer(u) ==
  /\ qpc = "next" /\ IsNext(u)
  /\ LET queued == Blocked(type[u], KeyOf[u])
         new    == IF queued THEN position ELSE 0
     IN /\ position' = IF queued THEN position + 1 ELSE position
        /\ IF new = queue[u]
           THEN /\ todo' = todo \ {u}
                /\ UNCHANGED <<qpc, transfer, new_position>>
           ELSE /\ transfer' = u /\ new_position' = new
                /\ qpc' = IF queued THEN "store" ELSE "add_active"
                /\ UNCHANGED todo
  /\ UNCHANGED <<wd_transfers, transferVars, pc, user_state, total, slotVars, qlock, qcond,
                 array_lock, collected, scanVars, spc>>

(* wd_transfers_add_or_remove_transfer(transfer, true), in its two halves. *)
AddNothing ==     \* only the client's count is raised
  /\ qpc = "add_active"
  /\ qpc' = "add_client"
  /\ UNCHANGED <<wd_transfers, transferVars, pc, user_state, total, slotVars, qlock,
                 qcond, array_lock, collected, todo, transfer, position, new_position,
                 scanVars, spc>>

AddActive ==
  /\ qpc = "add_active"
  /\ active' = [active EXCEPT ![type[transfer]] = @ + 1]
  /\ qpc' = "add_client"
  /\ UNCHANGED <<wd_transfers, transferVars, pc, user_state, total, user_transfers, qlock,
                 qcond, array_lock, collected, todo, transfer, position, new_position,
                 scanVars, spc>>

AddClient ==
  /\ qpc = "add_client"
  /\ user_transfers' = [user_transfers EXCEPT ![type[transfer]][KeyOf[transfer]] = @ + 1]
  /\ qpc' = "store"
  /\ UNCHANGED <<wd_transfers, transferVars, pc, user_state, total, active, qlock,
                 qcond, array_lock, collected, todo, transfer, position, new_position,
                 scanVars, spc>>

StoreSilently ==     \* unlock without the condition
  /\ qpc = "store"
  /\ queue' = [queue EXCEPT ![transfer] = new_position]
  /\ todo' = todo \ {transfer}
  /\ transfer' = None /\ new_position' = 0
  /\ qpc' = "next"
  /\ UNCHANGED <<wd_transfers, queue_time, type, cond, state, failed, pc, user_state, total,
                 slotVars, qlock, qcond, array_lock, collected, position, scanVars, spc>>

StorePosition ==
  /\ qpc = "store"
  /\ queue' = [queue EXCEPT ![transfer] = new_position]
  /\ cond' = [cond EXCEPT ![transfer] = 1]
  /\ todo' = todo \ {transfer}
  /\ transfer' = None /\ new_position' = 0
  /\ qpc' = "next"
  /\ UNCHANGED <<wd_transfers, queue_time, type, state, failed, pc, user_state, total,
                 slotVars, qlock, qcond, array_lock, collected, position, scanVars, spc>>

EndPass ==
  /\ qpc = "next" /\ todo = {}
  /\ array_lock' = None
  /\ qlock' = FALSE /\ qcond' = 0
  /\ collected' = {} /\ position' = 1
  /\ qpc' = "wait"
  /\ UNCHANGED <<wd_transfers, transferVars, pc, user_state, total, slotVars, todo,
                 transfer, new_position, scanVars, spc>>

-----------------------------------------------------------------------------
(* The rest of the daemon. *)

(* wd_transfers_apply_settings writes the limits without a lock and then   *)
(* signals the queue thread.                                               *)
ApplySettings ==
  /\ "settings" \in Faults
  /\ spc = "idle"
  /\ total' \in TotalChoices
  /\ spc' = "signal"
  /\ UNCHANGED <<wd_transfers, transferVars, pc, user_state, slotVars, qlock, qcond,
                 array_lock, queueVars, scanVars>>

KeepSettings ==     \* without the signal
  /\ spc = "signal"
  /\ spc' = "idle"
  /\ UNCHANGED <<wd_transfers, transferVars, pc, user_state, total, slotVars, qlock, qcond,
                 array_lock, queueVars, scanVars>>

SignalSettings ==
  /\ spc = "signal" /\ SignalQueue
  /\ spc' = "idle"
  /\ UNCHANGED <<wd_transfers, transferVars, pc, user_state, total, slotVars, qlock,
                 array_lock, queueVars, scanVars>>

(* wd_user_set_state(peer, WD_USER_DISCONNECTED) from another thread. *)
Disconnect(u) ==
  /\ "disconnect" \in Faults
  /\ user_state[u] = "LOGGED_IN"
  /\ user_state' = [user_state EXCEPT ![u] = "DISCONNECTED"]
  /\ UNCHANGED <<wd_transfers, transferVars, pc, total, slotVars, qlock, qcond, array_lock,
                 queueVars, scanVars, spc>>

(* The client connects and logs in again. *)
Login(u) ==
  /\ "login" \in Faults
  /\ pc[u] = "off"
  /\ user_state' = [user_state EXCEPT ![u] = "LOGGED_IN"]
  /\ Goto(u, "idle")
  /\ UNCHANGED <<wd_transfers, transferVars, total, slotVars, qlock, qcond, array_lock,
                 queueVars, scanVars, spc>>

TransferStep(u) ==
  \/ \E t \in Types : CreateTransfer(u, t)
  \/ AddTransfer(u) \/ SignalAdded(u) \/ WakeUp(u)
  \/ WritePosition(u) \/ FailToWritePosition(u)
  \/ FinishTransfer(u)
  \/ ReleaseSlot(u) \/ SkipRelease(u) \/ ReleaseClient(u)
  \/ DeleteTransfer(u) \/ SignalEnd(u)

ExitStep(u) ==
  \/ LeaveLoop(u) \/ LookForClient(u) \/ LockTransfers(u) \/ ScanTransfer(u)
  \/ EndScan(u) \/ SignalRemoved(u) \/ LeaveUsers(u)

QueueStep ==
  \/ BeginPass \/ CollectTransfers \/ (\E u \in Users : CheckTransfer(u))
  \/ AddActive \/ AddClient \/ StorePosition \/ EndPass

Next ==
  \/ \E u \in Users : TransferStep(u) \/ ExitStep(u) \/ Disconnect(u) \/ Login(u)
  \/ QueueStep
  \/ ApplySettings \/ SignalSettings

Spec == Init /\ [][Next]_vars

(* A client asks for a transfer or closes its connection when it likes.    *)
(* Everything else a thread does it does in the end: a mutex that is free  *)
(* again and again is taken (hence SF), a wait on a socket times out, a    *)
(* transfer moves a finite file, and the message loop looks at the state   *)
(* of its user ten times a second.                                         *)
ThreadStep(u) ==
  \/ AddTransfer(u) \/ SignalAdded(u) \/ WakeUp(u)
  \/ WritePosition(u) \/ FailToWritePosition(u)
  \/ FinishTransfer(u)
  \/ ReleaseSlot(u) \/ SkipRelease(u) \/ ReleaseClient(u)
  \/ DeleteTransfer(u) \/ SignalEnd(u)
  \/ (user_state[u] = "DISCONNECTED" /\ LeaveLoop(u))
  \/ LookForClient(u) \/ LockTransfers(u) \/ ScanTransfer(u)
  \/ EndScan(u) \/ SignalRemoved(u) \/ LeaveUsers(u)

Fairness ==
  /\ \A u \in Users : SF_vars(ThreadStep(u))
  /\ SF_vars(QueueStep)

FairSpec == Spec /\ Fairness

-----------------------------------------------------------------------------
(* Properties. *)

(* Data moves only while the user is logged in: both data loops test it.   *)
Moves(u) == pc[u] = "data" /\ user_state[u] = "LOGGED_IN"
Streams(t) == {u \in Users : type[u] = t /\ Moves(u)}

ClientStreams(t, k) == {u \in Streams(t) : KeyOf[u] = k}

(* The limits a configuration may have set so far. *)
Totals == IF "settings" \in Faults THEN TotalChoices ELSE {total}

(* No more transfers of a type move data than the largest configured limit *)
(* allows ("Maximum number of downloads across all clients",               *)
(* wired.conf.5), although the queue thread gives back the status lock     *)
(* between reading a counter and raising it, and slots are given back      *)
(* while a pass is under way.                                              *)
TotalRespected ==
  \A t \in Types : \E c \in Totals : c[t] = 0 \/ Cardinality(Streams(t)) <= c[t]

(* No client moves more transfers of a type than its account allows        *)
(* ("Maximum number of downloads per client", wired.conf.5), although the  *)
(* total and the client's count are changed under different locks.         *)
ClientRespected ==
  \A t \in Types, k \in Keys :
    AccountLimit[t][k] > 0 => Cardinality(ClientStreams(t, k)) <= AccountLimit[t][k]

(* The transfers that hold a slot: the one being added, and those that     *)
(* were given one and have not released it.                                *)
PastRelease == {"release_client", "delete", "signal_end"}
Holds(u) ==
  \/ queue[u] = 0 /\ pc[u] \notin PastRelease
  \/ transfer = u /\ new_position = 0 /\ qpc \in {"add_client", "store"}
Holders(t) == {u \in Users : type[u] = t /\ Holds(u)}

(* The unsigned counters of active transfers count every slot in use, so   *)
(* they never wrap, however grants, releases and removals interleave.      *)
SlotsCounted == \A t \in Types : Cardinality(Holders(t)) <= active[t]

(* Nobody is on the way to signal the queue thread, and it sleeps. *)
Settled ==
  /\ qpc = "wait" /\ qcond = 0 /\ spc = "idle"
  /\ array_lock = None
  /\ \A u \in Users :
       /\ pc[u] \in {"off", "idle", "add", "wait", "write", "data", "exit", "gone"}
       /\ InArray(u) => user_state[u] = "LOGGED_IN"

Waiting(u) == InArray(u) /\ state[u] = "QUEUED" /\ queue[u] # 0

(* No wakeup is lost: when the queue thread sleeps and no signal is due,   *)
(* every waiting transfer is held back by a limit that is reached, and not *)
(* by a slot that was given back while a pass was under way.               *)
WaitingIsBlocked ==
  Settled => \A u \in Users : Waiting(u) => Blocked(type[u], KeyOf[u])

(* When no signal is due the positions of the waiting transfers, the ones  *)
(* clients are told and users are shown, number them from 1 without a gap  *)
(* or a tie.                                                               *)
PositionsAreRanks ==
  Settled => LET waiting == {u \in Users : Waiting(u)}
             IN {queue[u] : u \in waiting} = 1..Cardinality(waiting)

(* A client that waits for a slot gets it, whoever else comes back for     *)
(* another transfer meanwhile.  It holds for two clients: of three, one    *)
(* may be passed over for ever, because a slot that is given back in the   *)
(* middle of a pass goes to a transfer that is looked at later in it.      *)
SlotIsGranted == \A u \in Users : (pc[u] = "wait") ~> (pc[u] = "data")

(* "Maximum number of downloads across all clients" (wired.conf.5): when   *)
(* no signal is due, a transfer waits only if as many transfers as a limit *)
(* allows do run.                                                          *)
WaitingForRunning ==
  Settled => \A u \in Users : Waiting(u) =>
    LET running(k) == {v \in Users : type[v] = type[u] /\ pc[v] \in {"wait", "write", "data"}
                                       /\ queue[v] = 0 /\ KeyOf[v] \in k}
        limit == AccountLimit[type[u]][KeyOf[u]]
    IN \/ total[type[u]] > 0 /\ Cardinality(running(Keys)) >= total[type[u]]
       \/ limit > 0 /\ Cardinality(running({KeyOf[u]})) >= limit

(* The transfer as an abstract queue of slots sees it: it has one from     *)
(* when the queue thread decides to give it one until the release.         *)
Reserved(u) ==
  \/ queue[u] = 0 /\ pc[u] \notin PastRelease
  \/ transfer = u /\ new_position = 0 /\ qpc \in {"add_active", "add_client", "store"}

Phase(u) ==
  IF type[u] = None THEN None
  ELSE IF Reserved(u) THEN IF Moves(u) THEN "moving" ELSE "granted"
  ELSE IF queue[u] = 0 THEN "returned" ELSE "waiting"

S == INSTANCE Slots WITH phase <- [u \in Users |-> Phase(u)]

(* A slot is given only while fewer than the limits in force allow are in  *)
(* use, although the limits change without a lock, the two counters are    *)
(* read before they are raised, and releases come between; a transfer has  *)
(* it once, moves data only with it, and keeps it until it has ended.      *)
ImplementsSlots == S!Spec

(* "Disconnect user." (wired.xml): the connection of a user who was        *)
(* disconnected ends.                                                      *)
DisconnectEnds == \A u \in Users : (user_state[u] = "DISCONNECTED") ~> (pc[u] = "off")
====
