---- MODULE OfflineMessages ----
(***************************************************************************)
(* Offline messages of the wired daemon (wired/messages.c): a message to   *)
(* an account is stored in the table pending_messages and delivered when   *)
(* somebody logs in with the account, in a transaction of the database     *)
(* that every thread shares (libwired/thirdparty/wi-sqlite3.c).            *)
(*                                                                         *)
(* All threads use one connection of SQLite.  Its lock is held for one     *)
(* statement, which is one step here, and from the beginning to the end of *)
(* a transaction of wi_sqlite3_begin_immediate_transaction.  The delivery  *)
(* sends BEGIN and COMMIT as mere statements, does not hold the lock       *)
(* between them and ignores whether they succeed: SQLite refuses BEGIN in  *)
(* a transaction, and COMMIT outside of one.  A statement of any other     *)
(* thread between them belongs to the transaction.                         *)
(*                                                                         *)
(* The messages are to one account, those of a sender are numbered, and    *)
(* their time of sending grows with each insertion.  All senders use one   *)
(* login, whose token they look up.  `accepted', `joined' and the other    *)
(* history variables are read by the properties only.                      *)
(***************************************************************************)
EXTENDS Integers, SequencesExt

CONSTANTS
  Senders,   \* connections that send offline messages
  Sessions,  \* logins to the account
  Editors,   \* threads that use begin_immediate_transaction
  Sends,     \* bound on the messages of a sender
  Limit,     \* the limit on pending messages: 50
  Crashes,   \* bound on the crashes of the daemon
  Unreliable \* the logins whose client may not take what is written

None == "none"
Messages == Senders \X (1..Sends)
Threads  == Senders \cup Sessions \cup Editors

ASSUME ThreadsAssumption ==
  /\ IsFiniteSet(Senders) /\ None \notin Senders \cup Editors
  /\ Senders \cap Sessions = {} /\ Editors \cap (Senders \cup Sessions) = {}
  /\ Unreliable \subseteq Sessions
ASSUME BoundsAssumption == Sends \in Nat /\ Limit \in Nat \ {0} /\ Crashes \in Nat

VARIABLES
  pending,    \* the rows of pending_messages, oldest first
  token,      \* the row of offline_tokens
  disk,       \* both, as they were committed last
  open,       \* the connection is in a transaction
  lock,       \* the editor that holds the lock of the database
  pc,
  sent,       \* how many messages a sender has sent
  rows,       \* the rows that a login has still to send
  ids,        \* the rows it has still to delete
  broken,     \* logins whose connection is broken
  asserted,   \* an assertion of wi-sqlite3.c failed: the daemon aborts
  crashes,
  accepted,   \* messages that were stored, in order
  delivered,  \* the messages each login was sent, in order
  due,        \* the messages that were stored before the login
  joined,     \* messages stored in a transaction of another thread
  unwritten,  \* messages that could not be written to their login
  twice       \* messages that two logins read at the same time

dbVars      == <<pending, token, disk, open, lock>>
threadVars  == <<pc, sent, rows, ids, broken>>
faultVars   == <<asserted, crashes>>
historyVars == <<accepted, delivered, due, joined, unwritten, twice>>
vars == <<dbVars, threadVars, faultVars, historyVars>>

Database == [pending |-> pending, token |-> token]

TypeOK ==
  /\ pending \in Seq(Messages)
  /\ token \in Senders \cup {None}
  /\ disk \in [pending : Seq(Messages), token : Senders \cup {None}]
  /\ open \in BOOLEAN /\ asserted \in BOOLEAN
  /\ lock \in Editors \cup {None} /\ (lock # None => open)
  /\ pc \in [Threads ->
              {"idle", "find", "mint", "insert", "select", "send", "delete", "commit",
               "begun", "done", "gone"}]
  /\ sent \in [Senders -> 0..Sends]
  /\ rows \in [Sessions -> Seq(Messages)] /\ ids \in [Sessions -> SUBSET Messages]
  /\ broken \subseteq Sessions
  /\ crashes \in 0..Crashes
  /\ accepted \in Seq(Messages)
  /\ delivered \in [Sessions -> Seq(Messages)]
  /\ due \in [Sessions -> SUBSET Messages]
  /\ joined \cup unwritten \cup twice \subseteq Messages

Init ==
  /\ pending = <<>> /\ token = None /\ disk = Database
  /\ open = FALSE /\ lock = None
  /\ pc = [t \in Threads |-> "idle"]
  /\ sent = [s \in Senders |-> 0]
  /\ rows = [d \in Sessions |-> <<>>] /\ ids = [d \in Sessions |-> {}] /\ broken = {}
  /\ asserted = FALSE /\ crashes = 0
  /\ accepted = <<>> /\ delivered = [d \in Sessions |-> <<>>]
  /\ due = [d \in Sessions |-> {}]
  /\ joined = {} /\ unwritten = {} /\ twice = {}

Goto(t, label) == pc' = [pc EXCEPT ![t] = label]

(* A statement outside a transaction is committed at once. *)
Autocommit == disk' = IF open THEN disk ELSE [pending |-> pending', token |-> token']

Begin  == open' = TRUE                            \* no effect in a transaction
Commit == open' = FALSE /\ disk' = Database       \* no effect outside of one

-----------------------------------------------------------------------------
(* wd_messages_token_for_login, called before a message is stored.  (The   *)
(* login calls it too, for old rows and for the known users.)              *)

FindToken(t) ==
  /\ pc[t] = "find" /\ lock = None
  /\ IF token = None
     THEN Goto(t, "mint")
     ELSE Goto(t, "insert")
  /\ UNCHANGED <<dbVars, sent, rows, ids, broken, faultVars, historyVars>>

MintReplacing(t) ==     \* INSERT OR REPLACE
  /\ pc[t] = "mint" /\ lock = None
  /\ token' = t /\ UNCHANGED pending
  /\ Autocommit
  /\ Goto(t, "insert")
  /\ UNCHANGED <<open, lock, sent, rows, ids, broken, faultVars, historyVars>>

(* INSERT OR IGNORE, after which the new token is used even if another     *)
(* thread was faster.                                                      *)
MintToken(t) ==
  /\ pc[t] = "mint" /\ lock = None
  /\ token' = (IF token = None THEN t ELSE token) /\ UNCHANGED pending
  /\ Autocommit
  /\ Goto(t, "insert")
  /\ UNCHANGED <<open, lock, sent, rows, ids, broken, faultVars, historyVars>>

-----------------------------------------------------------------------------
(* wd_message_message_send_offline_message *)

CountLate(s) ==     \* one too many
  /\ pc[s] = "idle" /\ sent[s] < Sends /\ lock = None
  /\ sent' = [sent EXCEPT ![s] = @ + 1]
  /\ IF Len(pending) > Limit THEN UNCHANGED pc ELSE Goto(s, "find")
  /\ UNCHANGED <<dbVars, rows, ids, broken, faultVars, historyVars>>

(* The pending messages are counted; at the limit an error is replied. *)
Count(s) ==
  /\ pc[s] = "idle" /\ sent[s] < Sends /\ lock = None
  /\ sent' = [sent EXCEPT ![s] = @ + 1]
  /\ IF Len(pending) >= Limit THEN UNCHANGED pc ELSE Goto(s, "find")
  /\ UNCHANGED <<dbVars, rows, ids, broken, faultVars, historyVars>>

(* The message is stored; okay is replied. *)
Store(s) ==
  LET m == <<s, sent[s]>>
  IN /\ pc[s] = "insert" /\ lock = None
     /\ pending' = Append(pending, m) /\ UNCHANGED token
     /\ Autocommit
     /\ Goto(s, "idle")
     /\ accepted' = Append(accepted, m)
     /\ joined' = IF open THEN joined \cup {m} ELSE joined
     /\ UNCHANGED <<open, lock, sent, rows, ids, broken, faultVars, delivered, due, unwritten,
                    twice>>

-----------------------------------------------------------------------------
(* The delivery in wd_message_send_login. *)

Login(d) ==
  /\ pc[d] = "idle" /\ lock = None
  /\ Begin /\ Goto(d, "select")
  /\ due' = [due EXCEPT ![d] = ToSet(accepted)]
  /\ UNCHANGED <<pending, token, disk, lock, sent, rows, ids, broken, faultVars, accepted,
                 delivered, joined, unwritten, twice>>

Delivering(d) == pc[d] \in {"send", "delete", "commit"}

(* Messages that another login has read and not deleted yet. *)
BeingDelivered ==
  UNION {ids[e] \cup ToSet(rows[e]) \cup ToSet(delivered[e]) :
           e \in {e \in Sessions : Delivering(e)}}

SelectReversed(d) ==     \* ORDER BY sent_at DESC
  /\ pc[d] = "select" /\ lock = None
  /\ rows' = [rows EXCEPT ![d] = Reverse(pending)]
  /\ twice' = twice \cup (ToSet(pending) \cap BeingDelivered)
  /\ Goto(d, "send")
  /\ UNCHANGED <<dbVars, sent, ids, broken, faultVars, accepted, delivered, due, joined,
                 unwritten>>

SelectOne(d) ==     \* the result of one fetch
  /\ pc[d] = "select" /\ lock = None
  /\ rows' = [rows EXCEPT ![d] = IF pending = <<>> THEN <<>> ELSE <<Head(pending)>>]
  /\ twice' = twice \cup (ToSet(pending) \cap BeingDelivered)
  /\ Goto(d, "send")
  /\ UNCHANGED <<dbVars, sent, ids, broken, faultVars, accepted, delivered, due, joined,
                 unwritten>>

(* The query sorts its rows when the first of them is fetched. *)
Select(d) ==
  /\ pc[d] = "select" /\ lock = None
  /\ rows' = [rows EXCEPT ![d] = pending]
  /\ twice' = twice \cup (ToSet(pending) \cap BeingDelivered)
  /\ Goto(d, "send")
  /\ UNCHANGED <<dbVars, sent, ids, broken, faultVars, accepted, delivered, due, joined,
                 unwritten>>

(* A row is fetched and sent, and noted for deletion whether or not it     *)
(* could be written.  A connection that is broken stays so.                *)
SendRow(d) ==
  LET m == Head(rows[d])
  IN /\ pc[d] = "send" /\ lock = None /\ rows[d] # <<>>
     /\ rows' = [rows EXCEPT ![d] = Tail(@)]
     /\ ids' = [ids EXCEPT ![d] = @ \cup {m}]
     /\ \/ /\ d \notin broken
           /\ delivered' = [delivered EXCEPT ![d] = Append(@, m)]
           /\ UNCHANGED <<broken, unwritten>>
        \/ /\ d \in Unreliable
           /\ broken' = broken \cup {d} /\ unwritten' = unwritten \cup {m}
           /\ UNCHANGED delivered
     /\ UNCHANGED <<dbVars, pc, sent, faultVars, accepted, due, joined, twice>>

EndSendKeeping(d) ==     \* the rows are not deleted
  /\ pc[d] = "send" /\ lock = None /\ rows[d] = <<>>
  /\ ids' = [ids EXCEPT ![d] = {}]
  /\ Goto(d, "delete")
  /\ UNCHANGED <<dbVars, sent, rows, broken, faultVars, historyVars>>

EndSend(d) ==
  /\ pc[d] = "send" /\ lock = None /\ rows[d] = <<>>
  /\ Goto(d, "delete")
  /\ UNCHANGED <<dbVars, sent, rows, ids, broken, faultVars, historyVars>>

DeleteAll(d) ==     \* every row of the recipient
  /\ pc[d] = "delete" /\ lock = None
  /\ pending' = <<>> /\ UNCHANGED token
  /\ Autocommit
  /\ ids' = [ids EXCEPT ![d] = {}]
  /\ Goto(d, "commit")
  /\ UNCHANGED <<open, lock, sent, rows, broken, faultVars, historyVars>>

(* The row with the id; another login may have deleted it.                 *)
DeleteRow(d) ==
  \E m \in ids[d] :
     /\ pc[d] = "delete" /\ lock = None
     /\ \/ m \notin ToSet(pending) /\ UNCHANGED pending
        \/ \E k \in DOMAIN pending : pending[k] = m /\ pending' = RemoveAt(pending, k)
     /\ UNCHANGED token
     /\ Autocommit
     /\ ids' = [ids EXCEPT ![d] = @ \ {m}]
     /\ UNCHANGED <<open, lock, pc, sent, rows, broken, faultVars, historyVars>>

EndDelete(d) ==
  /\ pc[d] = "delete" /\ ids[d] = {}
  /\ Goto(d, "commit")
  /\ UNCHANGED <<dbVars, sent, rows, ids, broken, faultVars, historyVars>>

EndDelivery(d) ==
  /\ pc[d] = "commit" /\ lock = None
  /\ IF open THEN Commit ELSE UNCHANGED <<open, disk>>
  /\ Goto(d, "done")
  /\ UNCHANGED <<pending, token, lock, sent, rows, ids, broken, faultVars, historyVars>>

-----------------------------------------------------------------------------
(* A transaction with the lock: wd_accounts_edit_user, wd_events_delete_   *)
(* events and others.  None of them touches the tables of this module.     *)

(* The daemon stops and is started again: the connection is opened anew    *)
(* and what was not committed is lost.  A client must log in again.        *)
Restart ==
  /\ pending' = disk.pending /\ token' = disk.token
  /\ open' = FALSE /\ lock' = None
  /\ pc' = [t \in DOMAIN pc |-> IF t \in Sessions /\ pc[t] \notin {"idle", "done"} THEN "gone"
                          ELSE IF t \in Sessions THEN pc[t] ELSE "idle"]
  /\ rows' = [d \in Sessions |-> <<>>] /\ ids' = [d \in Sessions |-> {}]
  /\ UNCHANGED <<disk, sent, broken, historyVars>>

BeginImmediate(e) ==
  /\ pc[e] = "idle" /\ lock = None
  /\ IF open
     THEN /\ crashes < Crashes
          /\ asserted' = TRUE /\ crashes' = crashes + 1 /\ Restart
     ELSE /\ Begin /\ lock' = e /\ Goto(e, "begun")
          /\ UNCHANGED <<pending, token, disk, sent, rows, ids, broken, faultVars, historyVars>>

CommitLocked(e) ==     \* the lock is kept
  /\ pc[e] = "begun"
  /\ Commit /\ Goto(e, "done")
  /\ UNCHANGED <<pending, token, lock, sent, rows, ids, broken, faultVars, historyVars>>

CommitTransaction(e) ==
  /\ pc[e] = "begun"
  /\ Commit /\ lock' = None /\ Goto(e, "done")
  /\ UNCHANGED <<pending, token, sent, rows, ids, broken, faultVars, historyVars>>

Crash ==
  /\ crashes < Crashes
  /\ crashes' = crashes + 1
  /\ Restart /\ UNCHANGED asserted

-----------------------------------------------------------------------------
Next ==
  \/ \E s \in Senders : Count(s) \/ FindToken(s) \/ MintToken(s) \/ Store(s)
  \/ \E d \in Sessions : \/ Login(d) \/ Select(d) \/ SendRow(d) \/ EndSend(d)
                         \/ DeleteRow(d) \/ EndDelete(d) \/ EndDelivery(d)
  \/ \E e \in Editors : BeginImmediate(e) \/ CommitTransaction(e)
  \/ Crash

Spec == Init /\ [][Next]_vars

-----------------------------------------------------------------------------
(* Properties. *)

Received == UNION {ToSet(delivered[d]) : d \in Sessions}

(* "The server stores the message and delivers it the next time the        *)
(* recipient logs in" (RELEASE_NOTES.md, 2.5.8): a message that was        *)
(* accepted is stored, so that a crash does not lose it, until it has been *)
(* sent, whatever senders, logins and crashes do.  There are two gaps: a   *)
(* message inserted while a delivery had its transaction open is rolled    *)
(* back with it by a crash (joined), and one that could not be written is  *)
(* deleted all the same (unwritten).                                       *)
NothingLost ==
  ToSet(accepted) \ (joined \cup unwritten) \subseteq ToSet(disk.pending) \cup Received

(* "On the recipient's next login, all pending messages are delivered      *)
(* immediately": when the delivery is over, what was accepted before it    *)
(* began has been sent, by it or by another login.                         *)
DeliveredAtLogin ==
  \A d \in Sessions :
    pc[d] = "done" => due[d] \ (joined \cup unwritten) \subseteq Received

(* "Messages are delivered in chronological order": a login never gets a  *)
(* message that was stored before one it got already.                      *)
InOrder ==
  \A d \in Sessions : \A i, j \in DOMAIN delivered[d] : \A k, l \in DOMAIN accepted :
    (i < j /\ delivered[d][i] = accepted[k] /\ delivered[d][j] = accepted[l]) => k < l

(* "... and removed from the database after delivery": without a crash no  *)
(* two logins get the same message, unless they read it at the same time:  *)
(* the transaction does not keep them apart.                               *)
DeliveredOnce ==
  crashes = 0 =>
    \A d, e \in Sessions :
      d # e => ToSet(delivered[d]) \cap ToSet(delivered[e]) \subseteq twice

(* The limit is exceeded by less than the number of senders, although the  *)
(* messages are counted in one statement and inserted in another.          *)
LimitIsKept == Len(pending) < Limit + Cardinality(Senders)

(* A token, once stored and until a crash, is never replaced by that of    *)
(* another thread that found none at the same time: clients that were      *)
(* given it go on writing to its login.                                    *)
TokenIsKept == [][token # None /\ crashes' = crashes => token' = token]_vars

(* WI_ASSERT(0, "Could not execute database statement: %m") in             *)
(* wi_sqlite3_begin_immediate_transaction is never reached.                *)
AssertionHolds == ~asserted
====
