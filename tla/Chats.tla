---- MODULE Chats ----
(***************************************************************************)
(* The chats of the wired daemon (wired/chats.c and the chat and status    *)
(* handlers of wired/messages.c), what each client is told of the members  *)
(* and of their nick, status and idle flag, and the idle timer             *)
(* (wired/users.c).                                                        *)
(*                                                                         *)
(* Each connection has a thread that handles one message at a time; a      *)
(* broadcast (wd_chat_broadcast_message, wired/server.c) holds the reader  *)
(* lock of chat->users while it visits the members one after the other,    *)
(* and looking at a member takes that member's user_lock.  A lock that is  *)
(* taken and released around plain reads or assignments is one step; a     *)
(* lock held across steps is a variable.  Members are visited in any       *)
(* order, where the array has one: that allows more behaviours.  nick,     *)
(* status, icon and color are one value, `status'; an administrator who    *)
(* edits the user's account and so changes nick and color is left out.     *)
(*                                                                         *)
(* A connection may be one that transfers a file.  Nothing is sent to it   *)
(* meanwhile; `unsent' and `stale' are history variables for that.         *)
(***************************************************************************)
EXTENDS Integers, FiniteSets

CONSTANTS
  Users,     \* users that are logged in at first
  Private,   \* private chats that may be created
  Present,   \* users that are on the public chat at first
  Scenarios  \* what each client may do; "away" is to send nothing for a while

AllRequests == {"join", "leave", "kick", "create", "invite", "decline", "status",
                "idle", "other", "away", "disconnect", "transfer"}

Public  == "public"    \* wd_public_chat
Timer   == "timer"     \* the thread of wd_users_timer
None    == "none"
Chats   == Private \cup {Public}
Threads == Users \cup {Timer}

ASSUME UsersAssumption   == IsFiniteSet(Users) /\ Timer \notin Users /\ None \notin Users
ASSUME ChatsAssumption   == IsFiniteSet(Private) /\ Public \notin Private /\ None \notin Private
ASSUME PresentAssumption == Present \subseteq Users
ASSUME ScenariosAssumption == Scenarios \subseteq [Users -> SUBSET AllRequests]

VARIABLES
  requests,   \* what each client does, one of Scenarios
  state,      \* wd_user_state
  status,     \* what set_nick, set_status and set_icon change
  idle,       \* user->idle
  user_lock,  \* the thread that holds user->user_lock across steps
  wd_chats,   \* the dictionary of chats
  chats_lock, \* the thread that holds its writer lock across steps
  created,    \* private chats whose id was given out
  opened,     \* those somebody has joined
  users,      \* chat->users
  readers,    \* how many threads hold the reader lock of chat->users
  invited,    \* chat->invited_users
  pc,         \* where each thread is
  chat,       \* the chat its handler is about
  message,    \* the broadcast it is sending
  left,       \* the members it has still to visit
  rest,       \* the chats it has still to visit
  view,       \* whom each client believes to be on each chat
  known,      \* the status and idle flag a client last heard of each user
  unsent,     \* users whose last coming or going a client was not sent
  stale       \* users whose last status or idle flag it was not sent

lockVars   == <<user_lock, chats_lock, readers>>
threadVars == <<chat, message, left, rest>>
clientVars == <<view, known, unsent, stale>>
chatVars   == <<wd_chats, created, opened, users, invited>>
vars == <<requests, state, status, idle, lockVars, chatVars, pc, threadVars, clientVars>>

Kinds == {"join", "list", "leave", "exit", "kick", "status", "idle", "wake"}

Infos    == [status : {0, 1}, idle : BOOLEAN]
Messages == [kind : Kinds, subject : Users, info : Infos]
NoMessage == [kind |-> None, subject |-> None, info |-> None]

TypeOK ==
  /\ requests \in Scenarios
  /\ state \in [Users -> {"LOGGED_IN", "DISCONNECTED", "NONE"}]
  /\ status \in [Users -> {0, 1}]
  /\ idle \in [Users -> BOOLEAN]
  /\ user_lock \in [Users -> Threads \cup {None}]
  /\ wd_chats \subseteq Chats
  /\ chats_lock \in Users \cup {None}
  /\ created \subseteq Private
  /\ opened \subseteq created
  /\ users \in [Chats -> SUBSET Users]
  /\ readers \in [Chats -> Nat]
  /\ invited \in [Chats -> SUBSET Users]
  /\ pc \in [Threads -> {"idle", "broadcast", "send", "add", "list", "list_read",
                         "list_write", "remove", "count", "drop", "handled", "chats",
                         "lock", "next_chat", "exit_lock", "exit_next", "gone", "off",
                         "transfer"}]
  /\ chat \in [Threads -> Chats \cup {None}]
  /\ message \in [Threads -> Messages \cup {NoMessage}]
  /\ left \in [Threads -> SUBSET Users]
  /\ rest \in [Threads -> SUBSET Chats]
  /\ view \in [Users -> [Chats -> SUBSET Users]]
  /\ known \in [Users -> [Users -> Infos]]
  /\ unsent \in [Users -> [Chats -> SUBSET Users]]
  /\ stale \in [Users -> SUBSET Users]

-----------------------------------------------------------------------------
Goto(t, label) == pc' = [pc EXCEPT ![t] = label]

Info(u) == [status |-> status[u], idle |-> idle[u]]
Message(kind, u) == [kind |-> kind, subject |-> u, info |-> Info(u)]

(* user_lock is recursive: its holder may take it again. *)
CanLock(t, u) == user_lock[u] \in {None, t}

(* A request of a client is handled: its message loop is waiting for one.  *)
(* The state is read when the wait ends; a disconnect between that and the *)
(* handler is the same as one just after the handler's first step.         *)
Asks(u, request) ==
  request \in requests[u] /\ pc[u] = "idle" /\ state[u] = "LOGGED_IN"

(* Every other handler replies to its user, for which it needs user_lock.  *)
Handled(u) == Goto(u, "handled")

Init ==
  /\ requests \in Scenarios
  /\ state = [u \in Users |-> "LOGGED_IN"]
  /\ status = [u \in Users |-> 0]
  /\ idle = [u \in Users |-> FALSE]
  /\ user_lock = [u \in Users |-> None]
  /\ wd_chats = {Public} /\ chats_lock = None /\ created = {} /\ opened = {}
  /\ users = [c \in Chats |-> IF c = Public THEN Present ELSE {}]
  /\ readers = [c \in Chats |-> 0]
  /\ invited = [c \in Chats |-> {}]
  /\ pc = [t \in Threads |-> "idle"]
  /\ chat = [t \in Threads |-> None]
  /\ message = [t \in Threads |-> NoMessage]
  /\ left = [t \in Threads |-> {}]
  /\ rest = [t \in Threads |-> {}]
  /\ view = [u \in Users |-> [c \in Chats |->
               IF c = Public /\ u \in Present THEN Present ELSE {}]]
  /\ known = [u \in Users |-> [v \in Users |-> Info(v)]]
  /\ unsent = [u \in Users |-> [c \in Chats |-> {}]]
  /\ stale = [u \in Users |-> {}]

-----------------------------------------------------------------------------
(* Broadcasts. *)

(* What the client of member m makes of a message about chat c. *)
SeenBy(m, c, msg) ==
  CASE msg.kind \in {"join", "list"}   -> view[m][c] \cup {msg.subject}
    [] msg.kind \in {"leave", "exit"}  -> view[m][c] \ {msg.subject}
    [] msg.kind = "kick" -> IF m = msg.subject THEN {} ELSE view[m][c] \ {msg.subject}
    [] OTHER                           -> view[m][c]

Informs(msg) == msg.kind \notin {"leave", "exit", "kick"}
Seats(msg)   == msg.kind \notin {"status", "idle", "wake"}

Deliver(m, c, msg) ==
  /\ view' = [view EXCEPT ![m][c] = SeenBy(m, c, msg)]
  /\ known' = IF Informs(msg) THEN [known EXCEPT ![m][msg.subject] = msg.info] ELSE known
  /\ unsent' = [unsent EXCEPT ![m][c] = IF Seats(msg) THEN @ \ {msg.subject} ELSE @]
  /\ stale' = [stale EXCEPT ![m] = IF Informs(msg) THEN @ \ {msg.subject} ELSE @]

Withhold(m, c, msg) ==
  /\ unsent' = [unsent EXCEPT ![m][c] = IF Seats(msg) THEN @ \cup {msg.subject} ELSE @]
  /\ stale' = [stale EXCEPT ![m] = IF Informs(msg) THEN @ \cup {msg.subject} ELSE @]
  /\ UNCHANGED <<view, known>>

(* wd_chat_broadcast_message: lock chat->users for reading. *)
BroadcastUnlocked(t) ==     \* without the lock
  /\ pc[t] = "broadcast"
  /\ left' = [left EXCEPT ![t] = users[chat[t]]]
  /\ Goto(t, "send")
  /\ UNCHANGED <<state, status, idle, lockVars, chatVars, chat, message,
                 rest, clientVars>>

BeginBroadcast(t) ==
  /\ pc[t] = "broadcast"
  /\ readers' = [readers EXCEPT ![chat[t]] = @ + 1]
  /\ left' = [left EXCEPT ![t] = users[chat[t]]]
  /\ Goto(t, "send")
  /\ UNCHANGED <<state, status, idle, user_lock, chats_lock, chatVars, chat, message,
                 rest, clientVars>>

(* user->transfer is set while a transfer of the connection is run. *)
Transferring(m) == pc[m] = "transfer"

(* wd_user_state and wd_user_send_message of one member. *)
Send(t, m) ==
  /\ pc[t] = "send" /\ m \in left[t]
  /\ CanLock(t, m)
  /\ left' = [left EXCEPT ![t] = @ \ {m}]
  /\ \/ state[m] = "LOGGED_IN" /\ ~Transferring(m) /\ Deliver(m, chat[t], message[t])
     \/ state[m] = "LOGGED_IN" /\ Transferring(m) /\ Withhold(m, chat[t], message[t])
     \/ state[m] # "LOGGED_IN" /\ UNCHANGED clientVars
  /\ UNCHANGED <<state, status, idle, lockVars, chatVars, pc, chat, message, rest>>

(* Where the sender goes on. *)
AfterBroadcast(kind) ==
  CASE kind = "join"  -> "add"
    [] kind = "leave" -> "handled"
    [] kind = "kick"  -> "remove"
    [] kind = "exit"  -> "exit_lock"
    [] OTHER          -> "next_chat"

EndBroadcast(t) ==
  /\ pc[t] = "send" /\ left[t] = {}
  /\ readers' = [readers EXCEPT ![chat[t]] = @ - 1]
  /\ Goto(t, AfterBroadcast(message[t].kind))
  /\ UNCHANGED <<state, status, idle, user_lock, chats_lock, chatVars, threadVars, clientVars>>

BroadcastStep(t) ==
  BeginBroadcast(t) \/ (\E m \in Users : Send(t, m)) \/ EndBroadcast(t)

-----------------------------------------------------------------------------
(* wd_message_chat_join_chat. *)

(* The checks, and the message that wd_chat_add_user_and_broadcast makes   *)
(* of the user as it is now.                                               *)
JoinChat(u, c) ==
  /\ Asks(u, "join")
  /\ c \in wd_chats /\ chats_lock = None
  /\ u \notin users[c]
  /\ c = Public \/ u \in invited[c]
  /\ CanLock(u, u)
  /\ chat' = [chat EXCEPT ![u] = c]
  /\ message' = [message EXCEPT ![u] = Message("join", u)]
  /\ Goto(u, "broadcast")
  /\ UNCHANGED <<state, status, idle, lockVars, chatVars, left, rest, clientVars>>

(* After the broadcast the user is added, and the invitation is used up.   *)
AddUnlisted(u) ==     \* without the list of the members
  /\ pc[u] = "add" /\ readers[chat[u]] = 0
  /\ users' = [users EXCEPT ![chat[u]] = @ \cup {u}]
  /\ invited' = [invited EXCEPT ![chat[u]] = IF chat[u] = Public THEN @ ELSE @ \ {u}]
  /\ Handled(u)
  /\ opened' = opened \cup ({chat[u]} \cap Private)
  /\ UNCHANGED <<state, status, idle, lockVars, wd_chats, created, threadVars, clientVars>>

AddUser(u) ==
  /\ pc[u] = "add" /\ readers[chat[u]] = 0
  /\ users' = [users EXCEPT ![chat[u]] = @ \cup {u}]
  /\ invited' = [invited EXCEPT ![chat[u]] = IF chat[u] = Public THEN @ ELSE @ \ {u}]
  /\ Goto(u, "list")
  /\ opened' = opened \cup ({chat[u]} \cap Private)
  /\ UNCHANGED <<state, status, idle, lockVars, wd_chats, created, threadVars, clientVars>>

(* wd_chat_reply_user_list: lock chat->users for reading. *)
BeginList(u) ==
  /\ pc[u] = "list"
  /\ readers' = [readers EXCEPT ![chat[u]] = @ + 1]
  /\ left' = [left EXCEPT ![u] = users[chat[u]]]
  /\ Goto(u, "list_read")
  /\ UNCHANGED <<state, status, idle, user_lock, chats_lock, chatVars, chat, message, rest,
                 clientVars>>

(* The state and the fields of one member are read ... *)
ReadMember(u, m) ==
  /\ pc[u] = "list_read" /\ m \in left[u]
  /\ CanLock(u, m)
  /\ left' = [left EXCEPT ![u] = @ \ {m}]
  /\ IF state[m] = "LOGGED_IN"
     THEN message' = [message EXCEPT ![u] = Message("list", m)] /\ Goto(u, "list_write")
     ELSE UNCHANGED <<message, pc>>
  /\ UNCHANGED <<state, status, idle, lockVars, chatVars, chat, rest, clientVars>>

(* ... and only then written to the client. *)
WriteMember(u) ==
  /\ pc[u] = "list_write" /\ CanLock(u, u)
  /\ Deliver(u, chat[u], message[u])
  /\ Goto(u, "list_read")
  /\ UNCHANGED <<state, status, idle, lockVars, chatVars, threadVars>>

EndList(u) ==
  /\ pc[u] = "list_read" /\ left[u] = {}
  /\ readers' = [readers EXCEPT ![chat[u]] = @ - 1]
  /\ Handled(u)
  /\ UNCHANGED <<state, status, idle, user_lock, chats_lock, chatVars, threadVars, clientVars>>

-----------------------------------------------------------------------------
(* wd_message_chat_leave_chat: remove the user, then tell the others. *)
LeaveLikeKicked(u, c) ==     \* tell the others, then remove the user
  /\ Asks(u, "leave")
  /\ c \in wd_chats /\ chats_lock = None
  /\ u \in users[c]
  /\ chat' = [chat EXCEPT ![u] = c]
  /\ message' = [message EXCEPT ![u] = Message("kick", u)]
  /\ Goto(u, "broadcast")
  /\ UNCHANGED <<state, status, idle, lockVars, chatVars, left, rest, clientVars>>

LeaveChat(u, c) ==
  /\ Asks(u, "leave")
  /\ c \in wd_chats /\ chats_lock = None
  /\ u \in users[c]
  /\ chat' = [chat EXCEPT ![u] = c]
  /\ message' = [message EXCEPT ![u] = Message("leave", u)]
  /\ Goto(u, "remove")
  /\ UNCHANGED <<state, status, idle, lockVars, chatVars, left, rest, clientVars>>

(* wd_message_chat_kick_user: tell everybody, then remove the peer. *)
KickUser(u, peer, c) ==
  /\ Asks(u, "kick")
  /\ state[peer] # "NONE"
  /\ c \in wd_chats /\ chats_lock = None
  /\ {u, peer} \subseteq users[c]
  /\ chat' = [chat EXCEPT ![u] = c]
  /\ message' = [message EXCEPT ![u] = Message("kick", peer)]
  /\ Goto(u, "broadcast")
  /\ UNCHANGED <<state, status, idle, lockVars, chatVars, left, rest, clientVars>>

(* wd_chat_remove_user, and the same for each chat in wd_chats_remove_user.*)
(* A client that left forgets the chat with the reply.                     *)
RemoveUser(u) ==
  /\ pc[u] = "remove" /\ readers[chat[u]] = 0
  /\ users' = [users EXCEPT ![chat[u]] = @ \ {message[u].subject}]
  /\ view' = IF message[u].kind = "kick" THEN view ELSE [view EXCEPT ![u][chat[u]] = {}]
  /\ Goto(u, "count")
  /\ UNCHANGED <<state, status, idle, lockVars, wd_chats, created, opened, invited, threadVars, known,
                 unsent, stale>>

AfterRemoval(kind) ==
  CASE kind = "leave" -> "broadcast"
    [] kind = "kick"  -> "handled"
    [] kind = "exit"  -> "exit_next"

(* The array is counted after it was unlocked. *)
CountUnlessKicked(u) ==     \* a chat that a kick empties stays
  /\ pc[u] = "count"
  /\ Goto(u, IF chat[u] # Public /\ users[chat[u]] = {} /\ message[u].kind # "kick"
             THEN "drop" ELSE AfterRemoval(message[u].kind))
  /\ UNCHANGED <<state, status, idle, lockVars, chatVars, threadVars, clientVars>>

CountUsers(u) ==
  /\ pc[u] = "count"
  /\ Goto(u, IF chat[u] # Public /\ users[chat[u]] = {}
             THEN "drop" ELSE AfterRemoval(message[u].kind))
  /\ UNCHANGED <<state, status, idle, lockVars, chatVars, threadVars, clientVars>>

DropChat(u) ==
  /\ pc[u] = "drop" /\ chats_lock \in {None, u}
  /\ wd_chats' = wd_chats \ {chat[u]}
  /\ Goto(u, AfterRemoval(message[u].kind))
  /\ UNCHANGED <<state, status, idle, lockVars, created, opened, users, invited, threadVars, clientVars>>

-----------------------------------------------------------------------------
(* Private chats and invitations. *)

(* wd_message_chat_create_chat, with a new id. *)
CreateChat(u, c) ==
  /\ Asks(u, "create")
  /\ c \in Private \ created /\ chats_lock = None
  /\ created' = created \cup {c}
  /\ invited' = [invited EXCEPT ![c] = {u}]
  /\ wd_chats' = wd_chats \cup {c}
  /\ Handled(u)
  /\ UNCHANGED <<state, status, idle, lockVars, opened, users, threadVars, clientVars>>

InviteUser(u, peer, c) ==
  /\ Asks(u, "invite")
  /\ state[peer] # "NONE"
  /\ c \in wd_chats /\ chats_lock = None
  /\ u \in users[c] /\ peer \notin users[c]
  /\ CanLock(u, peer)
  /\ invited' = [invited EXCEPT ![c] = @ \cup {peer}]
  /\ Handled(u)
  /\ UNCHANGED <<state, status, idle, lockVars, wd_chats, created, opened, users, threadVars, clientVars>>

DeclineInvitation(u, peer, c) ==
  /\ Asks(u, "decline")
  /\ state[peer] # "NONE"
  /\ c \in wd_chats /\ chats_lock = None
  /\ c = Public \/ u \in invited[c]
  /\ CanLock(u, peer)
  /\ invited' = [invited EXCEPT ![c] = @ \ {u}]
  /\ Handled(u)
  /\ UNCHANGED <<state, status, idle, lockVars, wd_chats, created, opened, users, threadVars, clientVars>>

-----------------------------------------------------------------------------
(* Status broadcasts (wd_user_broadcast_status, wd_user_broadcast_icon).   *)

(* The user has been changed, and the change is to be broadcast. *)
StartStatus(t, u, kind) ==
  /\ message' = [message EXCEPT ![t] = Message(kind, u)]
  /\ Goto(t, "chats")

(* set_nick, set_status, set_icon. *)
SetStatus(u) ==
  /\ Asks(u, "status") /\ CanLock(u, u)
  /\ status' = [status EXCEPT ![u] = 1 - @]
  /\ StartStatus(u, u, "status")
  /\ UNCHANGED <<state, idle, lockVars, chatVars, chat, left, rest, clientVars>>

SetIdle(u) ==
  /\ Asks(u, "idle") /\ CanLock(u, u)
  /\ idle' = [idle EXCEPT ![u] = ~@]
  /\ StartStatus(u, u, "idle")
  /\ UNCHANGED <<state, status, lockVars, chatVars, chat, left, rest, clientVars>>

(* Any other message, and a request that is refused, changes nothing here. *)
OtherRequest(u) ==
  /\ Asks(u, "other")
  /\ Handled(u)
  /\ UNCHANGED <<state, status, idle, lockVars, chatVars, threadVars, clientVars>>

(* wd_message_transfer_download_file and wd_message_transfer_upload_file,  *)
(* while wd_transfers_run_transfer waits in the queue and moves the data   *)
(* (module TransferQueue).  A transfer that fails disconnects the user.    *)
BeginTransfer(u) ==
  /\ Asks(u, "transfer") /\ CanLock(u, u)
  /\ Goto(u, "transfer")
  /\ UNCHANGED <<state, status, idle, lockVars, chatVars, threadVars, clientVars>>

EndTransfer(u) ==
  /\ Transferring(u) /\ CanLock(u, u)
  /\ \/ UNCHANGED state
     \/ state' = [state EXCEPT ![u] = "DISCONNECTED"]
  /\ Handled(u)
  /\ UNCHANGED <<status, idle, lockVars, chatVars, threadVars, clientVars>>

(* The end of wd_messages_handle_message: a user who sends something is    *)
(* not idle any more.                                                      *)
WakeUp(u) ==
  /\ pc[u] = "handled" /\ CanLock(u, u)
  /\ chat' = [chat EXCEPT ![u] = None]
  /\ IF idle[u]
     THEN idle' = [idle EXCEPT ![u] = FALSE] /\ StartStatus(u, u, "wake")
     ELSE /\ message' = [message EXCEPT ![u] = NoMessage]
          /\ Goto(u, "idle")
          /\ UNCHANGED idle
  /\ UNCHANGED <<state, status, lockVars, chatVars, left, rest, clientVars>>

(* wd_users_update_idle marks a user who sent nothing for a while and      *)
(* keeps its user_lock for the broadcast.  It holds the reader lock of     *)
(* wd_users for the whole pass; here a pass is about one user.             *)
MarkIdle(u) ==
  /\ "away" \in requests[u]
  /\ pc[Timer] = "idle"
  /\ state[u] = "LOGGED_IN" /\ ~idle[u] /\ CanLock(Timer, u)
  /\ idle' = [idle EXCEPT ![u] = TRUE]
  /\ user_lock' = [user_lock EXCEPT ![u] = Timer]
  /\ StartStatus(Timer, u, "idle")
  /\ UNCHANGED <<state, status, chats_lock, readers, chatVars, chat, left, rest, clientVars>>

(* wd_chats_chats_with_user. *)
FindChats(t) ==
  /\ pc[t] = "chats" /\ chats_lock = None
  /\ rest' = [rest EXCEPT ![t] = {c \in wd_chats : message[t].subject \in users[c]}]
  /\ Goto(t, "lock")
  /\ UNCHANGED <<state, status, idle, lockVars, chatVars, chat, message, left, clientVars>>

(* set_nick, set_status, set_icon and set_idle find the user disconnected  *)
(* meanwhile.                                                              *)
SkipStatus(u) ==
  /\ pc[u] = "chats" /\ message[u].kind \in {"status", "idle"}
  /\ state[u] # "LOGGED_IN"
  /\ Goto(u, IF message[u].kind = "status" THEN "handled" ELSE "idle")
  /\ message' = [message EXCEPT ![u] = NoMessage]
  /\ UNCHANGED <<state, status, idle, lockVars, chatVars, chat, left, rest, clientVars>>

LockNothing(t) ==     \* the broadcast without user_lock
  /\ pc[t] = "lock" /\ CanLock(t, message[t].subject)
  /\ Goto(t, "next_chat")
  /\ UNCHANGED <<state, status, idle, lockVars, chatVars, threadVars, clientVars>>

LockUser(t) ==
  LET u == message[t].subject
  IN /\ pc[t] = "lock" /\ CanLock(t, u)
     /\ user_lock' = [user_lock EXCEPT ![u] = t]
     /\ Goto(t, "next_chat")
     /\ UNCHANGED <<state, status, idle, chats_lock, readers, chatVars, threadVars, clientVars>>

(* The message for the next chat is made of the user as it is now, and     *)
(* chat->users is locked for reading.                                      *)
NextChat(t) ==
  /\ pc[t] = "next_chat"
  /\ \E c \in rest[t] :
       /\ rest' = [rest EXCEPT ![t] = @ \ {c}]
       /\ chat' = [chat EXCEPT ![t] = c]
       /\ readers' = [readers EXCEPT ![c] = @ + 1]
       /\ left' = [left EXCEPT ![t] = users[c]]
  /\ message' = [message EXCEPT ![t].info = Info(message[t].subject)]
  /\ Goto(t, "send")
  /\ UNCHANGED <<state, status, idle, user_lock, chats_lock, chatVars, clientVars>>

(* user_lock is given back; after set_nick, set_status and set_icon the    *)
(* end of the handler follows.                                             *)
EndStatus(t) ==
  /\ pc[t] = "next_chat" /\ rest[t] = {}
  /\ user_lock' = [user_lock EXCEPT ![message[t].subject] = None]
  /\ chat' = [chat EXCEPT ![t] = None]
  /\ message' = [message EXCEPT ![t] = NoMessage]
  /\ Goto(t, IF message[t].kind = "status" THEN "handled" ELSE "idle")
  /\ UNCHANGED <<state, status, idle, chats_lock, readers, chatVars, left, rest, clientVars>>

-----------------------------------------------------------------------------
(* The end of a connection. *)

(* The client closes the connection, an administrator disconnects it, or a *)
(* write to it fails: its message loop will end.                           *)
Disconnect(u) ==
  /\ "disconnect" \in requests[u]
  /\ state[u] = "LOGGED_IN" /\ user_lock[u] = None
  /\ state' = [state EXCEPT ![u] = "DISCONNECTED"]
  /\ UNCHANGED <<status, idle, lockVars, chatVars, pc, threadVars, clientVars>>

(* After the loop a user on the public chat is announced as leaving it. *)
LeaveLoop(u) ==
  /\ pc[u] = "idle" /\ state[u] = "DISCONNECTED"
  /\ message' = [message EXCEPT ![u] = Message("exit", u)]
  /\ IF u \in users[Public]
     THEN chat' = [chat EXCEPT ![u] = Public] /\ Goto(u, "broadcast")
     ELSE Goto(u, "exit_lock") /\ UNCHANGED chat
  /\ UNCHANGED <<state, status, idle, lockVars, chatVars, left, rest, clientVars>>

(* wd_chats_remove_user: lock wd_chats for writing, and remove the user    *)
(* from each chat in it.                                                   *)
LockChats(u) ==
  /\ pc[u] = "exit_lock" /\ chats_lock = None
  /\ chats_lock' = u
  /\ rest' = [rest EXCEPT ![u] = wd_chats]
  /\ Goto(u, "exit_next")
  /\ UNCHANGED <<state, status, idle, user_lock, readers, chatVars, chat, message, left,
                 clientVars>>

RemoveFromNext(u) ==
  /\ pc[u] = "exit_next"
  /\ \E c \in rest[u] :
       /\ rest' = [rest EXCEPT ![u] = @ \ {c}]
       /\ chat' = [chat EXCEPT ![u] = c]
  /\ Goto(u, "remove")
  /\ UNCHANGED <<state, status, idle, lockVars, chatVars, message, left, clientVars>>

UnlockChats(u) ==
  /\ pc[u] = "exit_next" /\ rest[u] = {}
  /\ chats_lock' = None
  /\ chat' = [chat EXCEPT ![u] = None]
  /\ message' = [message EXCEPT ![u] = NoMessage]
  /\ Goto(u, "gone")
  /\ UNCHANGED <<state, status, idle, user_lock, readers, chatVars, left, rest, clientVars>>

(* wd_users_remove_user waits for the timer's lock of wd_users. *)
LeaveUsers(u) ==
  /\ pc[u] = "gone" /\ pc[Timer] = "idle"
  /\ state' = [state EXCEPT ![u] = "NONE"]
  /\ Goto(u, "off")
  /\ UNCHANGED <<status, idle, lockVars, chatVars, threadVars, clientVars>>

-----------------------------------------------------------------------------
Request(u) ==
  \/ \E c \in Chats :
       \/ JoinChat(u, c) \/ LeaveChat(u, c) \/ CreateChat(u, c)
       \/ \E peer \in Users :
            KickUser(u, peer, c) \/ InviteUser(u, peer, c) \/ DeclineInvitation(u, peer, c)
  \/ SetStatus(u) \/ SetIdle(u) \/ OtherRequest(u) \/ BeginTransfer(u)

StatusStep(t) ==
  FindChats(t) \/ LockUser(t) \/ NextChat(t) \/ EndStatus(t)

HandlerStep(u) ==
  \/ AddUser(u) \/ BeginList(u) \/ (\E m \in Users : ReadMember(u, m))
  \/ WriteMember(u) \/ EndList(u)
  \/ RemoveUser(u) \/ CountUsers(u) \/ DropChat(u)
  \/ SkipStatus(u) \/ WakeUp(u)
  \/ LeaveLoop(u) \/ LockChats(u) \/ RemoveFromNext(u) \/ UnlockChats(u) \/ LeaveUsers(u)

Next ==
  /\ \/ \E u \in Users : \/ Request(u) \/ HandlerStep(u) \/ EndTransfer(u)
                        \/ Disconnect(u) \/ MarkIdle(u)
     \/ \E t \in Threads : BroadcastStep(t) \/ StatusStep(t)
  /\ UNCHANGED requests

Spec == Init /\ [][Next]_vars

(* Clients ask for what they like, when they like, and a transfer takes    *)
(* as long as it takes.  Any other thread that has begun to handle         *)
(* something goes on; a lock that is free again and again is taken in the  *)
(* end, hence SF.                                                          *)
Fairness ==
  /\ \A t \in Threads : SF_vars((BroadcastStep(t) \/ StatusStep(t)) /\ UNCHANGED requests)
  /\ \A u \in Users : SF_vars(HandlerStep(u) /\ UNCHANGED requests)

FairSpec == Spec /\ Fairness

-----------------------------------------------------------------------------
(* Properties. *)

(* No request is being handled, but transfers may be under way. *)
Quiet == \A t \in Threads : pc[t] \in {"idle", "transfer", "off"}

LoggedIn == {u \in Users : state[u] = "LOGGED_IN"}
Joiners  == {u \in Users : "join" \in requests[u]}

(* No two users join at once, and nobody is kicked. *)
Calm == /\ Cardinality(Joiners) <= 1
        /\ \A u \in Users : "kick" \notin requests[u]

(* When no request is being handled, each client knows the current nick,   *)
(* status and idle flag of the other members, although the user and the    *)
(* idle timer change them at the same time: a message made before a change *)
(* never arrives after the message about it.  The one gap is a client that *)
(* transferred a file when the last message about the user was sent, which *)
(* wd_user_send_message withholds.  A user who joins meanwhile may be told *)
(* an older value.                                                         *)
StatusIsKnown ==
  Quiet => \A c \in Chats : \A m, u \in (users[c] \cap LoggedIn) \ Joiners :
             u \in stale[m] \/ known[m][u] = Info(u)

(* When no request is being handled, each member has been told of every    *)
(* other member, in the list it got when it joined or in a join message    *)
(* ("Should cause wired.chat.user_join to be sent to all users on the      *)
(* chat", wired.xml), unless it was transferring a file when the user came *)
(* or went last: that message is not sent to it, nor repeated.  It holds   *)
(* while one user joins at a time and nobody is kicked: of two who join at *)
(* once neither may hear of the other, and the message about a kick may    *)
(* arrive after the kicked user came back.                                 *)
NobodyMissed ==
  Calm /\ Quiet => \A c \in Chats : \A m \in users[c] \cap LoggedIn :
             users[c] \cap LoggedIn \subseteq view[m][c] \cup unsent[m][c]

(* When no request is being handled, no member believes that a user who    *)
(* left by request is still there, although it may have been listing the   *)
(* members while the other left; but one that was transferring a file when *)
(* the user left keeps it on its list.  A disconnected user may haunt the  *)
(* list of one who joined meanwhile, and so may one who was kicked.        *)
LeaversAreForgotten ==
  Calm /\ Quiet => \A c \in Chats : \A m \in users[c] \cap LoggedIn :
             view[m][c] \cap LoggedIn \subseteq users[c] \cup unsent[m][c]

(* A private chat that its last member left, was kicked from or            *)
(* disconnected from does not stay in the dictionary, although the members *)
(* are counted after their array was unlocked.                             *)
EmptyIsDropped ==
  Quiet => \A c \in wd_chats \ {Public} : c \in opened => users[c] # {}

(* Every request is answered in the end. *)
RequestIsAnswered ==
  \A u \in Users : (pc[u] \notin {"idle", "off"}) ~> (pc[u] \in {"idle", "off"})
====
