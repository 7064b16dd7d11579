---- MODULE ChatsProofs ----
(***************************************************************************)
(* Proofs about Chats, for all users, chats and scenarios.                 *)
(***************************************************************************)
EXTENDS Chats, FiniteSetTheorems, TLAPS

StatusKinds == {"status", "idle", "wake"}

(* What each place of a thread says of its chat and its message.           *)
Place(t) ==
  /\ pc[t] \in {"broadcast", "send", "add", "list", "list_read", "list_write", "remove",
                "count", "drop"} => chat[t] \in Chats
  /\ pc[t] \notin {"idle", "handled", "gone", "off", "transfer"} => message[t] \in Messages
  /\ pc[t] = "broadcast" => message[t].kind \in {"join", "leave", "kick", "exit"}
  /\ pc[t] = "send" => message[t].kind # "list"
  /\ pc[t] \in {"add", "list"} => message[t].kind = "join"
  /\ pc[t] = "list_read" => message[t].kind \in {"join", "list"}
  /\ pc[t] = "list_write" => message[t].kind = "list"
  /\ pc[t] \in {"remove", "count", "drop"} => message[t].kind \in {"leave", "kick", "exit"}
  /\ pc[t] = "drop" => chat[t] # Public
  /\ pc[t] \in {"chats", "lock", "next_chat"} => message[t].kind \in StatusKinds
  /\ pc[t] \in {"exit_lock", "exit_next"} => message[t].kind = "exit"
  /\ message[t].kind \in {"join", "leave", "exit"} \cup StatusKinds =>
       t = Timer \/ message[t].subject = t
  /\ t = Timer => /\ pc[t] \in {"idle", "chats", "lock", "next_chat", "send"}
                  /\ message[t].kind \in {None, "idle"}
                  /\ pc[t] # "idle" => message[t] \in Messages
  /\ message[t].kind \in {"join", "list"} => "join" \in requests[t]
  /\ message[t].kind = "kick" => "kick" \in requests[t]
  /\ message[t].kind = "exit" => state[t] # "LOGGED_IN"

Places == \A t \in Threads : Place(t)

(* Whatever a thread looks at is a chat that was created.                  *)
Given == created \cup {Public}

ChatsGiven ==
  /\ Public \in wd_chats /\ wd_chats \subseteq Given
  /\ \A t \in Threads : chat[t] \in Given \cup {None} /\ rest[t] \subseteq Given

(* The readers of chat->users are the threads that go through its members. *)
Reading(c) ==
  {t \in Threads : pc[t] \in {"send", "list_read", "list_write"} /\ chat[t] = c}

Counted == \A c \in Chats : readers[c] = Cardinality(Reading(c))

Sound == TypeOK /\ Places /\ ChatsGiven /\ Counted

-----------------------------------------------------------------------------
LEMMA NamesDiffer ==
  /\ Timer \in Threads /\ Timer \notin Users /\ None \notin Threads
  /\ \A c \in Chats : c # None
  /\ Public \in Chats /\ Public \notin Private /\ Users \subseteq Threads
  BY UsersAssumption, ChatsAssumption DEF Threads, Chats, Timer, None, Public

LEMMA ReadingFinite ==
  \A c : IsFiniteSet(Reading(c)) /\ Cardinality(Reading(c)) \in Nat
<1>1. IsFiniteSet(Threads)
  BY UsersAssumption, FS_AddElement DEF Threads
<1>2. \A c : Reading(c) \subseteq Threads
  BY DEF Reading
<1> QED
  BY <1>1, <1>2, FS_Subset, FS_CardinalityType

LEMMA SoundInit == Init => Sound
<1> SUFFICES ASSUME Init PROVE Sound
  OBVIOUS
<1>1. TypeOK
  BY NamesDiffer, PresentAssumption, ScenariosAssumption DEF Init, TypeOK, Info, Infos
<1>2. Places
  BY NamesDiffer DEF Init, Places, Place, NoMessage, None, StatusKinds
<1>3. ChatsGiven
  BY DEF Init, ChatsGiven, Given
<1>4. Counted
  <2>1. \A c : Reading(c) = {}
    BY DEF Init, Reading
  <2> QED
    BY <2>1, FS_EmptySet DEF Init, Counted
<1> QED
  BY <1>1, <1>2, <1>3, <1>4 DEF Sound

-----------------------------------------------------------------------------
(* Each action moves one thread.                                           *)

LEMMA MessageTyped ==
  ASSUME TypeOK
  PROVE  \A kind \in Kinds, u \in Users : /\ Message(kind, u) \in Messages
                                          /\ Message(kind, u).kind = kind
                                          /\ Message(kind, u).subject = u
                                          /\ Message(kind, u).info = Info(u)
  BY DEF TypeOK, Info, Infos, Message, Messages

(* A thread moves, and the others stay where they are.                     *)
Moves(u) ==
  /\ requests' = requests
  /\ \A t \in Threads \ {u} :
       /\ pc'[t] = pc[t] /\ chat'[t] = chat[t] /\ message'[t] = message[t]
       /\ t \in Users /\ state'[t] = "LOGGED_IN" => state[t] = "LOGGED_IN"

LEMMA PlacesMove ==
  ASSUME Places, NEW u \in Threads, Moves(u), Place(u)' PROVE Places'
<1> SUFFICES ASSUME NEW t \in Threads, t # u PROVE Place(t)'
  BY DEF Places
<1>1. Place(t)
  BY DEF Places
<1>2. message[t].kind = "exit" => t \in Users
  BY <1>1 DEF Place, Threads, None
<1> QED
  BY <1>1, <1>2 DEF Moves, Place

Reads(t) == pc[t] \in {"send", "list_read", "list_write"}

(* The thread keeps the reader lock, or takes it, or gives it back.        *)
KeepsLock(u) == /\ readers' = readers /\ Reads(u)' = Reads(u)
                /\ Reads(u) => chat'[u] = chat[u]
TakesLock(u) == /\ ~Reads(u) /\ Reads(u)' /\ chat'[u] \in Chats
                /\ readers' = [readers EXCEPT ![chat'[u]] = @ + 1]
GivesLock(u) == /\ Reads(u) /\ ~Reads(u)' /\ chat[u] \in Chats
                /\ readers' = [readers EXCEPT ![chat[u]] = @ - 1]

LEMMA ReadersMove ==
  ASSUME readers \in [Chats -> Nat], Counted, NEW u \in Threads, Moves(u),
         KeepsLock(u) \/ TakesLock(u) \/ GivesLock(u)
  PROVE  Counted'
<1>1. \A c : Reading(c) \ {u} = Reading(c)' \ {u}
  BY DEF Moves, Reading
<1>2. \A c : u \in Reading(c) <=> Reads(u) /\ chat[u] = c
  BY DEF Reading, Reads
<1>6. \A c : u \in Reading(c)' <=> Reads(u)' /\ chat'[u] = c
  BY DEF Reading, Reads
<1>3. CASE KeepsLock(u)
  <2>1. \A c : Reading(c)' = Reading(c)
    BY <1>1, <1>2, <1>6, <1>3 DEF KeepsLock
  <2> QED
    BY <1>3, <2>1 DEF KeepsLock, Counted
<1>4. CASE TakesLock(u)
  <2> PICK d \in Chats : d = chat'[u]
    BY <1>4 DEF TakesLock
  <2>1. \A c \in Chats : c # d => Reading(c)' = Reading(c)
    BY <1>1, <1>2, <1>6, <1>4 DEF TakesLock
  <2>2. u \notin Reading(d) /\ Reading(d)' = Reading(d) \cup {u}
    BY <1>1, <1>2, <1>6, <1>4 DEF TakesLock
  <2>3. Cardinality(Reading(d)') = Cardinality(Reading(d)) + 1
    BY <2>2, ReadingFinite, FS_AddElement
  <2> QED
    BY <1>4, <2>1, <2>3 DEF TakesLock, Counted
<1>5. CASE GivesLock(u)
  <2> PICK d \in Chats : d = chat[u]
    BY <1>5 DEF GivesLock
  <2>0. Reads(u) /\ ~Reads(u)'
    BY <1>5 DEF GivesLock
  <2>1. ASSUME NEW c \in Chats, c # d PROVE Reading(c)' = Reading(c)
    BY <1>1, <1>2, <1>6, <2>0, <2>1
  <2>2. u \in Reading(d) /\ Reading(d)' = Reading(d) \ {u}
    BY <1>1, <1>2, <1>6, <1>5 DEF GivesLock
  <2>3. Cardinality(Reading(d)') = Cardinality(Reading(d)) - 1
    BY <2>2, ReadingFinite, FS_RemoveElement
  <2> QED
    BY <1>5, <2>1, <2>3 DEF GivesLock, Counted
<1> QED
  BY <1>3, <1>4, <1>5

(* Who reads is counted, so that giving the lock back does not wrap.       *)
LEMMA ReaderCounts ==
  ASSUME Sound, NEW u \in Threads, Reads(u) PROVE chat[u] \in Chats /\ readers[chat[u]] > 0
<1>1. chat[u] \in Chats /\ u \in Reading(chat[u])
  BY DEF Sound, Places, Place, Reads, Reading
<1>2. Cardinality(Reading(chat[u])) # 0
  BY <1>1, ReadingFinite, FS_EmptySet
<1> QED
  BY <1>1, <1>2, ReadingFinite DEF Sound, Counted

LEMMA SoundMove ==
  ASSUME Sound, NEW u \in Threads, Moves(u), TypeOK', Place(u)', ChatsGiven',
         KeepsLock(u) \/ TakesLock(u) \/ GivesLock(u)
  PROVE  Sound'
<1>1. Places'
  BY PlacesMove DEF Sound
<1>2. Counted'
  BY ReadersMove DEF Sound, TypeOK
<1> QED
  BY <1>1, <1>2 DEF Sound

LEMMA RequestSound ==
  ASSUME Sound, requests' = requests, NEW u \in Users, Request(u) PROVE Sound'
<1> USE NamesDiffer DEF lockVars, chatVars, threadVars, clientVars, Asks,
      Handled, Goto
<1>0. TypeOK /\ Places /\ ChatsGiven /\ Place(u) /\ u \in Threads
  BY DEF Sound, Places
<1>m. \A kind \in Kinds, v \in Users : /\ Message(kind, v) \in Messages
                                      /\ Message(kind, v).kind = kind
                                      /\ Message(kind, v).subject = v
  BY <1>0, MessageTyped
<1>t. DOMAIN pc = Threads /\ DOMAIN chat = Threads /\ DOMAIN message = Threads
  BY <1>0 DEF TypeOK
<1>1. ASSUME NEW c \in Chats, JoinChat(u, c) \/ LeaveChat(u, c) PROVE Sound'
  <2>1. TypeOK'
    <3>1. CASE JoinChat(u, c)
      BY <1>0, <1>m, <3>1 DEF JoinChat, TypeOK, Kinds
    <3>2. CASE LeaveChat(u, c)
      BY <1>0, <1>m, <3>2 DEF LeaveChat, TypeOK, Kinds
    <3> QED
      BY <1>1, <3>1, <3>2
  <2>2. Moves(u)
    BY <1>1, <1>t DEF JoinChat, LeaveChat, Moves
  <2>3. Place(u)'
    BY <1>0, <1>m, <1>1, <1>t DEF JoinChat, LeaveChat, Place, Kinds, StatusKinds
  <2>4. ChatsGiven'
    BY <1>0, <1>1, <1>t DEF JoinChat, LeaveChat, ChatsGiven, Given
  <2>5. KeepsLock(u)
    BY <1>0, <1>1, <1>t DEF JoinChat, LeaveChat, KeepsLock, Reads
  <2> QED
    BY <1>0, <2>1, <2>2, <2>3, <2>4, <2>5, SoundMove
<1>2. ASSUME NEW c \in Chats, NEW peer \in Users, KickUser(u, peer, c) PROVE Sound'
  <2>1. TypeOK'
    BY <1>0, <1>m, <1>2 DEF KickUser, TypeOK, Kinds
  <2>2. Moves(u)
    BY <1>2, <1>t DEF KickUser, Moves
  <2>3. Place(u)'
    BY <1>0, <1>m, <1>2, <1>t DEF KickUser, Place, Kinds, StatusKinds
  <2>4. ChatsGiven'
    BY <1>0, <1>2, <1>t DEF KickUser, ChatsGiven, Given
  <2>5. KeepsLock(u)
    BY <1>0, <1>2, <1>t DEF KickUser, KeepsLock, Reads
  <2> QED
    BY <1>0, <2>1, <2>2, <2>3, <2>4, <2>5, SoundMove
<1>3. ASSUME NEW c \in Chats, NEW peer \in Users,
             CreateChat(u, c) \/ InviteUser(u, peer, c) \/ DeclineInvitation(u, peer, c)
             \/ OtherRequest(u) \/ BeginTransfer(u)
      PROVE  Sound'
  <2>1. TypeOK'
    <3>1. CASE CreateChat(u, c)
      <4>1. /\ created' \subseteq Private /\ opened' \subseteq created'
            /\ wd_chats' \subseteq Chats /\ invited' \in [Chats -> SUBSET Users]
        BY <1>0, <3>1 DEF CreateChat, TypeOK, Chats
      <4>2. UNCHANGED <<requests, state, status, idle, lockVars, users, threadVars, clientVars>>
        BY <3>1 DEF CreateChat, Handled
      <4>3. pc' = [pc EXCEPT ![u] = "handled"]
        BY <3>1 DEF CreateChat, Handled, Goto
      <4> QED
        BY <1>0, <4>1, <4>2, <4>3 DEF TypeOK, lockVars, threadVars, clientVars
    <3>2. CASE InviteUser(u, peer, c)
      BY <1>0, <3>2 DEF InviteUser, TypeOK
    <3>3. CASE DeclineInvitation(u, peer, c)
      BY <1>0, <3>3 DEF DeclineInvitation, TypeOK
    <3>4. CASE OtherRequest(u)
      BY <1>0, <3>4 DEF OtherRequest, TypeOK
    <3>5. CASE BeginTransfer(u)
      BY <1>0, <3>5 DEF BeginTransfer, TypeOK
    <3> QED
      BY <1>3, <3>1, <3>2, <3>3, <3>4, <3>5
  <2>2. /\ Moves(u) /\ message' = message /\ state' = state
        /\ \E l \in {"handled", "transfer"} : pc' = [pc EXCEPT ![u] = l]
    BY <1>3, <1>t DEF CreateChat, InviteUser, DeclineInvitation, OtherRequest, BeginTransfer, Moves
  <2>3. Place(u)'
    BY <1>0, <1>t, <2>2 DEF Place, Moves
  <2>4. ChatsGiven'
    BY <1>0, <1>3
    DEF CreateChat, InviteUser, DeclineInvitation, OtherRequest, BeginTransfer, ChatsGiven, Given
  <2>5. KeepsLock(u)
    BY <1>0, <1>3, <1>t
    DEF CreateChat, InviteUser, DeclineInvitation, OtherRequest, BeginTransfer, KeepsLock, Reads
  <2> QED
    BY <1>0, <2>1, <2>2, <2>3, <2>4, <2>5, SoundMove
<1>4. CASE SetStatus(u) \/ SetIdle(u)
  <2>1. TypeOK'
    <3>1. CASE SetStatus(u)
      BY <1>0, <1>m, <3>1 DEF SetStatus, StartStatus, TypeOK, Kinds
    <3>2. CASE SetIdle(u)
      BY <1>0, <1>m, <3>2 DEF SetIdle, StartStatus, TypeOK, Kinds
    <3> QED
      BY <1>4, <3>1, <3>2
  <2>2. Moves(u)
    BY <1>4, <1>t DEF SetStatus, SetIdle, StartStatus, Moves
  <2>3. Place(u)'
    BY <1>0, <1>m, <1>4, <1>t DEF SetStatus, SetIdle, StartStatus, Place, Kinds, StatusKinds
  <2>4. ChatsGiven'
    BY <1>0, <1>4, <1>t DEF SetStatus, SetIdle, StartStatus, ChatsGiven, Given
  <2>5. KeepsLock(u)
    BY <1>0, <1>4, <1>t DEF SetStatus, SetIdle, StartStatus, KeepsLock, Reads
  <2> QED
    BY <1>0, <2>1, <2>2, <2>3, <2>4, <2>5, SoundMove
<1> QED
  BY <1>1, <1>2, <1>3, <1>4 DEF Request

LEMMA DeliverTyped ==
  ASSUME TypeOK, NEW m \in Users, NEW c \in Chats, NEW msg \in Messages,
         Deliver(m, c, msg) \/ Withhold(m, c, msg)
  PROVE  /\ view' \in [Users -> [Chats -> SUBSET Users]]
         /\ known' \in [Users -> [Users -> Infos]]
         /\ unsent' \in [Users -> [Chats -> SUBSET Users]]
         /\ stale' \in [Users -> SUBSET Users]
<1>1. msg.subject \in Users /\ msg.info \in Infos
  BY DEF Messages
<1>2. view[m][c] \subseteq Users /\ unsent[m][c] \subseteq Users /\ stale[m] \subseteq Users
  BY DEF TypeOK
<1>3. SeenBy(m, c, msg) \subseteq Users
  BY <1>1, <1>2 DEF SeenBy
<1>4. view' \in [Users -> [Chats -> SUBSET Users]]
  <2>1. CASE Deliver(m, c, msg)
    <3>1. view' = [view EXCEPT ![m] = [view[m] EXCEPT ![c] = SeenBy(m, c, msg)]]
      BY <2>1 DEF Deliver
    <3> QED
      BY <1>3, <3>1 DEF TypeOK
  <2>2. CASE Withhold(m, c, msg)
    BY <2>2 DEF Withhold, TypeOK
  <2> QED
    BY <2>1, <2>2
<1>5. known' \in [Users -> [Users -> Infos]]
  <2>1. CASE known' = [known EXCEPT ![m][msg.subject] = msg.info]
    BY <1>1, <2>1 DEF TypeOK
  <2>2. CASE known' = known
    BY <2>2 DEF TypeOK
  <2> QED
    BY <2>1, <2>2 DEF Deliver, Withhold
<1>7. PICK set \in SUBSET Users :
        unsent' = [unsent EXCEPT ![m] = [unsent[m] EXCEPT ![c] = set]]
  BY <1>1, <1>2 DEF Deliver, Withhold
<1>8. unsent' \in [Users -> [Chats -> SUBSET Users]]
  BY <1>7 DEF TypeOK
<1>9. PICK withheld \in SUBSET Users : stale' = [stale EXCEPT ![m] = withheld]
  BY <1>1, <1>2 DEF Deliver, Withhold
<1>10. stale' \in [Users -> SUBSET Users]
  BY <1>9 DEF TypeOK
<1> QED
  BY <1>4, <1>5, <1>8, <1>10

LEMMA BroadcastSound ==
  ASSUME Sound, requests' = requests, NEW t \in Threads, BroadcastStep(t) PROVE Sound'
<1> USE NamesDiffer DEF lockVars, chatVars, threadVars, clientVars, Handled, Goto
<1>0. TypeOK /\ Places /\ ChatsGiven /\ Place(t)
  BY DEF Sound, Places
<1>m. \A kind \in Kinds, v \in Users : /\ Message(kind, v) \in Messages
                                      /\ Message(kind, v).kind = kind
                                      /\ Message(kind, v).subject = v
  BY <1>0, MessageTyped
<1>t. DOMAIN pc = Threads /\ DOMAIN chat = Threads /\ DOMAIN message = Threads
  BY <1>0 DEF TypeOK
<1>1. CASE BeginBroadcast(t)
  <2>0. chat[t] \in Chats
    BY <1>0, <1>1 DEF BeginBroadcast, Place
  <2>1. TypeOK'
    BY <1>0, <1>m, <1>1, <2>0 DEF BeginBroadcast, TypeOK, Kinds
  <2>2. Moves(t)
    BY <1>0, <1>1, <1>t DEF BeginBroadcast, Moves, TypeOK
  <2>3. Place(t)'
    BY <1>0, <1>m, <1>1, <1>t, <2>1 DEF BeginBroadcast, Place, Kinds, StatusKinds
  <2>4. ChatsGiven'
    BY <1>0, <1>1, <1>t DEF BeginBroadcast, ChatsGiven, Given
  <2>5. TakesLock(t)
    BY <1>0, <1>1, <1>t, <2>0 DEF BeginBroadcast, TakesLock, Reads
  <2> QED
    BY <2>1, <2>2, <2>3, <2>4, <2>5, SoundMove
<1>2. ASSUME NEW m \in Users, Send(t, m) PROVE Sound'
  <2>0. chat[t] \in Chats /\ message[t] \in Messages
    BY <1>0, <1>2 DEF Send, Place
  <2>v. /\ view' \in [Users -> [Chats -> SUBSET Users]]
        /\ known' \in [Users -> [Users -> Infos]]
        /\ unsent' \in [Users -> [Chats -> SUBSET Users]]
        /\ stale' \in [Users -> SUBSET Users]
    <3>1. CASE Deliver(m, chat[t], message[t]) \/ Withhold(m, chat[t], message[t])
      BY <1>0, <2>0, <3>1, DeliverTyped
    <3>2. CASE UNCHANGED clientVars
      BY <1>0, <3>2 DEF TypeOK
    <3> QED
      BY <1>2, <3>1, <3>2 DEF Send
  <2>1. TypeOK'
    <3>1. left' \in [Threads -> SUBSET Users]
      BY <1>0, <1>2 DEF Send, TypeOK
    <3> QED
      BY <1>0, <1>2, <2>v, <3>1 DEF Send, TypeOK
  <2>2. Moves(t)
    BY <1>0, <1>2, <1>t DEF Send, Moves, TypeOK
  <2>3. Place(t)'
    BY <1>0, <1>m, <1>2, <1>t, <2>1 DEF Send, Place, Kinds, StatusKinds
  <2>4. ChatsGiven'
    BY <1>0, <1>2, <1>t DEF Send, ChatsGiven, Given
  <2>5. KeepsLock(t)
    BY <1>0, <1>2, <1>t DEF Send, KeepsLock, Reads
  <2> QED
    BY <2>1, <2>2, <2>3, <2>4, <2>5, SoundMove
<1>3. CASE EndBroadcast(t)
  <2>0. chat[t] \in Chats /\ readers[chat[t]] > 0
    BY <1>3, ReaderCounts DEF EndBroadcast, Reads
  <2>1. TypeOK'
    BY <1>0, <1>m, <1>3, <2>0 DEF EndBroadcast, AfterBroadcast, TypeOK, Kinds
  <2>2. Moves(t)
    BY <1>0, <1>3, <1>t DEF EndBroadcast, AfterBroadcast, Moves, TypeOK
  <2>3. Place(t)'
    <3>1. message[t] \in Messages /\ message[t].kind # "list" /\ message' = message
      BY <1>0, <1>3 DEF EndBroadcast, Place
    <3>2. message[t].kind \in Kinds
      BY <3>1 DEF Messages
    <3>3. pc'[t] = AfterBroadcast(message[t].kind)
      BY <1>3, <1>t DEF EndBroadcast
    <3>4. t = Timer => message[t].kind = "idle"
      BY <1>0, <1>3, <3>2 DEF EndBroadcast, Place, Kinds, None
    <3> QED
      BY <1>0, <1>3, <2>0, <3>1, <3>2, <3>3, <3>4
      DEF EndBroadcast, AfterBroadcast, Place, Kinds, StatusKinds
  <2>4. ChatsGiven'
    BY <1>0, <1>3, <1>t DEF EndBroadcast, AfterBroadcast, ChatsGiven, Given
  <2>5. GivesLock(t)
    BY <1>0, <1>3, <1>t, <2>0 DEF EndBroadcast, AfterBroadcast, GivesLock, Reads
  <2> QED
    BY <2>1, <2>2, <2>3, <2>4, <2>5, SoundMove
<1> QED
  BY <1>1, <1>2, <1>3 DEF BroadcastStep

LEMMA StatusSound ==
  ASSUME Sound, requests' = requests, NEW t \in Threads, StatusStep(t) PROVE Sound'
<1> USE NamesDiffer DEF lockVars, chatVars, threadVars, clientVars, Handled, Goto
<1>0. TypeOK /\ Places /\ ChatsGiven /\ Place(t)
  BY DEF Sound, Places
<1>m. \A kind \in Kinds, v \in Users : /\ Message(kind, v) \in Messages
                                      /\ Message(kind, v).kind = kind
                                      /\ Message(kind, v).subject = v
  BY <1>0, MessageTyped
<1>t. DOMAIN pc = Threads /\ DOMAIN chat = Threads /\ DOMAIN message = Threads
  BY <1>0 DEF TypeOK
<1>1. CASE FindChats(t)
  <2>1. TypeOK'
    BY <1>0, <1>m, <1>1 DEF FindChats, TypeOK, Kinds
  <2>2. Moves(t)
    BY <1>0, <1>1, <1>t DEF FindChats, Moves, TypeOK
  <2>3. Place(t)'
    BY <1>0, <1>m, <1>1, <1>t, <2>1 DEF FindChats, Place, Kinds, StatusKinds
  <2>4. ChatsGiven'
    BY <1>0, <1>1, <1>t DEF FindChats, ChatsGiven, Given
  <2>5. KeepsLock(t)
    BY <1>0, <1>1, <1>t DEF FindChats, KeepsLock, Reads
  <2> QED
    BY <2>1, <2>2, <2>3, <2>4, <2>5, SoundMove
<1>2. CASE LockUser(t)
  <2>1. TypeOK'
    BY <1>0, <1>m, <1>2 DEF LockUser, TypeOK, Kinds
  <2>2. Moves(t)
    BY <1>0, <1>2, <1>t DEF LockUser, Moves, TypeOK
  <2>3. Place(t)'
    BY <1>0, <1>m, <1>2, <1>t, <2>1 DEF LockUser, Place, Kinds, StatusKinds
  <2>4. ChatsGiven'
    BY <1>0, <1>2, <1>t DEF LockUser, ChatsGiven, Given
  <2>5. KeepsLock(t)
    BY <1>0, <1>2, <1>t DEF LockUser, KeepsLock, Reads
  <2> QED
    BY <2>1, <2>2, <2>3, <2>4, <2>5, SoundMove
<1>3. CASE NextChat(t)
  <2> PICK c \in rest[t] :
        /\ rest' = [rest EXCEPT ![t] = @ \ {c}]
        /\ chat' = [chat EXCEPT ![t] = c]
        /\ readers' = [readers EXCEPT ![c] = @ + 1]
        /\ left' = [left EXCEPT ![t] = users[c]]
    BY <1>3 DEF NextChat
  <2> DEFINE now == [message[t] EXCEPT !.info = Info(message[t].subject)]
  <2>0. c \in Chats /\ c \in Given /\ chat'[t] = c
    BY <1>0, <1>t DEF TypeOK, ChatsGiven
  <2>m. now \in Messages /\ now.kind = message[t].kind /\ now.subject = message[t].subject
    <3>1. message[t] \in Messages
      BY <1>0, <1>3 DEF NextChat, Place
    <3>2. message[t].subject \in Users
      BY <3>1 DEF Messages
    <3>3. Info(message[t].subject) \in Infos
      BY <1>0, <3>2 DEF TypeOK, Info, Infos
    <3> QED
      BY <3>1, <3>3 DEF Messages
  <2>n. message' = [message EXCEPT ![t] = now]
    BY <1>3 DEF NextChat
  <2> HIDE DEF now
  <2>1. TypeOK'
    <3>1. /\ rest' \in [Threads -> SUBSET Chats] /\ chat' \in [Threads -> Chats \cup {None}]
          /\ readers' \in [Chats -> Nat] /\ left' \in [Threads -> SUBSET Users]
      BY <1>0, <2>0 DEF TypeOK
    <3>2. message' \in [Threads -> Messages \cup {NoMessage}]
      BY <1>0, <2>m, <2>n DEF TypeOK
    <3> QED
      BY <1>0, <1>3, <3>1, <3>2 DEF NextChat, TypeOK
  <2>2. Moves(t)
    BY <1>0, <1>3, <1>t DEF NextChat, Moves, TypeOK
  <2>3. Place(t)'
    BY <1>0, <1>3, <1>t, <2>0, <2>m, <2>n DEF NextChat, Place, Kinds, StatusKinds
  <2>4. ChatsGiven'
    BY <1>0, <1>3, <1>t, <2>0 DEF NextChat, ChatsGiven, Given
  <2>5. TakesLock(t)
    BY <1>0, <1>3, <1>t, <2>0 DEF NextChat, TakesLock, Reads
  <2> QED
    BY <2>1, <2>2, <2>3, <2>4, <2>5, SoundMove
<1>4. CASE EndStatus(t)
  <2>1. TypeOK'
    BY <1>0, <1>m, <1>4 DEF EndStatus, TypeOK, Kinds
  <2>2. Moves(t)
    BY <1>0, <1>4, <1>t DEF EndStatus, Moves, TypeOK
  <2>3. Place(t)'
    BY <1>0, <1>m, <1>4, <1>t, <2>1 DEF EndStatus, Place, Kinds, StatusKinds, NoMessage, None
  <2>4. ChatsGiven'
    BY <1>0, <1>4, <1>t DEF EndStatus, ChatsGiven, Given
  <2>5. KeepsLock(t)
    BY <1>0, <1>4, <1>t DEF EndStatus, KeepsLock, Reads
  <2> QED
    BY <2>1, <2>2, <2>3, <2>4, <2>5, SoundMove
<1> QED
  BY <1>1, <1>2, <1>3, <1>4 DEF StatusStep

LEMMA MemberSound ==
  ASSUME Sound, requests' = requests, NEW u \in Users,
         AddUser(u) \/ BeginList(u) \/ (\E m \in Users : ReadMember(u, m)) \/ WriteMember(u)
         \/ EndList(u)
  PROVE  Sound'
<1> USE NamesDiffer DEF lockVars, chatVars, threadVars, clientVars, Handled, Goto
<1>0. TypeOK /\ Places /\ ChatsGiven /\ Place(u) /\ u \in Threads
  BY DEF Sound, Places
<1>m. \A kind \in Kinds, v \in Users : /\ Message(kind, v) \in Messages
                                      /\ Message(kind, v).kind = kind
                                      /\ Message(kind, v).subject = v
  BY <1>0, MessageTyped
<1>t. DOMAIN pc = Threads /\ DOMAIN chat = Threads /\ DOMAIN message = Threads
  BY <1>0 DEF TypeOK
<1>1. CASE AddUser(u)
  <2>0. chat[u] \in Chats /\ message[u] \in Messages
    BY <1>0, <1>1 DEF AddUser, Place
  <2>o. opened' \subseteq created
    BY <1>0, <1>1, <2>0 DEF AddUser, TypeOK, ChatsGiven, Given, Chats
  <2>1. TypeOK'
    BY <1>0, <1>m, <1>1, <2>0, <2>o DEF AddUser, TypeOK, Kinds
  <2>2. Moves(u)
    BY <1>0, <1>1, <1>t DEF AddUser, Moves, TypeOK
  <2>3. Place(u)'
    BY <1>0, <1>m, <1>1, <1>t DEF AddUser, Place, Kinds, StatusKinds
  <2>4. ChatsGiven'
    BY <1>0, <1>1, <1>t DEF AddUser, ChatsGiven, Given
  <2>5. KeepsLock(u)
    BY <1>0, <1>1, <1>t DEF AddUser, KeepsLock, Reads
  <2> QED
    BY <1>0, <2>1, <2>2, <2>3, <2>4, <2>5, SoundMove
<1>2. CASE BeginList(u)
  <2>0. chat[u] \in Chats /\ message[u] \in Messages
    BY <1>0, <1>2 DEF BeginList, Place
  <2>1. TypeOK'
    BY <1>0, <1>m, <1>2, <2>0 DEF BeginList, TypeOK, Kinds
  <2>2. Moves(u)
    BY <1>0, <1>2, <1>t DEF BeginList, Moves, TypeOK
  <2>3. Place(u)'
    BY <1>0, <1>m, <1>2, <1>t DEF BeginList, Place, Kinds, StatusKinds
  <2>4. ChatsGiven'
    BY <1>0, <1>2, <1>t DEF BeginList, ChatsGiven, Given
  <2>5. TakesLock(u)
    BY <1>0, <1>2, <1>t, <2>0 DEF BeginList, TakesLock, Reads
  <2> QED
    BY <1>0, <2>1, <2>2, <2>3, <2>4, <2>5, SoundMove
<1>3. ASSUME NEW m \in Users, ReadMember(u, m) PROVE Sound'
  <2>1. TypeOK'
    <3>1. CASE state[m] = "LOGGED_IN"
      <4>1. Message("list", m) \in Messages
        BY <1>m DEF Kinds
      <4>2. /\ message' = [message EXCEPT ![u] = Message("list", m)]
            /\ pc' = [pc EXCEPT ![u] = "list_write"] /\ left' = [left EXCEPT ![u] = @ \ {m}]
        BY <1>3, <3>1 DEF ReadMember
      <4>3. /\ message' \in [Threads -> Messages \cup {NoMessage}]
            /\ left' \in [Threads -> SUBSET Users]
        BY <1>0, <4>1, <4>2 DEF TypeOK
      <4> QED
        BY <1>0, <1>3, <4>2, <4>3 DEF ReadMember, TypeOK
    <3>2. CASE state[m] # "LOGGED_IN"
      BY <1>0, <1>3, <3>2 DEF ReadMember, TypeOK
    <3> QED
      BY <3>1, <3>2
  <2>2. Moves(u)
    BY <1>0, <1>3, <1>t DEF ReadMember, Moves, TypeOK
  <2>3. Place(u)'
    BY <1>0, <1>m, <1>3, <1>t DEF ReadMember, Place, Kinds, StatusKinds
  <2>4. ChatsGiven'
    BY <1>0, <1>3, <1>t DEF ReadMember, ChatsGiven, Given
  <2>5. KeepsLock(u)
    BY <1>0, <1>3, <1>t DEF ReadMember, KeepsLock, Reads
  <2> QED
    BY <1>0, <2>1, <2>2, <2>3, <2>4, <2>5, SoundMove
<1>4. CASE WriteMember(u)
  <2>0. chat[u] \in Chats /\ message[u] \in Messages
    BY <1>0, <1>4 DEF WriteMember, Place
  <2>v. /\ view' \in [Users -> [Chats -> SUBSET Users]]
        /\ known' \in [Users -> [Users -> Infos]]
        /\ unsent' \in [Users -> [Chats -> SUBSET Users]]
        /\ stale' \in [Users -> SUBSET Users]
    BY <1>0, <1>4, <2>0, DeliverTyped DEF WriteMember
  <2>1. TypeOK'
    BY <1>0, <1>m, <1>4, <2>v DEF WriteMember, TypeOK, Kinds
  <2>2. Moves(u)
    BY <1>0, <1>4, <1>t DEF WriteMember, Moves, TypeOK
  <2>3. Place(u)'
    BY <1>0, <1>m, <1>4, <1>t DEF WriteMember, Place, Kinds, StatusKinds
  <2>4. ChatsGiven'
    BY <1>0, <1>4, <1>t DEF WriteMember, ChatsGiven, Given
  <2>5. KeepsLock(u)
    BY <1>0, <1>4, <1>t DEF WriteMember, KeepsLock, Reads
  <2> QED
    BY <1>0, <2>1, <2>2, <2>3, <2>4, <2>5, SoundMove
<1>5. CASE EndList(u)
  <2>0. chat[u] \in Chats /\ readers[chat[u]] > 0
    BY <1>0, <1>5, ReaderCounts DEF EndList, Reads
  <2>1. TypeOK'
    BY <1>0, <1>m, <1>5, <2>0 DEF EndList, TypeOK, Kinds
  <2>2. Moves(u)
    BY <1>0, <1>5, <1>t DEF EndList, Moves, TypeOK
  <2>3. Place(u)'
    BY <1>0, <1>m, <1>5, <1>t DEF EndList, Place, Kinds, StatusKinds
  <2>4. ChatsGiven'
    BY <1>0, <1>5, <1>t DEF EndList, ChatsGiven, Given
  <2>5. GivesLock(u)
    BY <1>0, <1>5, <1>t, <2>0 DEF EndList, GivesLock, Reads
  <2> QED
    BY <1>0, <2>1, <2>2, <2>3, <2>4, <2>5, SoundMove
<1> QED
  BY <1>1, <1>2, <1>3, <1>4, <1>5

LEMMA RemovalSound ==
  ASSUME Sound, requests' = requests, NEW u \in Users,
         RemoveUser(u) \/ CountUsers(u) \/ DropChat(u)
  PROVE  Sound'
<1> USE NamesDiffer DEF lockVars, chatVars, threadVars, clientVars, Handled, Goto
<1>0. TypeOK /\ Places /\ ChatsGiven /\ Place(u) /\ u \in Threads
  BY DEF Sound, Places
<1>m. \A kind \in Kinds, v \in Users : /\ Message(kind, v) \in Messages
                                      /\ Message(kind, v).kind = kind
                                      /\ Message(kind, v).subject = v
  BY <1>0, MessageTyped
<1>t. DOMAIN pc = Threads /\ DOMAIN chat = Threads /\ DOMAIN message = Threads
  BY <1>0 DEF TypeOK
<1>a. AfterRemoval("leave") = "broadcast" /\ AfterRemoval("kick") = "handled"
      /\ AfterRemoval("exit") = "exit_next"
  BY DEF AfterRemoval
<1>k. pc[u] \in {"count", "drop"} =>
        AfterRemoval(message[u].kind) \in {"broadcast", "handled", "exit_next"}
  BY <1>0, <1>a DEF Place
<1>1. CASE RemoveUser(u)
  <2>0. chat[u] \in Chats /\ message[u] \in Messages
    BY <1>0, <1>1 DEF RemoveUser, Place
  <2>1. TypeOK'
    BY <1>0, <1>m, <1>1, <2>0 DEF RemoveUser, TypeOK, Kinds
  <2>2. Moves(u)
    BY <1>0, <1>1, <1>t DEF RemoveUser, Moves, TypeOK
  <2>3. Place(u)'
    BY <1>0, <1>m, <1>1, <1>t DEF RemoveUser, Place, Kinds, StatusKinds
  <2>4. ChatsGiven'
    BY <1>0, <1>1, <1>t DEF RemoveUser, ChatsGiven, Given
  <2>5. KeepsLock(u)
    BY <1>0, <1>1, <1>t DEF RemoveUser, KeepsLock, Reads
  <2> QED
    BY <1>0, <2>1, <2>2, <2>3, <2>4, <2>5, SoundMove
<1>2. CASE CountUsers(u)
  <2>1. TypeOK'
    BY <1>0, <1>m, <1>2, <1>k DEF CountUsers, TypeOK, Kinds
  <2>2. Moves(u)
    BY <1>0, <1>2, <1>t DEF CountUsers, Moves, TypeOK
  <2>3. Place(u)'
    BY <1>0, <1>m, <1>2, <1>t, <1>a DEF CountUsers, Place, Kinds, StatusKinds
  <2>4. ChatsGiven'
    BY <1>0, <1>2, <1>t DEF CountUsers, ChatsGiven, Given
  <2>5. KeepsLock(u)
    BY <1>0, <1>2, <1>t, <1>k DEF CountUsers, KeepsLock, Reads
  <2> QED
    BY <1>0, <2>1, <2>2, <2>3, <2>4, <2>5, SoundMove
<1>3. CASE DropChat(u)
  <2>1. TypeOK'
    BY <1>0, <1>m, <1>3, <1>k DEF DropChat, TypeOK, Kinds
  <2>2. Moves(u)
    BY <1>0, <1>3, <1>t DEF DropChat, Moves, TypeOK
  <2>3. Place(u)'
    BY <1>0, <1>m, <1>3, <1>t, <1>a DEF DropChat, Place, Kinds, StatusKinds
  <2>4. ChatsGiven'
    <3>1. chat[u] # Public
      BY <1>0, <1>3 DEF DropChat, Place
    <3> QED
      BY <1>0, <1>3, <3>1 DEF DropChat, ChatsGiven, Given
  <2>5. KeepsLock(u)
    BY <1>0, <1>3, <1>t, <1>k DEF DropChat, KeepsLock, Reads
  <2> QED
    BY <1>0, <2>1, <2>2, <2>3, <2>4, <2>5, SoundMove
<1> QED
  BY <1>1, <1>2, <1>3

LEMMA EndSound ==
  ASSUME Sound, requests' = requests, NEW u \in Users,
         SkipStatus(u) \/ WakeUp(u) \/ LeaveLoop(u) \/ LockChats(u) \/ RemoveFromNext(u)
         \/ UnlockChats(u) \/ LeaveUsers(u) \/ Disconnect(u) \/ EndTransfer(u)
  PROVE  Sound'
<1> USE NamesDiffer DEF lockVars, chatVars, threadVars, clientVars, Handled, Goto
<1>0. TypeOK /\ Places /\ ChatsGiven /\ Place(u) /\ u \in Threads
  BY DEF Sound, Places
<1>m. \A kind \in Kinds, v \in Users : /\ Message(kind, v) \in Messages
                                      /\ Message(kind, v).kind = kind
                                      /\ Message(kind, v).subject = v
  BY <1>0, MessageTyped
<1>t. DOMAIN pc = Threads /\ DOMAIN chat = Threads /\ DOMAIN message = Threads
  BY <1>0 DEF TypeOK
<1>1. CASE SkipStatus(u)
  <2>1. TypeOK'
    BY <1>0, <1>m, <1>1 DEF SkipStatus, TypeOK, Kinds
  <2>2. Moves(u)
    BY <1>0, <1>1, <1>t DEF SkipStatus, Moves, TypeOK
  <2>3. Place(u)'
    BY <1>0, <1>m, <1>1, <1>t DEF SkipStatus, Place, Kinds, StatusKinds, NoMessage, None
  <2>4. ChatsGiven'
    BY <1>0, <1>1, <1>t DEF SkipStatus, ChatsGiven, Given
  <2>5. KeepsLock(u)
    BY <1>0, <1>1, <1>t DEF SkipStatus, KeepsLock, Reads
  <2> QED
    BY <1>0, <2>1, <2>2, <2>3, <2>4, <2>5, SoundMove
<1>2. CASE WakeUp(u)
  <2>1. TypeOK'
    <3>1. CASE idle[u]
      <4>1. Message("wake", u) \in Messages
        BY <1>m DEF Kinds
      <4>2. /\ message' = [message EXCEPT ![u] = Message("wake", u)]
            /\ pc' = [pc EXCEPT ![u] = "chats"] /\ idle' = [idle EXCEPT ![u] = FALSE]
        BY <1>2, <3>1 DEF WakeUp, StartStatus
      <4>3. message' \in [Threads -> Messages \cup {NoMessage}]
        BY <1>0, <4>1, <4>2 DEF TypeOK
      <4> QED
        BY <1>0, <1>2, <4>2, <4>3 DEF WakeUp, TypeOK
    <3>2. CASE ~idle[u]
      BY <1>0, <1>2, <3>2 DEF WakeUp, TypeOK
    <3> QED
      BY <3>1, <3>2
  <2>2. Moves(u)
    BY <1>0, <1>2, <1>t DEF WakeUp, StartStatus, Moves, TypeOK
  <2>3. Place(u)'
    BY <1>0, <1>m, <1>2, <1>t DEF WakeUp, StartStatus, Place, Kinds, StatusKinds, NoMessage, None
  <2>4. ChatsGiven'
    BY <1>0, <1>2, <1>t DEF WakeUp, StartStatus, ChatsGiven, Given
  <2>5. KeepsLock(u)
    BY <1>0, <1>2, <1>t DEF WakeUp, StartStatus, KeepsLock, Reads
  <2> QED
    BY <1>0, <2>1, <2>2, <2>3, <2>4, <2>5, SoundMove
<1>3. CASE LeaveLoop(u)
  <2>1. TypeOK'
    <3>1. message' \in [Threads -> Messages \cup {NoMessage}]
      BY <1>0, <1>m, <1>3 DEF LeaveLoop, TypeOK, Kinds
    <3>2. chat' \in [Threads -> Chats \cup {None}]
      <4>1. chat' = chat \/ chat' = [chat EXCEPT ![u] = Public]
        BY <1>3 DEF LeaveLoop
      <4>2. Public \in Chats
        BY NamesDiffer
      <4>3. chat \in [Threads -> Chats \cup {None}]
        BY <1>0 DEF TypeOK
      <4> HIDE DEF Chats
      <4> QED
        BY <4>1, <4>2, <4>3
    <3>3. PICK l \in {"broadcast", "exit_lock"} : pc' = [pc EXCEPT ![u] = l]
      BY <1>3 DEF LeaveLoop
    <3>4. pc' \in [Threads -> {"idle", "broadcast", "send", "add", "list", "list_read",
                              "list_write", "remove", "count", "drop", "handled", "chats",
                              "lock", "next_chat", "exit_lock", "exit_next", "gone", "off",
                              "transfer"}]
      BY <1>0, <3>3 DEF TypeOK
    <3>5. UNCHANGED <<state, status, idle, lockVars, chatVars, left, rest, clientVars>>
      BY <1>3 DEF LeaveLoop
    <3> QED
      BY <1>0, <3>1, <3>2, <3>4, <3>5 DEF TypeOK
  <2>2. Moves(u)
    BY <1>0, <1>3, <1>t DEF LeaveLoop, Moves, TypeOK
  <2>3. Place(u)'
    BY <1>0, <1>m, <1>3, <1>t DEF LeaveLoop, Place, Kinds, StatusKinds
  <2>4. ChatsGiven'
    BY <1>0, <1>3, <1>t DEF LeaveLoop, ChatsGiven, Given
  <2>5. KeepsLock(u)
    BY <1>0, <1>3, <1>t DEF LeaveLoop, KeepsLock, Reads
  <2> QED
    BY <1>0, <2>1, <2>2, <2>3, <2>4, <2>5, SoundMove
<1>4. CASE LockChats(u)
  <2>1. TypeOK'
    BY <1>0, <1>m, <1>4 DEF LockChats, TypeOK, Kinds
  <2>2. Moves(u)
    BY <1>0, <1>4, <1>t DEF LockChats, Moves, TypeOK
  <2>3. Place(u)'
    BY <1>0, <1>m, <1>4, <1>t DEF LockChats, Place, Kinds, StatusKinds
  <2>4. ChatsGiven'
    BY <1>0, <1>4, <1>t DEF LockChats, ChatsGiven, Given
  <2>5. KeepsLock(u)
    BY <1>0, <1>4, <1>t DEF LockChats, KeepsLock, Reads
  <2> QED
    BY <1>0, <2>1, <2>2, <2>3, <2>4, <2>5, SoundMove
<1>5. CASE RemoveFromNext(u)
  <2>1. TypeOK'
    BY <1>0, <1>m, <1>5 DEF RemoveFromNext, TypeOK, Kinds
  <2>2. Moves(u)
    BY <1>0, <1>5, <1>t DEF RemoveFromNext, Moves, TypeOK
  <2>3. Place(u)'
    <3>1. chat'[u] \in Chats /\ message' = message /\ state' = state
          /\ pc[u] = "exit_next" /\ pc'[u] = "remove"
      BY <1>0, <1>5, <1>t DEF RemoveFromNext, TypeOK
    <3> QED
      BY <1>0, <3>1 DEF Place, Kinds, StatusKinds
  <2>4. ChatsGiven'
    BY <1>0, <1>5, <1>t DEF RemoveFromNext, ChatsGiven, Given
  <2>5. KeepsLock(u)
    BY <1>0, <1>5, <1>t DEF RemoveFromNext, KeepsLock, Reads
  <2> QED
    BY <1>0, <2>1, <2>2, <2>3, <2>4, <2>5, SoundMove
<1>6. CASE UnlockChats(u)
  <2>1. TypeOK'
    BY <1>0, <1>m, <1>6 DEF UnlockChats, TypeOK, Kinds
  <2>2. Moves(u)
    BY <1>0, <1>6, <1>t DEF UnlockChats, Moves, TypeOK
  <2>3. Place(u)'
    BY <1>0, <1>m, <1>6, <1>t DEF UnlockChats, Place, Kinds, StatusKinds, NoMessage, None
  <2>4. ChatsGiven'
    BY <1>0, <1>6, <1>t DEF UnlockChats, ChatsGiven, Given
  <2>5. KeepsLock(u)
    BY <1>0, <1>6, <1>t DEF UnlockChats, KeepsLock, Reads
  <2> QED
    BY <1>0, <2>1, <2>2, <2>3, <2>4, <2>5, SoundMove
<1>7. CASE LeaveUsers(u)
  <2>1. TypeOK'
    BY <1>0, <1>m, <1>7 DEF LeaveUsers, TypeOK, Kinds
  <2>2. Moves(u)
    BY <1>0, <1>7, <1>t DEF LeaveUsers, Moves, TypeOK
  <2>3. Place(u)'
    BY <1>0, <1>m, <1>7, <1>t DEF LeaveUsers, Place, Kinds, StatusKinds
  <2>4. ChatsGiven'
    BY <1>0, <1>7, <1>t DEF LeaveUsers, ChatsGiven, Given
  <2>5. KeepsLock(u)
    BY <1>0, <1>7, <1>t DEF LeaveUsers, KeepsLock, Reads
  <2> QED
    BY <1>0, <2>1, <2>2, <2>3, <2>4, <2>5, SoundMove
<1>8. CASE Disconnect(u)
  <2>1. TypeOK'
    BY <1>0, <1>m, <1>8 DEF Disconnect, TypeOK, Kinds
  <2>2. Moves(u)
    BY <1>0, <1>8, <1>t DEF Disconnect, Moves, TypeOK
  <2>3. Place(u)'
    BY <1>0, <1>m, <1>8, <1>t DEF Disconnect, Place, Kinds, StatusKinds
  <2>4. ChatsGiven'
    BY <1>0, <1>8, <1>t DEF Disconnect, ChatsGiven, Given
  <2>5. KeepsLock(u)
    BY <1>0, <1>8, <1>t DEF Disconnect, KeepsLock, Reads
  <2> QED
    BY <1>0, <2>1, <2>2, <2>3, <2>4, <2>5, SoundMove
<1>9. CASE EndTransfer(u)
  <2>1. TypeOK'
    BY <1>0, <1>9 DEF EndTransfer, TypeOK
  <2>2. Moves(u)
    BY <1>0, <1>9, <1>t DEF EndTransfer, Moves, TypeOK
  <2>3. Place(u)'
    <3>1. /\ pc'[u] = "handled" /\ message' = message
          /\ state'[u] = "LOGGED_IN" => state[u] = "LOGGED_IN"
      BY <1>0, <1>9, <1>t DEF EndTransfer, TypeOK
    <3> QED
      BY <1>0, <2>2, <3>1 DEF Place, Moves
  <2>4. ChatsGiven'
    BY <1>0, <1>9 DEF EndTransfer, ChatsGiven, Given
  <2>5. KeepsLock(u)
    BY <1>0, <1>9, <1>t DEF EndTransfer, Transferring, KeepsLock, Reads
  <2> QED
    BY <1>0, <2>1, <2>2, <2>3, <2>4, <2>5, SoundMove
<1> QED
  BY <1>1, <1>2, <1>3, <1>4, <1>5, <1>6, <1>7, <1>8, <1>9

LEMMA TimerSound ==
  ASSUME Sound, requests' = requests, NEW u \in Users, MarkIdle(u) PROVE Sound'
<1> USE NamesDiffer DEF lockVars, chatVars, threadVars, clientVars, Handled, Goto
<1>0. TypeOK /\ Places /\ ChatsGiven /\ Place(Timer) /\ Timer \in Threads
  BY DEF Sound, Places
<1>m. \A kind \in Kinds, v \in Users : /\ Message(kind, v) \in Messages
                                      /\ Message(kind, v).kind = kind
                                      /\ Message(kind, v).subject = v
  BY <1>0, MessageTyped
<1>t. DOMAIN pc = Threads /\ DOMAIN chat = Threads /\ DOMAIN message = Threads
  BY <1>0 DEF TypeOK
<1>1. CASE MarkIdle(u)
  <2>1. TypeOK'
    BY <1>0, <1>m, <1>1 DEF MarkIdle, StartStatus, TypeOK, Kinds
  <2>2. Moves(Timer)
    BY <1>0, <1>1, <1>t DEF MarkIdle, StartStatus, Moves, TypeOK
  <2>3. Place(Timer)'
    BY <1>0, <1>m, <1>1, <1>t DEF MarkIdle, StartStatus, Place, Kinds, StatusKinds
  <2>4. ChatsGiven'
    BY <1>0, <1>1, <1>t DEF MarkIdle, StartStatus, ChatsGiven, Given
  <2>5. KeepsLock(Timer)
    BY <1>0, <1>1, <1>t DEF MarkIdle, StartStatus, KeepsLock, Reads
  <2> QED
    BY <1>0, <2>1, <2>2, <2>3, <2>4, <2>5, SoundMove
<1> QED
  BY <1>1

LEMMA SoundStep == ASSUME Sound, [Next]_vars PROVE Sound'
<1>1. CASE UNCHANGED vars
  <2>1. \A c : Reading(c)' = Reading(c)
    BY <1>1 DEF vars, threadVars, Reading
  <2>2. TypeOK'
    BY <1>1 DEF Sound, TypeOK, vars, lockVars, chatVars, threadVars, clientVars
  <2>3. Places'
    BY <1>1 DEF Sound, Places, Place, vars, threadVars
  <2>4. ChatsGiven' /\ Counted'
    BY <1>1, <2>1 DEF Sound, ChatsGiven, Given, Counted, vars, lockVars, chatVars, threadVars
  <2> QED
    BY <2>2, <2>3, <2>4 DEF Sound
<1>2. ASSUME NEW u \in Users, HandlerStep(u), requests' = requests PROVE Sound'
  BY <1>2, MemberSound, RemovalSound, EndSound DEF HandlerStep
<1> QED
  BY <1>1, <1>2, RequestSound, EndSound, TimerSound, BroadcastSound, StatusSound DEF Next

(* Each step keeps the types, the places and the counts of readers.        *)
THEOREM ChatsSound == Spec => []Sound
  BY SoundInit, SoundStep, PTL DEF Spec

(* The variables keep their types: in particular the readers of an array   *)
(* are never fewer than none, whoever gives its lock back.                 *)
THEOREM ChatsTyped == Spec => []TypeOK
<1>1. Sound => TypeOK
  BY DEF Sound
<1> QED
  BY <1>1, ChatsSound, PTL

-----------------------------------------------------------------------------
(* Empty chats.  Somebody is about to count the members of each, or to     *)
(* drop it.                                                                *)
Emptied ==
  \A c \in wd_chats \ {Public} : c \in opened /\ users[c] = {} =>
    \E u \in Users : chat[u] = c /\ pc[u] \in {"count", "drop"}

(* Nobody joins or leaves, and who counts members goes on doing so.        *)
MembersKept ==
  /\ UNCHANGED chatVars
  /\ \A u \in Users : pc[u] \in {"count", "drop"} =>
       chat'[u] = chat[u] /\ pc'[u] \in {"count", "drop"}

InvitationsChange(u) ==
  \E c \in Chats : \/ CreateChat(u, c)
                   \/ \E peer \in Users : InviteUser(u, peer, c) \/ DeclineInvitation(u, peer, c)

LEMMA ThreadsMove ==
  ASSUME Sound, NEW t \in Threads, BroadcastStep(t) \/ StatusStep(t) PROVE MembersKept
<1>1. DOMAIN pc = Threads /\ DOMAIN chat = Threads
  BY DEF Sound, TypeOK
<1>2. CASE BroadcastStep(t)
  BY <1>1, <1>2, NamesDiffer
  DEF BroadcastStep, BeginBroadcast, Send, EndBroadcast, Goto, threadVars, MembersKept
<1>3. CASE StatusStep(t)
  BY <1>1, <1>3, NamesDiffer
  DEF StatusStep, FindChats, LockUser, NextChat, EndStatus, Goto, threadVars, MembersKept
<1> QED
  BY <1>2, <1>3

LEMMA HandlersMove ==
  ASSUME Sound, NEW u \in Users,
         \/ Request(u) /\ ~InvitationsChange(u)
         \/ HandlerStep(u) /\ ~AddUser(u) /\ ~RemoveUser(u) /\ ~CountUsers(u) /\ ~DropChat(u)
         \/ Disconnect(u) \/ MarkIdle(u) \/ EndTransfer(u)
  PROVE  MembersKept
<1>1. DOMAIN pc = Threads /\ DOMAIN chat = Threads
  BY DEF Sound, TypeOK
<1>2. CASE Request(u) /\ ~InvitationsChange(u)
  BY <1>1, <1>2, NamesDiffer
  DEF Request, InvitationsChange, JoinChat, LeaveChat, KickUser, SetStatus, SetIdle, OtherRequest,
      BeginTransfer, StartStatus, Asks, Handled, Goto, threadVars, MembersKept
<1>3. CASE HandlerStep(u) /\ ~AddUser(u) /\ ~RemoveUser(u) /\ ~CountUsers(u) /\ ~DropChat(u)
  BY <1>1, <1>3, NamesDiffer
  DEF HandlerStep, BeginList, ReadMember, WriteMember, EndList, SkipStatus, WakeUp, LeaveLoop,
      LockChats, RemoveFromNext, UnlockChats, LeaveUsers, StartStatus, Handled, Goto, threadVars,
      MembersKept
<1>4. CASE Disconnect(u) \/ MarkIdle(u) \/ EndTransfer(u)
  BY <1>1, <1>4, NamesDiffer
  DEF Disconnect, MarkIdle, EndTransfer, Transferring, StartStatus, Handled, Goto, threadVars,
      MembersKept
<1> QED
  BY <1>2, <1>3, <1>4

LEMMA EmptiedStep == ASSUME Sound, Emptied, [Next]_vars PROVE Emptied'
<1> USE NamesDiffer DEF Emptied, lockVars, chatVars, threadVars, clientVars, Handled, Goto
<1>0. TypeOK /\ Places /\ ChatsGiven
  BY DEF Sound
<1>1. ASSUME MembersKept PROVE Emptied'
  BY <1>1 DEF MembersKept
<1>2. ASSUME NEW u \in Users, InvitationsChange(u) PROVE Emptied'
  <2>0. /\ chat' = chat /\ opened' = opened /\ users' = users
        /\ pc[u] = "idle" /\ pc' = [pc EXCEPT ![u] = "handled"]
    BY <1>2 DEF InvitationsChange, CreateChat, InviteUser, DeclineInvitation, Asks
  <2>1. \A v \in Users : pc[v] \in {"count", "drop"} => pc'[v] = pc[v]
    BY <1>0, <2>0 DEF TypeOK
  <2>2. \A c \in wd_chats' : c \in opened => c \in wd_chats
    BY <1>0, <1>2 DEF InvitationsChange, CreateChat, InviteUser, DeclineInvitation, TypeOK
  <2> QED
    BY <2>0, <2>1, <2>2
<1>3. ASSUME NEW u \in Users, AddUser(u) PROVE Emptied'
  <2>1. users' = [users EXCEPT ![chat[u]] = @ \cup {u}] /\ chat' = chat /\ wd_chats' = wd_chats
    BY <1>3 DEF AddUser
  <2>2. \A v \in Users : pc[v] \in {"count", "drop"} => pc'[v] = pc[v]
    BY <1>0, <1>3 DEF AddUser, TypeOK
  <2>3. \A c \in Chats : c # chat[u] => users'[c] = users[c] /\ (c \in opened' => c \in opened)
    BY <1>0, <1>3, <2>1 DEF AddUser, TypeOK
  <2>4. chat[u] \in Chats => users'[chat[u]] # {}
    BY <1>0, <2>1 DEF TypeOK
  <2>5. wd_chats \subseteq Chats
    BY <1>0 DEF TypeOK
  <2> SUFFICES ASSUME NEW c \in wd_chats \ {Public}, c \in opened', users'[c] = {}
               PROVE  \E v \in Users : chat'[v] = c /\ pc'[v] \in {"count", "drop"}
    BY <2>1
  <2>6. c \in opened /\ users[c] = {}
    BY <2>3, <2>4, <2>5
  <2> QED
    BY <2>1, <2>2, <2>6
<1>4. ASSUME NEW u \in Users, RemoveUser(u) PROVE Emptied'
  <2>1. /\ users' = [users EXCEPT ![chat[u]] = @ \ {message[u].subject}]
        /\ pc' = [pc EXCEPT ![u] = "count"] /\ pc[u] = "remove"
        /\ wd_chats' = wd_chats /\ opened' = opened /\ chat' = chat
    BY <1>4 DEF RemoveUser
  <2>2. \A v \in Users : pc[v] \in {"count", "drop"} => pc'[v] = pc[v]
    BY <1>0, <2>1 DEF TypeOK
  <2>3. pc'[u] = "count"
    BY <1>0, <2>1 DEF TypeOK
  <2>4. \A c \in Chats : c # chat[u] => users'[c] = users[c]
    BY <1>0, <2>1 DEF TypeOK
  <2>5. wd_chats \subseteq Chats
    BY <1>0 DEF TypeOK
  <2> SUFFICES ASSUME NEW c \in wd_chats \ {Public}, c \in opened, users'[c] = {}
               PROVE  \E v \in Users : chat[v] = c /\ pc'[v] \in {"count", "drop"}
    BY <2>1
  <2>6. CASE c = chat[u]
    BY <2>3, <2>6
  <2>7. CASE c # chat[u]
    BY <2>2, <2>4, <2>5, <2>7
  <2> QED
    BY <2>6, <2>7
<1>5. ASSUME NEW u \in Users, CountUsers(u) PROVE Emptied'
  <2>1. /\ chatVars' = chatVars /\ chat' = chat
        /\ \A v \in Users \ {u} : pc'[v] = pc[v]
        /\ chat[u] # Public /\ users[chat[u]] = {} => pc'[u] = "drop"
    BY <1>0, <1>5 DEF CountUsers, TypeOK
  <2> QED
    BY <2>1
<1>6. ASSUME NEW u \in Users, DropChat(u) PROVE Emptied'
  <2>1. /\ wd_chats' = wd_chats \ {chat[u]} /\ users' = users /\ opened' = opened
        /\ chat' = chat /\ \A v \in Users \ {u} : pc'[v] = pc[v]
    BY <1>0, <1>6 DEF DropChat, TypeOK
  <2> QED
    BY <2>1
<1>7. CASE UNCHANGED vars
  BY <1>7 DEF vars
<1> QED
  BY <1>1, <1>2, <1>3, <1>4, <1>5, <1>6, <1>7, ThreadsMove, HandlersMove
  DEF Next, HandlerStep, Request

(* A private chat that everybody has left, was kicked from or disconnected *)
(* from is dropped, whoever counts its members and whenever.               *)
THEOREM EmptyChatsAreDropped == Spec => []EmptyIsDropped
<1>1. Init => Emptied
  BY DEF Init, Emptied
<1>2. Sound /\ Emptied /\ [Next]_vars => Emptied'
  BY EmptiedStep
<1>3. Emptied => EmptyIsDropped
  BY NamesDiffer DEF Emptied, EmptyIsDropped, Quiet
<1> QED
  BY <1>1, <1>2, <1>3, ChatsSound, PTL DEF Spec

-----------------------------------------------------------------------------
(* Status.  A thread that broadcasts a change of a user holds its          *)
(* user_lock, so that what it sends is how the user is.                    *)
Sends(t) == pc[t] = "send" /\ message[t].kind \in StatusKinds
Holds(t) == pc[t] = "next_chat" \/ Sends(t) \/ (t = Timer /\ pc[t] # "idle")

HoldsLock(t)  == Holds(t) => user_lock[message[t].subject] = t
SendsFresh(t) == Sends(t) => message[t].info = Info(message[t].subject)

(* Who never joins is on no chat but the public one.                       *)
Settled == \A c \in Private : users[c] \subseteq Joiners

(* The thread has still to tell member m of the public chat about u.       *)
Coming(t, m, u) ==
  /\ message[t].subject = u
  /\ \/ pc[t] = "chats"
     \/ pc[t] \in {"lock", "next_chat"} /\ Public \in rest[t]
     \/ Sends(t) /\ (Public \in rest[t] \/ (chat[t] = Public /\ m \in left[t]))

(* Who does not know how another member is will be told, by that member's  *)
(* own thread or by the timer, unless the last message was withheld.       *)
Members == (users[Public] \cap LoggedIn) \ Joiners
Knows(m, u) == u \in stale[m] \/ known[m][u] = Info(u)
Told ==
  \A m, u \in Users : {m, u} \subseteq Members =>
    Knows(m, u) \/ \E t \in {u, Timer} : Coming(t, m, u)

Known == /\ \A t \in Threads : HoldsLock(t) /\ SendsFresh(t)
         /\ Settled /\ Told

(* A thread moves.  It changes no user whose lock another one holds, takes *)
(* no lock from another, and adds to a chat only users who may join.       *)
Steps(t) ==
  /\ Moves(t) /\ LoggedIn' \subseteq LoggedIn
  /\ \A c \in Chats : users'[c] \ Joiners \subseteq users[c]
  /\ \A t2 \in Threads \ {t} : left'[t2] = left[t2] /\ rest'[t2] = rest[t2]
  /\ \A v \in Users : user_lock[v] \in Threads \ {t} =>
       user_lock'[v] = user_lock[v] /\ status'[v] = status[v] /\ idle'[v] = idle[v]

(* What the members know stays as it was, but for what the thread itself   *)
(* has still to tell.                                                      *)
Tells(t) ==
  \A m, v \in Users : {m, v} \subseteq Members' =>
    \/ Knows(m, v)'
    \/ t \in {v, Timer} /\ Coming(t, m, v)'
    \/ ~Knows(m, v) /\ (t \in {v, Timer} => ~Coming(t, m, v))

LEMMA SubjectTyped ==
  ASSUME Sound PROVE \A t \in Threads : Holds(t) => message[t].subject \in Users
  BY DEF Sound, Places, Place, Holds, Sends, Messages

LEMMA MembersShrink ==
  ASSUME Sound, NEW t \in Threads, Steps(t)
  PROVE  Joiners' = Joiners /\ Members' \subseteq Members
<1>1. Joiners' = Joiners
  BY DEF Joiners, Steps, Moves
<1>2. users'[Public] \ Joiners \subseteq users[Public]
  BY NamesDiffer DEF Steps
<1> QED
  BY <1>1, <1>2 DEF Members, Steps

LEMMA KnownMove ==
  ASSUME Sound, Known, NEW t \in Threads, Steps(t), HoldsLock(t)', SendsFresh(t)', Tells(t)
  PROVE  Known'
<1>1. Joiners' = Joiners /\ Members' \subseteq Members
  BY MembersShrink
<1>2. ASSUME NEW t2 \in Threads, t2 # t
      PROVE  HoldsLock(t2)' /\ SendsFresh(t2)'
  <2>1. pc'[t2] = pc[t2] /\ message'[t2] = message[t2]
    BY <1>2 DEF Steps, Moves
  <2>2. CASE ~Holds(t2)
    BY <2>1, <2>2 DEF HoldsLock, SendsFresh, Holds, Sends
  <2>3. CASE Holds(t2)
    <3>1. message[t2].subject \in Users /\ user_lock[message[t2].subject] = t2
      BY <2>3, SubjectTyped DEF Known, HoldsLock
    <3>2. /\ user_lock'[message[t2].subject] = t2
          /\ status'[message[t2].subject] = status[message[t2].subject]
          /\ idle'[message[t2].subject] = idle[message[t2].subject]
      BY <1>2, <3>1 DEF Steps
    <3>3. Info(message[t2].subject)' = [status |-> status[message[t2].subject],
                                        idle |-> idle[message[t2].subject]]
      BY <2>1, <3>2 DEF Info
    <3>4. Sends(t2)' => message'[t2].info = Info(message[t2].subject)
      BY <2>1 DEF Known, SendsFresh, Sends
    <3> QED
      BY <2>1, <3>2, <3>3, <3>4 DEF HoldsLock, SendsFresh, Info
  <2> QED
    BY <2>2, <2>3
<1>3. Settled'
  BY <1>1 DEF Settled, Known, Steps, Chats
<1>4. Told'
  <2> SUFFICES ASSUME NEW m \in Users, NEW v \in Users, {m, v} \subseteq Members',
                      ~Knows(m, v)', ~(t \in {v, Timer} /\ Coming(t, m, v)')
               PROVE  \E t2 \in {v, Timer} : Coming(t2, m, v)'
    BY DEF Told
  <2>1. ~Knows(m, v) /\ (t \in {v, Timer} => ~Coming(t, m, v))
    BY DEF Tells
  <2>2. PICK t2 \in {v, Timer} : Coming(t2, m, v)
    BY <1>1, <2>1 DEF Known, Told
  <2>3. t2 # t /\ t2 \in Threads
    BY <2>1, <2>2, NamesDiffer
  <2> QED
    BY <2>2, <2>3 DEF Coming, Sends, Steps, Moves
<1> QED
  BY <1>2, <1>3, <1>4 DEF Known

(* A thread that broadcasts no status tells no member about one.           *)
Active(t) == pc[t] \in {"chats", "lock", "next_chat"} \/ Sends(t)
Aside(u)  == Steps(u) /\ ~Active(u) /\ ~Active(u)'

LEMMA AsideKnown ==
  ASSUME Sound, Known, NEW u \in Users, Aside(u),
         \A m, v \in Users \ Joiners : Knows(m, v) => Knows(m, v)'
  PROVE  Known'
<1>1. u \in Threads /\ u # Timer
  BY NamesDiffer
<1>2. HoldsLock(u)' /\ SendsFresh(u)'
  BY <1>1 DEF Aside, Active, HoldsLock, SendsFresh, Holds, Sends
<1>3. ~Holds(u) /\ ~Holds(u)'
  BY <1>1 DEF Aside, Active, Holds, Sends
<1>4. Members' \subseteq Users \ Joiners
  BY <1>1, MembersShrink DEF Aside, Members, LoggedIn
<1>5. \A m, v : ~Coming(u, m, v)
  BY DEF Aside, Active, Coming
<1>6. Tells(u)
  BY <1>4, <1>5 DEF Tells
<1> QED
  BY <1>1, <1>2, <1>6, KnownMove DEF Aside

LEMMA MemberAside ==
  ASSUME Sound, requests' = requests, NEW u \in Users,
         \/ AddUser(u) \/ BeginList(u) \/ (\E m \in Users : ReadMember(u, m)) \/ WriteMember(u)
         \/ EndList(u) \/ RemoveUser(u) \/ CountUsers(u) \/ DropChat(u)
  PROVE  Aside(u)
<1> USE NamesDiffer DEF lockVars, chatVars, threadVars, clientVars, Handled, Goto
<1>0. TypeOK /\ Place(u) /\ u \in Threads
  BY DEF Sound, Places
<1>1. DOMAIN pc = Threads /\ DOMAIN chat = Threads /\ DOMAIN message = Threads
  BY <1>0 DEF TypeOK
<1>2. Moves(u) /\ UNCHANGED <<state, status, idle, user_lock>>
  BY <1>0, <1>1
  DEF AddUser, BeginList, ReadMember, WriteMember, EndList, RemoveUser, CountUsers, DropChat, Moves
<1>3. ~Active(u)
  BY <1>0
  DEF AddUser, BeginList, ReadMember, WriteMember, EndList, RemoveUser, CountUsers, DropChat,
      Active, Sends
<1>4. ~Active(u)'
  <2>1. pc'[u] \notin {"chats", "lock", "next_chat", "send"}
    <3>1. CASE CountUsers(u) \/ DropChat(u)
      BY <1>0, <1>1, <3>1 DEF CountUsers, DropChat, AfterRemoval, Place
    <3>2. CASE ~CountUsers(u) /\ ~DropChat(u)
      BY <1>0, <1>1, <3>2 DEF AddUser, BeginList, ReadMember, WriteMember, EndList, RemoveUser
    <3> QED
      BY <3>1, <3>2
  <2> QED
    BY <2>1 DEF Active, Sends
<1>5. \A t \in Threads \ {u} : left'[t] = left[t] /\ rest'[t] = rest[t]
  BY <1>0
  DEF AddUser, BeginList, ReadMember, WriteMember, EndList, RemoveUser, CountUsers, DropChat, TypeOK
<1>6. \A c \in Chats : users'[c] \ Joiners \subseteq users[c]
  <2>1. CASE AddUser(u)
    <3>1. u \in Joiners
      BY <1>0, <2>1 DEF AddUser, Place, Joiners
    <3> QED
      BY <1>0, <2>1, <3>1 DEF AddUser, TypeOK
  <2>2. CASE RemoveUser(u)
    BY <1>0, <2>2 DEF RemoveUser, TypeOK
  <2>3. CASE ~AddUser(u) /\ ~RemoveUser(u)
    BY <2>3 DEF BeginList, ReadMember, WriteMember, EndList, CountUsers, DropChat
  <2> QED
    BY <2>1, <2>2, <2>3
<1> QED
  BY <1>2, <1>3, <1>4, <1>5, <1>6 DEF Aside, Steps, LoggedIn

LEMMA HandlerAside ==
  ASSUME Sound, requests' = requests, NEW u \in Users,
         \/ Request(u) /\ ~SetStatus(u) /\ ~SetIdle(u)
         \/ WakeUp(u) /\ ~idle[u]
         \/ LeaveLoop(u) \/ LockChats(u) \/ RemoveFromNext(u) \/ UnlockChats(u) \/ LeaveUsers(u)
         \/ EndTransfer(u)
  PROVE  Aside(u) /\ UNCHANGED <<status, idle, known, stale>>
<1> USE NamesDiffer DEF lockVars, chatVars, threadVars, clientVars, Handled, Goto, Asks
<1>0. TypeOK /\ Place(u) /\ u \in Threads
  BY DEF Sound, Places
<1>1. DOMAIN pc = Threads /\ DOMAIN chat = Threads /\ DOMAIN message = Threads
  BY <1>0 DEF TypeOK
<1>2. CASE Request(u) /\ ~SetStatus(u) /\ ~SetIdle(u)
  <2>1. UNCHANGED <<state, status, idle, user_lock, known, stale, users, left, rest>>
    BY <1>2 DEF Request, JoinChat, LeaveChat, KickUser, CreateChat, InviteUser, DeclineInvitation,
                OtherRequest, BeginTransfer
  <2>2. Moves(u)
    BY <1>0, <1>1, <1>2 DEF Request, JoinChat, LeaveChat, KickUser, CreateChat, InviteUser,
                            DeclineInvitation, OtherRequest, BeginTransfer, Moves
  <2>3. pc[u] = "idle" /\ pc'[u] \in {"broadcast", "remove", "handled", "transfer"}
    BY <1>0, <1>1, <1>2 DEF Request, JoinChat, LeaveChat, KickUser, CreateChat, InviteUser,
                            DeclineInvitation, OtherRequest, BeginTransfer
  <2> QED
    BY <2>1, <2>2, <2>3 DEF Aside, Steps, Active, Sends, LoggedIn
<1>3. CASE WakeUp(u) /\ ~idle[u]
  <2>1. UNCHANGED <<state, status, idle, user_lock, known, stale, users, left, rest>>
    BY <1>3 DEF WakeUp
  <2>2. Moves(u) /\ pc[u] = "handled" /\ pc'[u] = "idle"
    BY <1>0, <1>1, <1>3 DEF WakeUp, Moves
  <2> QED
    BY <2>1, <2>2 DEF Aside, Steps, Active, Sends, LoggedIn
<1>4. CASE LeaveLoop(u) \/ LockChats(u) \/ RemoveFromNext(u) \/ UnlockChats(u) \/ LeaveUsers(u)
  <2>1. UNCHANGED <<status, idle, user_lock, known, stale, users, left>>
    BY <1>4 DEF LeaveLoop, LockChats, RemoveFromNext, UnlockChats, LeaveUsers
  <2>s. \A t \in Users : state'[t] = "LOGGED_IN" => state[t] = "LOGGED_IN"
    BY <1>0, <1>4 DEF LeaveLoop, LockChats, RemoveFromNext, UnlockChats, LeaveUsers, TypeOK
  <2>2. Moves(u) /\ LoggedIn' \subseteq LoggedIn
    <3>1. \A t \in Threads \ {u} :
            pc'[t] = pc[t] /\ chat'[t] = chat[t] /\ message'[t] = message[t]
      BY <1>0, <1>1, <1>4
      DEF LeaveLoop, LockChats, RemoveFromNext, UnlockChats, LeaveUsers
    <3> QED
      BY <2>s, <3>1 DEF Moves, LoggedIn
  <2>3. /\ pc[u] \in {"idle", "exit_lock", "exit_next", "gone"}
        /\ pc'[u] \in {"broadcast", "exit_lock", "exit_next", "remove", "gone", "off"}
    BY <1>0, <1>1, <1>4 DEF LeaveLoop, LockChats, RemoveFromNext, UnlockChats, LeaveUsers
  <2>4. \A t \in Threads \ {u} : rest'[t] = rest[t]
    BY <1>0, <1>4 DEF LeaveLoop, LockChats, RemoveFromNext, UnlockChats, LeaveUsers, TypeOK
  <2> QED
    BY <2>1, <2>2, <2>3, <2>4 DEF Aside, Steps, Active, Sends
<1>5. CASE EndTransfer(u)
  <2>1. /\ UNCHANGED <<status, idle, user_lock, known, stale, users, left, rest, chat, message>>
        /\ pc[u] = "transfer" /\ pc' = [pc EXCEPT ![u] = "handled"]
        /\ state' = state \/ state' = [state EXCEPT ![u] = "DISCONNECTED"]
    BY <1>5 DEF EndTransfer, Transferring
  <2>2. \A t \in Users : state'[t] = "LOGGED_IN" => state[t] = "LOGGED_IN"
    BY <1>0, <2>1 DEF TypeOK
  <2>3. pc'[u] = "handled" /\ \A t \in Threads \ {u} : pc'[t] = pc[t]
    BY <1>1, <2>1
  <2> QED
    BY <2>1, <2>2, <2>3 DEF Aside, Steps, Moves, Active, Sends, LoggedIn
<1> QED
  BY <1>2, <1>3, <1>4, <1>5

(* What a member makes of one message of a broadcast.                      *)
LEMMA SendNews ==
  ASSUME TypeOK, NEW t \in Threads, NEW n \in Users, Send(t, n), message[t] \in Messages
  PROVE  /\ ~Informs(message[t]) => UNCHANGED <<known, stale>>
         /\ \A m, v \in Users : m # n \/ v # message[t].subject =>
              /\ known'[m][v] = known[m][v]
              /\ v \in stale'[m] <=> v \in stale[m]
         /\ state[n] = "LOGGED_IN" /\ Informs(message[t]) =>
              \/ message[t].subject \in stale'[n]
              \/ known'[n][message[t].subject] = message[t].info
<1> DEFINE v0 == message[t].subject
<1>0. v0 \in Users /\ n \in DOMAIN stale /\ DOMAIN known = Users /\ DOMAIN known[n] = Users
  BY DEF TypeOK, Messages
<1>1. CASE ~Informs(message[t])
  <2>1. known' = known /\ (stale' = stale \/ stale' = [stale EXCEPT ![n] = stale[n]])
    BY <1>1 DEF Send, Deliver, Withhold, clientVars
  <2>2. stale' = stale
    BY <2>1 DEF TypeOK
  <2> QED
    BY <1>1, <2>1, <2>2
<1>2. CASE Informs(message[t]) /\ state[n] # "LOGGED_IN"
  BY <1>2 DEF Send, clientVars
<1>3. CASE Informs(message[t]) /\ state[n] = "LOGGED_IN"
  <2>1. \/ /\ known' = [known EXCEPT ![n][v0] = message[t].info]
           /\ stale' = [stale EXCEPT ![n] = @ \ {v0}]
        \/ known' = known /\ stale' = [stale EXCEPT ![n] = @ \cup {v0}]
    BY <1>3 DEF Send, Deliver, Withhold
  <2>2. \A m, v \in Users : m # n \/ v # v0 =>
          known'[m][v] = known[m][v] /\ (v \in stale'[m] <=> v \in stale[m])
    BY <1>0, <2>1 DEF TypeOK
  <2>3. v0 \in stale'[n] \/ known'[n][v0] = message[t].info
    BY <1>0, <2>1
  <2> QED
    BY <1>3, <2>2, <2>3
<1> QED
  BY <1>1, <1>2, <1>3

(* Broadcasts of anything but a status, and of a status.                   *)
LEMMA BroadcastKnown ==
  ASSUME Sound, Known, requests' = requests, NEW t \in Threads, BroadcastStep(t)
  PROVE  Known'
<1> USE NamesDiffer DEF lockVars, chatVars, threadVars, clientVars, Goto
<1>0. TypeOK /\ Place(t)
  BY DEF Sound, Places
<1>1. DOMAIN pc = Threads /\ DOMAIN chat = Threads /\ DOMAIN message = Threads
      /\ DOMAIN left = Threads
  BY <1>0 DEF TypeOK
<1>2. UNCHANGED <<state, status, idle, user_lock, users, message, rest, chat>>
  BY DEF BroadcastStep, BeginBroadcast, Send, EndBroadcast
<1>3. Steps(t)
  <2>1. \A t2 \in Threads \ {t} : pc'[t2] = pc[t2] /\ left'[t2] = left[t2]
    BY <1>1 DEF BroadcastStep, BeginBroadcast, Send, EndBroadcast
  <2> QED
    BY <1>2, <2>1 DEF Steps, Moves, LoggedIn
<1>4. CASE Sends(t)
  <2>1. message[t] \in Messages /\ message[t].subject \in Users /\ message[t].kind \in StatusKinds
    BY <1>0, <1>4 DEF Sends, Place, Messages
  <2>2. user_lock[message[t].subject] = t /\ message[t].info = Info(message[t].subject)
    BY <1>4 DEF Known, HoldsLock, SendsFresh, Holds
  <2>3. pc'[t] \in {"send", "next_chat"}
    BY <1>1, <1>4, <2>1
    DEF Sends, BroadcastStep, BeginBroadcast, Send, EndBroadcast, AfterBroadcast, StatusKinds
  <2>4. HoldsLock(t)' /\ SendsFresh(t)'
    BY <1>2, <2>2 DEF HoldsLock, SendsFresh, Info
  <2>5. CASE EndBroadcast(t)
    <3>1. left[t] = {} /\ known' = known /\ stale' = stale /\ pc'[t] = "next_chat"
      BY <1>1, <2>3, <2>5 DEF EndBroadcast, AfterBroadcast, StatusKinds
    <3>2. Tells(t)
      BY <1>2, <1>4, <3>1 DEF Tells, Knows, Coming, Info, Sends
    <3> QED
      BY <1>3, <2>4, <3>2, KnownMove
  <2>6. ASSUME NEW n \in Users, Send(t, n) PROVE Known'
    <3>1. pc' = pc /\ left'[t] = left[t] \ {n}
      BY <1>1, <2>6 DEF Send
    <3>2. Informs(message[t])
      BY <2>1 DEF Informs, StatusKinds
    <3>3. /\ \A m, v \in Users : m # n \/ v # message[t].subject =>
               known'[m][v] = known[m][v] /\ (v \in stale'[m] <=> v \in stale[m])
          /\ state[n] = "LOGGED_IN" => \/ message[t].subject \in stale'[n]
                                       \/ known'[n][message[t].subject] = message[t].info
      BY <1>0, <2>1, <2>6, <3>2, SendNews
    <3>i. \A v \in Users : Info(v)' = Info(v)
      BY <1>2 DEF Info
    <3>4. ASSUME NEW m \in Users, NEW v \in Users, {m, v} \subseteq Members'
          PROVE  \/ Knows(m, v)'
                 \/ t \in {v, Timer} /\ Coming(t, m, v)'
                 \/ ~Knows(m, v) /\ (t \in {v, Timer} => ~Coming(t, m, v))
      <4>1. state[m] = "LOGGED_IN"
        BY <1>2, <3>4 DEF Members, LoggedIn
      <4>2. CASE m = n /\ v = message[t].subject
        BY <2>2, <3>3, <3>i, <4>1, <4>2 DEF Knows
      <4>3. CASE m # n \/ v # message[t].subject
        <5>1. Knows(m, v)' = Knows(m, v)
          BY <3>3, <3>i, <4>3 DEF Knows
        <5>2. Coming(t, m, v) => Coming(t, m, v)'
          BY <1>2, <3>1, <4>3 DEF Coming, Sends
        <5> QED
          BY <5>1, <5>2
      <4> QED
        BY <4>2, <4>3
    <3>5. Tells(t)
      BY <3>4 DEF Tells
    <3> QED
      BY <1>3, <2>4, <3>5, KnownMove
  <2> QED
    BY <1>4, <2>5, <2>6 DEF BroadcastStep, BeginBroadcast, Sends
<1>5. CASE ~Sends(t)
  <2>1. t \in Users
    BY <1>0, <1>5 DEF BroadcastStep, BeginBroadcast, Send, EndBroadcast, Sends, Place, Threads,
                      StatusKinds, Messages, Kinds, None
  <2>2. message[t] \in Messages /\ message[t].kind \notin StatusKinds
    BY <1>0, <1>5 DEF BroadcastStep, BeginBroadcast, Send, EndBroadcast, Sends, Place, StatusKinds
  <2>3. ~Active(t)
    BY <1>5 DEF BroadcastStep, BeginBroadcast, Send, EndBroadcast, Active
  <2>4. ~Active(t)'
    <3>1. message[t].kind \in {"join", "leave", "kick", "exit", "list"}
      BY <2>2 DEF Messages, Kinds, StatusKinds
    <3>2. \/ pc'[t] = "send"
          \/ pc'[t] = AfterBroadcast(message[t].kind) /\ pc[t] = "send"
      BY <1>1 DEF BroadcastStep, BeginBroadcast, Send, EndBroadcast
    <3>3. pc[t] = "send" => message[t].kind # "list"
      BY <1>0 DEF Place
    <3>4. pc'[t] \notin {"chats", "lock", "next_chat"}
      BY <3>1, <3>2, <3>3 DEF AfterBroadcast
    <3> QED
      BY <1>2, <2>2, <3>4 DEF Active, Sends
  <2>5. \A m, v \in Users \ Joiners :
          known'[m][v] = known[m][v] /\ (v \in stale'[m] <=> v \in stale[m])
    <3>1. CASE BeginBroadcast(t) \/ EndBroadcast(t)
      BY <3>1 DEF BeginBroadcast, EndBroadcast
    <3>2. ASSUME NEW n \in Users, Send(t, n)
          PROVE  \A m, v \in Users \ Joiners :
                   known'[m][v] = known[m][v] /\ (v \in stale'[m] <=> v \in stale[m])
      <4>1. CASE ~Informs(message[t])
        BY <1>0, <2>2, <3>2, <4>1, SendNews
      <4>2. CASE Informs(message[t])
        <5>1. message[t].kind = "join"
          BY <1>0, <2>2, <3>2, <4>2 DEF Send, Place, Informs, Messages, Kinds, StatusKinds
        <5>2. message[t].subject \in Joiners
          BY <1>0, <2>1, <5>1 DEF Place, Joiners
        <5> QED
          BY <1>0, <2>2, <3>2, <5>2, SendNews
      <4> QED
        BY <4>1, <4>2
    <3> QED
      BY <3>1, <3>2 DEF BroadcastStep
  <2> QED
    BY <1>2, <1>3, <2>1, <2>3, <2>4, <2>5, AsideKnown DEF Aside, Knows, Info
<1> QED
  BY <1>4, <1>5

LEMMA StatusKnown ==
  ASSUME Sound, Known, requests' = requests, NEW t \in Threads, StatusStep(t)
  PROVE  Known'
<1> USE NamesDiffer DEF lockVars, chatVars, threadVars, clientVars, Goto
<1>0. TypeOK /\ Place(t) /\ ChatsGiven
  BY DEF Sound, Places
<1>1. DOMAIN pc = Threads /\ DOMAIN chat = Threads /\ DOMAIN message = Threads
      /\ DOMAIN left = Threads /\ DOMAIN rest = Threads /\ DOMAIN user_lock = Users
  BY <1>0 DEF TypeOK
<1>2. UNCHANGED <<state, status, idle, users, known, stale>>
  BY DEF StatusStep, FindChats, LockUser, NextChat, EndStatus
<1>3. /\ message[t] \in Messages /\ message[t].subject \in Users
      /\ message[t].kind \in StatusKinds
  BY <1>0 DEF StatusStep, FindChats, LockUser, NextChat, EndStatus, Place, Messages
<1>4. Steps(t)
  <2>1. \A t2 \in Threads \ {t} :
          /\ pc'[t2] = pc[t2] /\ left'[t2] = left[t2] /\ rest'[t2] = rest[t2]
          /\ chat'[t2] = chat[t2] /\ message'[t2] = message[t2]
    BY <1>1 DEF StatusStep, FindChats, LockUser, NextChat, EndStatus
  <2>2. \A v \in Users : user_lock[v] \in Threads \ {t} => user_lock'[v] = user_lock[v]
    <3>1. CASE LockUser(t)
      BY <1>1, <3>1 DEF LockUser, CanLock
    <3>2. CASE EndStatus(t)
      <4>1. user_lock[message[t].subject] = t
        BY <3>2 DEF EndStatus, Known, HoldsLock, Holds
      <4> QED
        BY <1>1, <3>2, <4>1 DEF EndStatus
    <3>3. CASE FindChats(t) \/ NextChat(t)
      BY <3>3 DEF FindChats, NextChat
    <3> QED
      BY <3>1, <3>2, <3>3 DEF StatusStep
  <2> QED
    BY <1>2, <2>1, <2>2 DEF Steps, Moves, LoggedIn
<1>5. Members' = Members
  BY <1>2, <1>4, MembersShrink DEF Members, LoggedIn
<1>6. CASE FindChats(t)
  <2>1. pc[t] = "chats" /\ pc'[t] = "lock" /\ message' = message /\ user_lock' = user_lock
        /\ rest'[t] = {c \in wd_chats : message[t].subject \in users[c]}
    BY <1>1, <1>6 DEF FindChats
  <2>2. HoldsLock(t)' /\ SendsFresh(t)'
    BY <2>1 DEF HoldsLock, SendsFresh, Known, Holds, Sends
  <2>3. \A m, v \in Users : v \in Members /\ Coming(t, m, v) => Coming(t, m, v)'
    BY <1>0, <2>1 DEF Coming, Members, ChatsGiven
  <2>4. Tells(t)
    BY <1>2, <1>5, <2>3 DEF Tells, Knows, Info
  <2> QED
    BY <1>4, <2>2, <2>4, KnownMove
<1>7. CASE LockUser(t)
  <2>1. pc[t] = "lock" /\ pc'[t] = "next_chat" /\ message' = message /\ rest' = rest
        /\ user_lock'[message[t].subject] = t
    BY <1>1, <1>3, <1>7 DEF LockUser
  <2>2. HoldsLock(t)' /\ SendsFresh(t)'
    BY <2>1 DEF HoldsLock, SendsFresh, Sends
  <2>3. \A m, v \in Users : Coming(t, m, v) => Coming(t, m, v)'
    BY <2>1 DEF Coming, Sends
  <2>4. Tells(t)
    BY <1>2, <2>3 DEF Tells, Knows, Info
  <2> QED
    BY <1>4, <2>2, <2>4, KnownMove
<1>8. CASE NextChat(t)
  <2>1. PICK c \in rest[t] : /\ rest'[t] = rest[t] \ {c} /\ chat'[t] = c
                             /\ left'[t] = users[c]
    BY <1>1, <1>8 DEF NextChat
  <2>2. /\ pc[t] = "next_chat" /\ pc'[t] = "send" /\ user_lock' = user_lock
        /\ message'[t] = [message[t] EXCEPT !.info = Info(message[t].subject)]
    BY <1>1, <1>8 DEF NextChat
  <2>3. /\ message'[t].subject = message[t].subject /\ message'[t].kind = message[t].kind
        /\ message'[t].info = Info(message[t].subject)
    BY <1>3, <2>2 DEF Messages
  <2>4. HoldsLock(t)' /\ SendsFresh(t)'
    BY <1>2, <2>2, <2>3 DEF HoldsLock, SendsFresh, Known, Holds, Sends, Info
  <2>5. \A m, v \in Users : m \in Members /\ Coming(t, m, v) => Coming(t, m, v)'
    BY <1>3, <2>1, <2>2, <2>3 DEF Coming, Sends, Members
  <2>6. Tells(t)
    BY <1>2, <1>5, <2>5 DEF Tells, Knows, Info
  <2> QED
    BY <1>4, <2>4, <2>6, KnownMove
<1>9. CASE EndStatus(t)
  <2>1. pc[t] = "next_chat" /\ rest[t] = {} /\ pc'[t] \in {"handled", "idle"}
    BY <1>1, <1>9 DEF EndStatus
  <2>2. t = Timer => pc'[t] = "idle"
    BY <1>0, <1>1, <1>9 DEF EndStatus, Place, None
  <2>3. HoldsLock(t)' /\ SendsFresh(t)'
    BY <2>1, <2>2 DEF HoldsLock, SendsFresh, Holds, Sends
  <2>4. \A m, v : ~Coming(t, m, v)
    BY <2>1 DEF Coming, Sends
  <2>5. Tells(t)
    BY <1>2, <2>4 DEF Tells, Knows, Info
  <2> QED
    BY <1>4, <2>3, <2>5, KnownMove
<1> QED
  BY <1>6, <1>7, <1>8, <1>9 DEF StatusStep

(* A user is changed, by its own thread or by the timer.                   *)
LEMMA ChangeKnown ==
  ASSUME Sound, Known, requests' = requests, NEW u \in Users,
         SetStatus(u) \/ SetIdle(u) \/ (WakeUp(u) /\ idle[u]) \/ MarkIdle(u)
  PROVE  Known'
<1> USE NamesDiffer DEF lockVars, chatVars, threadVars, clientVars, Goto, StartStatus, Asks
<1>0. TypeOK
  BY DEF Sound
<1>1. DOMAIN pc = Threads /\ DOMAIN chat = Threads /\ DOMAIN message = Threads
      /\ DOMAIN status = Users /\ DOMAIN idle = Users /\ DOMAIN user_lock = Users
  BY <1>0 DEF TypeOK
<1>2. UNCHANGED <<state, users, known, stale, left, rest>>
  BY DEF SetStatus, SetIdle, WakeUp, MarkIdle
<1>3. \A v \in Users \ {u} : status'[v] = status[v] /\ idle'[v] = idle[v]
  BY <1>1 DEF SetStatus, SetIdle, WakeUp, MarkIdle
<1>4. PICK t \in {u, Timer} :
        /\ pc[t] \in {"idle", "handled"} /\ pc'[t] = "chats" /\ user_lock[u] \in {None, t}
        /\ message'[t].subject = u
        /\ \A t2 \in Threads \ {t} :
             pc'[t2] = pc[t2] /\ message'[t2] = message[t2] /\ chat'[t2] = chat[t2]
        /\ \A v \in Users \ {u} : user_lock'[v] = user_lock[v]
        /\ t = Timer => user_lock'[u] = t
  <2>1. CASE SetStatus(u) \/ SetIdle(u) \/ (WakeUp(u) /\ idle[u])
    BY <1>1, <2>1 DEF SetStatus, SetIdle, WakeUp, CanLock, Message
  <2>2. CASE MarkIdle(u)
    BY <1>1, <2>2 DEF MarkIdle, CanLock, Message
  <2> QED
    BY <2>1, <2>2
<1>5. Steps(t)
  <2>1. Moves(t) /\ LoggedIn' = LoggedIn
    BY <1>2, <1>4 DEF Moves, LoggedIn
  <2>2. user_lock[u] \notin Threads \ {t}
    BY <1>4
  <2> QED
    BY <1>2, <1>3, <1>4, <2>1, <2>2 DEF Steps
<1>6. HoldsLock(t)' /\ SendsFresh(t)'
  BY <1>4 DEF HoldsLock, SendsFresh, Holds, Sends
<1>7. Tells(t)
  <2>1. \A m, v : ~Coming(t, m, v)
    BY <1>4 DEF Coming, Sends
  <2>2. \A m : Coming(t, m, u)'
    BY <1>4 DEF Coming
  <2>3. \A v \in Users \ {u} : Info(v)' = Info(v)
    BY <1>3 DEF Info
  <2> QED
    BY <1>2, <1>4, <2>1, <2>2, <2>3 DEF Tells, Knows
<1> QED
  BY <1>4, <1>5, <1>6, <1>7, KnownMove

LEMMA DisconnectKnown ==
  ASSUME Sound, Known, requests' = requests, NEW u \in Users, SkipStatus(u) \/ Disconnect(u)
  PROVE  Known'
<1> USE NamesDiffer DEF lockVars, chatVars, threadVars, clientVars, Goto
<1>0. TypeOK /\ Place(u) /\ u \in Threads
  BY DEF Sound, Places
<1>1. DOMAIN pc = Threads /\ DOMAIN message = Threads /\ DOMAIN state = Users
  BY <1>0 DEF TypeOK
<1>2. UNCHANGED <<status, idle, users, known, stale, left, rest, chat, user_lock>>
  BY DEF SkipStatus, Disconnect
<1>3. Steps(u)
  <2>1. \A t \in Threads \ {u} : pc'[t] = pc[t] /\ message'[t] = message[t]
    BY <1>1 DEF SkipStatus, Disconnect
  <2>2. \A v \in Users : state'[v] = "LOGGED_IN" => state[v] = "LOGGED_IN"
    BY <1>1 DEF SkipStatus, Disconnect
  <2> QED
    BY <1>2, <2>1, <2>2 DEF Steps, Moves, LoggedIn
<1>4. Members' \subseteq Members
  BY <1>0, <1>3, MembersShrink
<1>5. CASE SkipStatus(u)
  <2>1. /\ pc[u] = "chats" /\ pc'[u] \in {"handled", "idle"}
        /\ message[u].subject = u /\ state'[u] # "LOGGED_IN"
    BY <1>0, <1>1, <1>5 DEF SkipStatus, Place, StatusKinds
  <2>2. HoldsLock(u)' /\ SendsFresh(u)'
    BY <2>1 DEF HoldsLock, SendsFresh, Holds, Sends
  <2>3. \A m, v \in Users : v \in Members' => ~Coming(u, m, v)
    BY <2>1 DEF Coming, Members, LoggedIn
  <2>4. Tells(u)
    BY <1>2, <2>3 DEF Tells, Knows, Info
  <2> QED
    BY <1>0, <1>3, <2>2, <2>4, KnownMove
<1>6. CASE Disconnect(u)
  <2>1. pc' = pc /\ message' = message
    BY <1>6 DEF Disconnect
  <2>2. HoldsLock(u)' /\ SendsFresh(u)'
    BY <1>0, <1>2, <2>1 DEF HoldsLock, SendsFresh, Holds, Sends, Known, Info
  <2>3. \A m, v \in Users : Coming(u, m, v)' = Coming(u, m, v)
    BY <1>2, <2>1 DEF Coming, Sends
  <2>4. Tells(u)
    BY <1>2, <2>3 DEF Tells, Knows, Info
  <2> QED
    BY <1>0, <1>3, <2>2, <2>4, KnownMove
<1> QED
  BY <1>5, <1>6

LEMMA KnownInit == Init => Known
<1> SUFFICES ASSUME Init PROVE Known
  OBVIOUS
<1>1. \A t \in Threads : ~Holds(t) /\ ~Sends(t)
  BY DEF Init, Holds, Sends
<1>2. Settled
  BY NamesDiffer DEF Init, Settled, Chats
<1>3. Told
  BY DEF Init, Told, Knows
<1> QED
  BY <1>1, <1>2, <1>3 DEF Known, HoldsLock, SendsFresh

LEMMA KnownStep == ASSUME Sound, Known, [Next]_vars PROVE Known'
<1>1. CASE UNCHANGED vars
  BY <1>1
  DEF vars, lockVars, chatVars, threadVars, clientVars, Known, HoldsLock, SendsFresh, Holds, Sends,
      Settled, Told, Knows, Coming, Members, Joiners, LoggedIn, Info
<1>2. ASSUME NEW u \in Users, requests' = requests, Aside(u), UNCHANGED <<status, idle>>,
             \A m \in Users \ Joiners : known'[m] = known[m] /\ stale'[m] = stale[m]
      PROVE  Known'
  BY <1>2, AsideKnown DEF Knows, Info
<1>3. ASSUME NEW u \in Users, requests' = requests, Request(u) PROVE Known'
  BY <1>2, <1>3, ChangeKnown, HandlerAside
<1>4. ASSUME NEW u \in Users, requests' = requests, WriteMember(u) PROVE Known'
  <2>1. TypeOK /\ Place(u) /\ u \in Threads /\ UNCHANGED <<status, idle>>
    BY <1>4, NamesDiffer DEF Sound, Places, WriteMember
  <2>2. u \in Joiners
    BY <1>4, <2>1 DEF WriteMember, Place, Joiners
  <2>3. known' \in {known, [known EXCEPT ![u][message[u].subject] = message[u].info]}
    BY <1>4 DEF WriteMember, Deliver
  <2>4. PICK set : stale' = [stale EXCEPT ![u] = set]
    BY <1>4 DEF WriteMember, Deliver
  <2>5. \A m \in Users \ Joiners : known'[m] = known[m] /\ stale'[m] = stale[m]
    BY <2>1, <2>2, <2>3, <2>4 DEF TypeOK
  <2> QED
    BY <1>2, <1>4, <2>1, <2>5, MemberAside
<1>5. ASSUME NEW u \in Users, requests' = requests, HandlerStep(u) PROVE Known'
  <2>1. CASE \/ AddUser(u) \/ BeginList(u) \/ (\E m \in Users : ReadMember(u, m)) \/ EndList(u)
             \/ RemoveUser(u) \/ CountUsers(u) \/ DropChat(u)
    <3>1. UNCHANGED <<status, idle, known, stale>>
      BY <2>1 DEF AddUser, BeginList, ReadMember, EndList, RemoveUser, CountUsers, DropChat,
                  lockVars, chatVars, threadVars, clientVars
    <3> QED
      BY <1>2, <1>5, <2>1, <3>1, MemberAside
  <2>2. CASE SkipStatus(u) \/ (WakeUp(u) /\ idle[u])
    BY <1>5, <2>2, DisconnectKnown, ChangeKnown
  <2>3. CASE \/ WakeUp(u) /\ ~idle[u]
             \/ LeaveLoop(u) \/ LockChats(u) \/ RemoveFromNext(u) \/ UnlockChats(u)
             \/ LeaveUsers(u)
    BY <1>2, <1>5, <2>3, HandlerAside
  <2> QED
    BY <1>4, <1>5, <2>1, <2>2, <2>3 DEF HandlerStep
<1>6. ASSUME NEW u \in Users, requests' = requests, EndTransfer(u) PROVE Known'
  BY <1>2, <1>6, HandlerAside
<1> QED
  BY <1>1, <1>3, <1>5, <1>6, DisconnectKnown, ChangeKnown, BroadcastKnown, StatusKnown DEF Next

(* Whenever no request is handled, the members of a chat know each other's *)
(* current status and idle flag, but for those messages that were withheld *)
(* from a member that transferred a file: handlers and the timer that      *)
(* change the same user at once take turns by its user_lock, and each      *)
(* makes its message after it got the lock.                                *)
THEOREM StatusesAreKnown == Spec => []StatusIsKnown
<1>1. Init => Sound /\ Known
  BY SoundInit, KnownInit
<1>2. Sound /\ Known /\ [Next]_vars => (Sound /\ Known)'
  BY SoundStep, KnownStep
<1>3. Sound /\ Known => StatusIsKnown
  <2> SUFFICES ASSUME Sound, Known, Quiet, NEW c \in Chats,
                      NEW m \in (users[c] \cap LoggedIn) \ Joiners,
                      NEW u \in (users[c] \cap LoggedIn) \ Joiners
               PROVE  u \in stale[m] \/ known[m][u] = Info(u)
    BY DEF StatusIsKnown
  <2>1. c = Public
    BY DEF Known, Settled, Chats
  <2>2. m \in Users /\ u \in Users /\ {m, u} \subseteq Members
    BY <2>1 DEF Members, LoggedIn
  <2>3. \A t \in {u, Timer} : ~Coming(t, m, u)
    BY <2>2, NamesDiffer DEF Quiet, Coming, Sends
  <2> QED
    BY <2>2, <2>3 DEF Known, Told, Knows
<1> QED
  BY <1>1, <1>2, <1>3, PTL DEF Spec

-----------------------------------------------------------------------------
(* Who is heard of.  One user joins at a time and nobody is kicked (Calm). *)
Joining(t) == pc[t] \in {"broadcast", "send", "add"} /\ message[t].kind = "join"
Leaving(t) == pc[t] \in {"count", "drop", "broadcast", "send"} /\ message[t].kind = "leave"
Lists(t)   == pc[t] \in {"list", "list_read", "list_write"}

(* Whom a thread has still to visit, or to write of, is on the chat: the   *)
(* members stay while the reader lock is held.                             *)
Inside(t) ==
  /\ Reads(t) => left[t] \subseteq users[chat[t]]
  /\ pc[t] = "list_write" => message[t].subject \in users[chat[t]]
  /\ Lists(t) => t \in users[chat[t]]
  /\ Joining(t) \/ Leaving(t) => t \notin users[chat[t]]

Seated == \A t \in Threads : Inside(t)

(* Who is not on a chat believes nobody to be there. *)
Outside == \A c \in Chats : \A m \in Users \ users[c] : view[m][c] = {}

(* What a client has been told, or would have been, had it not transferred *)
(* a file; and what it believes although nothing was withheld.             *)
Aware(m, c) == view[m][c] \cup unsent[m][c]
Sure(m, c)  == view[m][c] \ unsent[m][c]

(* A member knows of each other one, or is about to read it in the list.   *)
WillList(m, c, u) ==
  /\ chat[m] = c
  /\ \/ pc[m] = "list"
     \/ pc[m] \in {"list_read", "list_write"} /\ u \in left[m]
     \/ pc[m] = "list_write" /\ message[m].subject = u
Heard ==
  \A c \in Chats : \A m, u \in users[c] \cap LoggedIn : u \in Aware(m, c) \/ WillList(m, c, u)

(* Before a user joins, every member has been told. *)
Introduced(t) ==
  Joining(t) /\ pc[t] # "broadcast" =>
    \A m \in users[chat[t]] \cap LoggedIn :
      t \in Aware(m, chat[t]) \/ (pc[t] = "send" /\ m \in left[t])
Announced == \A t \in Users : Introduced(t)

(* Who is believed to be on a chat is, or is about to be announced as      *)
(* leaving it, or has been announced as joining it.                        *)
WillForget(m, c, u) == Leaving(u) /\ chat[u] = c /\ (pc[u] = "send" => m \in left[u])
Forgotten ==
  \A c \in Chats : \A m \in users[c] \cap LoggedIn : \A u \in Sure(m, c) \cap LoggedIn :
    u \in users[c] \/ WillForget(m, c, u) \/ (Joining(u) /\ chat[u] = c)

Attended == Seated /\ Outside /\ Heard /\ Announced /\ Forgotten

LEMMA OneJoins == ASSUME Calm, NEW u \in Joiners, NEW v \in Joiners PROVE u = v
<1>1. IsFiniteSet(Joiners) /\ {u, v} \subseteq Joiners
  BY UsersAssumption, FS_Subset DEF Joiners
<1>2. Cardinality({u, v}) <= 1
  <2>1. Cardinality({u, v}) <= Cardinality(Joiners) /\ IsFiniteSet({u, v})
    BY <1>1, FS_Subset
  <2> QED
    BY <1>1, <2>1, FS_CardinalityType DEF Calm
<1>3. Cardinality({u} \cup {v}) = IF v \in {u} THEN 1 ELSE 2
  <2>1. IsFiniteSet({u}) /\ Cardinality({u}) = 1
    BY FS_Singleton
  <2>2. Cardinality({u} \cup {v}) = IF v \in {u} THEN Cardinality({u}) ELSE Cardinality({u}) + 1
    BY <2>1, FS_AddElement
  <2> QED
    BY <2>1, <2>2
<1>4. {u} \cup {v} = {u, v}
  OBVIOUS
<1> QED
  BY <1>2, <1>3, <1>4

(* A thread moves; nobody joins a chat, leaves one or hears of anybody.    *)
LEMMA AttendedKept ==
  ASSUME Sound, Attended, NEW u \in Threads, Moves(u), UNCHANGED <<users, view, unsent>>,
         \A t \in Threads \ {u} : left'[t] = left[t],
         LoggedIn' \subseteq LoggedIn, Inside(u)',
         \A c : \A v \in users[c] \cap LoggedIn' : WillList(u, c, v) => WillList(u, c, v)',
         \A c : \A m \in users[c] \cap LoggedIn' : WillForget(m, c, u) => WillForget(m, c, u)',
         Joining(u) => Joining(u)' /\ chat'[u] = chat[u],
         Introduced(u)'
  PROVE  Attended'
<1>1. \A t \in Threads \ {u} :
        /\ pc'[t] = pc[t] /\ chat'[t] = chat[t] /\ message'[t] = message[t] /\ left'[t] = left[t]
  BY DEF Moves
<1>2. Seated'
  BY <1>1 DEF Attended, Seated, Inside, Reads, Lists, Joining, Leaving
<1>3. Outside'
  BY DEF Attended, Outside
<1>4. Heard'
  <2> SUFFICES ASSUME NEW c \in Chats, NEW m \in users[c] \cap LoggedIn',
                      NEW v \in users[c] \cap LoggedIn', v \notin Aware(m, c)
               PROVE  WillList(m, c, v)'
    BY DEF Heard, Aware
  <2>1. WillList(m, c, v)
    BY DEF Attended, Heard
  <2>2. CASE m # u
    BY <1>1, <2>1, <2>2, NamesDiffer DEF WillList, LoggedIn
  <2> QED
    BY <2>1, <2>2
<1>5. Announced'
  <2> SUFFICES ASSUME NEW t \in Users, t # u PROVE Introduced(t)'
    BY DEF Announced
  <2> QED
    BY <1>1, NamesDiffer DEF Attended, Announced, Introduced, Joining, Aware
<1>6. Forgotten'
  <2> SUFFICES ASSUME NEW c \in Chats, NEW m \in users[c] \cap LoggedIn',
                      NEW v \in Sure(m, c) \cap LoggedIn', v \notin users[c]
               PROVE  WillForget(m, c, v)' \/ (Joining(v)' /\ chat'[v] = c)
    BY DEF Forgotten, Sure
  <2>1. WillForget(m, c, v) \/ (Joining(v) /\ chat[v] = c)
    BY DEF Attended, Forgotten
  <2>2. v \in Threads
    BY NamesDiffer DEF LoggedIn
  <2>3. CASE v # u
    BY <1>1, <2>1, <2>2, <2>3 DEF WillForget, Joining, Leaving
  <2> QED
    BY <2>1, <2>3
<1> QED
  BY <1>2, <1>3, <1>4, <1>5, <1>6 DEF Attended

(* The same of a thread that neither lists members nor speaks of itself.   *)
LEMMA BystanderKept ==
  ASSUME Sound, Attended, NEW u \in Threads, Moves(u), UNCHANGED <<users, view, unsent>>,
         \A t \in Threads \ {u} : left'[t] = left[t],
         LoggedIn' \subseteq LoggedIn, ~Lists(u), ~Joining(u), ~Leaving(u),
         Inside(u)', Introduced(u)'
  PROVE  Attended'
<1>1. \A c : \A v \in users[c] \cap LoggedIn' : ~WillList(u, c, v)
  BY DEF WillList, Lists
<1>2. \A c : \A m \in users[c] \cap LoggedIn' : ~WillForget(m, c, u)
  BY DEF WillForget
<1> QED
  BY <1>1, <1>2, AttendedKept

LEMMA RequestAttended ==
  ASSUME Sound, Attended, requests' = requests, NEW u \in Users, Request(u) PROVE Attended'
<1> USE NamesDiffer
    DEF lockVars, chatVars, threadVars, clientVars, Asks, Handled, Goto, StartStatus
<1>0. TypeOK /\ u \in Threads
  BY DEF Sound
<1>1. DOMAIN pc = Threads /\ DOMAIN chat = Threads /\ DOMAIN message = Threads
  BY <1>0 DEF TypeOK
<1>2. /\ Moves(u) /\ LoggedIn' = LoggedIn
      /\ UNCHANGED <<users, view, unsent, left>>
      /\ pc[u] = "idle" /\ pc'[u] \in {"broadcast", "remove", "handled", "chats", "transfer"}
      /\ pc'[u] = "broadcast" =>
           message'[u].kind \in {"join", "kick"} /\
           (message'[u].kind = "join" => u \notin users[chat'[u]])
  BY <1>0, <1>1
  DEF Request, JoinChat, LeaveChat, KickUser, CreateChat, InviteUser, DeclineInvitation, SetStatus,
      SetIdle, OtherRequest, BeginTransfer, Moves, LoggedIn, Message
<1>3. ~Lists(u) /\ ~Joining(u) /\ ~Leaving(u)
  BY <1>2 DEF Lists, Joining, Leaving
<1>4. Inside(u)' /\ Introduced(u)'
  BY <1>2 DEF Inside, Introduced, Reads, Lists, Joining, Leaving
<1> QED
  BY <1>0, <1>2, <1>3, <1>4, BystanderKept

LEMMA StatusAttended ==
  ASSUME Sound, Attended, requests' = requests, NEW t \in Threads, StatusStep(t) PROVE Attended'
<1> USE NamesDiffer DEF lockVars, chatVars, threadVars, clientVars, Goto
<1>0. TypeOK /\ Place(t)
  BY DEF Sound, Places
<1>1. DOMAIN pc = Threads /\ DOMAIN chat = Threads /\ DOMAIN message = Threads
      /\ DOMAIN left = Threads
  BY <1>0 DEF TypeOK
<1>2. /\ Moves(t) /\ LoggedIn' = LoggedIn /\ UNCHANGED <<users, view, unsent>>
      /\ \A t2 \in Threads \ {t} : left'[t2] = left[t2]
      /\ pc[t] \in {"chats", "lock", "next_chat"}
      /\ pc'[t] \in {"lock", "next_chat", "send", "handled", "idle"}
  BY <1>1 DEF StatusStep, FindChats, LockUser, NextChat, EndStatus, Moves, LoggedIn
<1>3. pc'[t] = "send" => left'[t] \subseteq users[chat'[t]] /\ message'[t].kind \in StatusKinds
  <2>1. SUFFICES ASSUME NextChat(t)
                 PROVE  left'[t] \subseteq users[chat'[t]] /\ message'[t].kind \in StatusKinds
    BY <1>1 DEF StatusStep, FindChats, LockUser, EndStatus
  <2>2. message[t] \in Messages /\ message[t].kind \in StatusKinds
    BY <1>0, <2>1 DEF NextChat, Place
  <2>3. message'[t] = [message[t] EXCEPT !.info = Info(message[t].subject)]
    BY <1>1, <2>1 DEF NextChat
  <2>4. left'[t] = users[chat'[t]]
    BY <1>1, <2>1 DEF NextChat
  <2> QED
    BY <2>2, <2>3, <2>4 DEF Messages
<1>4. ~Lists(t) /\ ~Joining(t) /\ ~Leaving(t)
  BY <1>2 DEF Lists, Joining, Leaving
<1>5. Inside(t)' /\ Introduced(t)'
  BY <1>2, <1>3 DEF Inside, Introduced, Reads, Lists, Joining, Leaving, StatusKinds
<1> QED
  BY <1>2, <1>4, <1>5, BystanderKept

LEMMA HandlerAttended ==
  ASSUME Sound, Attended, requests' = requests, NEW u \in Users,
         \/ SkipStatus(u) \/ WakeUp(u) \/ LeaveLoop(u) \/ LockChats(u) \/ RemoveFromNext(u)
         \/ UnlockChats(u) \/ LeaveUsers(u) \/ EndTransfer(u)
  PROVE  Attended'
<1> USE NamesDiffer DEF lockVars, chatVars, threadVars, clientVars, Goto, StartStatus
<1>0. TypeOK /\ Place(u) /\ u \in Threads
  BY DEF Sound, Places
<1>1. DOMAIN pc = Threads /\ DOMAIN chat = Threads /\ DOMAIN message = Threads
      /\ DOMAIN state = Users
  BY <1>0 DEF TypeOK
<1>2. /\ UNCHANGED <<users, view, unsent, left>>
      /\ \A t \in Threads \ {u} :
           pc'[t] = pc[t] /\ chat'[t] = chat[t] /\ message'[t] = message[t]
  BY <1>1 DEF SkipStatus, WakeUp, LeaveLoop, LockChats, RemoveFromNext, UnlockChats, LeaveUsers,
              EndTransfer, Handled
<1>3. \A v \in Users : state'[v] = "LOGGED_IN" => state[v] = "LOGGED_IN"
  BY <1>1 DEF SkipStatus, WakeUp, LeaveLoop, LockChats, RemoveFromNext, UnlockChats, LeaveUsers,
              EndTransfer
<1>4. /\ pc[u] \in {"chats", "handled", "idle", "exit_lock", "exit_next", "gone", "transfer"}
      /\ pc'[u] \in {"handled", "idle", "chats", "broadcast", "exit_lock", "exit_next", "remove",
                     "gone", "off"}
      /\ pc'[u] = "broadcast" => message'[u].kind = "exit"
  BY <1>1
  DEF SkipStatus, WakeUp, LeaveLoop, LockChats, RemoveFromNext, UnlockChats, LeaveUsers, Message,
      EndTransfer, Transferring, Handled
<1>5. ~Lists(u) /\ ~Joining(u) /\ ~Leaving(u)
  BY <1>4 DEF Lists, Joining, Leaving
<1>6. Inside(u)' /\ Introduced(u)'
  BY <1>4 DEF Inside, Introduced, Reads, Lists, Joining, Leaving
<1>7. Moves(u) /\ LoggedIn' \subseteq LoggedIn
  BY <1>2, <1>3 DEF Moves, LoggedIn
<1> QED
  BY <1>0, <1>2, <1>5, <1>6, <1>7, BystanderKept

(* The timer takes up a user, and a client is disconnected.                *)
LEMMA TimerAttended ==
  ASSUME Sound, Attended, requests' = requests, NEW u \in Users, MarkIdle(u) PROVE Attended'
<1> USE NamesDiffer DEF lockVars, chatVars, threadVars, clientVars, Goto, StartStatus
<1>0. TypeOK
  BY DEF Sound
<1>1. DOMAIN pc = Threads /\ DOMAIN message = Threads
  BY <1>0 DEF TypeOK
<1>2. /\ UNCHANGED <<users, view, unsent, left, state, chat>> /\ pc[Timer] = "idle" /\ pc'[Timer] = "chats"
      /\ \A t \in Threads \ {Timer} : pc'[t] = pc[t] /\ message'[t] = message[t]
  BY <1>1 DEF MarkIdle
<1>3. ~Lists(Timer) /\ ~Joining(Timer) /\ ~Leaving(Timer) /\ Inside(Timer)' /\ Introduced(Timer)'
  BY <1>2 DEF Inside, Introduced, Reads, Lists, Joining, Leaving
<1>4. Moves(Timer) /\ LoggedIn' = LoggedIn
  BY <1>2 DEF Moves, LoggedIn
<1> QED
  BY <1>2, <1>3, <1>4, BystanderKept

LEMMA DisconnectAttended ==
  ASSUME Sound, Attended, NEW u \in Users, Disconnect(u) PROVE Attended'
<1>1. /\ UNCHANGED <<pc, users, view, unsent, left, chat, message>>
      /\ LoggedIn' \subseteq LoggedIn
  BY DEF Disconnect, LoggedIn, Sound, TypeOK, chatVars, threadVars, clientVars
<1>2. Seated' /\ Outside'
  BY <1>1 DEF Attended, Seated, Inside, Outside, Reads, Lists, Joining, Leaving
<1>3. Heard'
  BY <1>1 DEF Attended, Heard, WillList, Aware
<1>4. Announced' /\ Forgotten'
  BY <1>1
  DEF Attended, Announced, Introduced, Forgotten, WillForget, Joining, Leaving, Aware, Sure
<1> QED
  BY <1>2, <1>3, <1>4 DEF Attended

(* A broadcast begins, and ends. *)
LEMMA BroadcastAttended ==
  ASSUME Sound, Attended, requests' = requests, NEW t \in Threads,
         BeginBroadcast(t) \/ EndBroadcast(t)
  PROVE  Attended'
<1> USE NamesDiffer DEF lockVars, chatVars, threadVars, clientVars, Goto
<1>0. TypeOK /\ Place(t) /\ Inside(t)
  BY DEF Sound, Places, Attended, Seated
<1>1. DOMAIN pc = Threads /\ DOMAIN left = Threads
  BY <1>0 DEF TypeOK
<1>2. /\ Moves(t) /\ LoggedIn' = LoggedIn /\ UNCHANGED <<users, view, unsent, chat, message>>
      /\ \A t2 \in Threads \ {t} : left'[t2] = left[t2]
  BY <1>1 DEF BeginBroadcast, EndBroadcast, Moves, LoggedIn
<1>3. CASE BeginBroadcast(t)
  <2>1. /\ pc[t] = "broadcast" /\ pc'[t] = "send" /\ left'[t] = users[chat[t]]
    BY <1>1, <1>3 DEF BeginBroadcast
  <2>2. Inside(t)'
    BY <1>0, <1>2, <2>1 DEF Inside, Reads, Lists, Joining, Leaving
  <2>3. Introduced(t)'
    BY <1>2, <2>1 DEF Introduced, Aware
  <2>4. \A c : \A v \in users[c] \cap LoggedIn' : ~WillList(t, c, v)
    BY <2>1 DEF WillList
  <2>5. \A c : \A m \in users[c] \cap LoggedIn' : WillForget(m, c, t) => WillForget(m, c, t)'
    BY <1>2, <2>1 DEF WillForget, Leaving
  <2>6. Joining(t) => Joining(t)' /\ chat'[t] = chat[t]
    BY <1>2, <2>1 DEF Joining
  <2> QED
    BY <1>2, <2>2, <2>3, <2>4, <2>5, <2>6, AttendedKept
<1>4. CASE EndBroadcast(t)
  <2>1. /\ pc[t] = "send" /\ pc'[t] = AfterBroadcast(message[t].kind) /\ left[t] = {}
    BY <1>1, <1>4 DEF EndBroadcast
  <2>2. /\ pc'[t] \in {"add", "handled", "remove", "exit_lock", "next_chat"}
        /\ pc'[t] = "add" <=> message[t].kind = "join"
    BY <2>1 DEF AfterBroadcast
  <2>3. Inside(t)'
    BY <1>0, <1>2, <2>1, <2>2 DEF Inside, Reads, Lists, Joining, Leaving
  <2>4. Introduced(t)'
    <3>1. SUFFICES ASSUME Joining(t)' PROVE Introduced(t)'
      BY DEF Introduced
    <3>2. Joining(t) /\ message[t].kind = "join"
      BY <1>2, <2>1, <3>1 DEF Joining
    <3>3. t \in Users
      BY <1>0, <3>2 DEF Place, Threads, None
    <3>4. Introduced(t)
      BY <3>3 DEF Attended, Announced
    <3> QED
      BY <1>2, <2>1, <3>2, <3>4 DEF Introduced, Aware
  <2>5. \A c : \A v \in users[c] \cap LoggedIn' : ~WillList(t, c, v)
    BY <2>1 DEF WillList
  <2>6. \A c : \A m \in users[c] \cap LoggedIn' : ~WillForget(m, c, t)
    BY <2>1 DEF WillForget
  <2>7. Joining(t) => Joining(t)' /\ chat'[t] = chat[t]
    BY <1>2, <2>1, <2>2 DEF Joining
  <2> QED
    BY <1>2, <2>3, <2>4, <2>5, <2>6, <2>7, AttendedKept
<1> QED
  BY <1>3, <1>4

LEMMA ListAttended ==
  ASSUME Sound, Attended, requests' = requests, NEW u \in Users,
         BeginList(u) \/ (\E m \in Users : ReadMember(u, m)) \/ EndList(u)
  PROVE  Attended'
<1> USE NamesDiffer DEF lockVars, chatVars, threadVars, clientVars, Handled, Goto
<1>0. TypeOK /\ Inside(u) /\ u \in Threads
  BY DEF Sound, Attended, Seated
<1>1. DOMAIN pc = Threads /\ DOMAIN left = Threads /\ DOMAIN message = Threads
  BY <1>0 DEF TypeOK
<1>2. /\ Moves(u) /\ LoggedIn' = LoggedIn /\ UNCHANGED <<users, view, unsent, chat>>
      /\ \A t \in Threads \ {u} : left'[t] = left[t]
  BY <1>1 DEF BeginList, ReadMember, EndList, Moves, LoggedIn
<1>3. Lists(u)
  BY DEF BeginList, ReadMember, EndList, Lists
<1>4. pc'[u] \in {"list_read", "list_write", "handled"}
  BY <1>1 DEF BeginList, ReadMember, EndList
<1>5. ~Joining(u) /\ ~Leaving(u) /\ ~Joining(u)' /\ ~Leaving(u)'
  BY <1>3, <1>4 DEF Lists, Joining, Leaving
<1>6. Introduced(u)'
  BY <1>5 DEF Introduced
<1>7. \A c : \A m \in users[c] \cap LoggedIn' : ~WillForget(m, c, u)
  BY <1>5 DEF WillForget
<1>8. ASSUME Inside(u)',
             \A c : \A v \in users[c] \cap LoggedIn' : WillList(u, c, v) => WillList(u, c, v)'
      PROVE  Attended'
  BY <1>0, <1>2, <1>5, <1>6, <1>7, <1>8, AttendedKept
<1>9. CASE BeginList(u)
  <2>1. /\ pc[u] = "list" /\ pc'[u] = "list_read" /\ left'[u] = users[chat[u]]
    BY <1>0, <1>1, <1>9 DEF BeginList
  <2>2. Inside(u)'
    BY <1>0, <1>2, <1>3, <1>5, <2>1 DEF Inside, Reads, Lists
  <2>3. ASSUME NEW c, NEW v \in users[c] \cap LoggedIn', WillList(u, c, v) PROVE WillList(u, c, v)'
    BY <1>2, <2>1, <2>3 DEF WillList
  <2> QED
    BY <1>8, <2>2, <2>3
<1>10. ASSUME NEW m \in Users, ReadMember(u, m) PROVE Attended'
  <2>1. /\ pc[u] = "list_read" /\ m \in left[u] /\ left'[u] = left[u] \ {m}
        /\ IF state[m] = "LOGGED_IN" THEN pc'[u] = "list_write" /\ message'[u].subject = m
           ELSE pc'[u] = "list_read"
    BY <1>0, <1>1, <1>10 DEF ReadMember, Message
  <2>2. Inside(u)'
    BY <1>0, <1>2, <1>3, <1>5, <2>1 DEF Inside, Reads, Lists
  <2>3. ASSUME NEW c, NEW v \in users[c] \cap LoggedIn', WillList(u, c, v) PROVE WillList(u, c, v)'
    BY <1>2, <2>1, <2>3 DEF WillList, LoggedIn
  <2> QED
    BY <1>8, <2>2, <2>3
<1>11. CASE EndList(u)
  <2>1. pc[u] = "list_read" /\ left[u] = {} /\ pc'[u] = "handled"
    BY <1>0, <1>1, <1>11 DEF EndList
  <2>2. Inside(u)'
    BY <1>5, <2>1 DEF Inside, Reads, Lists
  <2>3. \A c : \A v \in users[c] \cap LoggedIn' : ~WillList(u, c, v)
    BY <2>1 DEF WillList
  <2> QED
    BY <1>8, <2>2, <2>3
<1> QED
  BY <1>9, <1>10, <1>11

LEMMA CountAttended ==
  ASSUME Sound, Attended, requests' = requests, NEW u \in Users, CountUsers(u) \/ DropChat(u)
  PROVE  Attended'
<1> USE NamesDiffer DEF lockVars, chatVars, threadVars, clientVars, Goto
<1>0. TypeOK /\ Inside(u) /\ Place(u) /\ u \in Threads
  BY DEF Sound, Places, Attended, Seated
<1>1. DOMAIN pc = Threads
  BY <1>0 DEF TypeOK
<1>2. /\ Moves(u) /\ LoggedIn' = LoggedIn /\ UNCHANGED <<users, view, unsent, chat, message, left>>
  BY <1>1 DEF CountUsers, DropChat, Moves, LoggedIn
<1>3. /\ pc[u] \in {"count", "drop"}
      /\ pc'[u] \in {"drop", AfterRemoval(message[u].kind)}
      /\ message[u].kind \in {"leave", "kick", "exit"}
  BY <1>0, <1>1 DEF CountUsers, DropChat, Place
<1>4. /\ pc'[u] \in {"drop", "broadcast", "handled", "exit_next"}
      /\ message[u].kind = "leave" => pc'[u] \in {"drop", "broadcast"}
  BY <1>3 DEF AfterRemoval
<1>5. Inside(u)'
  BY <1>0, <1>2, <1>3, <1>4 DEF Inside, Reads, Lists, Joining, Leaving
<1>6. Introduced(u)'
  BY <1>2, <1>3, <1>4 DEF Introduced, Joining
<1>7. ~Joining(u) /\ \A c : \A v \in users[c] \cap LoggedIn' : ~WillList(u, c, v)
  BY <1>3 DEF WillList, Joining
<1>8. \A c : \A m \in users[c] \cap LoggedIn' : WillForget(m, c, u) => WillForget(m, c, u)'
  BY <1>2, <1>3, <1>4 DEF WillForget, Leaving
<1> QED
  BY <1>0, <1>2, <1>5, <1>6, <1>7, <1>8, AttendedKept

(* What a member is told of who is there, or is not told.                  *)
Treated(m, c, msg) ==
  \/ /\ state[m] = "LOGGED_IN" => msg.kind \in StatusKinds
     /\ view'[m][c] = view[m][c] /\ unsent'[m][c] = unsent[m][c]
  \/ /\ msg.kind = "join"
     /\ view'[m][c] = view[m][c] \cup {msg.subject}
     /\ unsent'[m][c] = unsent[m][c] \ {msg.subject}
  \/ /\ msg.kind \in {"leave", "exit"}
     /\ view'[m][c] = view[m][c] \ {msg.subject}
     /\ unsent'[m][c] = unsent[m][c] \ {msg.subject}
  \/ /\ msg.kind \in {"join", "leave", "exit"}
     /\ view'[m][c] = view[m][c]
     /\ unsent'[m][c] = unsent[m][c] \cup {msg.subject}

LEMMA SendTreats ==
  ASSUME TypeOK, NEW t \in Threads, NEW m \in Users, Send(t, m), chat[t] \in Chats,
         message[t].kind \in {"join", "leave", "exit"} \cup StatusKinds
  PROVE  /\ \A y \in Users, c \in Chats : y # m \/ c # chat[t] =>
              view'[y][c] = view[y][c] /\ unsent'[y][c] = unsent[y][c]
         /\ Treated(m, chat[t], message[t])
<1> DEFINE c0 == chat[t]
           msg == message[t]
<1>0. /\ c0 \in Chats /\ m \in DOMAIN view /\ c0 \in DOMAIN view[m]
      /\ m \in DOMAIN unsent /\ c0 \in DOMAIN unsent[m]
  BY DEF TypeOK
<1>k. msg.kind \in {"join", "leave", "exit", "status", "idle", "wake"}
  BY DEF StatusKinds
<1>1. CASE state[m] # "LOGGED_IN"
  BY <1>1 DEF Send, clientVars, Treated
<1>2. CASE Deliver(m, c0, msg)
  <2>1. /\ view' = [view EXCEPT ![m][c0] = SeenBy(m, c0, msg)]
        /\ unsent' = [unsent EXCEPT ![m][c0] = IF Seats(msg) THEN @ \ {msg.subject} ELSE @]
    BY <1>2 DEF Deliver
  <2>2. /\ view'[m][c0] = SeenBy(m, c0, msg)
        /\ unsent'[m][c0] = IF Seats(msg) THEN unsent[m][c0] \ {msg.subject} ELSE unsent[m][c0]
    BY <1>0, <2>1
  <2>3. \A y \in Users, c \in Chats : y # m \/ c # c0 =>
          view'[y][c] = view[y][c] /\ unsent'[y][c] = unsent[y][c]
    BY <1>0, <2>1 DEF TypeOK
  <2>4. Treated(m, c0, msg)
    BY <1>k, <2>2 DEF Treated, SeenBy, Seats, StatusKinds
  <2> QED
    BY <2>3, <2>4
<1>3. CASE Withhold(m, c0, msg)
  <2>1. /\ view' = view
        /\ unsent' = [unsent EXCEPT ![m][c0] = IF Seats(msg) THEN @ \cup {msg.subject} ELSE @]
    BY <1>3 DEF Withhold
  <2>2. unsent'[m][c0] = IF Seats(msg) THEN unsent[m][c0] \cup {msg.subject} ELSE unsent[m][c0]
    BY <1>0, <2>1
  <2>3. \A y \in Users, c \in Chats : y # m \/ c # c0 =>
          view'[y][c] = view[y][c] /\ unsent'[y][c] = unsent[y][c]
    BY <1>0, <2>1 DEF TypeOK
  <2>4. Treated(m, c0, msg)
    BY <1>k, <2>1, <2>2 DEF Treated, Seats, StatusKinds
  <2> QED
    BY <2>3, <2>4
<1> QED
  BY <1>1, <1>2, <1>3 DEF Send

(* The message of a broadcast reaches a member. *)
LEMMA SendAttended ==
  ASSUME Sound, Calm, Attended, requests' = requests, NEW t \in Threads, NEW m \in Users,
         Send(t, m)
  PROVE  Attended'
<1> USE NamesDiffer DEF lockVars, chatVars, threadVars, clientVars, Goto
<1>0. TypeOK /\ Place(t) /\ Inside(t) /\ Seated /\ Outside /\ Heard /\ Announced /\ Forgotten
  BY DEF Sound, Places, Attended, Seated
<1>1. /\ UNCHANGED <<state, users, pc, chat, message>> /\ pc[t] = "send" /\ m \in left[t]
      /\ left'[t] = left[t] \ {m} /\ \A t2 \in Threads \ {t} : left'[t2] = left[t2]
  BY <1>0 DEF Send, TypeOK
<1>2. m \in users[chat[t]] /\ chat[t] \in Chats /\ LoggedIn' = LoggedIn
  BY <1>0, <1>1 DEF Inside, Reads, Place, LoggedIn
<1>3. /\ message[t] \in Messages
      /\ message[t].kind \in {"join", "leave", "exit"} \cup StatusKinds
  <2>1. message[t] \in Messages /\ message[t].kind \notin {"list", "kick"}
    BY <1>0, <1>1 DEF Place, Calm, Threads, None
  <2>2. message[t].kind \in Kinds
    BY <2>1 DEF Messages
  <2> QED
    BY <2>1, <2>2 DEF Kinds, StatusKinds
<1>4. message[t].kind \in {"join", "leave", "exit"} => message[t].subject = t /\ t \in Users
  BY <1>0, <1>1 DEF Place, Threads, None
<1>5. /\ \A y \in Users, c \in Chats : y # m \/ c # chat[t] =>
           view'[y][c] = view[y][c] /\ unsent'[y][c] = unsent[y][c]
      /\ Treated(m, chat[t], message[t])
  BY <1>0, <1>2, <1>3, SendTreats
<1>6. \A y \in Users, c \in Chats : y # m \/ c # chat[t] =>
        Aware(y, c)' = Aware(y, c) /\ Sure(y, c)' = Sure(y, c) /\ view'[y][c] = view[y][c]
  BY <1>5 DEF Aware, Sure
<1>8. ASSUME NEW y \in Users, NEW c \in Chats, NEW v, v \in Sure(y, c)', v \notin Sure(y, c)
      PROVE  y = m /\ c = chat[t] /\ v = t /\ Joining(t)
  <2>1. y = m /\ c = chat[t]
    BY <1>6, <1>8
  <2>2. v = message[t].subject /\ message[t].kind = "join"
    BY <1>5, <1>8, <2>1 DEF Treated, Sure
  <2> QED
    BY <1>1, <1>4, <2>1, <2>2 DEF Joining
<1>9. ASSUME NEW y \in Users, NEW c \in Chats, NEW v, v \in Aware(y, c), v \notin Aware(y, c)'
      PROVE  y = m /\ c = chat[t] /\ v = t /\ message[t].kind \in {"leave", "exit"}
  <2>1. y = m /\ c = chat[t]
    BY <1>6, <1>9
  <2>2. v = message[t].subject /\ message[t].kind \in {"leave", "exit"}
    BY <1>5, <1>9, <2>1 DEF Treated, Aware
  <2> QED
    BY <1>4, <2>1, <2>2
<1>10. m \in LoggedIn => /\ Joining(t) => t \in Aware(m, chat[t])'
                         /\ Leaving(t) => t \notin Sure(m, chat[t])'
  BY <1>1, <1>4, <1>5 DEF Joining, Leaving, Treated, Aware, Sure, LoggedIn, StatusKinds
<1>11. Seated'
  <2>1. Inside(t)'
    BY <1>0, <1>1 DEF Inside, Reads, Lists, Joining, Leaving
  <2>2. ASSUME NEW t2 \in Threads, t2 # t PROVE Inside(t2)'
    BY <1>0, <1>1, <2>2 DEF Seated, Inside, Reads, Lists, Joining, Leaving
  <2> QED
    BY <2>1, <2>2 DEF Seated
<1>12. Outside'
  BY <1>0, <1>1, <1>2, <1>6 DEF Outside
<1>13. Heard'
  <2> SUFFICES ASSUME NEW c \in Chats, NEW y \in users[c] \cap LoggedIn,
                      NEW v \in users[c] \cap LoggedIn
               PROVE  v \in Aware(y, c)' \/ WillList(y, c, v)'
    BY <1>1, <1>2 DEF Heard
  <2>0. y \in Users /\ y \in Threads /\ v \in Users
    BY DEF LoggedIn
  <2>1. CASE WillList(y, c, v)
    <3>1. y # t
      BY <1>1, <2>1 DEF WillList
    <3> QED
      BY <1>1, <2>0, <2>1, <3>1 DEF WillList
  <2>2. CASE v \in Aware(y, c)
    <3>1. ~(c = chat[t] /\ v = t /\ message[t].kind \in {"leave", "exit"})
      BY <1>0, <1>1 DEF Inside, Leaving, Place, LoggedIn
    <3> QED
      BY <1>9, <2>0, <2>2, <3>1
  <2> QED
    BY <1>0, <2>1, <2>2 DEF Heard
<1>14. Announced'
  <2> SUFFICES ASSUME NEW x \in Users, Joining(x), pc[x] # "broadcast",
                      NEW y \in users[chat[x]] \cap LoggedIn
               PROVE  x \in Aware(y, chat[x])' \/ (pc[x] = "send" /\ y \in left'[x])
    BY <1>1, <1>2 DEF Announced, Introduced, Joining, Aware
  <2>0. y \in Users /\ x \in Threads
    BY DEF LoggedIn
  <2>1. chat[x] \in Chats
    BY <2>0 DEF Sound, Places, Place, Joining
  <2>2. CASE x \in Aware(y, chat[x])
    <3> PICK c0 \in Chats : c0 = chat[x]
      BY <2>1
    <3>1. x \in Aware(y, c0) /\ Aware(y, chat[x])' = Aware(y, c0)'
      BY <1>1, <2>2 DEF Aware
    <3>2. x \in Aware(y, c0)' \/ (x = t /\ message[t].kind \in {"leave", "exit"})
      BY <1>9, <2>0, <3>1
    <3>3. message[x].kind = "join"
      BY DEF Joining
    <3> QED
      BY <3>1, <3>2, <3>3
  <2>3. CASE pc[x] = "send" /\ y \in left[x]
    BY <1>1, <1>10, <2>0, <2>3
  <2> QED
    BY <1>0, <2>2, <2>3 DEF Announced, Introduced
<1>15. Forgotten'
  <2> SUFFICES ASSUME NEW c \in Chats, NEW y \in users[c] \cap LoggedIn,
                      NEW v \in Sure(y, c)' \cap LoggedIn, v \notin users[c]
               PROVE  WillForget(y, c, v)' \/ (Joining(v)' /\ chat'[v] = c)
    BY <1>1, <1>2 DEF Forgotten
  <2>0. y \in Users /\ v \in Users /\ v \in Threads
    BY DEF LoggedIn
  <2>1. Joining(v)' = Joining(v) /\ Leaving(v)' = Leaving(v)
    BY <1>1 DEF Joining, Leaving
  <2>2. CASE v \notin Sure(y, c)
    BY <1>1, <1>8, <2>0, <2>1, <2>2
  <2>3. CASE v \in Sure(y, c)
    <3>1. WillForget(y, c, v) \/ (Joining(v) /\ chat[v] = c)
      BY <1>0, <2>3 DEF Forgotten
    <3>2. ASSUME WillForget(y, c, v) PROVE WillForget(y, c, v)'
      BY <1>1, <1>10, <2>0, <2>1, <3>2 DEF WillForget
    <3> QED
      BY <1>1, <2>1, <3>1, <3>2
  <2> QED
    BY <2>2, <2>3
<1> QED
  BY <1>11, <1>12, <1>13, <1>14, <1>15 DEF Attended

(* A member is written to the list of the one who joined.                  *)
LEMMA WriteAttended ==
  ASSUME Sound, Attended, requests' = requests, NEW u \in Users, WriteMember(u) PROVE Attended'
<1> USE NamesDiffer DEF lockVars, chatVars, threadVars, clientVars, Goto
<1>0. TypeOK /\ Place(u) /\ Inside(u) /\ u \in Threads
      /\ Seated /\ Outside /\ Heard /\ Announced /\ Forgotten
  BY DEF Sound, Places, Attended, Seated
<1>1. /\ UNCHANGED <<state, users, chat, message, left>>
      /\ pc[u] = "list_write" /\ pc'[u] = "list_read"
      /\ \A t \in Threads \ {u} : pc'[t] = pc[t]
  BY <1>0 DEF WriteMember, TypeOK
<1>2. /\ u \in users[chat[u]] /\ chat[u] \in Chats /\ LoggedIn' = LoggedIn
      /\ message[u].kind = "list" /\ message[u].subject \in users[chat[u]]
  BY <1>0, <1>1 DEF Inside, Lists, Place, LoggedIn
<1>3. /\ view' = [view EXCEPT ![u][chat[u]] = @ \cup {message[u].subject}]
      /\ unsent' = [unsent EXCEPT ![u][chat[u]] = @ \ {message[u].subject}]
  BY <1>2 DEF WriteMember, Deliver, SeenBy, Seats
<1>4. /\ view'[u][chat[u]] = view[u][chat[u]] \cup {message[u].subject}
      /\ unsent'[u][chat[u]] = unsent[u][chat[u]] \ {message[u].subject}
      /\ \A y \in Users, c \in Chats : y # u \/ c # chat[u] =>
           view'[y][c] = view[y][c] /\ unsent'[y][c] = unsent[y][c]
  BY <1>0, <1>2, <1>3 DEF TypeOK
<1>5. \A y \in Users, c \in Chats : /\ Aware(y, c) \subseteq Aware(y, c)'
                                    /\ Sure(y, c)' \subseteq Sure(y, c) \cup users[c]
  BY <1>2, <1>4 DEF Aware, Sure
<1>s. message[u].subject \in Aware(u, chat[u])'
  BY <1>1, <1>4 DEF Aware
<1>6. Seated'
  <2>1. Inside(u)'
    BY <1>0, <1>1 DEF Inside, Reads, Lists, Joining, Leaving
  <2>2. ASSUME NEW t \in Threads, t # u PROVE Inside(t)'
    BY <1>0, <1>1, <2>2 DEF Seated, Inside, Reads, Lists, Joining, Leaving
  <2> QED
    BY <2>1, <2>2 DEF Seated
<1>7. Outside'
  BY <1>0, <1>1, <1>2, <1>4 DEF Outside
<1>8. Heard'
  <2> SUFFICES ASSUME NEW c \in Chats, NEW y \in users[c] \cap LoggedIn,
                      NEW v \in users[c] \cap LoggedIn
               PROVE  v \in Aware(y, c)' \/ WillList(y, c, v)'
    BY <1>1, <1>2 DEF Heard
  <2>0. y \in Users /\ y \in Threads
    BY DEF LoggedIn
  <2>1. v \in Aware(y, c) \/ WillList(y, c, v)
    BY <1>0 DEF Heard
  <2>2. CASE WillList(y, c, v)
    BY <1>1, <1>s, <2>0, <2>2 DEF WillList
  <2> QED
    BY <1>5, <2>0, <2>1, <2>2
<1>9. Announced'
  <2> SUFFICES ASSUME NEW x \in Users, Introduced(x) PROVE Introduced(x)'
    BY <1>0 DEF Announced
  <2>1. CASE x = u
    BY <1>1, <1>2, <2>1 DEF Introduced, Joining
  <2>2. CASE x # u
    <3>1. x \in Threads /\ pc'[x] = pc[x]
      BY <1>1, <2>2
    <3>2. Joining(x) => chat[x] \in Chats
      BY <3>1 DEF Sound, Places, Place, Joining
    <3> QED
      BY <1>1, <1>2, <1>5, <3>1, <3>2 DEF Introduced, Joining, LoggedIn
  <2> QED
    BY <2>1, <2>2
<1>10. Forgotten'
  <2> SUFFICES ASSUME NEW c \in Chats, NEW y \in users[c] \cap LoggedIn,
                      NEW v \in Sure(y, c)' \cap LoggedIn, v \notin users[c]
               PROVE  WillForget(y, c, v)' \/ (Joining(v)' /\ chat'[v] = c)
    BY <1>1, <1>2 DEF Forgotten
  <2>0. y \in Users /\ v \in Threads
    BY DEF LoggedIn
  <2>1. v \in Sure(y, c)
    BY <1>5, <2>0
  <2>2. WillForget(y, c, v) \/ (Joining(v) /\ chat[v] = c)
    BY <1>0, <2>1 DEF Forgotten
  <2>3. v # u
    BY <1>1, <2>2 DEF WillForget, Joining, Leaving
  <2> QED
    BY <1>1, <2>0, <2>2, <2>3 DEF WillForget, Joining, Leaving
<1> QED
  BY <1>6, <1>7, <1>8, <1>9, <1>10 DEF Attended

(* The only one who joins is added: everybody has been told.               *)
LEMMA AddAttended ==
  ASSUME Sound, Calm, Attended, requests' = requests, NEW u \in Users, AddUser(u)
  PROVE  Attended'
<1> USE NamesDiffer DEF lockVars, chatVars, threadVars, clientVars, Goto
<1>0. TypeOK /\ Place(u) /\ Inside(u) /\ Introduced(u) /\ u \in Threads
      /\ Seated /\ Outside /\ Heard /\ Announced /\ Forgotten
  BY DEF Sound, Places, Attended, Seated, Announced
<1>1. /\ UNCHANGED <<state, chat, message, left, view, unsent>>
      /\ pc[u] = "add" /\ pc'[u] = "list"
      /\ \A t \in Threads \ {u} : pc'[t] = pc[t]
  BY <1>0 DEF AddUser, TypeOK
<1>2. /\ chat[u] \in Chats /\ message[u].kind = "join" /\ u \in Joiners
      /\ u \notin users[chat[u]] /\ LoggedIn' = LoggedIn
  BY <1>0, <1>1 DEF Inside, Joining, Place, LoggedIn, Joiners
<1>3. /\ users'[chat[u]] = users[chat[u]] \cup {u}
      /\ \A c \in Chats : c # chat[u] => users'[c] = users[c]
  BY <1>0, <1>2 DEF AddUser, TypeOK
<1>4. ASSUME NEW c \in Chats, NEW v, v \in users'[c], v \notin users[c]
      PROVE  v = u /\ c = chat[u]
  BY <1>3, <1>4
<1>5. \A c \in Chats : users[c] \subseteq users'[c]
  BY <1>3
<1>6. Seated'
  <2>1. Inside(u)'
    BY <1>1, <1>3 DEF Inside, Reads, Lists, Joining, Leaving
  <2>2. ASSUME NEW t \in Threads, t # u PROVE Inside(t)'
    <3>1. Inside(t) /\ pc'[t] = pc[t]
      BY <1>0, <1>1, <2>2 DEF Seated
    <3>2. Reads(t) \/ Lists(t) \/ Joining(t) \/ Leaving(t) => chat[t] \in Chats
      BY DEF Sound, Places, Place, Reads, Lists, Joining, Leaving
    <3>3. Joining(t) \/ Leaving(t) => t \notin users'[chat[t]]
      BY <1>4, <2>2, <3>1, <3>2 DEF Inside
    <3> QED
      BY <1>1, <1>5, <3>1, <3>2, <3>3 DEF Inside, Reads, Lists, Joining, Leaving
  <2> QED
    BY <2>1, <2>2 DEF Seated
<1>7. Outside'
  BY <1>0, <1>1, <1>5 DEF Outside
<1>8. Heard'
  <2> SUFFICES ASSUME NEW c \in Chats, NEW y \in users'[c] \cap LoggedIn,
                      NEW v \in users'[c] \cap LoggedIn
               PROVE  v \in Aware(y, c) \/ WillList(y, c, v)'
    BY <1>1, <1>2 DEF Heard, Aware
  <2>0. y \in Threads
    BY DEF LoggedIn
  <2>1. CASE y \notin users[c]
    BY <1>1, <1>4, <2>1 DEF WillList
  <2>2. CASE y \in users[c] /\ v \notin users[c]
    <3>1. v = u /\ c = chat[u]
      BY <1>4, <2>2
    <3> QED
      BY <1>0, <1>1, <1>2, <2>2, <3>1 DEF Introduced, Joining
  <2>3. CASE y \in users[c] /\ v \in users[c]
    <3>1. v \in Aware(y, c) \/ WillList(y, c, v)
      BY <1>0, <2>3 DEF Heard
    <3> QED
      BY <1>1, <2>0, <3>1 DEF WillList
  <2> QED
    BY <2>1, <2>2, <2>3
<1>9. Announced'
  <2> SUFFICES ASSUME NEW x \in Users, Joining(x)' PROVE FALSE
    BY DEF Announced, Introduced
  <2>1. x # u /\ Joining(x)
    BY <1>1 DEF Joining
  <2>2. x \in Joiners
    BY <2>1 DEF Sound, Places, Place, Joining, Joiners
  <2> QED
    BY <1>2, <2>1, <2>2, OneJoins
<1>10. Forgotten'
  <2> SUFFICES ASSUME NEW c \in Chats, NEW y \in users'[c] \cap LoggedIn,
                      NEW v \in Sure(y, c) \cap LoggedIn, v \notin users'[c]
               PROVE  WillForget(y, c, v)' \/ (Joining(v)' /\ chat'[v] = c)
    BY <1>1, <1>2 DEF Forgotten, Sure
  <2>0. v \in Threads /\ y \in Users
    BY DEF LoggedIn
  <2>1. y \in users[c]
    BY <1>0, <2>0 DEF Outside, Sure
  <2>2. WillForget(y, c, v) \/ (Joining(v) /\ chat[v] = c)
    BY <1>0, <1>5, <2>1 DEF Forgotten
  <2>3. v # u
    BY <1>1, <1>3, <2>2 DEF WillForget, Leaving
  <2> QED
    BY <1>1, <2>0, <2>2, <2>3 DEF WillForget, Joining, Leaving
<1> QED
  BY <1>6, <1>7, <1>8, <1>9, <1>10 DEF Attended

(* One who leaves is removed while nobody goes through the members.        *)
LEMMA RemoveAttended ==
  ASSUME Sound, Calm, Attended, requests' = requests, NEW u \in Users, RemoveUser(u)
  PROVE  Attended'
<1> USE NamesDiffer DEF lockVars, chatVars, threadVars, clientVars, Goto
<1>0. TypeOK /\ Place(u) /\ Inside(u) /\ u \in Threads
      /\ Seated /\ Outside /\ Heard /\ Announced /\ Forgotten
  BY DEF Sound, Places, Attended, Seated, Announced
<1>1. /\ UNCHANGED <<state, chat, message, left, unsent>>
      /\ pc[u] = "remove" /\ pc'[u] = "count"
      /\ \A t \in Threads \ {u} : pc'[t] = pc[t]
  BY <1>0 DEF RemoveUser, TypeOK
<1>2. /\ chat[u] \in Chats /\ message[u].kind \in {"leave", "exit"} /\ message[u].subject = u
      /\ message[u].kind = "exit" => u \notin LoggedIn
      /\ LoggedIn' = LoggedIn
  BY <1>0, <1>1 DEF Place, LoggedIn, Calm
<1>3. /\ users'[chat[u]] = users[chat[u]] \ {u}
      /\ \A c \in Chats : c # chat[u] => users'[c] = users[c]
  BY <1>0, <1>2 DEF RemoveUser, TypeOK
<1>4. ASSUME NEW c \in Chats, NEW v, v \in users[c], v \notin users'[c]
      PROVE  v = u /\ c = chat[u]
  BY <1>3, <1>4
<1>5. \A c \in Chats : users'[c] \subseteq users[c]
  BY <1>3
<1>6. view' = [view EXCEPT ![u][chat[u]] = {}]
  BY <1>2 DEF RemoveUser
<1>7. /\ view'[u][chat[u]] = {}
      /\ \A y \in Users, c \in Chats : y # u \/ c # chat[u] =>
           view'[y][c] = view[y][c] /\ Aware(y, c)' = Aware(y, c) /\ Sure(y, c)' = Sure(y, c)
  BY <1>0, <1>1, <1>2, <1>6 DEF TypeOK, Aware, Sure
<1>8. \A t \in Threads : Reads(t) => chat[t] # chat[u]
  <2> SUFFICES ASSUME NEW t \in Threads, Reads(t), chat[t] = chat[u] PROVE FALSE
    OBVIOUS
  <2>1. readers[chat[u]] = 0
    BY DEF RemoveUser
  <2> QED
    BY <1>0, <1>2, <2>1, ReaderCounts
<1>9. Seated'
  <2>1. Inside(u)'
    BY <1>1, <1>3 DEF Inside, Reads, Lists, Joining, Leaving
  <2>2. ASSUME NEW t \in Threads, t # u PROVE Inside(t)'
    <3>1. Inside(t) /\ pc'[t] = pc[t]
      BY <1>0, <1>1, <2>2 DEF Seated
    <3>2. Reads(t) \/ Lists(t) \/ Joining(t) \/ Leaving(t) => chat[t] \in Chats
      BY DEF Sound, Places, Place, Reads, Lists, Joining, Leaving
    <3>3. Reads(t) => users'[chat[t]] = users[chat[t]]
      BY <1>3, <1>8, <3>2
    <3>4. Lists(t) => t \in users'[chat[t]]
      BY <1>4, <2>2, <3>1, <3>2 DEF Inside
    <3>5. pc[t] = "list_write" => Reads(t)
      BY DEF Reads
    <3> QED
      BY <1>1, <1>5, <3>1, <3>2, <3>3, <3>4, <3>5 DEF Inside, Reads, Lists, Joining, Leaving
  <2> QED
    BY <2>1, <2>2 DEF Seated
<1>10. Outside'
  <2> SUFFICES ASSUME NEW c \in Chats, NEW y \in Users \ users'[c] PROVE view'[y][c] = {}
    BY DEF Outside
  <2>1. CASE y \in users[c]
    BY <1>4, <1>7, <2>1
  <2>2. CASE y \notin users[c]
    <3>1. view[y][c] = {}
      BY <1>0, <2>2 DEF Outside
    <3> QED
      BY <1>7, <3>1
  <2> QED
    BY <2>1, <2>2
<1>11. Heard'
  <2> SUFFICES ASSUME NEW c \in Chats, NEW y \in users'[c] \cap LoggedIn,
                      NEW v \in users'[c] \cap LoggedIn
               PROVE  v \in Aware(y, c)' \/ WillList(y, c, v)'
    BY <1>1, <1>2 DEF Heard
  <2>0. y \in Threads /\ y \in Users
    BY DEF LoggedIn
  <2>1. y # u \/ c # chat[u]
    BY <1>3
  <2>2. v \in Aware(y, c) \/ WillList(y, c, v)
    BY <1>0, <1>5 DEF Heard
  <2>3. WillList(y, c, v) => y # u
    BY <1>1 DEF WillList
  <2> QED
    BY <1>1, <1>7, <2>0, <2>1, <2>2, <2>3 DEF WillList
<1>12. Announced'
  <2> SUFFICES ASSUME NEW x \in Users, Joining(x)', pc'[x] # "broadcast",
                      NEW y \in users'[chat[x]] \cap LoggedIn
               PROVE  x \in Aware(y, chat[x])' \/ (pc'[x] = "send" /\ y \in left[x])
    BY <1>1, <1>2 DEF Announced, Introduced
  <2>1. x # u /\ Joining(x) /\ pc'[x] = pc[x]
    BY <1>1 DEF Joining
  <2>2. chat[x] \in Chats /\ y \in Users
    BY <2>1 DEF Sound, Places, Place, Joining, LoggedIn
  <2>3. x \in Aware(y, chat[x]) \/ (pc[x] = "send" /\ y \in left[x])
    BY <1>0, <1>5, <2>1, <2>2 DEF Announced, Introduced
  <2>4. y # u \/ chat[x] # chat[u]
    BY <1>3
  <2>5. Aware(y, chat[x])' = Aware(y, chat[x])
    BY <1>1, <1>7, <2>2, <2>4 DEF Aware
  <2> QED
    BY <2>1, <2>3, <2>5
<1>13. Forgotten'
  <2> SUFFICES ASSUME NEW c \in Chats, NEW y \in users'[c] \cap LoggedIn,
                      NEW v \in Sure(y, c)' \cap LoggedIn, v \notin users'[c]
               PROVE  WillForget(y, c, v)' \/ (Joining(v)' /\ chat'[v] = c)
    BY <1>1, <1>2 DEF Forgotten
  <2>0. v \in Threads /\ y \in Users
    BY DEF LoggedIn
  <2>s. y # u \/ c # chat[u]
    BY <1>3
  <2>1. v \in Sure(y, c) /\ y \in users[c]
    BY <1>5, <1>7, <2>0, <2>s
  <2>2. CASE v \in users[c]
    <3>1. v = u /\ c = chat[u] /\ message[u].kind = "leave"
      BY <1>2, <1>4, <2>2
    <3> QED
      BY <1>1, <3>1 DEF WillForget, Leaving
  <2>3. CASE v \notin users[c]
    <3>1. WillForget(y, c, v) \/ (Joining(v) /\ chat[v] = c)
      BY <1>0, <2>1, <2>3 DEF Forgotten
    <3>2. v # u
      BY <1>1, <3>1 DEF WillForget, Joining, Leaving
    <3> QED
      BY <1>1, <2>0, <3>1, <3>2 DEF WillForget, Joining, Leaving
  <2> QED
    BY <2>2, <2>3
<1> QED
  BY <1>9, <1>10, <1>11, <1>12, <1>13 DEF Attended

LEMMA AttendedInit == Init => Attended
<1> SUFFICES ASSUME Init PROVE Attended
  OBVIOUS
<1>1. \A t \in Threads : pc[t] = "idle"
  BY DEF Init
<1>2. Seated /\ Announced
  BY <1>1, NamesDiffer
  DEF Seated, Inside, Reads, Lists, Joining, Leaving, Announced, Introduced
<1>3. Outside /\ Heard /\ Forgotten
  BY PresentAssumption DEF Init, Outside, Heard, Forgotten, Aware, Sure
<1> QED
  BY <1>2, <1>3 DEF Attended

LEMMA AttendedStep ==
  ASSUME Sound, Calm => Attended, [Next]_vars PROVE (Calm => Attended)'
<1> SUFFICES ASSUME Calm' PROVE Attended'
  OBVIOUS
<1>1. requests' = requests
  BY DEF Next, vars
<1>2. Calm /\ Attended
  BY <1>1 DEF Calm, Joiners
<1>3. CASE UNCHANGED vars
  BY <1>2, <1>3
  DEF vars, chatVars, threadVars, clientVars, Attended, Seated, Inside, Outside, Heard, Announced,
      Forgotten, Introduced, Aware, Sure, WillList, WillForget, Reads, Lists, Joining, Leaving,
      LoggedIn
<1>4. ASSUME NEW t \in Threads, BroadcastStep(t) PROVE Attended'
  BY <1>1, <1>2, <1>4, BroadcastAttended, SendAttended DEF BroadcastStep
<1>5. ASSUME NEW u \in Users, HandlerStep(u) PROVE Attended'
  BY <1>1, <1>2, <1>5, AddAttended, ListAttended, WriteAttended, RemoveAttended, CountAttended,
     HandlerAttended
  DEF HandlerStep
<1>6. ASSUME NEW u \in Users, EndTransfer(u) PROVE Attended'
  BY <1>1, <1>2, <1>6, HandlerAttended
<1> QED
  BY <1>1, <1>2, <1>3, <1>4, <1>5, <1>6, RequestAttended, StatusAttended, TimerAttended,
     DisconnectAttended
  DEF Next

(* Whenever no request is handled, each member of a chat has been told of  *)
(* every other one, or transferred a file when it came or went last: the   *)
(* members at the time of the join message are all told before the user is *)
(* added, and the list it then gets has them all, while one user joins at  *)
(* a time and nobody is kicked.                                            *)
THEOREM NobodyIsMissed == Spec => []NobodyMissed
<1>1. Init => (Calm => Attended)
  BY AttendedInit
<1>2. Sound /\ (Calm => Attended) /\ [Next]_vars => (Calm => Attended)'
  BY AttendedStep
<1>3. Sound /\ (Calm => Attended) => NobodyMissed
  <2> SUFFICES ASSUME Attended, Quiet, NEW c \in Chats, NEW m \in users[c] \cap LoggedIn,
                      NEW u \in users[c] \cap LoggedIn
               PROVE  u \in view[m][c] \cup unsent[m][c]
    BY DEF NobodyMissed
  <2>1. ~WillList(m, c, u)
    BY NamesDiffer DEF Quiet, WillList, LoggedIn
  <2> QED
    BY <2>1 DEF Attended, Heard, Aware
<1> QED
  BY <1>1, <1>2, <1>3, ChatsSound, PTL DEF Spec

(* Whenever no request is handled, no member believes one who left by      *)
(* request to be still there, unless it transferred a file at that time:   *)
(* nobody is removed while somebody lists the members, and whoever was     *)
(* listed before is announced as leaving after, while one user joins at a  *)
(* time and nobody is kicked.                                              *)
THEOREM WhoLeftIsForgotten == Spec => []LeaversAreForgotten
<1>1. Init => (Calm => Attended)
  BY AttendedInit
<1>2. Sound /\ (Calm => Attended) /\ [Next]_vars => (Calm => Attended)'
  BY AttendedStep
<1>3. Sound /\ (Calm => Attended) => LeaversAreForgotten
  <2> SUFFICES ASSUME Attended, Quiet, NEW c \in Chats, NEW m \in users[c] \cap LoggedIn,
                      NEW u \in view[m][c] \cap LoggedIn
               PROVE  u \in users[c] \cup unsent[m][c]
    BY DEF LeaversAreForgotten
  <2>1. ~WillForget(m, c, u) /\ ~Joining(u)
    BY NamesDiffer DEF Quiet, WillForget, Joining, Leaving, LoggedIn
  <2> QED
    BY <2>1 DEF Attended, Forgotten, Sure
<1> QED
  BY <1>1, <1>2, <1>3, ChatsSound, PTL DEF Spec
====
