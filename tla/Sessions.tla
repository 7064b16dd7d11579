---- MODULE Sessions ----
(***************************************************************************)
(* The sessions of the wired daemon: the listen thread and the limit on    *)
(* connections (wired/server.c), the thread of each connection with its    *)
(* login (wired/messages.c), the table of users (wired/users.c), and what  *)
(* administrators do to sessions meanwhile: disconnecting and banning      *)
(* users, editing and deleting accounts (wired/messages.c, accounts.c,     *)
(* banlist.c).                                                             *)
(*                                                                         *)
(* A user is a client with an address of its own that may connect again    *)
(* when its connection has ended.  An administrator is a session that is   *)
(* not modelled itself: it handles one request at a time.  An account is   *)
(* the number of times it was edited, Null where there is none.  Groups,   *)
(* which are edited and reloaded like accounts, and the creation of an     *)
(* account under a free name are left out, and so is the end of a ban that *)
(* expires.                                                                *)
(*                                                                         *)
(* A getter or setter of a user, a statement of SQLite, or a look into     *)
(* wd_users is one step.  `missed' is a history variable: it marks the     *)
(* sessions that what an administrator did has missed.                     *)
(***************************************************************************)
EXTENDS Integers, FiniteSets

CONSTANTS
  Users,
  Admins,
  Logins,    \* names of accounts
  Pending,   \* WD_MAX_PENDING_CONNECTIONS
  Edits,     \* bound on the edits of an account
  Deficit,   \* bound on what the counter of users falls short of zero
  Scenarios, \* sets of what clients and administrators may do, of AllRequests
  Tables     \* which accounts there may be at first in each of them

AllRequests == {"again",       \* client_info and send_login after the login
                "unwritable",  \* a reply before the login cannot be written
                "refused",     \* a wrong password
                "disconnect", "ban", "edit", "delete",
                "rename",      \* edits that give the account a new name
                "banlist"}     \* add_ban and delete_ban

None == "none"
Null == -1     \* no account

ASSUME UsersAssumption    == IsFiniteSet(Users) /\ None \notin Users
ASSUME PendingAssumption  == Pending \in Nat
ASSUME EditsAssumption    == Edits \in Nat
ASSUME DeficitAssumption  == Deficit \in Nat
ASSUME LoginsAssumption   == None \notin Logins
ASSUME ScenariosAssumption == Scenarios \subseteq SUBSET AllRequests
ASSUME TablesAssumption   == Tables \in [Scenarios -> SUBSET [Logins -> {0, Null}]]

VARIABLES
  requests,    \* the scenario
  up,          \* the daemon runs
  listener,    \* the client that the listen thread has found a place for
  pending,     \* _wd_pending_connections
  wd_users,    \* the users that can be found
  wd_current_users,
  pc,          \* where the thread of each connection is
  state,       \* user->state
  login,       \* user->login
  account,     \* user->account, as it was when it was read
  read,        \* the account that the login handler has read
  accounts,    \* the table of accounts
  banlist,
  job,         \* what each administrator's handler does next
  name,        \* the account it is about
  targets,     \* the users it has still to visit
  stale,       \* those of them whose connection has ended
  missed       \* sessions that slipped through

userVars  == <<wd_users, pc, state, login, account, read>>
dataVars  == <<accounts, banlist>>
adminVars == <<job, name, targets, stale>>
connVars  == <<listener, pending>>
vars == <<requests, up, connVars, wd_current_users, userVars, dataVars, adminVars, missed>>

Versions == Nat
States   == {"NONE", "CONNECTED", "GAVE_CLIENT_INFO", "LOGGED_IN", "DISCONNECTED"}

TypeOK ==
  /\ requests \in Scenarios
  /\ up \in BOOLEAN
  /\ listener \in Users \cup {None}
  /\ pending \in 0..Pending
  /\ wd_users \subseteq Users
  /\ wd_current_users \in Int
  /\ pc \in [Users -> {"off", "accept", "loop", "message", "info", "refuse", "account",
                       "set", "state", "count", "leave", "remove", "end"}]
  /\ state \in [Users -> States]
  /\ login \in [Users -> Logins \cup {None}]
  /\ account \in [Users -> Versions \cup {Null}]
  /\ read \in [Users -> Versions \cup {Null}]
  /\ accounts \in [Logins -> Versions \cup {Null}]
  /\ banlist \subseteq Users
  /\ job \in [Admins -> {"idle", "ban", "edit", "reload", "delete", "disconnect"}]
  /\ name \in [Admins -> Logins \cup {None}]
  /\ targets \in [Admins -> SUBSET Users]
  /\ stale \in [Admins -> SUBSET Users]
  /\ missed \subseteq Users

Init ==
  /\ requests \in Scenarios
  /\ up = TRUE /\ listener = None /\ pending = 0
  /\ wd_users = {} /\ wd_current_users = 0
  /\ pc = [u \in Users |-> "off"]
  /\ state = [u \in Users |-> "NONE"]
  /\ login = [u \in Users |-> None]
  /\ account = [u \in Users |-> Null]
  /\ read = [u \in Users |-> Null]
  /\ accounts \in Tables[requests]
  /\ banlist = {}
  /\ job = [a \in Admins |-> "idle"]
  /\ name = [a \in Admins |-> None]
  /\ targets = [a \in Admins |-> {}]
  /\ stale = [a \in Admins |-> {}]
  /\ missed = {}

Goto(u, label) == pc' = [pc EXCEPT ![u] = label]

(* wd_users is locked for reading while accounts are reloaded. *)
UsersUnlocked == \A a \in Admins : job[a] # "reload"

-----------------------------------------------------------------------------
(* The listen thread and the beginning of a connection. *)

CheckTooLate(u) ==     \* one connection too many
  /\ listener = None /\ pc[u] = "off"
  /\ pending <= Pending
  /\ listener' = u
  /\ UNCHANGED <<pending, wd_current_users, userVars, dataVars, adminVars, missed>>

(* The counter is compared ... *)
Check(u) ==
  /\ listener = None /\ pc[u] = "off"
  /\ pending < Pending
  /\ listener' = u
  /\ UNCHANGED <<pending, wd_current_users, userVars, dataVars, adminVars, missed>>

(* ... and raised later; the thread of the connection starts.  When it     *)
(* cannot be created the counter is lowered again.                         *)
Start(u) ==
  /\ listener = u
  /\ listener' = None
  /\ \/ pending' = pending + 1 /\ Goto(u, "accept")
     \/ UNCHANGED <<pending, pc>>
  /\ UNCHANGED <<wd_current_users, wd_users, state, login, account, read, dataVars,
                 adminVars, missed>>

(* The handshake succeeds and the user is added to wd_users, or it fails.  *)
Accept(u) ==
  /\ pc[u] = "accept"
  /\ \/ /\ UsersUnlocked
        /\ state' = [state EXCEPT ![u] = "CONNECTED"]
        /\ wd_users' = wd_users \cup {u}
        /\ Goto(u, "loop")
     \/ Goto(u, "end") /\ UNCHANGED <<state, wd_users>>
  /\ UNCHANGED <<connVars, wd_current_users, login, account, read, dataVars, adminVars, missed>>

-----------------------------------------------------------------------------
(* The message loop. *)

(* The state is tested when the wait for a message ends. *)
TakeAny(u) ==     \* whatever the state
  /\ pc[u] = "loop"
  /\ Goto(u, "message")
  /\ UNCHANGED <<connVars, wd_current_users, wd_users, state, login, account, read, dataVars,
                 adminVars, missed>>

Take(u) ==
  /\ pc[u] = "loop" /\ state[u] # "DISCONNECTED"
  /\ Goto(u, "message")
  /\ UNCHANGED <<connVars, wd_current_users, wd_users, state, login, account, read, dataVars,
                 adminVars, missed>>

(* The user was disconnected, or its client closed or was silent for too long. *)
Break(u) ==
  /\ pc[u] = "loop"
  /\ Goto(u, "leave")
  /\ UNCHANGED <<connVars, wd_current_users, wd_users, state, login, account, read, dataVars,
                 adminVars, missed>>

(* wd_messages_handle_message lets some messages through in each state, and *)
(* all of them once a user is logged in or disconnected.  A client that     *)
(* does not log in again sends client_info first and nothing but pings and  *)
(* logins until one succeeds.                                               *)
MayHandle(u, message) ==
  CASE state[u] = "CONNECTED"        -> message = "client_info"
    [] state[u] = "GAVE_CLIENT_INFO" -> message # "client_info"
    [] OTHER                         -> message = "other" \/ "again" \in requests
                                        \/ (message = "send_login" /\ account[u] = Null)

(* wd_message_client_info replies, then sets the state. *)
ClientInfo(u) ==
  /\ pc[u] = "message" /\ MayHandle(u, "client_info")
  /\ Goto(u, "info")
  /\ UNCHANGED <<connVars, wd_current_users, wd_users, state, login, account, read, dataVars,
                 adminVars, missed>>

SetClientInfo(u) ==
  /\ pc[u] = "info"
  /\ state' = [state EXCEPT ![u] = "GAVE_CLIENT_INFO"]
  /\ Goto(u, "loop")
  /\ UNCHANGED <<connVars, wd_current_users, wd_users, login, account, read, dataVars,
                 adminVars, missed>>

(* A message that changes nothing here. *)
Other(u) ==
  /\ pc[u] = "message"
  /\ Goto(u, "loop")
  /\ UNCHANGED <<connVars, wd_current_users, wd_users, state, login, account, read, dataVars,
                 adminVars, missed>>

(* wd_message_send_login: the login is stored and the banlist searched.    *)
SendLogin(u, l) ==
  /\ pc[u] = "message" /\ MayHandle(u, "send_login")
  /\ login' = [login EXCEPT ![u] = l]
  /\ Goto(u, IF u \in banlist THEN "refuse" ELSE "account")
  /\ UNCHANGED <<connVars, wd_current_users, wd_users, state, account, read, dataVars,
                 adminVars, missed>>

(* The account is read and the password compared. *)
ReadAccount(u) ==
  /\ pc[u] = "account"
  /\ \/ /\ accounts[login[u]] # Null
        /\ read' = [read EXCEPT ![u] = accounts[login[u]]]
        /\ Goto(u, "set")
     \/ /\ accounts[login[u]] = Null \/ "refused" \in requests
        /\ Goto(u, "refuse") /\ UNCHANGED read
  /\ UNCHANGED <<connVars, wd_current_users, wd_users, state, login, account, dataVars,
                 adminVars, missed>>

(* The reply to a login that is refused.  Who cannot be written to is      *)
(* disconnected and will be taken off the counter without having been      *)
(* counted: Deficit bounds how far the counter falls below zero.           *)
Refuse(u) ==
  /\ pc[u] = "refuse"
  /\ Goto(u, "loop")
  /\ \/ UNCHANGED state
     \/ /\ "unwritable" \in requests /\ wd_current_users > -Deficit
        /\ state' = [state EXCEPT ![u] = "DISCONNECTED"]
  /\ UNCHANGED <<connVars, wd_current_users, wd_users, login, account, read, dataVars,
                 adminVars, missed>>

SetAccount(u) ==
  /\ pc[u] = "set"
  /\ account' = [account EXCEPT ![u] = read[u]]
  /\ read' = [read EXCEPT ![u] = Null]
  /\ Goto(u, "state")
  /\ UNCHANGED <<connVars, wd_current_users, wd_users, state, login, dataVars, adminVars, missed>>

(* The state is stored whatever it was. *)
SetLoggedIn(u) ==
  /\ pc[u] = "state"
  /\ state' = [state EXCEPT ![u] = "LOGGED_IN"]
  /\ Goto(u, "count")
  /\ UNCHANGED <<connVars, wd_current_users, wd_users, login, account, read, dataVars,
                 adminVars, missed>>

CountUserLoggedIn(u) ==     \* the state is stored with the count
  /\ pc[u] = "count"
  /\ wd_current_users' = wd_current_users + 1
  /\ state' = [state EXCEPT ![u] = "LOGGED_IN"]
  /\ Goto(u, "loop")
  /\ UNCHANGED <<connVars, wd_users, login, account, read, dataVars, adminVars, missed>>

(* The replies, the pending messages and the known users follow. *)
CountUser(u) ==
  /\ pc[u] = "count"
  /\ wd_current_users' = wd_current_users + 1
  /\ Goto(u, "loop")
  /\ UNCHANGED <<connVars, wd_users, state, login, account, read, dataVars, adminVars, missed>>

(* A thread cannot write to a user that is logged in. *)
Unwritable(u) ==
  /\ state[u] = "LOGGED_IN"
  /\ state' = [state EXCEPT ![u] = "DISCONNECTED"]
  /\ UNCHANGED <<connVars, wd_current_users, wd_users, pc, login, account, read, dataVars,
                 adminVars, missed>>

-----------------------------------------------------------------------------
(* The end of a connection. *)

LeaveUnlessDisconnected(u) ==     \* a user that was disconnected stays counted
  /\ pc[u] = "leave"
  /\ wd_current_users' = IF state[u] = "LOGGED_IN" THEN wd_current_users - 1
                         ELSE wd_current_users
  /\ state' = [state EXCEPT ![u] = "DISCONNECTED"]
  /\ Goto(u, "remove")
  /\ UNCHANGED <<connVars, wd_users, login, account, read, dataVars, adminVars, missed>>

(* Who is logged in or was disconnected is not counted any more. *)
Leave(u) ==
  /\ pc[u] = "leave"
  /\ wd_current_users' = IF state[u] \in {"LOGGED_IN", "DISCONNECTED"}
                         THEN wd_current_users - 1 ELSE wd_current_users
  /\ state' = [state EXCEPT ![u] = "DISCONNECTED"]
  /\ Goto(u, "remove")
  /\ UNCHANGED <<connVars, wd_users, login, account, read, dataVars, adminVars, missed>>

RemoveUser(u) ==
  /\ pc[u] = "remove" /\ UsersUnlocked
  /\ wd_users' = wd_users \ {u}
  /\ Goto(u, "end")
  /\ UNCHANGED <<connVars, wd_current_users, state, login, account, read, dataVars,
                 adminVars, missed>>

(* The counter is lowered at the end of the thread.  The user is released, *)
(* and who still holds it sets the state of a user without a connection.   *)
End(u) ==
  /\ pc[u] = "end"
  /\ pending' = pending - 1
  /\ Goto(u, "off")
  /\ state' = [state EXCEPT ![u] = "NONE"]
  /\ login' = [login EXCEPT ![u] = None]
  /\ account' = [account EXCEPT ![u] = Null]
  /\ stale' = [a \in Admins |-> stale[a] \cup (targets[a] \cap {u})]
  /\ missed' = missed \ {u}
  /\ UNCHANGED <<listener, wd_current_users, wd_users, read, dataVars, job, name, targets>>

Thread(u) ==
  \/ Accept(u)
  \/ ClientInfo(u) \/ SetClientInfo(u) \/ Other(u)
  \/ ReadAccount(u) \/ Refuse(u) \/ SetAccount(u) \/ SetLoggedIn(u) \/ CountUser(u)
  \/ Leave(u) \/ RemoveUser(u) \/ End(u)

Client(u) ==
  Check(u) \/ Start(u) \/ Take(u) \/ Break(u) \/ Unwritable(u) \/ \E l \in Logins : SendLogin(u, l)

-----------------------------------------------------------------------------
(* Administrators.  `disconnect' is the last step of three requests. *)

Become(a, next) == job' = [job EXCEPT ![a] = next]
Aim(a, users)   == targets' = [targets EXCEPT ![a] = users]

(* Sessions that are past the reading of their account. *)
HasRead(u) == read[u] # Null \/ account[u] # Null

(* disconnect_user and ban_user find the peer and look into its account.   *)
(* A peer without one, who has not logged in yet, crashes the daemon.      *)
FindPeer(a, peer, next) ==
  /\ job[a] = "idle" /\ peer \in wd_users
  /\ IF account[peer] = Null
     THEN up' = FALSE /\ UNCHANGED <<job, targets>>
     ELSE Become(a, next) /\ Aim(a, {peer}) /\ UNCHANGED up
  /\ UNCHANGED <<connVars, wd_current_users, userVars, dataVars, name, stale, missed>>

DisconnectUser(a, peer) == "disconnect" \in requests /\ FindPeer(a, peer, "disconnect")
BanUser(a, peer)        == "ban" \in requests /\ FindPeer(a, peer, "ban")

(* wd_banlist_add_ban; an address that is banned already is an error, and  *)
(* nobody is disconnected.  A later session of the address slips through.  *)
AddBan(a, peer) ==
  /\ job[a] = "ban" /\ peer \in targets[a]
  /\ IF peer \in banlist
     THEN /\ Become(a, "idle") /\ Aim(a, {})
          /\ stale' = [stale EXCEPT ![a] = {}]
          /\ UNCHANGED <<banlist, missed>>
     ELSE /\ Become(a, "disconnect")
          /\ banlist' = banlist \cup {peer}
          /\ missed' = missed \cup (stale[a] \cap {peer})
          /\ UNCHANGED <<targets, stale>>
  /\ UNCHANGED <<connVars, wd_current_users, userVars, accounts, name>>

(* banlist.add_ban adds a ban and disconnects nobody: who is connected, or  *)
(* logs in and has had the banlist searched, slips through.                *)
AddToBanlist(a, u) ==
  /\ "banlist" \in requests
  /\ job[a] = "idle" /\ u \notin banlist
  /\ banlist' = banlist \cup {u}
  /\ missed' = IF pc[u] = "account" \/ HasRead(u) THEN missed \cup {u} ELSE missed
  /\ UNCHANGED <<connVars, wd_current_users, userVars, accounts, adminVars>>

(* banlist.delete_ban. *)
DeleteBan(a, u) ==
  /\ "banlist" \in requests
  /\ job[a] = "idle" /\ u \in banlist
  /\ banlist' = banlist \ {u}
  /\ UNCHANGED <<connVars, wd_current_users, userVars, accounts, adminVars, missed>>

(* The last step: each of the users is disconnected.  One that has not     *)
(* stored its own state yet slips through.                                 *)
SetDisconnected(a, u) ==
  /\ job[a] = "disconnect" /\ u \in targets[a]
  /\ IF u \in stale[a]
     THEN UNCHANGED <<state, missed>>
     ELSE /\ state' = [state EXCEPT ![u] = "DISCONNECTED"]
          /\ missed' = IF pc[u] \in {"set", "state"} THEN missed \cup {u} ELSE missed
  /\ Aim(a, targets[a] \ {u})
  /\ UNCHANGED <<connVars, wd_current_users, wd_users, pc, login, account, read, dataVars,
                 job, name, stale>>

Finish(a) ==
  /\ job[a] \in {"disconnect", "reload"} /\ targets[a] = {}
  /\ Become(a, "idle")
  /\ name' = [name EXCEPT ![a] = None]
  /\ stale' = [stale EXCEPT ![a] = {}]
  /\ UNCHANGED <<connVars, wd_current_users, userVars, dataVars, targets, missed>>

(* delete_user lists the users of the account.  When they are not to be    *)
(* disconnected there must be none.                                        *)
FindUsers(a, l, disconnect_users) ==
  LET users == {u \in wd_users : login[u] = l}
  IN /\ "delete" \in requests
     /\ job[a] = "idle" /\ accounts[l] # Null
     /\ disconnect_users \/ users = {}
     /\ Become(a, "delete") /\ Aim(a, users)
     /\ name' = [name EXCEPT ![a] = l]
     /\ UNCHANGED <<connVars, wd_current_users, userVars, dataVars, stale, missed>>

(* Then it deletes the account.  Who has read the account but is not on    *)
(* the list slips through.                                                 *)
DeleteUser(a) ==
  /\ job[a] = "delete"
  /\ Become(a, "disconnect")
  /\ accounts' = [accounts EXCEPT ![name[a]] = Null]
  /\ missed' = missed \cup {u \in Users : /\ login[u] = name[a] /\ HasRead(u)
                                       /\ u \notin targets[a] \ stale[a]}
  /\ UNCHANGED <<connVars, wd_current_users, userVars, banlist, name, targets, stale>>

(* edit_user finds the account, ... *)
FindAccount(a, l) ==
  /\ "edit" \in requests
  /\ job[a] = "idle" /\ accounts[l] \in 0..(Edits - 1)
  /\ Become(a, "edit")
  /\ name' = [name EXCEPT ![a] = l]
  /\ UNCHANGED <<connVars, wd_current_users, userVars, dataVars, targets, stale, missed>>

(* ... updates its row, if that is still there, and locks wd_users.  A new *)
(* name is put into the account before it is reloaded, so that no session  *)
(* with the old name will be found.                                        *)
EditUser(a, new_name) ==
  LET old == name[a]
  IN /\ job[a] = "edit" /\ Become(a, "reload")
     /\ new_name = old \/ "rename" \in requests
     /\ name' = [name EXCEPT ![a] = new_name]
     /\ IF accounts[old] = Null
        THEN UNCHANGED <<accounts, missed>>
        ELSE /\ new_name = old \/ accounts[new_name] = Null
             /\ accounts' = [accounts EXCEPT ![old] = Null, ![new_name] = accounts[old] + 1]
             /\ missed' = IF new_name = old THEN missed
                          ELSE missed \cup {u \in Users : login[u] = old /\ HasRead(u)}
     /\ Aim(a, wd_users)
     /\ UNCHANGED <<connVars, wd_current_users, userVars, banlist, stale>>

(* The new name is that of another account: nothing is updated. *)
FailToRename(a, new_name) ==
  /\ "rename" \in requests
  /\ job[a] = "edit" /\ Become(a, "idle")
  /\ new_name # name[a] /\ accounts[new_name] # Null
  /\ name' = [name EXCEPT ![a] = None]
  /\ UNCHANGED <<connVars, wd_current_users, userVars, dataVars, targets, stale, missed>>

ReloadLoggedIn(a, u) ==     \* only for users that are logged in
  /\ job[a] = "reload" /\ u \in targets[a]
  /\ account' = IF state[u] = "LOGGED_IN" /\ login[u] = name[a] /\ accounts[name[a]] # Null
                THEN [account EXCEPT ![u] = accounts[name[a]]] ELSE account
  /\ missed' = IF login[u] = name[a] /\ pc[u] = "set" THEN missed \cup {u} ELSE missed
  /\ Aim(a, targets[a] \ {u})
  /\ UNCHANGED <<connVars, wd_current_users, wd_users, pc, state, login, read, dataVars,
                 job, name, stale>>

(* A user with the account gets it as it is now.  One that has read it but *)
(* has not stored it yet slips through.                                    *)
Reload(a, u) ==
  /\ job[a] = "reload" /\ u \in targets[a]
  /\ account' = IF account[u] # Null /\ login[u] = name[a] /\ accounts[name[a]] # Null
                THEN [account EXCEPT ![u] = accounts[name[a]]] ELSE account
  /\ missed' = IF login[u] = name[a] /\ pc[u] = "set" THEN missed \cup {u} ELSE missed
  /\ Aim(a, targets[a] \ {u})
  /\ UNCHANGED <<connVars, wd_current_users, wd_users, pc, state, login, read, dataVars,
                 job, name, stale>>

AdminStep(a) ==
  \/ DeleteUser(a) \/ Finish(a)
  \/ \E l \in Logins : EditUser(a, l) \/ FailToRename(a, l)
  \/ \E u \in Users : AddBan(a, u) \/ SetDisconnected(a, u) \/ Reload(a, u)

Admin(a) ==
  \/ AdminStep(a)
  \/ \E u \in Users : AddToBanlist(a, u) \/ DeleteBan(a, u)
  \/ \E l \in Logins : FindAccount(a, l) \/ \E flag \in BOOLEAN : FindUsers(a, l, flag)

-----------------------------------------------------------------------------
Next ==
  /\ up /\ UNCHANGED requests
  /\ \/ /\ \/ \E u \in Users : Client(u) \/ Thread(u)
           \/ \E a \in Admins : Admin(a)
        /\ UNCHANGED up
     \/ \E a \in Admins, u \in Users : DisconnectUser(a, u) \/ BanUser(a, u)

Spec == Init /\ [][Next]_vars

(* Clients and administrators send what they like, when they like.  A      *)
(* thread goes on, and gets the lock of wd_users that is free again and    *)
(* again.                                                                  *)
Finishing(u) == (state[u] = "DISCONNECTED" /\ Break(u)) \/ Leave(u) \/ End(u)

Fairness ==
  /\ \A u \in Users : /\ WF_vars(up /\ Finishing(u) /\ UNCHANGED <<up, requests>>)
                      /\ SF_vars(up /\ RemoveUser(u) /\ UNCHANGED <<up, requests>>)
  /\ \A a \in Admins : WF_vars(up /\ AdminStep(a) /\ UNCHANGED <<up, requests>>)

FairSpec == Spec /\ Fairness

-----------------------------------------------------------------------------
(* Properties. *)

(* Users whose login has stored its state. *)
LoggedIn == {u \in Users : account[u] # Null /\ pc[u] # "state"}

(* Counted as online, from the login until the message loop has ended. *)
Online == {u \in LoggedIn : pc[u] \notin {"count", "remove", "end"}}

Threads == {u \in Users : pc[u] # "off"}

P == INSTANCE Presence WITH
       Limit <- Pending, connected <- Threads, online <- Online,
       places <- pending, count <- wd_current_users

(* The listener keeps to its limit although it compares and raises the     *)
(* counter in two steps, and the published number of users (the status     *)
(* file, man/wired.8) follows the logins and the ends of connections,      *)
(* whatever is disconnected, banned or edited meanwhile.  Clients log in   *)
(* once, replies before the login can be written and no account is         *)
(* deleted: each of these makes the counter wrong.                         *)
ImplementsPresence == P!Spec

(* A user that was disconnected after its login is not logged in again by  *)
(* its own handler, which stores the state without looking at it.          *)
DisconnectIsFinal ==
  [][\A u \in LoggedIn : state[u] = "DISCONNECTED" => state'[u] \in {"DISCONNECTED", "NONE"}]_vars

(* When no administrator is at work, a user that is logged in has the      *)
(* account as it is now, with the privileges it was given last, and is not *)
(* banned, however logins, edits, deletions, bans and disconnects overlap. *)
(* Three kinds of sessions are missed, and there is no other gap: one that *)
(* was between reading and storing when the change was made, those of an   *)
(* account that was given a new name, which are not reloaded, and those of *)
(* an address that add_ban put on the banlist.  Clients log in once: a     *)
(* second login stores its name before it has read the account.            *)
SessionsAreCurrent ==
  (\A a \in Admins : job[a] = "idle") =>
    \A u \in Online \ missed :
      state[u] = "LOGGED_IN" => account[u] = accounts[login[u]] /\ u \notin banlist

(* A connection whose user was disconnected ends, and its place is free    *)
(* again, while the client goes on sending.                                *)
DisconnectedEnd ==
  \A u \in Users : (state[u] = "DISCONNECTED" /\ pc[u] = "loop") ~> (~up \/ pc[u] = "off")
====
