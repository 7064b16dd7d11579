# The wired daemon in TLA+

This directory specifies the concurrent core of the *wired* file and chat server
(`src/wired/wired/`): what its threads do to the state they share, in the steps in
which another thread may come between. TLC checks the modules on small instances,
TLAPS proves the most important facts about the transfer queue, the chats, the trackers,
the sessions, the offline messages and the index for all of them.

In a path below, `wired/` is `src/wired/wired/`.

## The system

| Component | Source | State it keeps | Who changes it |
|---|---|---|---|
| sessions and users | `users.c`, `server.c`, `messages.c` | `wd_users`, per user a state (CONNECTED, GAVE_CLIENT_INFO, LOGGED_IN, DISCONNECTED), nick, status, idle flag, account, transfer; the user counters | one thread per connection; any other connection by disconnect, ban, delete, or a failed write; the idle timer |
| transfer queue | `transfers.c` | the array `wd_transfers`, counters of active transfers in total and per client, each transfer's position and condition | connection threads, the queue thread, the settings |
| transfer data | `transfers.c` | a file and a socket | the connection's thread |
| chats | `chats.c`, `messages.c` | `wd_chats`, per chat its users, invitations and topic | connection threads, the idle timer |
| private and offline messages | `messages.c` | `pending_messages`, `offline_tokens` in SQLite | connection threads |
| boards | `boards.c` | threads and posts in SQLite, subscriptions | connection threads |
| accounts, groups | `accounts.c` | accounts in SQLite, a copy per logged in user | connection threads |
| banlist | `banlist.c` | bans in SQLite | connection threads |
| files | `files.c` | the file tree, its metadata, subscriptions | connection threads, the fsevents thread |
| index | `index.c` | the search index in SQLite | the index thread, connection threads |
| tracker, server side | `servers.c`, `server.c` | `wd_servers`, totals, a table in SQLite | connection threads, the UDP thread, a timer |
| tracker client | `trackers.c` | one entry per tracker: active, address, cipher | two timers, the UDP thread, signals |
| events | `events.c` | a log in SQLite | everybody |
| settings, main, log, port mapping | `settings.c`, `main.c`, `server.c`, `portmap.c` | configuration, status file | signals, connection threads |
| libwired | `src/wired/libwired` | locks, collections, the P7 protocol | library |
| macOS application | `src/Wired Server`, `src/Wired Server Helper` | preferences | user interface |

The parts meet in four ways. **Calls**: a connection's thread reads one message at a
time and runs its handler to the end (`wd_messages_loop_for_user`,
`wd_messages_handle_message`); when the loop ends it takes the user off the chats, the
transfers and the users. **Shared state**: users, chats and transfers are in locked
collections, but what is inside one is guarded by locks of its own, taken and given
back around single fields. **Conditions**: the queue thread sleeps on the condition of
`wd_transfers_queue_lock`, each waiting transfer on that of its `queue_lock`.
**Broadcasts**: a thread writes to the sockets of other users while it holds the
reader lock of the chat.

What is hard here: two locks taken in opposite orders; a field tested without the lock
under which it is changed; an array counted after it was unlocked; a message made
before a change and sent after it; a wakeup that comes while the sleeper works;
counters that are unsigned and raised and lowered by different threads; connections
that end at any of these moments. `PROJECT.json` lists these places under `hazards`,
each with the properties that are about it.

What makes each component correct:

* **queue**: limits are kept; every slot in use is counted and every slot not in use is
  given back; nobody waits while a slot is free; positions are ranks; a waiting client
  is served; a disconnected one is let go.
* **chats**: each member knows the members and their status; those who left are
  forgotten; an empty private chat goes, one with a member stays; each request is
  answered.
* **sessions**: a disconnect, ban or deletion takes effect whatever the user is doing;
  the counters count the logged in users.
* **offline messages**: each accepted message is stored until it is delivered, in order
  and once, within the limit; threads that use the database at once do not disturb each
  other's transactions.
* **trackers**: a server that runs is listed again after any loss; the totals are the
  sums over the listed servers.
* **index**: a file is found unless it slipped past the index in a known way, and what
  is wrong is repaired by the next walk; the published counts are those of the walk.
* **boards, accounts, files**: mostly a property of single SQL statements or single
  system calls, which a model would only repeat. What several of them do to a session
  is in `Sessions`, what they do to the index in `Index`.

## The modules

| Module | Models | Uses |
|---|---|---|
| `TransferQueue` | `transfers.c` without the data, and the ends of `messages.c`/`users.c` that start and end a transfer | an `INSTANCE` of `Slots` |
| `Slots` | the abstract specification of transfers that wait for a limited number of slots | |
| `Chats` | `chats.c`, the chat and status handlers, broadcasts, the idle timer | |
| `Sessions` | the listen and accept threads of `server.c`, login and the message loop of `messages.c`, `users.c`; disconnects, bans, edits and deletions of accounts (`messages.c`, `accounts.c`, `banlist.c`) | an `INSTANCE` of `Presence` |
| `Presence` | the abstract specification of connections and of who is online | |
| `OfflineMessages` | offline messages in `messages.c`, transactions of `wi-sqlite3.c` | |
| `Index` | `index.c`, the changes of `files.c`, `rebuild-index.sh` | |
| `Trackers` | `trackers.c`, `servers.c`, the UDP thread of `server.c`, and the network between two daemons | |
| `MC...` | the instances of each for TLC | the module |
| `TransferQueueProofs`, `ClientQueueProofs`, `WakeupProofs`, `ChatsProofs`, `TrackersProofs`, `SessionsProofs`, `OfflineProofs`, `IndexProofs` | theorems | the module, `TLAPS` |

### TransferQueue

A connection runs at most one transfer at a time, on its own thread, so a transfer is
named by its user. `pc[u]` is where that thread is, `qpc` where the queue thread is and
`spc` where a change of the settings is.

| Code | Model |
|---|---|
| the transfer handlers (`wd_message_transfer_download_file`, upload), `wd_transfer_init` | `CreateTransfer` |
| `wd_transfers_run_transfer`: add, signal, wait, run, release, delete, signal | `AddTransfer`, `SignalAdded`, `WakeUp`, `WritePosition`, `FailToWritePosition`, `FinishTransfer`, `ReleaseSlot`/`SkipRelease`, `ReleaseClient`, `DeleteTransfer`, `SignalEnd` |
| `wd_transfers_queue_thread`: a pass | `BeginPass`, `CollectTransfers`, `CheckTransfer` for each transfer in the order `Before`, `AddActive`, `AddClient`, `StorePosition`, `EndPass` |
| `wd_transfers_remove_user`, `wd_users_remove_user` | `LeaveLoop`, `LookForClient`, `LockTransfers`, `ScanTransfer`, `EndScan`/`SignalRemoved`, `LeaveUsers` |
| `wd_transfers_apply_settings` | `ApplySettings`, `SignalSettings` |
| disconnect by another thread; login | `Disconnect`, `Login` |

`Blocked` is the comparison with the limits; the counters are read under
`wd_transfers_status_lock` and raised after it was given back, which is why
`CheckTransfer`, `AddActive` and `AddClient` are three steps. `key_queues`, a dictionary
of arrays rebuilt in each pass, is the set `todo` with the order in which the pass
takes its members: round after round one transfer of each key, keys in the order of
their first transfers. `ScanTransfer` treats a running transfer of the client as
passed over, because the wait for it ends after a second in any case.

The constant `Faults` names what the environment does in an instance: a client that
leaves or whose transfer fails, a disconnect by somebody else, a failed write of a
position, logging in again, a change of the limits.

`Slots` says what the queue is for: a transfer asks, waits, is given a slot while fewer
than the limits in force allow are in use, moves data only while it has it, and gives it
back once. `ImplementsSlots` maps `type` and `total` to themselves and the place of a
transfer to its `Phase`: it has a slot (`Reserved`) from the moment the queue thread
decides to give it one, three steps before its `queue` becomes 0, until
`wd_transfers_run_transfer` releases it. If the thread has passed its release when the 0
is stored, the slot counts as given back there, although the counters keep it.

### Chats

`pc[t]` is where each connection's thread, or the timer's, is. A handler is one first
step with its guards (`JoinChat`, `LeaveChat`, `KickUser`, `CreateChat`, `InviteUser`,
`DeclineInvitation`, `SetStatus`, `SetIdle`), then the steps it shares with others: a
broadcast (`BeginBroadcast`, `Send` to each member, `EndBroadcast`), adding the user and
listing the members (`AddUser`, `BeginList`, `ReadMember`, `WriteMember`, `EndList`),
removing one and dropping the chat (`RemoveUser`, `CountUsers`, `DropChat`), a status
broadcast (`FindChats`, `LockUser`, `NextChat`, `EndStatus`), and `WakeUp`, which ends
every handler and clears the idle flag. `Disconnect`, `LeaveLoop`, `LockChats`,
`RemoveFromNext`, `UnlockChats` and `LeaveUsers` are the end of a connection, `MarkIdle`
a pass of the idle timer. `BeginTransfer` and `EndTransfer` are what the transfer handlers
do here: between them `user->transfer` is set, and `wd_user_send_message` sends the user
nothing (`server.c:963`), which `Send` shows as `Withhold` in place of `Deliver`.

Locks that are held across steps are variables: `user_lock` (recursive), the writer's
lock of `wd_chats`, and the number of readers of each `chat->users`. `view` and `known`
are what a client makes of the messages it got: whom it believes to be on a chat, and
each user's status. nick, status, icon and color are changed and broadcast in the same
way and are one two-valued `status`. That an administrator who edits an account gives its
users a nick and a color (`accounts.c:1688-1710`) is left out. `unsent` and `stale` are
history variables: whose last coming or going, and whose last status, was withheld from a
client. They are cleared when a later message about the same user arrives.

The constant `Scenarios` says what each client asks for in an instance. A chat that was dropped is
never created again under the same id (ids count up), so each private chat is created
once. A pass of the timer is about one user. `opened` remembers which private chats
somebody has joined, for `EmptyIsDropped`.

### Trackers

One daemon registers with another: each server has a register thread (`reg`), an update
timer and what it knows of the tracker (`active`, `cipher`); the tracker has a handler of
`send_register` per session (`hpc`), the UDP thread (`upc`), a timer (`tpc`), its
dictionary and its database.

| Code | Model |
|---|---|
| `wd_trackers_register`, `wd_tracker_register` | `StartRegister`, `SendRegister`, `FailRegister`, `GetOkay` |
| `wd_trackers_update`, `wd_tracker_update` | `SendUpdate` |
| `wd_trackers_apply_settings` | `ReplaceTracker` |
| `wd_servers_register_server` | `RemoveServer`, `RemoveStats`, `AddServer`, `AddStats`, `ReplyOkay`, `DeleteRow`, `InsertRow` |
| `wd_server_receive_thread`, `wd_servers_update_server` | `Receive`, `FindServer`, `RemoveOldStats`, `Stamp`, `AddNewStats` |
| `wd_servers_update_servers` | `BeginPass`, `SkipServer`, `RemoveOverdueStats`, `HideServer`, `EndPass` |
| `wd_servers_load_servers` after a stop | `Crash` |

Each registration makes a new entry and a new cipher, so an entry is named by its server
and its cipher, and a cipher is used again only when nothing holds it (`Fresh`). Time
is abstract: the last update of an entry may be found too old at any moment (`overdue`).
`current` is one of the totals, which all change together; it wraps at `Width`.
`miscounted` is a history variable.
Datagrams are a set, which delivers them in any order; one that arrives twice is like
the server's next update. A stop of the tracker and its start are one step (`Crash`):
between them nothing answers, which a refused connection and lost datagrams show as
well. The handler of one registration has ended before the same server registers again:
registrations are an hour apart and a session waits for half a minute.

The UDP thread answers an update of a server that is not listed with `not_registered`.
The model has no such answer, because it reaches nobody: the server's UDP thread first
looks the sender up among the servers registered *with itself* (`server.c:760`) and
drops what the tracker sent.

### Sessions and Presence

`pc[u]` is where the thread of each connection is, `job[a]` what each administrator's
handler does next. An administrator is a session that is not modelled itself.

| Code | Model |
|---|---|
| `wd_server_listen_thread`: compare, raise, start a thread | `Check`, `Start` |
| `wd_server_accept_thread` | `Accept`, `End` |
| `wd_messages_loop_for_user` | `Take`, `Break`, `Leave`, `RemoveUser` |
| `wd_messages_handle_message`: what is let through in which state | `MayHandle`, `Other` |
| `wd_message_client_info` | `ClientInfo`, `SetClientInfo` |
| `wd_message_send_login` | `SendLogin`, `ReadAccount`, `Refuse`, `SetAccount`, `SetLoggedIn`, `CountUser` |
| a write that fails (`wd_user_send_message`) | `Unwritable`, and in `Refuse` |
| `wd_message_user_disconnect_user`, `..._ban_user`, `wd_banlist_add_ban` | `DisconnectUser`, `BanUser`, `AddBan`, `SetDisconnected`, `Finish` |
| `wd_message_banlist_add_ban`, `..._delete_ban` | `AddToBanlist`, `DeleteBan` |
| `wd_message_account_delete_user`, `wd_accounts_delete_user` | `FindUsers`, `DeleteUser`, `SetDisconnected`, `Finish` |
| `wd_message_account_edit_user`, `wd_accounts_edit_user`, `wd_accounts_reload_user_account` | `FindAccount`, `EditUser`, `FailToRename`, `Reload`, `Finish` |

Each get or set of a user's field takes `user_lock` for itself, so the state, the account
and the counter are changed in separate steps, and other threads come between. An
account is its version: the number of times it was edited, `Null` when there is none. An
edit may give it another name (`EditUser(a, new_name)`): the row then has the new name, and
so has the account that the reload compares the sessions with.
`wd_users` is locked for reading while accounts are reloaded (`UsersUnlocked`); whoever
is found in `wd_users` is retained, and a state set after its connection has ended has
no effect (`stale`). `missed` is a history variable that marks the sessions an
administrator's request has missed. A user has an address of its own; groups, the creation
of accounts and the expiry of bans are left out.

`Presence` says what this is for: a bounded number of places, who holds one, who is
online, and how many. `ImplementsPresence` maps `connected` to the connections with a
thread, `online` to the users between the end of their login and the end of their
message loop, `places` to `_wd_pending_connections` and `count` to `wd_current_users`.

### OfflineMessages

All messages are to one account. The daemon has one connection to SQLite, whose lock is
held for one statement, or from `begin_immediate_transaction` to the commit; the
delivery begins and ends its transaction by mere statements. `open` is whether the
connection is in a transaction, `disk` what was committed last, `lock` the thread that
holds the lock across steps.

| Code | Model |
|---|---|
| `wd_message_message_send_offline_message` | `Count`, `FindToken`, `MintToken`, `Store` |
| the delivery in `wd_message_send_login` | `Login` (`BEGIN EXCLUSIVE`), `Select`, `SendRow`, `EndSend`, `DeleteRow`, `EndDelete`, `EndDelivery` (`COMMIT`) |
| `wi_sqlite3_begin_immediate_transaction`, `..._commit_transaction` | `BeginImmediate`, `CommitTransaction` |
| the daemon stops and starts; a failed assertion does the same | `Crash`, `BeginImmediate` |

A statement of SQLite succeeds, except `BEGIN` in a transaction and `COMMIT` outside of
one. `joined`, `unwritten` and `twice` are history variables for the gaps that the
properties name.

### Index

A name is the path of a file or a directory below the directory of files, `Below(d)` what
a directory holds, and `rows[f]` how many rows of the table are about `f`. A link is added
like a created file. A directory is deleted from the bottom up, each name with its callback,
and a move to another volume creates each name and then deletes each: these are sequences
of `CreatePath` and `DeletePath`. A rename (`MovePath`) takes along all that a directory
holds and tells the index of the directory only. `wd_index_lock` is only ever tried, so no
thread waits for it.

| Code | Model |
|---|---|
| `wd_files_create_path`, an upload that ends, `wd_files_link_path`; `wd_files_delete_path`; `wd_files_move_path` | `CreatePath`, `DeletePath`, `MovePath` |
| `wd_index_delete_file`, `wd_index_add_file` | `TryDeleteFile`, `DeleteFile`, `TryAddFile`, `AddFile` |
| `wd_index_search` | `Search`, `EndSearch` |
| `wd_index_index_files` at the start, by SIGUSR2, by the timer | `Start`, `Signal`, `Timer` |
| `wd_index_thread`, `wd_index_index_path` | `TryIndex`, `Probe`, `Clear`, `ReadDirectory`, `Visit`, `DeleteMetadata`, `InsertMetadata` |
| `rebuild-index.sh` | `ScriptCount`, `ScriptList`, `ScriptCommit`, `ScriptMetadata` |

The ages of the metadata that the code compares (60 seconds, the index time; the 300
seconds of `wd_index_index_files_root` change nothing) are `fresh`, `recent` and `old`,
and `Age` lets time pass. `left` bounds what happens to the index in a scenario; the
timer and the passing of time are not bounded. `walked`, `missed` and `mixed` are
history variables.

## The runs

| Run | Instance | Shows |
|---|---|---|
| `queue_faults` | two connections of one client, downloads, one or two slots in total, no limit per account, all faults | `TypeOK`, `SlotsCounted`: the unsigned counters never wrap and count every slot in use; `WaitingIsBlocked`: no wakeup of the queue thread is lost; `ImplementsSlots` |
| `queue_clients` | three connections of two clients, both types, no faults | `TotalRespected`, `ClientRespected`, `PositionsAreRanks`, `WaitingForRunning`; `ImplementsSlots` where clients reach their limits |
| `queue_live` | two clients that leave, fail, come back while the limits change | `SlotIsGranted`: whoever waits gets a slot |
| `queue_disconnect` | two connections that are disconnected | violated: `DisconnectEnds` |
| `chats_members` | three scenarios: two members who change and fall idle, one of whom transfers files; two who leave, one of whom transfers files, while a third comes and goes; a private chat with kicks and a disconnect | `TypeOK`, `StatusIsKnown`, `NobodyMissed`, `LeaversAreForgotten`, `EmptyIsDropped` |
| `chats_deadlock` | two members change their status | violated: `RequestIsAnswered` |
| `trackers_list` | one server, all faults, one restart of the tracker | `TypeOK`, `UpdatesAreUnderstood`: server and tracker keep the same cipher; `TotalIsListed`: the total is right until an unlisted entry is replaced; `ListedAgain`: a server that runs is listed again; `SilentIsHidden`: one that stopped is off the list |
| `sessions_presence` | three clients, two places, an administrator who disconnects, bans and edits | `TypeOK`, `ImplementsPresence`, `DisconnectIsFinal`: no handler logs its user in again |
| `sessions_admin` | two clients, two names of accounts; edits and deletions, edits with new names, bans with changes of the banlist, or users that cannot be written to | `SessionsAreCurrent`: a logged in user has the account as it is and is not banned, but for three named gaps; `DisconnectedEnd`: a disconnected client is let go |
| `offline_delivery` | two senders with two messages each, a limit of one, two logins, one editor, one crash | `TypeOK`, `NothingLost`, `DeliveredAtLogin`, `InOrder`, `DeliveredOnce`, `LimitIsKept`, `TokenIsKept` |
| `offline_assertion` | the same | violated: `AssertionHolds` |
| `index_repair` | two directories and a file that may be in either, two handlers, two index threads, six scenarios | `TypeOK`, `FoundUnlessMissed`, `WalkIsExact`, `IndexIsRepaired` |

**Bounds.** Two connections are enough for a pass, a release and a removal to overlap;
the third in `queue_clients` makes two transfers of one client compete with another
client's, which is when the rounds of the queue matter. One or two slots make the
limits bite. No counter of the queue needs a bound: positions, ranks and counters are
bounded by the number of connections, the chats by the private chats that may be created. Clients
repeat requests without a bound, except where one is named here.

* `trackers_list`: servers do not interact except through the total and the locks of the
  dictionary, so one is enough; `MaxCrashes` is 1, which already leaves a stale row, a
  stale cipher and an interrupted handler behind; two ciphers are the one in use and the
  one that replaces it, and when both are still held the next registration waits until
  datagrams have gone. `Width` is 2: with one server the total is 0 or 1, and an update
  that is counted twice or not at all gives the other one.
* `chats_members`: three users, of whom the third changes the membership under a
  broadcast. Its scenarios are what may go wrong together; all requests of all at once
  are out of reach. `StatusIsKnown` and `NobodyMissed` are stated for at most one user
  who joins and no kicks (`Calm`), because they do not hold beyond that (below); where
  they say nothing, `View` leaves out what clients were told, which no guard reads. One
  member that transfers files is enough to be skipped by the broadcasts of another member,
  of one who joins, of one who leaves and of the timer.
* `sessions_presence`, `sessions_admin`: `Pending` is 2 with three clients, or two, so the
  listener's limit is reached in the first. `Edits` is 1: a session that missed one edit
  is what a second would only repeat. `Tables` gives an instance the accounts there are at
  first: one of two names is taken, and where accounts are renamed also both, so that a new
  name may be taken. `AdminRequests` pairs what may go wrong together; all of it at once, by
  several administrators, is covered by the theorem. `Deficit` bounds how far below zero the counter of
  users goes where the code lowers it for users it never counted.
* `offline_delivery`: a second message of one sender shows order; with `Limit` 1 instead
  of the 50 of the code, each count is at the limit or below it by one; one client that
  cannot be written to; one crash, which is where `pending` falls back to `disk`.
* `index_repair`: two directories and a file, so that a rename takes something along, and
  one directory may take the name of the other; `FewTrees` lets at most one of them be
  there at first, as the names are alike otherwise; a scenario of `FewEvents` has two
  events that happen at any moment of any number of walks.

Symmetry is used where the permuted threads differ in nothing the module reads, and only
in runs without a liveness property; `ImplementsSlots` in `queue_faults` is a safety property, and
`Slots` does not tell two connections of one client apart.

**Deadlock** is checked in `queue_clients`, `queue_live` and `trackers_list`, where the
system may not stop. Elsewhere it may: in `queue_faults`, `sessions_presence` and
`sessions_admin` everybody can be gone and not allowed to come back; in `chats_members`
all members may have left, and its first scenario contains the deadlock of the status
broadcast; `offline_delivery` and `index_repair` end when the bounded messages or events
have been used up or the daemon has aborted. `queue_disconnect`, `chats_deadlock` and
`offline_assertion` are about something that stops the daemon.
Safety properties that are only stated for a quiet server are then stated for the
behaviours that do not stop.

**Fairness.** `FairSpec` asks nothing of clients, administrators and faults: they act
when they like. Each thread that has begun to handle something goes on. In
`TransferQueue` and `Chats` this is strong fairness, because
a lock that is free again and again is taken in the end; the threads do not spin, and
pthread mutexes and conditions let a waiter in. A transfer that moves data ends,
because files are finite and a socket that stalls times out. In `Trackers` the timers fire again
and again and the threads go on (weak fairness); a server that tries to connect again
and again succeeds in the end, a handler gets a lock that is free again and again, and
datagrams arrive or are lost (strong fairness). That an update is ever sent, or arrives
in time, is not assumed. In `Sessions` the loop of a disconnected user ends, which it
tests before each message, and so does its thread (weak fairness); it gets the lock of
`wd_users`, which other threads hold for reading again and again (strong fairness);
what an administrator began goes on. That a handler of the user's own messages goes on
is not needed. In `Index` the threads go on, the daemon is started again, the timer
fires and the metadata grow old (weak fairness); the script need not end.
`OfflineMessages` has no liveness property: what is not delivered because a client is
gone waits for the next login, which may never come.

## What the runs found

* **Disconnected users may stop the queue** (`queue_disconnect`).
  `wd_transfers_remove_user` signals the queue while it holds the array
  (`transfers.c:616`), the queue thread locks the array while it holds the queue lock.
* **Two status changes deadlock** (`chats_deadlock`). Each holds its own `user_lock` and
  needs the other's. The idle timer takes part in this, so no client needs to do
  anything but come back at the wrong time.
* **An assertion about transactions does not hold** (`offline_assertion`).
  `wi_sqlite3_begin_immediate_transaction` asserts that `BEGIN IMMEDIATE` succeeds
  (`wi-sqlite3.c:180`), but the delivery of offline messages begins a transaction as a
  mere statement and gives the lock back (`messages.c:558`): whoever begins the next one
  meanwhile aborts the daemon.

The modules show more, which their properties step around by name and which no run keeps
as a violation of its own:

* *Queue.* `wd_transfers_run_transfer` tests `transfer->queue == 0` without a lock
  (`transfers.c:555`). If the write of a position failed while the queue thread had
  counted the transfer as active but not yet stored its 0, the slot is never given back.
  `SlotsCounted` holds all the same: it says that slots in use are counted, and not that
  each counted slot is in use. Of three clients one may wait for ever, because slots
  given back in the middle of a pass go to those looked at later in it.
* *Chats.* Users are counted after the array was unlocked, so a chat somebody joins
  meanwhile is dropped with a member in it (`chats.c:375`). A member whose connection
  transfers a file is sent no message of a chat (`server.c:963`) and is not told later: it
  keeps users who have left, misses who joined, and keeps an old status, until something
  new is said about the same user (`unsent`, `stale`). Any disconnect drops every private
  chat that is empty, also one that was just created (`chats.c:213`). Two users who join a chat at once may
  miss each other, because the message is broadcast before the user is a member. A kick
  that races with the kicked user's leaving and joining again removes a member without
  telling anybody.
* *Trackers.* A registration removes the stats of the entry it replaces
  (`servers.c:317`) also when the timer has removed them before, or when the entry was
  loaded from the database and never had any. `miscounted` remembers it.
* *Sessions.* A second `send_login` on one connection counts its user twice (`again` in
  `MayHandle`, which no run uses). A user that is disconnected before its login, by a
  failed write or because its account is deleted, is counted down without having been
  counted up, and the status file shows the difference from then on. An administrator's
  request may miss a session, which is what `missed` marks. It may come while the session
  is logging in: the account was deleted or edited between the lookup of the user
  and of the account, or the ban was added after it was tested. An edit that gives the
  account a new name reloads no session at all, since the account has its new name
  (`accounts.c:749-755`) when the sessions' names are compared with it (`accounts.c:1639`).
  And `wired.banlist.add_ban` (`messages.c:3325`) disconnects nobody who is logged in. `_wd_pending_connections`
  is lowered when the session ends and not when it has logged in, so it bounds sessions.
  A login with an account that goes away in the middle follows a null pointer
  (`messages.c:802`).
* *Offline messages.* Two logins at once are both sent what is pending; a message stored
  in another thread's transaction is lost with it; one that could not be written is
  deleted all the same.
* *Index.* A change made while a walk holds the lock is not indexed
  until the next walk, because the lock is only tried (`missed`). A rename of a directory
  changes the directory's own row and no other (`files.c:690`): until the next walk none
  of the files in it is found under its new name, and searches go on to reply the old
  ones. A file that a walk and
  then its handler add has two rows; the script replaces the table under a walk, and the
  counts are then of neither (`mixed`).

## The proofs

**TransferQueueProofs** proves for all users, keys, limits and faults:

* `TypeCorrect`: `Spec => []TypeOK`. `TypeOK` has the counters of active transfers in
  `Nat`; they are unsigned in the code, so this is the fact that they never wrap.
* `SlotsAreCounted`: `Spec => []SlotsCounted`.
* `TotalIsRespected`: `Spec => []TotalRespected`.

They rest on `Inductive`: `Spec => []IInv`. None of the three is inductive by itself.
That a release does not wrap a counter follows from the slot being counted; that it was
counted follows from the order in which the queue thread raises the counter and stores
the 0; and that the thread does this for the transfer it looked at, and not for one
that ended meanwhile, follows from the array's lock, which it holds for the whole pass.
`IInv` is therefore the conjunction of `Typed` (types, with the counters only in `Int`),
`Place` (what each place of a connection's thread says of its transfer), `Pass` (what
holds while a pass is under way: who holds which lock, and that what it has collected is
in the array and waits or has just ended waiting), `SlotsCounted`, and `WithinLimit` (the counter never
exceeds the largest limit that may have been set, because it is raised only after it
was found below the limit, and only by the queue thread). The module has a lemma for
each group of actions and conjunct of `IInv`, and facts about the cardinality of the
set of slot holders when one is added or leaves.

**ClientQueueProofs** and **WakeupProofs** build on `IInv`, each with an invariant of its own:

* `ClientIsRespected`: `Spec => []ClientRespected`. A client's count is changed under another
  lock than the total and later, so who holds a slot of its client (`ClientHolds`) is not
  who holds one of all (`Holds`). `ClientsCounted` says that these are counted and
  `ClientsBelow` that a count is raised only after it was found below the limit.
* `NoWakeupIsLost`: `Spec => []WaitingIsBlocked`. `NoneMissed` says of each transfer that waits
  though there is room for it that a thread is on the way to signal the queue thread
  (`Due`), or that the pass has yet to collect or to look at it. A signal
  cannot come, and be undone, in the middle of a pass, as it needs the queue's lock.
* `WaitsForRunning`: `Spec => []WaitingForRunning`, assuming `NoLeak`: no position is written in
  vain and nobody is disconnected from outside. Then the two counts are exact (`ExactTotals`,
  `ExactClients`), because who is past its wait has a slot (`Steady`) and gives it
  back. Without `NoLeak` a slot may be given to a thread that has already tested
  for one, and stays counted.
* `WaitingAreNumbered`: `Spec => []PositionsAreRanks`, with every fault. The positions that a
  pass has given so far are those below its `position`, each once (`Numbered`), and the
  transfers it has yet to look at get the ones that follow. Between passes the ranks hold
  (`Ranked`) unless a thread is on the way to signal the queue thread or the thread has
  been signalled (`Unsettled`): whoever takes a transfer out, adds one or gives a slot back signals later.
* `SlotsImplemented`: `Spec => ImplementsSlots`, with every fault and while limits change. A step
  of one thread changes the `Phase` of at most one transfer (`OneTurns`); which change
  it is follows from `Place` and `Pass`. That a slot is free in `Slots` when the queue thread
  finds its transfer not blocked (`UnblockedIsFree`) is where `SlotsCounted` and
  `ClientsCounted` are needed: at that moment no other transfer is between the decision
  and the counters, so all who have a slot there are counted.

**ChatsProofs** proves for all users, private chats and scenarios:

* `ChatsTyped`: `Spec => []TypeOK`, by `Sound`: what each place of a thread says of its
  locks, chat and subject (`Places`), that a thread only ever looks at chats that were
  created (`ChatsGiven`), and that the readers of `chat->users` are the threads that go
  through it (`Counted`), so that a lock given back was held.
* `EmptyChatsAreDropped`: `Spec => []EmptyIsDropped`. `Emptied` says that an empty chat that
  had members and is still in `wd_chats` has a thread that is about to count its members;
  the disconnect of a user, which drops every empty chat it meets, keeps `wd_chats` locked.
* `StatusesAreKnown`: `Spec => []StatusIsKnown`. `Known` says that who does not know how
  another member is, or was not sent it (`Knows`), will be told: the member's own thread or
  the timer has still to send to it. That what they send is right (`SendsFresh`) follows from `user_lock`, which a status broadcast
  holds from before its message is made until after it is sent (`HoldsLock`), and
  which whoever changes the user must take. Without the lock the invariant fails in
  `KnownMove`: a thread that moves may then change a user of whom another is telling.
* `NobodyIsMissed`: `Spec => []NobodyMissed`, and `WhoLeftIsForgotten`:
  `Spec => []LeaversAreForgotten`, both by `Attended`. It says where a user is whose handler
  joins, leaves or lists (`Seated`), that a member knows of each other one or is about to
  read it in its list (`Heard`), that all members are told of a user before it joins
  (`Announced`), and that who is believed to be on a chat is, or is about to be announced
  as leaving or has been announced as joining (`Forgotten`). A client is reckoned to know of
  those it was not sent (`Aware`), and to believe in those it was sent last (`Sure`), so
  what was withheld is held against neither. The theorems add no assumption: both
  properties speak of behaviours in which one user joins at a time and nobody is kicked (`Calm`), and the
  proof uses it where two users who join at once would miss each other (`OneJoins`).

**TrackersProofs** proves for all servers, ciphers and faults:

* `TrackersTyped`: `Spec => []TypeOK`.
* `CiphersAgree`: `Spec => []UpdatesAreUnderstood`. `Agreed` ties what a server holds to its
  last session: the cipher of its session is the one its entry has, from the moment the
  handler has replaced the entry until the next session begins.
* `TotalsAreListed`: `Spec => []TotalIsListed`, for fewer servers than `Width`. The total and
  the list change in separate steps of three threads; `Balanced` says that the total is
  congruent to the number of listed servers, corrected by those whose stats are about to
  be added or removed (`Expected`), as long as nothing was miscounted.

**SessionsProofs** proves for all users, administrators, logins and bounds:

* `SessionsTyped`: `Spec => []TypeOK`, in which `_wd_pending_connections`, an unsigned
  number, is between 0 and its limit. It follows from `Counted`: the counter is the number
  of threads, plus the one that the listener has counted and not yet started (`Places`).
* `PresenceImplemented`: `Spec => ImplementsPresence`: each step of a session is a step of
  `Presence` or none. It needs to know what each place of a thread says of its user
  (`Staged`): who has an account has logged in, who is at the end of its loop is no
  longer in the set, and who is disconnected by name had been found with an account.
  `UsersAreCounted` adds that the published counter is then the number of those online.
* `DisconnectsAreFinal`: `Spec => DisconnectIsFinal`.
* `SessionsStayCurrent`: `Spec => []SessionsAreCurrent`, for any number of administrators at
  once. `Phases` says where a login is, whoever disconnects it before it has ended, `Jobs`
  what an administrator's handler still has to do, and `Kept` of each user that its account
  is as it is now and that it is not banned, unless an administrator is about to reload
  its account or to disconnect it, or the request missed it (`missed`). An edit
  (`KeptEditStep`) that gives an account a name that was free meets no session with that
  name that is not already excused.

`PresenceImplemented` and `UsersAreCounted` assume `Countable`: no scenario in which a client
logs in a second time or cannot be written to, or an account is deleted. That is where the
code miscounts; it is an assumption on the constant `Scenarios`, which `sessions_presence`
satisfies. `DisconnectsAreFinal` and `SessionsStayCurrent` assume only `LogsInOnce`, that no
connection sends `send_login` a second time, which both runs satisfy: a second login stores
the state and the account anew and would undo a disconnect.

**OfflineProofs** proves for all threads, limits and bounds, with crashes:

* `OfflineTypeCorrect`, with what it says of the lock and the transaction.
* `LimitKept`: `Spec => []LimitIsKept`. Each sender counts before it stores; `Bounded` ties
  the rows to those that were admitted (`Admitted`), whoever else counts meanwhile.
* `NoMessageLost`: `Spec => []NothingLost`, by `Kept`, which says the same of the database as
  it was committed last: a crash goes back to that.
* `LoginsAreServed`: `Spec => []DeliveredAtLogin`. `Served` says what a login owes at each place of
  its delivery: what was stored before it began has been sent by some login or is among the rows it
  has read, and once it deletes, all of it has been sent.
* `DeliveredInOrder`: `Spec => []InOrder`. `Ordered` says that the rows, in memory and on disk, are in
  the order of acceptance, that a sender numbers its messages upwards (`Numbered`), and that what a
  login has sent comes before what it has still to send (`InTurn`).
* `DeliveredOnlyOnce`: `Spec => []DeliveredOnce`. `Once` says, as long as nothing crashed, that what a
  login has sent is still pending only while that login has yet to delete it (`Noted`), and that
  what two logins have read or sent is noted in `twice` (`Apart`).
* `TokensAreKept`: `Spec => TokenIsKept`.

**IndexProofs** proves for all names, handlers, index threads and scenarios:

* `IndexTyped`: `Spec => []TypeOK`, by `Sound`, which ties the lock to the threads that hold it.
* `FilesAreFound`: `Spec => []FoundUnlessMissed`. `Covered` says for each file that has
  no row who is going to add it: the handler that has created it, or the walk, in what it
  has still to visit; what a renamed directory has taken along is `missed` (`FilesChange`).
* `WalksAreExact`: `Spec => []WalkIsExact`, by `Walks`, which follows a walk through the
  names it has seen and has still to see.

All assumptions are the named ones of the modules about their constants, `Countable`, `LogsInOnce`,
`NoLeak`, and the bound on the servers in `TotalsAreListed`.
Each module follows the same argument: an invariant in named parts, a lemma that each
part is preserved with one step for each action, and a theorem that combines them.

**Only model-checked** are the five liveness properties, which are out of the prover's reach:
`SlotIsGranted`, `ListedAgain`, `SilentIsHidden`, `DisconnectedEnd` and `IndexIsRepaired`.
Each invariant and each action property of a run that is expected to pass, and both
refinements, are theorems.

## What is not modelled

* *Data and I/O.* What is in files, messages and rows; topics and what is said on a chat;
  the preparation of partial files and the loops that move data, among them the unsigned
  count of what remains (`transfers.c:1208`) and that a disconnected user ends a loop as
  if the transfer had succeeded (`transfers.c:987`). A move across file systems is, to the
  index, creations and deletions (module Index).
* *Blocked senders.* A write blocks while the peer does not read, under its
  `socket_lock` (`server.c:964`): in the model this is a slow step.
* *More queue threads.* Every reload by SIGHUP starts another (`main.c:690`); as a pass
  holds `wd_transfers_queue_lock` throughout, one is enough in the model. Limits of
  accounts do not change in the model; editing an account does not signal the queue in
  the code either. A transfer that is scheduled anew from its own callback is in the array
  twice; the model has each once.
* *Single reads of stale fields.* The idle flag and status in a join message come from
  before the user is a member (`chats.c:352`); `tracker->active` is tested before the address is
  read (`trackers.c:236`).
* *Boards, banlist, events, settings, port mapping, the log.* Single SQL statements or system
  calls under one lock, or output. What a ban does to sessions is in `Sessions`.
* *libwired.* Locks, conditions, collections and SQLite are modelled by how the daemon uses
  them. The P7 protocol with its key exchange and checksums is a library on its own.
* *macOS application and vendored code.* User interface, OpenSSL headers, frameworks; they
  are most of the lines of the repository, and so the share of all lines that these
  modules cover stays small however much of the daemon they model.

The components in `PROJECT.json` carry the reasons one by one.

## What the documents say

Where the code and a text of the repository differ and no run is about it:
`RELEASE_NOTES.md:7` has the client told of known users before the pending offline
messages, `messages.c:550-662` delivers the messages first; the release notes speak of
half-open connections where the counter is of whole sessions; and
`wiredctl.1:66` names USR1 for what the daemon does on SIGUSR2.

## Plan

Done are the queue, chats, trackers, sessions, offline messages and the index. What would come next, in this order:

1. The lists of members of `Chats` against an abstract specification of a chat as a set of
   members that all see.
2. Transfers that are removed from the array while their thread waits
   (`transfers.c:589`), which no property covers yet.
3. Boards: subscriptions and deletions of threads while posts are added.
