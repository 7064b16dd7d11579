---- MODULE Trackers ----
(***************************************************************************)
(* Registration with a tracker.  The daemon plays both parts: a server     *)
(* (wired/trackers.c) registers over TCP and then sends updates over UDP;  *)
(* the tracker (wired/servers.c, the receive thread of wired/server.c)     *)
(* lists it, drops it from the list when it is silent for too long, and    *)
(* keeps the registered servers in a database.  One tracker is modelled.   *)
(*                                                                         *)
(* An entry of the tracker's dictionary is named by its server and by the  *)
(* cipher of the session that registered it: each registration makes a new *)
(* entry and a new cipher.  Time is abstract: an update of an entry may    *)
(* become overdue (WD_SERVERS_MIN_UPDATE_INTERVAL) at any moment.          *)
(***************************************************************************)
EXTENDS Integers, FiniteSets

CONSTANTS
  Servers,   \* daemons that register, each at an address of its own
  Ciphers,   \* session ciphers of one server that are told apart
  Faults,    \* what the environment does
  MaxCrashes, \* how often the tracker may stop
  Width      \* the counters of the totals wrap at this number

(* "refuse": a registration fails on its way; "lose": a datagram is lost;  *)
(* "crash": the tracker stops and starts again; "stop": a server stops,    *)
(* and perhaps starts again; "settings": its list of trackers is replaced. *)
AllFaults == {"refuse", "lose", "crash", "stop", "settings"}

None == 0

ASSUME ServersAssumption == IsFiniteSet(Servers) /\ None \notin Servers
ASSUME CiphersAssumption == IsFiniteSet(Ciphers) /\ None \notin Ciphers
ASSUME FaultsAssumption  == Faults \subseteq AllFaults /\ MaxCrashes \in Nat
ASSUME WidthAssumption   == Width \in Nat \ {0}

VARIABLES
  running,   \* servers whose daemon runs
  reg,       \* where the register thread of each server is
  active,    \* tracker->active
  cipher,    \* tracker->cipher
  session,   \* the cipher of the connection it registers on
  okay,      \* the answer to send_register, on its way
  datagrams, \* updates on their way: two equal ones are as one
  entry,     \* wd_servers: the cipher of each server's entry, None without one
  listed,    \* server->active
  overdue,   \* the last update of the entry is too long ago
  db,        \* the cipher of each server's row in the table servers
  current,   \* wd_tracker_current_servers
  hpc,       \* where the tracker's handler of send_register is
  upc,       \* where the receive thread is
  ref,       \* the server it handles and the cipher of the entry it found
  tpc,       \* where the timer is
  left,      \* the entries it has still to look at
  victim,    \* the one it is taking off the list
  crashes,   \* how often the tracker has stopped
  miscounted \* an entry that was not listed was replaced: the total is too low

clientVars == <<running, reg, active, cipher, session>>
netVars    == <<okay, datagrams>>
entryVars  == <<entry, listed, overdue>>
udpVars    == <<upc, ref>>
timerVars  == <<tpc, left, victim>>
faultVars  == <<crashes, miscounted>>
vars == <<clientVars, netVars, entryVars, db, current, hpc, udpVars, timerVars, faultVars>>

CipherOrNone == Ciphers \cup {None}

TypeOK ==
  /\ running \subseteq Servers
  /\ reg \in [Servers -> {"idle", "connect", "wait"}]
  /\ active \in [Servers -> BOOLEAN]
  /\ cipher \in [Servers -> CipherOrNone]
  /\ session \in [Servers -> CipherOrNone]
  /\ okay \subseteq Servers
  /\ datagrams \subseteq Servers \X Ciphers
  /\ entry \in [Servers -> CipherOrNone]
  /\ listed \in [Servers -> BOOLEAN]
  /\ overdue \in [Servers -> BOOLEAN]
  /\ db \in [Servers -> CipherOrNone]
  /\ current \in 0..Width - 1
  /\ hpc \in [Servers -> {"none", "lookup", "unstat", "add", "stat", "reply", "delete", "insert"}]
  /\ upc \in {"receive", "update", "unstat", "stamp", "stat"}
  /\ ref \in (Servers \cup {None}) \X CipherOrNone
  /\ upc \in {"unstat", "stamp", "stat"} => ref[2] # None
  /\ tpc \in {"wait", "next"}
  /\ left \subseteq Servers
  /\ victim \in Servers \cup {None}
  /\ crashes \in 0..MaxCrashes
  /\ miscounted \in BOOLEAN

-----------------------------------------------------------------------------
Known(s) == entry[s] # None

Init ==
  /\ running = Servers
  /\ reg = [s \in Servers |-> "idle"]
  /\ active = [s \in Servers |-> FALSE]
  /\ cipher = [s \in Servers |-> None]
  /\ session = [s \in Servers |-> None]
  /\ okay = {} /\ datagrams = {}
  /\ entry = [s \in Servers |-> None]
  /\ listed = [s \in Servers |-> FALSE]
  /\ overdue = [s \in Servers |-> FALSE]
  /\ db = [s \in Servers |-> None]
  /\ current = 0
  /\ hpc = [s \in Servers |-> "none"]
  /\ upc = "receive" /\ ref = <<None, None>>
  /\ tpc = "wait" /\ left = {} /\ victim = None
  /\ crashes = 0 /\ miscounted = FALSE

-----------------------------------------------------------------------------
(* The server: wd_trackers_register_thread, one registration at a time     *)
(* (register_lock).                                                        *)

(* The hourly timer, the end of an indexing or a signal starts the thread. *)
RegisterOnce(s) ==     \* only after the start of the daemon
  /\ s \in running /\ reg[s] = "idle" /\ session[s] = None
  /\ active' = [active EXCEPT ![s] = FALSE]
  /\ reg' = [reg EXCEPT ![s] = "connect"]
  /\ UNCHANGED <<running, cipher, session, netVars, entryVars, db, current, hpc, udpVars,
                 timerVars, faultVars>>

StartRegister(s) ==
  /\ s \in running /\ reg[s] = "idle"
  /\ active' = [active EXCEPT ![s] = FALSE]
  /\ reg' = [reg EXCEPT ![s] = "connect"]
  /\ UNCHANGED <<running, cipher, session, netVars, entryVars, db, current, hpc, udpVars,
                 timerVars, faultVars>>

(* A cipher that nobody will use again. *)
Fresh(s) == Ciphers \ ({entry[s], db[s], ref[2]} \cup
                       {c \in Ciphers : <<s, c>> \in datagrams})

(* The session is set up, the server logs in and sends send_register.  The *)
(* tracker's handler of an earlier registration has ended: registrations   *)
(* are an hour apart, and a session waits for half a minute.               *)
SendRegister(s) ==
  /\ reg[s] = "connect" /\ hpc[s] = "none"
  /\ \E c \in Fresh(s) : session' = [session EXCEPT ![s] = c]
  /\ okay' = okay \ {s}
  /\ reg' = [reg EXCEPT ![s] = "wait"]
  /\ hpc' = [hpc EXCEPT ![s] = "lookup"]
  /\ UNCHANGED <<running, active, cipher, datagrams, entryVars, db, current, udpVars, timerVars, faultVars>>

(* It could not connect, or a read or a write failed or timed out.         *)
FailRegister(s) ==
  /\ reg[s] # "idle"
  /\ "refuse" \in Faults \/ (reg[s] = "wait" /\ hpc[s] = "none" /\ s \notin okay)
  /\ reg' = [reg EXCEPT ![s] = "idle"]
  /\ UNCHANGED <<running, active, cipher, session, netVars, entryVars, db, current, hpc,
                 udpVars, timerVars, faultVars>>

GetOkay(s) ==
  /\ reg[s] = "wait" /\ s \in okay
  /\ okay' = okay \ {s}
  /\ cipher' = [cipher EXCEPT ![s] = session[s]]
  /\ active' = [active EXCEPT ![s] = TRUE]
  /\ reg' = [reg EXCEPT ![s] = "idle"]
  /\ UNCHANGED <<running, session, datagrams, entryVars, db, current, hpc, udpVars, timerVars, faultVars>>

(* wd_trackers_update, every minute. *)
SendUpdate(s) ==
  /\ s \in running /\ active[s]
  /\ datagrams' = datagrams \cup {<<s, cipher[s]>>}
  /\ UNCHANGED <<clientVars, okay, entryVars, db, current, hpc, udpVars, timerVars, faultVars>>

(* wd_trackers_apply_settings waits for the register thread, makes a new   *)
(* tracker and registers with it.                                          *)
ReplaceTracker(s) ==
  /\ "settings" \in Faults
  /\ s \in running /\ reg[s] = "idle"
  /\ cipher' = [cipher EXCEPT ![s] = None]
  /\ active' = [active EXCEPT ![s] = FALSE]
  /\ reg' = [reg EXCEPT ![s] = "connect"]
  /\ UNCHANGED <<running, session, netVars, entryVars, db, current, hpc, udpVars, timerVars, faultVars>>

Stop(s) ==
  /\ "stop" \in Faults
  /\ s \in running
  /\ running' = running \ {s}
  /\ reg' = [reg EXCEPT ![s] = "idle"]
  /\ active' = [active EXCEPT ![s] = FALSE]
  /\ cipher' = [cipher EXCEPT ![s] = None]
  /\ UNCHANGED <<session, netVars, entryVars, db, current, hpc, udpVars, timerVars, faultVars>>

Start(s) ==
  /\ s \notin running
  /\ running' = running \cup {s}
  /\ UNCHANGED <<reg, active, cipher, session, netVars, entryVars, db, current, hpc, udpVars,
                 timerVars, faultVars>>

Lose(s) ==
  /\ "lose" \in Faults
  /\ \E c \in Ciphers : <<s, c>> \in datagrams /\ datagrams' = datagrams \ {<<s, c>>}
  /\ UNCHANGED <<clientVars, okay, entryVars, db, current, hpc, udpVars, timerVars, faultVars>>

-----------------------------------------------------------------------------
(* The tracker: wd_servers_register_server on the thread of the session.   *)
(* A pass of the timer holds the reader lock of wd_servers.                *)

Handles(s, here, next) == hpc[s] = here /\ hpc' = [hpc EXCEPT ![s] = next]

(* An entry the server has already is removed ... *)
RemoveServer(s) ==
  /\ Handles(s, "lookup", "unstat") /\ Known(s) /\ tpc = "wait"
  /\ entry' = [entry EXCEPT ![s] = None]
  /\ listed' = [listed EXCEPT ![s] = FALSE]
  /\ overdue' = [overdue EXCEPT ![s] = FALSE]
  /\ miscounted' = (miscounted \/ ~listed[s])
  /\ UNCHANGED <<clientVars, netVars, db, current, udpVars, timerVars, crashes>>

RemoveNothing(s) ==     \* the new entry is added to the old one's stats
  /\ Handles(s, "unstat", "add")
  /\ UNCHANGED <<clientVars, netVars, entryVars, db, current, udpVars, timerVars, faultVars>>

(* ... and its stats, which were removed before if it was not listed.      *)
RemoveStats(s) ==
  /\ Handles(s, "unstat", "add")
  /\ current' = (current - 1) % Width
  /\ UNCHANGED <<clientVars, netVars, entryVars, db, udpVars, timerVars, faultVars>>

KeepServer(s) ==     \* with the cipher of the database, if there is one
  /\ \/ Handles(s, "add", "stat")
     \/ Handles(s, "lookup", "stat") /\ ~Known(s)
  /\ tpc = "wait"
  /\ entry' = [entry EXCEPT ![s] = IF db[s] # None THEN db[s] ELSE session[s]]
  /\ listed' = [listed EXCEPT ![s] = TRUE]
  /\ UNCHANGED <<clientVars, netVars, overdue, db, current, udpVars, timerVars, faultVars>>

AddServer(s) ==
  /\ \/ Handles(s, "add", "stat")
     \/ Handles(s, "lookup", "stat") /\ ~Known(s)
  /\ tpc = "wait"
  /\ entry' = [entry EXCEPT ![s] = session[s]]
  /\ listed' = [listed EXCEPT ![s] = TRUE]
  /\ UNCHANGED <<clientVars, netVars, overdue, db, current, udpVars, timerVars, faultVars>>

AddStats(s) ==
  /\ Handles(s, "stat", "reply")
  /\ current' = (current + 1) % Width
  /\ UNCHANGED <<clientVars, netVars, entryVars, db, udpVars, timerVars, faultVars>>

(* The answer is on its way before the database is changed. *)
ReplyOkay(s) ==
  /\ Handles(s, "reply", "delete")
  /\ okay' = IF reg[s] = "wait" THEN okay \cup {s} ELSE okay
  /\ UNCHANGED <<clientVars, datagrams, entryVars, db, current, udpVars, timerVars, faultVars>>

DeleteRow(s) ==
  /\ Handles(s, "delete", "insert")
  /\ db' = [db EXCEPT ![s] = None]
  /\ UNCHANGED <<clientVars, netVars, entryVars, current, udpVars, timerVars, faultVars>>

InsertRow(s) ==
  /\ Handles(s, "insert", "none")
  /\ db' = [db EXCEPT ![s] = session[s]]
  /\ UNCHANGED <<clientVars, netVars, entryVars, current, udpVars, timerVars, faultVars>>

-----------------------------------------------------------------------------
(* The tracker: wd_server_receive_thread and wd_servers_update_server.     *)

(* A datagram of a server that is not known, or that cannot be decrypted,  *)
(* is dropped.                                                             *)
Receive(s) ==
  /\ upc = "receive"
  /\ \E c \in Ciphers :
       /\ <<s, c>> \in datagrams
       /\ datagrams' = datagrams \ {<<s, c>>}
       /\ IF entry[s] = c THEN upc' = "update" /\ ref' = <<s, None>> ELSE UNCHANGED udpVars
  /\ UNCHANGED <<clientVars, okay, entryVars, db, current, hpc, timerVars, faultVars>>

(* The entry is looked up again.  If it is not listed the answer is        *)
(* not_registered, by UDP, to the server: the server's receive thread      *)
(* drops it, because the tracker's address is not in its own wd_servers.   *)
FindUnchecked ==     \* without the test of the entry
  /\ upc = "update"
  /\ upc' = "unstat" /\ ref' = <<ref[1], entry[ref[1]]>>
  /\ UNCHANGED <<clientVars, netVars, entryVars, db, current, hpc, timerVars, faultVars>>

FindServer ==
  /\ upc = "update"
  /\ IF Known(ref[1]) /\ listed[ref[1]]
     THEN upc' = "unstat" /\ ref' = <<ref[1], entry[ref[1]]>>
     ELSE upc' = "receive" /\ ref' = <<None, None>>
  /\ UNCHANGED <<clientVars, netVars, entryVars, db, current, hpc, timerVars, faultVars>>

RemoveOldStats ==
  /\ upc = "unstat" /\ upc' = "stamp"
  /\ current' = (current - 1) % Width
  /\ UNCHANGED <<clientVars, netVars, entryVars, db, hpc, ref, timerVars, faultVars>>

(* The entry may have been replaced since it was found. *)
Stamp ==
  /\ upc = "stamp" /\ upc' = "stat"
  /\ overdue' = [overdue EXCEPT ![ref[1]] = @ /\ entry[ref[1]] # ref[2]]
  /\ UNCHANGED <<clientVars, netVars, entry, listed, db, current, hpc, ref, timerVars, faultVars>>

AddNewStats ==
  /\ upc = "stat" /\ upc' = "receive"
  /\ current' = (current + 1) % Width
  /\ ref' = <<None, None>>
  /\ UNCHANGED <<clientVars, netVars, entryVars, db, hpc, timerVars, faultVars>>

-----------------------------------------------------------------------------
(* The tracker: wd_servers_update_servers, every minute. *)

TimePasses(s) ==
  /\ listed[s] /\ ~overdue[s]
  /\ overdue' = [overdue EXCEPT ![s] = TRUE]
  /\ UNCHANGED <<clientVars, netVars, entry, listed, db, current, hpc, udpVars, timerVars, faultVars>>

BeginPass ==
  /\ tpc = "wait" /\ tpc' = "next"
  /\ left' = {s \in Servers : Known(s)}
  /\ UNCHANGED <<clientVars, netVars, entryVars, db, current, hpc, udpVars, victim, faultVars>>

(* An entry that is not listed, or not overdue, is passed over. *)
SkipServer(s) ==
  /\ tpc = "next" /\ victim = None /\ s \in left
  /\ ~(listed[s] /\ overdue[s])
  /\ left' = left \ {s}
  /\ UNCHANGED <<clientVars, netVars, entryVars, db, current, hpc, udpVars, tpc, victim, faultVars>>

(* One that is overdue loses its stats, and then its place on the list.    *)
RemoveOverdueStats(s) ==
  /\ tpc = "next" /\ victim = None /\ s \in left
  /\ listed[s] /\ overdue[s]
  /\ left' = left \ {s} /\ victim' = s
  /\ current' = (current - 1) % Width
  /\ UNCHANGED <<clientVars, netVars, entryVars, db, hpc, udpVars, tpc, faultVars>>

HideNothing ==     \* only the stats are removed
  /\ victim # None /\ victim' = None
  /\ UNCHANGED <<clientVars, netVars, entryVars, db, current, hpc, udpVars, tpc, left, faultVars>>

HideServer ==
  /\ victim # None /\ victim' = None
  /\ listed' = [listed EXCEPT ![victim] = FALSE]
  /\ UNCHANGED <<clientVars, netVars, entry, overdue, db, current, hpc, udpVars, tpc, left, faultVars>>

EndPass ==
  /\ tpc = "next" /\ left = {} /\ victim = None
  /\ tpc' = "wait"
  /\ UNCHANGED <<clientVars, netVars, entryVars, db, current, hpc, udpVars, left, victim, faultVars>>

-----------------------------------------------------------------------------
(* The tracker stops and starts again: sessions break, and                 *)
(* wd_servers_load_servers makes an entry, not listed, of each row.        *)
Crash ==
  /\ "crash" \in Faults
  /\ crashes < MaxCrashes /\ crashes' = crashes + 1
  /\ entry' = db
  /\ listed' = [s \in Servers |-> FALSE]
  /\ overdue' = [s \in Servers |-> FALSE]
  /\ current' = 0
  /\ hpc' = [s \in Servers |-> "none"]
  /\ upc' = "receive" /\ ref' = <<None, None>>
  /\ tpc' = "wait" /\ left' = {} /\ victim' = None
  /\ miscounted' = FALSE
  /\ UNCHANGED <<clientVars, netVars, db>>

-----------------------------------------------------------------------------
ClientStep(s) ==
  \/ StartRegister(s) \/ SendRegister(s) \/ FailRegister(s) \/ GetOkay(s)
  \/ SendUpdate(s) \/ ReplaceTracker(s) \/ Stop(s) \/ Start(s) \/ Lose(s)

HandlerStep(s) ==
  \/ RemoveServer(s) \/ RemoveStats(s) \/ AddServer(s) \/ AddStats(s)
  \/ ReplyOkay(s) \/ DeleteRow(s) \/ InsertRow(s)

UpdateStep == FindServer \/ RemoveOldStats \/ Stamp \/ AddNewStats

TimerStep ==
  \/ BeginPass \/ (\E s \in Servers : SkipServer(s) \/ RemoveOverdueStats(s))
  \/ HideServer \/ EndPass

Next ==
  \/ \E s \in Servers : ClientStep(s) \/ HandlerStep(s) \/ Receive(s) \/ TimePasses(s)
  \/ UpdateStep \/ TimerStep \/ Crash

Spec == Init /\ [][Next]_vars

(* The timers fire again and again, threads go on, a datagram arrives or   *)
(* is lost, time passes.  A server that tries again and again connects to  *)
(* the tracker in the end, and a lock that is free again and again is      *)
(* taken (hence SF); its own retries and faults need not happen.           *)
Fairness ==
  /\ \A s \in Servers :
       /\ WF_vars(StartRegister(s)) /\ SF_vars(SendRegister(s)) /\ SF_vars(HandlerStep(s))
       /\ WF_vars(reg[s] = "wait" /\ (FailRegister(s) \/ GetOkay(s)))
       /\ SF_vars(Receive(s)) /\ SF_vars(TimePasses(s))
  /\ WF_vars(UpdateStep) /\ WF_vars(TimerStep)

FairSpec == Spec /\ Fairness

-----------------------------------------------------------------------------
(* Properties. *)

(* A server that runs is on the list again and again, whatever was lost,   *)
(* timed out or forgotten: nothing tells it that it is off the list, but   *)
(* it registers every hour.                                                *)
ListedAgain == \A s \in Servers : (<>[](s \in running)) => ([]<>listed[s])

(* A server that has stopped for good is off the list in the end, for      *)
(* good, although its last registration or update may still be on its way. *)
SilentIsHidden == \A s \in Servers : (<>[](s \notin running)) => (<>[]~listed[s])

(* While a server sends updates to a tracker that lists it, the tracker    *)
(* can decrypt them: both keep the cipher of the same registration.        *)
UpdatesAreUnderstood ==
  \A s \in Servers : active[s] /\ listed[s] => cipher[s] = entry[s]

(* Nobody is changing the list. *)
Quiet == (\A s \in Servers : hpc[s] = "none") /\ upc = "receive" /\ tpc = "wait"

(* "Current tracker servers" of the status (wiredctl) is the number of     *)
(* servers on the list, whatever registrations, updates and the timer do   *)
(* at once.  There is one gap: a registration takes the stats of the entry *)
(* it replaces off the totals, also when the timer has done so before, or  *)
(* when the entry was loaded after a restart and never had any             *)
(* (miscounted).                                                           *)
TotalIsListed ==
  Quiet /\ ~miscounted => current = Cardinality({s \in Servers : listed[s]})
====
