---- MODULE Index ----
(***************************************************************************)
(* The search index of the wired daemon (wired/index.c): a table of the    *)
(* files, filled by index threads that walk the directory of files, by the *)
(* handlers that create, delete and move files (wired/files.c, and         *)
(* wired/transfers.c at the end of an upload), and by rebuild-index.sh of  *)
(* the macOS application, a process of its own that does not know          *)
(* wd_index_lock.                                                          *)
(*                                                                         *)
(* The lock is only ever tried: who finds it taken goes on without it.     *)
(* Each of these is one step: a statement of SQLite, a reading of all      *)
(* directories, a change in one.  A name is the path of a file or of a     *)
(* directory, which has a row as well, and is in the directory that is     *)
(* its longest prefix.  The metadata tell how long ago the files were      *)
(* indexed: fresh is below 60 seconds, recent is below the index time,     *)
(* which is set.                                                           *)
(*                                                                         *)
(* `walked', `missed' and `mixed' are history variables, which only the    *)
(* properties read.                                                        *)
(***************************************************************************)
EXTENDS Integers, FiniteSets, SequencesExt

CONSTANTS
  Names,     \* the paths there may be, from the directory of files
  Handlers,  \* connections that change or search the files
  Indexers,  \* the index threads there may be at a time
  Trees,     \* what the directory of files may hold at first
  Scenarios  \* how often each of the events may happen, one or the other way

EventKinds == {"change",   \* a handler changes the files
               "search",
               "signal",   \* SIGUSR2
               "rebuild",  \* the script is run
               "deny",     \* the directory cannot be read
               "crash"}

None == "none"
Root == <<>>       \* the directory of files itself, and no name

ASSUME ThreadsAssumption ==
  /\ IsFiniteSet(Names) /\ Root \notin Names
  /\ None \notin Handlers \cup Indexers
  /\ Handlers \cap Indexers = {}
(* Every name is in a directory that exists. *)
ASSUME TreesAssumption ==
  Trees \subseteq {tree \in SUBSET Names : \A f \in tree : Front(f) \in tree \cup {Root}}
ASSUME ScenariosAssumption == Scenarios \subseteq [EventKinds -> Nat]

VARIABLES
  up,           \* the daemon runs
  files,        \* the names that exist
  rows,         \* how many rows of the table have a name
  metadata,     \* the row of index_metadata, or none
  lock,         \* who holds wd_index_lock
  files_count,  \* wd_index_files_count
  pc,           \* where a handler or an index thread is
  from,         \* the name that a handler takes from the index
  to,           \* the name that it adds
  found,        \* the names that the index thread has still to visit
  script,       \* what the script does next, and what it has read
  left,         \* how often each event may still happen
  walked,       \* what the index thread has read and nobody has changed since
  missed,       \* names that slipped past the index
  mixed         \* the script or a signal has interfered with the walk

dbVars      == <<rows, metadata>>
threadVars  == <<pc, from, to, found>>
historyVars == <<walked, missed, mixed>>
vars == <<up, files, dbVars, lock, files_count, threadVars, script, left, historyVars>>

Threads == Handlers \cup Indexers
Ages    == {"fresh", "recent", "old"}
Idle    == [stage |-> "idle", count |-> 0, names |-> {}]

TypeOK ==
  /\ up \in BOOLEAN
  /\ files \subseteq Names
  /\ rows \in [Names -> Nat]
  /\ metadata \subseteq [age : Ages, count : Nat] /\ Cardinality(metadata) <= 1
  /\ lock \in Threads \cup {None}
  /\ files_count \in Nat
  /\ pc \in [Threads -> {"idle", "remove", "removing", "add", "adding", "search", "lock",
                         "probe", "clear", "read", "walk", "insert"}]
  /\ \A t \in Threads : lock = t <=> pc[t] \notin {"idle", "remove", "add", "lock"}
  /\ from \in [Handlers -> Names \cup {Root}] /\ to \in [Handlers -> Names \cup {Root}]
  /\ found \subseteq Names
  /\ script \in [stage : {"idle", "list", "commit", "metadata"}, count : Nat,
                 names : SUBSET Names]
  /\ left \in [EventKinds -> Nat]
  /\ walked \cup missed \subseteq Names /\ mixed \in BOOLEAN

Init ==
  /\ up = FALSE /\ files \in Trees
  /\ rows = [f \in Names |-> 0] /\ metadata = {}
  /\ lock = None /\ files_count = 0
  /\ pc = [t \in Threads |-> "idle"]
  /\ from = [h \in Handlers |-> Root] /\ to = [h \in Handlers |-> Root]
  /\ found = {} /\ script = Idle
  /\ left \in Scenarios
  /\ walked = {} /\ missed = files /\ mixed = FALSE

Goto(t, label) == pc' = [pc EXCEPT ![t] = label]

Happens(e) ==
  /\ left[e] > 0
  /\ left' = [left EXCEPT ![e] = @ - 1]

(* wi_lock_trylock *)
Acquire(t) == lock = None /\ lock' = t
Release(t) == lock' = None

-----------------------------------------------------------------------------
(* The handlers: wd_files_create_path and the end of an upload,            *)
(* wd_files_delete_path, wd_files_move_path.  The directory is changed     *)
(* first, then the old name is taken from the index and the new one added. *)

Below(d)            == {f \in files : IsStrictPrefix(d, f)}
Renamed(f, old, new) == new \o SubSeq(f, Len(old) + 1, Len(f))
MayAppear(f)        == f \in Names \ files /\ Front(f) \in files \cup {Root}

(* The names in `gone' become those in `come'.  The index is told of one   *)
(* old and one new name only: any others slip past it.                     *)
Change(h, old, new, gone, come) ==
  /\ up /\ pc[h] = "idle" /\ Happens("change")
  /\ files' = (files \ gone) \cup come
  /\ from' = [from EXCEPT ![h] = old]
  /\ to' = [to EXCEPT ![h] = new]
  /\ Goto(h, IF old = Root THEN "add" ELSE "remove")
  /\ walked' = walked \ (gone \cup come)
  /\ missed' = missed \cup (come \ {new})
  /\ UNCHANGED <<up, dbVars, lock, files_count, found, script, mixed>>

CreatePath(h) == \E f \in Names : MayAppear(f) /\ Change(h, Root, f, {}, {f})

(* A directory is deleted from the bottom up, each name like a file.  A    *)
(* move to another volume (wd_files_move_thread) creates each name at its  *)
(* new place and then deletes each at its old one.                         *)
DeletePath(h) == \E f \in files : Below(f) = {} /\ Change(h, f, Root, {f}, {})

(* A directory takes along all that is below it. *)
MovePath(h) ==
  \E f \in files, g \in Names :
    LET come == {Renamed(e, f, g) : e \in {f} \cup Below(f)}
    IN /\ MayAppear(g) /\ ~IsPrefix(f, g) /\ come \subseteq Names
       /\ Change(h, f, g, {f} \cup Below(f), come)

RemovedOnly(h) ==     \* the new name is not added
  /\ from' = [from EXCEPT ![h] = Root] /\ to' = [to EXCEPT ![h] = Root]
  /\ Goto(h, "idle")

(* wd_index_delete_file; a move goes on with the new name. *)
Removed(h) ==
  /\ from' = [from EXCEPT ![h] = Root] /\ UNCHANGED to
  /\ Goto(h, IF to[h] = Root THEN "idle" ELSE "add")

TryDeleteFile(h) ==
  /\ pc[h] = "remove"
  /\ \/ Acquire(h) /\ Goto(h, "removing") /\ UNCHANGED <<from, to>>
     \/ lock # None /\ Removed(h) /\ UNCHANGED lock
  /\ UNCHANGED <<up, files, dbVars, files_count, found, script, left, historyVars>>

(* All rows of the name are deleted, also when the file is there again.    *)
DeleteFile(h) ==
  /\ pc[h] = "removing"
  /\ rows' = [rows EXCEPT ![from[h]] = 0]
  /\ Release(h) /\ Removed(h)
  /\ missed' = missed \cup (files \cap {from[h]})
  /\ UNCHANGED <<up, files, metadata, files_count, found, script, left, walked, mixed>>

(* wd_index_add_file *)
Added(h) == to' = [to EXCEPT ![h] = Root] /\ Goto(h, "idle") /\ UNCHANGED from

TryAddFile(h) ==
  /\ pc[h] = "add"
  /\ \/ Acquire(h) /\ Goto(h, "adding") /\ UNCHANGED <<from, to, missed>>
     \/ lock # None /\ Added(h) /\ missed' = missed \cup {to[h]} /\ UNCHANGED lock
  /\ UNCHANGED <<up, files, dbVars, files_count, found, script, left, walked, mixed>>

AddFile(h) ==
  /\ pc[h] = "adding"
  /\ rows' = [rows EXCEPT ![to[h]] = @ + 1]
  /\ Release(h) /\ Added(h)
  /\ missed' = missed \ {to[h]}
  /\ UNCHANGED <<up, files, metadata, files_count, found, script, left, walked, mixed>>

(* wd_index_search holds the lock while it replies; a search that does not *)
(* get it replies that nothing was found.                                  *)
Search(h) ==
  /\ up /\ pc[h] = "idle" /\ Happens("search")
  /\ Acquire(h) /\ Goto(h, "search")
  /\ UNCHANGED <<up, files, dbVars, files_count, from, to, found, script, historyVars>>

EndSearch(h) ==
  /\ pc[h] = "search"
  /\ Release(h) /\ Goto(h, "idle")
  /\ UNCHANGED <<up, files, dbVars, files_count, from, to, found, script, left, historyVars>>

-----------------------------------------------------------------------------
(* wd_index_thread *)

(* The lock is tried and the directory probed.  Neither waits: the thread  *)
(* ends, and nothing is indexed.                                           *)
TryIndex(i) ==
  /\ pc[i] = "lock"
  /\ \/ Acquire(i) /\ Goto(i, "probe")
     \/ lock # None /\ Goto(i, "idle") /\ UNCHANGED lock
  /\ UNCHANGED <<up, files, dbVars, files_count, from, to, found, script, left, historyVars>>

Count(m) == CHOOSE n \in {r.count : r \in m} : TRUE

(* The counters are loaded from the metadata when there are any. *)
LoadCounters == files_count' = IF metadata = {} THEN files_count ELSE Count(metadata)

ProbeLocked(i) ==     \* the lock is kept
  /\ pc[i] = "probe"
  /\ \/ Goto(i, "clear") /\ UNCHANGED <<files_count, left>>
     \/ Happens("deny") /\ LoadCounters /\ Goto(i, "idle")
  /\ UNCHANGED <<up, files, dbVars, lock, from, to, found, script, historyVars>>

Probe(i) ==
  /\ pc[i] = "probe"
  /\ \/ Goto(i, "clear") /\ UNCHANGED <<lock, files_count, left>>
     \/ /\ Happens("deny") /\ LoadCounters
        /\ Release(i) /\ Goto(i, "idle")
  /\ UNCHANGED <<up, files, dbVars, from, to, found, script, historyVars>>

ClearCounters(i) ==     \* the rows are kept
  /\ pc[i] = "clear"
  /\ files_count' = 0 /\ mixed' = FALSE
  /\ Goto(i, "read")
  /\ UNCHANGED <<up, files, dbVars, lock, from, to, found, script, left, walked, missed>>

Clear(i) ==
  /\ pc[i] = "clear"
  /\ rows' = [f \in Names |-> 0]
  /\ files_count' = 0 /\ mixed' = FALSE
  /\ Goto(i, "read")
  /\ UNCHANGED <<up, files, metadata, lock, from, to, found, script, left, walked, missed>>

(* The names in the directory are read; that may still fail. *)
ReadDirectory(i) ==
  /\ pc[i] = "read"
  /\ \/ found' = files /\ missed' = {} /\ UNCHANGED left
     \/ Happens("deny") /\ found' = {} /\ missed' = files
  /\ walked' = found'
  /\ Goto(i, "walk")
  /\ UNCHANGED <<up, files, dbVars, lock, files_count, from, to, script, mixed>>

Visit(i, f) ==
  /\ pc[i] = "walk" /\ f \in found
  /\ found' = found \ {f}
  /\ IF f \in files
     THEN /\ rows' = [rows EXCEPT ![f] = @ + 1]
          /\ files_count' = files_count + 1
          /\ missed' = missed \ {f}
     ELSE UNCHANGED <<rows, files_count, missed>>
  /\ UNCHANGED <<up, files, metadata, lock, pc, from, to, script, left, walked, mixed>>

(* The metadata are deleted, then inserted; the server information is      *)
(* broadcast, and a thread of the start of the daemon registers with the   *)
(* trackers (module Trackers).                                             *)
DeleteMetadata(i) ==
  /\ pc[i] = "walk" /\ found = {}
  /\ metadata' = {}
  /\ Goto(i, "insert")
  /\ UNCHANGED <<up, files, rows, lock, files_count, from, to, found, script, left,
                 historyVars>>

InsertMetadata(i) ==
  /\ pc[i] = "insert"
  /\ metadata' = {[age |-> "fresh", count |-> files_count]}
  /\ Release(i) /\ Goto(i, "idle")
  /\ walked' = {} /\ mixed' = FALSE
  /\ UNCHANGED <<up, files, rows, files_count, from, to, found, script, left, missed>>

-----------------------------------------------------------------------------
(* wd_index_index_files, from the start of the daemon, a signal and the    *)
(* timer.  What the metadata say is trusted while they are young enough.   *)

Aged(ages) == \E m \in metadata : m.age \in ages

CreateThread(i) == pc[i] = "idle" /\ Goto(i, "lock") /\ UNCHANGED <<files_count, mixed>>

(* The counters are loaded even while an index thread is counting. *)
IndexFiles(ages) ==
  \/ /\ Aged(ages) /\ LoadCounters /\ UNCHANGED pc
     /\ mixed' = (mixed \/ lock \in Indexers)
  \/ ~Aged(ages) /\ \E i \in Indexers : CreateThread(i)

Start ==
  /\ ~up /\ up' = TRUE
  /\ IndexFiles({"fresh", "recent"})
  /\ UNCHANGED <<files, dbVars, lock, from, to, found, script, left, walked, missed>>

Signal ==
  /\ up /\ Happens("signal")
  /\ IndexFiles({"fresh"})
  /\ UNCHANGED <<up, files, dbVars, lock, from, to, found, script, walked, missed>>

TimerOnce ==     \* metadata of any age are trusted
  /\ up /\ ~Aged(Ages)
  /\ \E i \in Indexers : CreateThread(i)
  /\ UNCHANGED <<up, files, dbVars, lock, from, to, found, script, left, walked, missed>>

(* wd_index_update_index *)
Timer ==
  /\ up /\ ~Aged({"fresh", "recent"})
  /\ \E i \in Indexers : CreateThread(i)
  /\ UNCHANGED <<up, files, dbVars, lock, from, to, found, script, left, walked, missed>>

Age ==
  /\ \E m \in metadata : /\ m.age # "old"
                        /\ metadata' = {[m EXCEPT !.age = IF @ = "fresh" THEN "recent" ELSE "old"]}
  /\ UNCHANGED <<up, files, rows, lock, files_count, threadVars, script, left, historyVars>>

(* The daemon crashes or is stopped, in the middle of whatever it does. *)
Crash ==
  /\ up /\ Happens("crash")
  /\ up' = FALSE /\ lock' = None /\ files_count' = 0
  /\ pc' = [t \in Threads |-> "idle"] /\ found' = {}
  /\ from' = [h \in Handlers |-> Root] /\ to' = [h \in Handlers |-> Root]
  /\ missed' = {f \in files : rows[f] = 0} /\ walked' = {} /\ mixed' = FALSE
  /\ UNCHANGED <<files, dbVars, script>>

-----------------------------------------------------------------------------
(* rebuild-index.sh.  It does nothing when it counts no files and there    *)
(* were some; its writes may fail.                                         *)

ScriptCount ==
  /\ script.stage = "idle" /\ Happens("rebuild")
  /\ script' = IF files = {} /\ \E m \in metadata : m.count > 0 THEN script
               ELSE [script EXCEPT !.stage = "list", !.count = Cardinality(files)]
  /\ UNCHANGED <<up, files, dbVars, lock, files_count, threadVars, historyVars>>

ScriptList ==
  /\ script.stage = "list"
  /\ script' = [script EXCEPT !.stage = "commit", !.names = files]
  /\ UNCHANGED <<up, files, dbVars, lock, files_count, threadVars, left, historyVars>>

(* One transaction replaces the table. *)
ScriptCommit ==
  /\ script.stage = "commit"
  /\ \/ /\ rows' = [f \in Names |-> IF f \in script.names THEN 1 ELSE 0]
        /\ script' = [script EXCEPT !.stage = "metadata"]
        /\ missed' = files \ script.names
        /\ mixed' = TRUE
     \/ script' = Idle /\ UNCHANGED <<rows, missed, mixed>>
  /\ UNCHANGED <<up, files, metadata, lock, files_count, threadVars, left, walked>>

ScriptMetadata ==
  /\ script.stage = "metadata"
  /\ metadata' \in {metadata, {}, {[age |-> "fresh", count |-> script.count]}}
  /\ script' = Idle
  /\ UNCHANGED <<up, files, rows, lock, files_count, threadVars, left, historyVars>>

-----------------------------------------------------------------------------
Handler(h) ==
  TryDeleteFile(h) \/ DeleteFile(h) \/ TryAddFile(h) \/ AddFile(h) \/ EndSearch(h)

Indexer(i) ==
  \/ TryIndex(i) \/ Probe(i) \/ Clear(i) \/ ReadDirectory(i)
  \/ DeleteMetadata(i) \/ InsertMetadata(i) \/ \E f \in Names : Visit(i, f)

Next ==
  \/ \E h \in Handlers : CreatePath(h) \/ DeletePath(h) \/ MovePath(h) \/ Search(h) \/ Handler(h)
  \/ \E i \in Indexers : Indexer(i)
  \/ Start \/ Signal \/ Timer \/ Age \/ Crash
  \/ ScriptCount \/ ScriptList \/ ScriptCommit \/ ScriptMetadata

Spec == Init /\ [][Next]_vars

(* Threads go on, the timer fires again and again, and the daemon is       *)
(* started again after a crash.  The script need not end.                  *)
Fairness ==
  /\ \A h \in Handlers : WF_vars(Handler(h))
  /\ \A i \in Indexers : WF_vars(Indexer(i))
  /\ WF_vars(Start) /\ WF_vars(Timer) /\ WF_vars(Age)

FairSpec == Spec /\ Fairness

-----------------------------------------------------------------------------
(* Properties. *)

(* While no index thread is at work, every file is in the index, unless it *)
(* slipped past it in one of these ways: its addition found the lock       *)
(* taken, a handler that was still deleting an older file of that name     *)
(* took the row away, the daemon crashed before the addition or in the     *)
(* middle of a walk, the directory could not be read after the probe, the  *)
(* script read the directory before the file was there, or the file was in *)
(* a directory that was renamed.  There is no other gap.  Files whose      *)
(* handler has still to add them do not count.                             *)
FoundUnlessMissed ==
  (lock \notin Indexers) =>
    \A f \in files \ (missed \cup Range(to)) : rows[f] > 0

(* When the index thread stores its metadata, what was there when it read  *)
(* the directory, and was not touched since, has one row, no name has two, *)
(* and the count that is published (server info, trackers) is the number   *)
(* of rows: neither a second index thread nor a handler gets in between.   *)
(* The script does, and so does a signal that loads fresh metadata (mixed).*)
WalkIsExact ==
  \A i \in Indexers :
    pc[i] = "insert" /\ ~mixed =>
      /\ \A f \in Names : rows[f] <= 1 /\ (f \in walked => rows[f] = 1)
      /\ files_count = Cardinality({f \in Names : rows[f] = 1})

Exact ==
  /\ \A f \in Names : rows[f] = IF f \in files THEN 1 ELSE 0
  /\ files_count = Cardinality(files)

(* Files that were missed, rows of files that are gone, rows that are      *)
(* there twice and counters that are wrong are repaired by the timer,      *)
(* whatever crashed or was denied before: the index is exact again and     *)
(* again, once the files do not change any more.                           *)
IndexIsRepaired == []<>Exact
====
