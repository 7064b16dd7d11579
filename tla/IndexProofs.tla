---- MODULE IndexProofs ----
(***************************************************************************)
(* Proofs about Index, for every set of names, handlers and index threads  *)
(* and every number of events: who holds the lock, that no file slips past *)
(* the index unnoticed, and that a walk counts what it inserts.            *)
(***************************************************************************)
EXTENDS Index, FiniteSetTheorems, TLAPS

(* The types of what the threads move about. *)
Shape ==
  /\ up \in BOOLEAN
  /\ files \subseteq Names
  /\ rows \in [Names -> Nat]
  /\ metadata \subseteq [age : Ages, count : Nat]
  /\ lock \in Threads \cup {None}
  /\ files_count \in Nat
  /\ pc \in [Threads -> {"idle", "remove", "removing", "add", "adding", "search", "lock",
                         "probe", "clear", "read", "walk", "insert"}]
  /\ from \in [Handlers -> Names \cup {Root}] /\ to \in [Handlers -> Names \cup {Root}]
  /\ found \subseteq Names
  /\ script \in [stage : {"idle", "list", "commit", "metadata"}, count : Nat,
                 names : SUBSET Names]
  /\ left \in [EventKinds -> Nat]
  /\ walked \cup missed \subseteq Names /\ mixed \in BOOLEAN

(* The metadata are one row at most. *)
OneRow == metadata = {} \/ \E m \in metadata : metadata = {m}

(* The lock belongs to the thread that is where the lock is held. *)
Owned == \A t \in Threads : lock = t <=> pc[t] \notin {"idle", "remove", "add", "lock"}

(* A handler is where handlers are, and knows the names that it has still  *)
(* to take from the index and to add.                                      *)
Roles ==
  \A h \in Handlers :
    /\ pc[h] \in {"idle", "remove", "removing", "add", "adding", "search"}
    /\ pc[h] \in {"remove", "removing"} => from[h] \in Names
    /\ pc[h] \in {"add", "adding"} => to[h] \in Names
    /\ pc[h] \in {"idle", "search"} => to[h] = Root

Sound == Shape /\ OneRow /\ Owned /\ Roles

-----------------------------------------------------------------------------
LEMMA SoundInit == Init => Sound
<1> SUFFICES ASSUME Init PROVE Sound
  OBVIOUS
<1>1. left \in [EventKinds -> Nat]
  BY ScenariosAssumption DEF Init
<1>2. files \subseteq Names
  BY TreesAssumption DEF Init
<1>3. Shape
  BY <1>1, <1>2 DEF Init, Shape, Idle
<1>4. OneRow /\ Owned /\ Roles
  BY ThreadsAssumption DEF Init, OneRow, Owned, Roles, Threads
<1> QED
  BY <1>3, <1>4 DEF Sound

LEMMA CountIsNat ==
  ASSUME Shape, metadata # {}
  PROVE  Count(metadata) \in Nat
<1>1. PICK r \in metadata : TRUE
  OBVIOUS
<1>2. \E n \in {m.count : m \in metadata} : TRUE
  BY <1>1
<1>3. Count(metadata) \in {m.count : m \in metadata}
  BY <1>2 DEF Count
<1> QED
  BY <1>3 DEF Shape

LEMMA IndexFilesKeeps ==
  ASSUME Sound, NEW ages, IndexFiles(ages)
  PROVE  /\ files_count' \in Nat /\ mixed' \in BOOLEAN
         /\ pc' = pc \/ \E i \in Indexers : CreateThread(i)
<1>1. files_count' \in Nat
  BY CountIsNat DEF IndexFiles, LoadCounters, CreateThread, Sound, Shape, Aged
<1> QED
  BY <1>1 DEF IndexFiles, CreateThread, Sound, Shape

(* A handler that changes the files tells the index of one name or two.    *)
LEMMA FilesChange ==
  ASSUME files \subseteq Names, NEW h \in Handlers, CreatePath(h) \/ DeletePath(h) \/ MovePath(h)
  PROVE  \E old \in Names \cup {Root}, new \in Names \cup {Root}, gone \in SUBSET Names,
            come \in SUBSET Names : Change(h, old, new, gone, come) /\ (old # Root \/ new # Root)
<1>1. CASE CreatePath(h)
  <2>1. PICK f \in Names : MayAppear(f) /\ Change(h, Root, f, {}, {f})
    BY <1>1 DEF CreatePath
  <2> QED
    BY <2>1, ThreadsAssumption
<1>2. CASE DeletePath(h)
  <2>1. PICK f \in files : Below(f) = {} /\ Change(h, f, Root, {f}, {})
    BY <1>2 DEF DeletePath
  <2> QED
    BY <2>1, ThreadsAssumption
<1>3. CASE MovePath(h)
  <2>1. PICK f \in files, g \in Names :
          LET come == {Renamed(e, f, g) : e \in {f} \cup Below(f)}
          IN come \subseteq Names /\ Change(h, f, g, {f} \cup Below(f), come)
    BY <1>3 DEF MovePath
  <2>2. {f} \cup Below(f) \in SUBSET Names
    BY DEF Below
  <2>3. {Renamed(e, f, g) : e \in {f} \cup Below(f)} \in SUBSET Names
    BY <2>1
  <2> QED
    BY <2>1, <2>2, <2>3, ThreadsAssumption
<1> QED
  BY <1>1, <1>2, <1>3

LEMMA ShapeStep ==
  ASSUME Sound, [Next]_vars
  PROVE  Shape'
<1> USE ThreadsAssumption DEF Sound, Shape, dbVars, threadVars, historyVars, Goto, Acquire, Release,
        Happens, Removed, Added, Threads, EventKinds
<1>1. ASSUME NEW h \in Handlers, NEW old \in Names \cup {Root}, NEW new \in Names \cup {Root},
             NEW gone \in SUBSET Names, NEW come \in SUBSET Names,
             Change(h, old, new, gone, come)
      PROVE  Shape'
  BY <1>1 DEF Change
<1>2. ASSUME NEW h \in Handlers, TryDeleteFile(h) PROVE Shape'
  BY <1>2 DEF TryDeleteFile
<1>3. ASSUME NEW h \in Handlers, DeleteFile(h) PROVE Shape'
  BY <1>3 DEF DeleteFile
<1>4. ASSUME NEW h \in Handlers, TryAddFile(h) PROVE Shape'
  BY <1>4 DEF TryAddFile, Roles
<1>5. ASSUME NEW h \in Handlers, AddFile(h) PROVE Shape'
  BY <1>5 DEF AddFile, Roles
<1>6. ASSUME NEW h \in Handlers, Search(h) \/ EndSearch(h) PROVE Shape'
  BY <1>6 DEF Search, EndSearch
<1>7. ASSUME NEW i \in Indexers, TryIndex(i) PROVE Shape'
  BY <1>7 DEF TryIndex
<1>8. ASSUME NEW i \in Indexers, Probe(i) PROVE Shape'
  <2>1. files_count' \in Nat
    BY <1>8, CountIsNat DEF Probe, LoadCounters
  <2> QED
    BY <1>8, <2>1 DEF Probe
<1>9. ASSUME NEW i \in Indexers, Clear(i) PROVE Shape'
  BY <1>9 DEF Clear
<1>10. ASSUME NEW i \in Indexers, ReadDirectory(i) PROVE Shape'
  BY <1>10 DEF ReadDirectory
<1>11. ASSUME NEW i \in Indexers, NEW f \in Names, Visit(i, f) PROVE Shape'
  BY <1>11 DEF Visit
<1>12. ASSUME NEW i \in Indexers, DeleteMetadata(i) PROVE Shape'
  BY <1>12 DEF DeleteMetadata
<1>13. ASSUME NEW i \in Indexers, InsertMetadata(i) PROVE Shape'
  <2>1. metadata' \subseteq [age : Ages, count : Nat]
    BY <1>13 DEF InsertMetadata, Ages
  <2> QED
    BY <1>13, <2>1 DEF InsertMetadata
<1>14. ASSUME Start \/ Signal PROVE Shape'
  <2>1. files_count' \in Nat /\ mixed' \in BOOLEAN
        /\ (pc' = pc \/ \E i \in Indexers : CreateThread(i))
    BY <1>14, IndexFilesKeeps DEF Start, Signal
  <2>2. pc' \in [Threads -> {"idle", "remove", "removing", "add", "adding", "search", "lock",
                           "probe", "clear", "read", "walk", "insert"}]
    BY <2>1 DEF CreateThread
  <2>3. CASE Start
    BY <2>1, <2>2, <2>3 DEF Start
  <2>4. CASE Signal
    <3>1. left' \in [EventKinds -> Nat]
      BY <2>4 DEF Signal
    <3> QED
      BY <2>1, <2>2, <2>4, <3>1 DEF Signal
  <2> QED
    BY <1>14, <2>3, <2>4
<1>15. CASE Timer
  BY <1>15 DEF Timer, CreateThread
<1>16. CASE Age
  <2>1. PICK m \in metadata :
          metadata' = {[m EXCEPT !.age = IF @ = "fresh" THEN "recent" ELSE "old"]}
    BY <1>16 DEF Age
  <2>2. metadata' \subseteq [age : Ages, count : Nat]
    BY <2>1 DEF Ages
  <2> QED
    BY <1>16, <2>2 DEF Age
<1>17. CASE Crash
  <2>1. left' \in [EventKinds -> Nat]
    BY <1>17 DEF Crash
  <2>2. /\ pc' \in [Threads -> {"idle", "remove", "removing", "add", "adding", "search", "lock",
                              "probe", "clear", "read", "walk", "insert"}]
        /\ from' \in [Handlers -> Names \cup {Root}] /\ to' \in [Handlers -> Names \cup {Root}]
    BY <1>17 DEF Crash
  <2>3. /\ up' \in BOOLEAN /\ lock' \in Threads \cup {None} /\ files_count' \in Nat
        /\ found' \subseteq Names /\ walked' \cup missed' \subseteq Names /\ mixed' \in BOOLEAN
    BY <1>17 DEF Crash
  <2> QED
    BY <1>17, <2>1, <2>2, <2>3 DEF Crash
<1>18. CASE ScriptCount
  <2>1. Cardinality(files) \in Nat
    BY FS_Subset, FS_CardinalityType
  <2>2. script' \in [stage : {"idle", "list", "commit", "metadata"}, count : Nat,
                     names : SUBSET Names]
    BY <1>18, <2>1 DEF ScriptCount
  <2>3. left' \in [EventKinds -> Nat]
    BY <1>18 DEF ScriptCount
  <2> QED
    BY <1>18, <2>2, <2>3 DEF ScriptCount
<1>19. CASE ScriptList
  BY <1>19 DEF ScriptList
<1>20. CASE ScriptCommit
  <2>1. script' \in [stage : {"idle", "list", "commit", "metadata"}, count : Nat,
                     names : SUBSET Names]
    BY <1>20 DEF ScriptCommit, Idle
  <2>2. /\ rows' \in [Names -> Nat] /\ missed' \subseteq Names /\ mixed' \in BOOLEAN
    <3>1. CASE UNCHANGED <<rows, missed, mixed>>
      BY <3>1
    <3>2. CASE /\ rows' = [f \in Names |-> IF f \in script.names THEN 1 ELSE 0]
               /\ missed' = files \ script.names /\ mixed' = TRUE
      BY <3>2
    <3> QED
      BY <1>20, <3>1, <3>2 DEF ScriptCommit
  <2> QED
    BY <1>20, <2>1, <2>2 DEF ScriptCommit
<1>21. CASE ScriptMetadata
  BY <1>21 DEF ScriptMetadata, Idle, Ages
<1>22. CASE UNCHANGED vars
  BY <1>22 DEF vars
<1>23. ASSUME NEW h \in Handlers, CreatePath(h) \/ DeletePath(h) \/ MovePath(h) PROVE Shape'
  <2> HIDE DEF Shape
  <2>1. PICK old \in Names \cup {Root}, new \in Names \cup {Root}, gone \in SUBSET Names,
             come \in SUBSET Names : Change(h, old, new, gone, come)
    BY <1>23, FilesChange DEF Shape
  <2> QED
    BY <1>1, <2>1
<1> HIDE DEF Sound, Shape, Happens, Goto, Acquire, Release, Removed, Added, Threads, EventKinds
<1> QED
  BY <1>23, <1>2, <1>3, <1>4, <1>5, <1>6, <1>7, <1>8, <1>9, <1>10, <1>11, <1>12, <1>13, <1>14,
     <1>15, <1>16, <1>17, <1>18, <1>19, <1>20, <1>21, <1>22
  DEF Next, Handler, Indexer

-----------------------------------------------------------------------------
LEMMA OneRowStep ==
  ASSUME OneRow, [Next]_vars
  PROVE  OneRow'
<1> USE DEF OneRow, dbVars
<1>1. ASSUME UNCHANGED metadata PROVE OneRow'
  BY <1>1
<1>2. ASSUME NEW h \in Handlers, \/ CreatePath(h) \/ DeletePath(h) \/ MovePath(h) \/ Search(h)
                                 \/ Handler(h)
      PROVE  OneRow'
  BY <1>1, <1>2 DEF CreatePath, DeletePath, MovePath, Change, Search, Handler, TryDeleteFile,
                    DeleteFile, TryAddFile, AddFile, EndSearch
<1>3. ASSUME NEW i \in Indexers, Indexer(i) PROVE OneRow'
  <2>1. CASE DeleteMetadata(i)
    BY <2>1 DEF DeleteMetadata
  <2>2. CASE InsertMetadata(i)
    BY <2>2 DEF InsertMetadata
  <2>3. CASE ~DeleteMetadata(i) /\ ~InsertMetadata(i)
    BY <1>1, <1>3, <2>3 DEF Indexer, TryIndex, Probe, Clear, ReadDirectory, Visit
  <2> QED
    BY <2>1, <2>2, <2>3
<1>4. CASE Start \/ Signal \/ Timer \/ Crash \/ ScriptCount \/ ScriptList \/ ScriptCommit
  BY <1>1, <1>4 DEF Start, Signal, Timer, Crash, ScriptCount, ScriptList, ScriptCommit
<1>5. CASE Age
  BY <1>5 DEF Age
<1>6. CASE ScriptMetadata
  BY <1>6 DEF ScriptMetadata
<1>7. CASE UNCHANGED vars
  BY <1>1, <1>7 DEF vars
<1> HIDE DEF OneRow
<1> QED
  BY <1>2, <1>3, <1>4, <1>5, <1>6, <1>7 DEF Next

(* Where a thread may be without the lock. *)
Free == {"idle", "remove", "add", "lock"}

(* A thread takes the lock, gives it back, or neither. *)
LEMMA LockMoves ==
  ASSUME Sound, NEW t \in Threads, NEW label,
         Goto(t, label),
         \/ lock = None /\ lock' = t /\ label \notin Free
         \/ pc[t] \notin Free /\ lock' = None /\ label \in Free
         \/ UNCHANGED lock /\ (pc[t] \in Free <=> label \in Free)
  PROVE  Owned'
BY ThreadsAssumption DEF Sound, Shape, Owned, Goto, Free, Threads

LEMMA OwnedStep ==
  ASSUME Sound, [Next]_vars
  PROVE  Owned'
<1> USE DEF dbVars, threadVars, Acquire, Release
<1>1. ASSUME UNCHANGED <<pc, lock>> PROVE Owned'
  BY <1>1 DEF Sound, Owned
<1>2. ASSUME NEW h \in Handlers, CreatePath(h) \/ DeletePath(h) \/ MovePath(h) PROVE Owned'
  <2>0. PICK old, new, gone, come : Change(h, old, new, gone, come)
    BY <1>2, FilesChange DEF Sound, Shape
  <2>1. PICK label \in {"add", "remove"} : Goto(h, label)
    BY <2>0 DEF Change
  <2>2. UNCHANGED lock /\ pc[h] = "idle"
    BY <2>0 DEF Change
  <2> QED
    BY <2>1, <2>2, LockMoves DEF Threads, Free
<1>3. ASSUME NEW h \in Handlers, TryDeleteFile(h) PROVE Owned'
  <2>1. CASE Acquire(h) /\ Goto(h, "removing")
    BY <2>1, LockMoves DEF Threads, Free
  <2>2. CASE Removed(h) /\ UNCHANGED lock
    <3>1. PICK label \in {"idle", "add"} : Goto(h, label)
      BY <2>2 DEF Removed
    <3>2. UNCHANGED lock /\ pc[h] = "remove"
      BY <1>3, <2>2 DEF TryDeleteFile
    <3> QED
      BY <3>1, <3>2, LockMoves DEF Threads, Free
  <2> QED
    BY <1>3, <2>1, <2>2 DEF TryDeleteFile
<1>4. ASSUME NEW h \in Handlers, DeleteFile(h) PROVE Owned'
  <2>1. PICK label \in {"idle", "add"} : Goto(h, label)
    BY <1>4 DEF DeleteFile, Removed
  <2>2. lock' = None /\ pc[h] = "removing"
    BY <1>4 DEF DeleteFile
  <2> QED
    BY <2>1, <2>2, LockMoves DEF Threads, Free
<1>5. ASSUME NEW h \in Handlers, TryAddFile(h) PROVE Owned'
  <2>1. CASE Acquire(h) /\ Goto(h, "adding")
    BY <2>1, LockMoves DEF Threads, Free
  <2>2. CASE Added(h) /\ UNCHANGED lock
    BY <1>5, <2>2, LockMoves DEF TryAddFile, Added, Threads, Free
  <2> QED
    BY <1>5, <2>1, <2>2 DEF TryAddFile
<1>6. ASSUME NEW h \in Handlers, AddFile(h) PROVE Owned'
  BY <1>6, LockMoves DEF AddFile, Added, Threads, Free
<1>7. ASSUME NEW h \in Handlers, Search(h) PROVE Owned'
  BY <1>7, LockMoves DEF Search, Threads, Free
<1>8. ASSUME NEW h \in Handlers, EndSearch(h) PROVE Owned'
  BY <1>8, LockMoves DEF EndSearch, Threads, Free
<1>9. ASSUME NEW i \in Indexers, TryIndex(i) PROVE Owned'
  BY <1>9, LockMoves DEF TryIndex, Threads, Free
<1>10. ASSUME NEW i \in Indexers, Probe(i) PROVE Owned'
  BY <1>10, LockMoves DEF Probe, Threads, Free
<1>11. ASSUME NEW i \in Indexers, Clear(i) \/ ReadDirectory(i) \/ DeleteMetadata(i) PROVE Owned'
  <2>1. PICK label \in {"read", "walk", "insert"} : Goto(i, label)
    BY <1>11 DEF Clear, ReadDirectory, DeleteMetadata
  <2>2. UNCHANGED lock /\ pc[i] \in {"clear", "read", "walk"}
    BY <1>11 DEF Clear, ReadDirectory, DeleteMetadata
  <2> QED
    BY <2>1, <2>2, LockMoves DEF Threads, Free
<1>12. ASSUME NEW i \in Indexers, InsertMetadata(i) PROVE Owned'
  BY <1>12, LockMoves DEF InsertMetadata, Threads, Free
<1>13. ASSUME NEW i \in Indexers, NEW f \in Names, Visit(i, f) PROVE Owned'
  BY <1>1, <1>13 DEF Visit
<1>14. ASSUME NEW i \in Indexers, CreateThread(i), UNCHANGED lock PROVE Owned'
  BY <1>14, LockMoves DEF CreateThread, Threads, Free
<1>15. CASE Start \/ Signal
  <2>1. UNCHANGED lock /\ (pc' = pc \/ \E i \in Indexers : CreateThread(i))
    BY <1>15, IndexFilesKeeps DEF Start, Signal
  <2> QED
    BY <1>1, <1>14, <2>1
<1>16. CASE Timer
  BY <1>14, <1>16 DEF Timer
<1>17. CASE Crash
  BY <1>17, ThreadsAssumption DEF Crash, Owned, Threads
<1>18. CASE Age \/ ScriptCount \/ ScriptList \/ ScriptCommit \/ ScriptMetadata
  BY <1>1, <1>18 DEF Age, ScriptCount, ScriptList, ScriptCommit, ScriptMetadata
<1>19. CASE UNCHANGED vars
  BY <1>1, <1>19 DEF vars
<1> HIDE DEF Acquire, Release
<1> QED
  BY <1>2, <1>3, <1>4, <1>5, <1>6, <1>7, <1>8, <1>9, <1>10, <1>11, <1>12, <1>13, <1>15, <1>16,
     <1>17, <1>18, <1>19
  DEF Next, Handler, Indexer

LEMMA RolesStep ==
  ASSUME Sound, [Next]_vars
  PROVE  Roles'
<1> USE ThreadsAssumption DEF Roles, Goto, dbVars, threadVars, Threads, Sound, Shape
<1>1. ASSUME UNCHANGED <<pc, from, to>> PROVE Roles'
  BY <1>1
<1>2. ASSUME NEW i \in Indexers, NEW label, Goto(i, label), UNCHANGED <<from, to>> PROVE Roles'
  BY <1>2
<1>3. ASSUME NEW h \in Handlers, NEW old \in Names \cup {Root}, NEW new \in Names \cup {Root},
             NEW gone \in SUBSET Names, NEW come \in SUBSET Names,
             old # Root \/ new # Root, Change(h, old, new, gone, come)
      PROVE  Roles'
  BY <1>3 DEF Change
<1>4. ASSUME NEW h \in Handlers, CreatePath(h) \/ DeletePath(h) \/ MovePath(h) PROVE Roles'
  <2>1. PICK old \in Names \cup {Root}, new \in Names \cup {Root}, gone \in SUBSET Names,
             come \in SUBSET Names : Change(h, old, new, gone, come) /\ (old # Root \/ new # Root)
    BY <1>4, FilesChange
  <2> QED
    BY <1>3, <2>1
<1>5. ASSUME NEW h \in Handlers, TryDeleteFile(h) \/ DeleteFile(h) PROVE Roles'
  BY <1>5 DEF TryDeleteFile, DeleteFile, Removed
<1>6. ASSUME NEW h \in Handlers, TryAddFile(h) \/ AddFile(h) PROVE Roles'
  BY <1>6 DEF TryAddFile, AddFile, Added
<1>7. ASSUME NEW h \in Handlers, Search(h) \/ EndSearch(h) PROVE Roles'
  BY <1>7 DEF Search, EndSearch
<1>8. ASSUME NEW i \in Indexers, Indexer(i) PROVE Roles'
  <2>1. UNCHANGED <<from, to>>
    BY <1>8 DEF Indexer, TryIndex, Probe, Clear, ReadDirectory, Visit, DeleteMetadata,
                InsertMetadata
  <2>2. pc' = pc \/ \E label \in {"idle", "probe", "clear", "read", "walk", "insert"} : Goto(i, label)
    <3> HIDE DEF Goto
    <3> QED
      BY <1>8 DEF Indexer, TryIndex, Probe, Clear, ReadDirectory, Visit, DeleteMetadata,
                InsertMetadata
  <2> HIDE DEF Roles
  <2> QED
    BY <1>1, <1>2, <2>1, <2>2
<1>9. CASE Start \/ Signal
  <2>1. UNCHANGED <<from, to>> /\ (pc' = pc \/ \E i \in Indexers : CreateThread(i))
    BY <1>9, IndexFilesKeeps DEF Start, Signal
  <2> HIDE DEF Roles, Goto
  <2> QED
    BY <1>1, <1>2, <2>1 DEF CreateThread
<1>10. CASE Timer
  <2> HIDE DEF Roles, Goto
  <2> QED
    BY <1>2, <1>10 DEF Timer, CreateThread
<1>11. CASE Crash
  BY <1>11 DEF Crash
<1>12. CASE Age \/ ScriptCount \/ ScriptList \/ ScriptCommit \/ ScriptMetadata
  BY <1>1, <1>12 DEF Age, ScriptCount, ScriptList, ScriptCommit, ScriptMetadata
<1>13. CASE UNCHANGED vars
  BY <1>1, <1>13 DEF vars
<1> HIDE DEF Roles, Goto, Threads, Sound, Shape
<1> QED
  BY <1>4, <1>5, <1>6, <1>7, <1>8, <1>9, <1>10, <1>11, <1>12, <1>13
  DEF Next, Handler

(* The lock has one holder, which knows it, and the variables have their   *)
(* types.                                                                  *)
THEOREM IndexSound == Spec => []Sound
<1>1. Sound /\ [Next]_vars => Sound'
  BY ShapeStep, OneRowStep, OwnedStep, RolesStep DEF Sound
<1> QED
  BY <1>1, SoundInit, PTL DEF Spec

THEOREM IndexTyped == Spec => []TypeOK
<1>1. Sound => TypeOK
  <2> SUFFICES ASSUME Sound PROVE TypeOK
    OBVIOUS
  <2>1. Cardinality(metadata) <= 1
    <3>1. CASE metadata = {}
      BY <3>1, FS_EmptySet
    <3>2. CASE \E m \in metadata : metadata = {m}
      <4>1. PICK m \in metadata : metadata = {m}
        BY <3>2
      <4>2. Cardinality({m}) = 1
        BY FS_Singleton
      <4> QED
        BY <4>1, <4>2
    <3> QED
      BY <3>1, <3>2 DEF Sound, OneRow
  <2> QED
    BY <2>1 DEF Sound, Shape, Owned, TypeOK
<1> QED
  BY <1>1, IndexSound, PTL

-----------------------------------------------------------------------------
(* Rows are missing only while an index thread fills the table, and then   *)
(* only of the names that it has still to visit.                           *)
Filling(f) ==
  \E i \in Indexers : lock = i /\ (pc[i] = "read" \/ (pc[i] = "walk" /\ f \in found))

Covered ==
  \A f \in files : \/ f \in missed \/ rows[f] > 0 \/ Filling(f)
                   \/ \E h \in Handlers : to[h] = f

LEMMA CoveredStep ==
  ASSUME Sound, Covered, [Next]_vars
  PROVE  Covered'
<1> USE ThreadsAssumption DEF Covered, Filling, dbVars, threadVars, historyVars, Threads, Sound, Shape
<1>1. ASSUME NEW h \in Handlers, NEW old \in Names \cup {Root}, NEW new \in Names \cup {Root},
             NEW gone \in SUBSET Names, NEW come \in SUBSET Names,
             Change(h, old, new, gone, come)
      PROVE  Covered'
  BY <1>1 DEF Change, Roles, Goto
<1>2. ASSUME NEW h \in Handlers, CreatePath(h) \/ DeletePath(h) \/ MovePath(h) PROVE Covered'
  <2>1. PICK old \in Names \cup {Root}, new \in Names \cup {Root}, gone \in SUBSET Names,
             come \in SUBSET Names : Change(h, old, new, gone, come)
    BY <1>2, FilesChange
  <2> QED
    BY <1>1, <2>1
<1>3. ASSUME NEW h \in Handlers, TryDeleteFile(h) PROVE Covered'
  BY <1>3 DEF TryDeleteFile, Acquire, Removed, Goto
<1>4. ASSUME NEW h \in Handlers, DeleteFile(h) PROVE Covered'
  <2>1. lock = h
    BY <1>4 DEF DeleteFile, Owned
  <2> QED
    BY <1>4, <2>1 DEF DeleteFile, Removed, Goto, Roles
<1>5. ASSUME NEW h \in Handlers, TryAddFile(h) PROVE Covered'
  BY <1>5 DEF TryAddFile, Acquire, Added, Goto, Roles
<1>6. ASSUME NEW h \in Handlers, AddFile(h) PROVE Covered'
  <2>1. lock = h
    BY <1>6 DEF AddFile, Owned
  <2> QED
    BY <1>6, <2>1 DEF AddFile, Added, Goto, Roles
<1>7. ASSUME NEW h \in Handlers, Search(h) \/ EndSearch(h) PROVE Covered'
  BY <1>7 DEF Search, EndSearch, Acquire, Release, Owned, Goto
<1>8. ASSUME NEW i \in Indexers, TryIndex(i) PROVE Covered'
  BY <1>8 DEF TryIndex, Acquire, Goto
<1>9. ASSUME NEW i \in Indexers, Probe(i) PROVE Covered'
  BY <1>9 DEF Probe, Release, Goto, Owned
<1>10. ASSUME NEW i \in Indexers, Clear(i) PROVE Covered'
  BY <1>10 DEF Clear, Goto, Owned
<1>11. ASSUME NEW i \in Indexers, ReadDirectory(i) PROVE Covered'
  BY <1>11 DEF ReadDirectory, Goto, Owned
<1>12. ASSUME NEW i \in Indexers, NEW f \in Names, Visit(i, f) PROVE Covered'
  BY <1>12 DEF Visit, Owned
<1>13. ASSUME NEW i \in Indexers, DeleteMetadata(i) \/ InsertMetadata(i) PROVE Covered'
  BY <1>13 DEF DeleteMetadata, InsertMetadata, Goto, Owned, Release
<1>14. ASSUME UNCHANGED <<files, missed, rows, lock, found, to>>,
              pc' = pc \/ \E i \in Indexers : CreateThread(i)
       PROVE  Covered'
  BY <1>14 DEF CreateThread, Goto
<1>15. CASE Start \/ Signal
  <2>1. pc' = pc \/ \E i \in Indexers : CreateThread(i)
    BY <1>15, IndexFilesKeeps DEF Start, Signal
  <2> QED
    BY <1>14, <1>15, <2>1 DEF Start, Signal
<1>16. CASE Timer
  BY <1>14, <1>16 DEF Timer
<1>17. CASE Crash
  BY <1>17 DEF Crash
<1>18. CASE ScriptCommit
  BY <1>18 DEF ScriptCommit
<1>19. CASE Age \/ ScriptCount \/ ScriptList \/ ScriptMetadata
  BY <1>14, <1>19 DEF Age, ScriptCount, ScriptList, ScriptMetadata
<1>20. CASE UNCHANGED vars
  BY <1>14, <1>20 DEF vars
<1> HIDE DEF Covered, Sound, Shape, Threads
<1> QED
  BY <1>2, <1>3, <1>4, <1>5, <1>6, <1>7, <1>8, <1>9, <1>10, <1>11, <1>12, <1>13, <1>15, <1>16,
     <1>17, <1>18, <1>19, <1>20
  DEF Next, Handler, Indexer

(* No file slips past the index but in the ways that `missed' names.       *)
THEOREM FilesAreFound == Spec => []FoundUnlessMissed
<1>1. Init => Covered
  BY DEF Init, Covered
<1>2. Sound /\ Covered /\ [Next]_vars => Covered'
  BY CoveredStep
<1>3. Sound /\ Covered => FoundUnlessMissed
  BY DEF Sound, Shape, Covered, Filling, FoundUnlessMissed, Range
<1> QED
  BY <1>1, <1>2, <1>3, IndexSound, PTL DEF Spec

-----------------------------------------------------------------------------
(* What a walk has done so far, unless something interfered with it.       *)
Once == {f \in Names : rows[f] = 1}

Walking(i) ==
  /\ \A f \in Names : rows[f] <= 1 /\ (f \in found => rows[f] = 0)
  /\ \A f \in walked : rows[f] = 1 \/ f \in found
  /\ files_count = Cardinality(Once)

Walks ==
  /\ walked \subseteq files
  /\ \A i \in Indexers : /\ pc[i] = "read" /\ ~mixed =>
                              files_count = 0 /\ \A f \in Names : rows[f] = 0
                         /\ pc[i] = "walk" /\ ~mixed => Walking(i)
                         /\ pc[i] = "insert" /\ ~mixed => found = {} /\ Walking(i)

LEMMA OnceFinite == IsFiniteSet(Once) /\ Cardinality(Once) \in Nat
BY ThreadsAssumption, FS_Subset, FS_CardinalityType DEF Once

(* What no walk sees, or only by what it has still to insert. *)
LEMMA WalkGoesOn ==
  ASSUME Walks, UNCHANGED <<rows, files_count, mixed, found>>,
         walked' \subseteq walked, walked' \subseteq files',
         \A i \in Indexers : pc'[i] \in {"read", "walk", "insert"} => pc'[i] = pc[i]
  PROVE  Walks'
BY DEF Walks, Walking, Once

(* Nobody walks while a thread has the lock for something else, or when    *)
(* the walk was interfered with.                                           *)
LEMMA NobodyWalks ==
  ASSUME walked' \subseteq files',
         mixed' \/ \A i \in Indexers : pc'[i] \notin {"read", "walk", "insert"}
  PROVE  Walks'
BY DEF Walks

LEMMA WalksStep ==
  ASSUME Sound, Walks, [Next]_vars
  PROVE  Walks'
<1> USE ThreadsAssumption DEF dbVars, threadVars, historyVars, Threads, Sound, Shape
<1>0. \A t \in Threads, i \in Indexers : lock = t /\ t # i => pc[i] \notin {"read", "walk", "insert"}
  BY DEF Owned
<1>1. ASSUME NEW h \in Handlers, CreatePath(h) \/ DeletePath(h) \/ MovePath(h) PROVE Walks'
  <2>1. PICK old \in Names \cup {Root}, new \in Names \cup {Root}, gone \in SUBSET Names,
             come \in SUBSET Names : Change(h, old, new, gone, come)
    BY <1>1, FilesChange
  <2>2. walked' \subseteq walked /\ walked' \subseteq files'
    BY <2>1 DEF Change, Walks
  <2>3. \A i \in Indexers : pc'[i] = pc[i]
    BY <2>1 DEF Change, Goto
  <2> QED
    BY <2>1, <2>2, <2>3, WalkGoesOn DEF Change
<1>2. ASSUME NEW h \in Handlers, \/ TryDeleteFile(h) \/ TryAddFile(h) \/ Search(h) \/ EndSearch(h)
      PROVE  Walks'
  <2>1. \A i \in Indexers : pc'[i] = pc[i]
    BY <1>2 DEF TryDeleteFile, TryAddFile, Search, EndSearch, Removed, Added, Goto
  <2>2. UNCHANGED <<rows, files_count, mixed, found, walked, files>>
    BY <1>2 DEF TryDeleteFile, TryAddFile, Search, EndSearch
  <2>3. walked' \subseteq walked /\ walked' \subseteq files'
    BY <2>2 DEF Walks
  <2> QED
    BY <2>1, <2>2, <2>3, WalkGoesOn
<1>3. ASSUME NEW h \in Handlers, DeleteFile(h) \/ AddFile(h) PROVE Walks'
  <2>1. lock = h
    BY <1>3 DEF DeleteFile, AddFile, Owned
  <2>2. \A i \in Indexers : pc'[i] = pc[i]
    BY <1>3 DEF DeleteFile, AddFile, Removed, Added, Goto
  <2>3. walked' \subseteq files'
    BY <1>3 DEF DeleteFile, AddFile, Walks
  <2> QED
    BY <1>0, <2>1, <2>2, <2>3, NobodyWalks
<1>4. ASSUME NEW i \in Indexers, TryIndex(i) \/ Probe(i) PROVE Walks'
  <2>1. /\ \A j \in Indexers : pc'[j] \in {"read", "walk", "insert"} => pc'[j] = pc[j]
        /\ UNCHANGED <<rows, mixed, found, walked, files>>
    BY <1>4 DEF TryIndex, Probe, Goto
  <2>2. CASE TryIndex(i)
    BY <2>1, <2>2, WalkGoesOn DEF TryIndex, Walks
  <2>3. CASE Probe(i)
    <3>1. lock = i /\ pc'[i] \notin {"read", "walk", "insert"}
      BY <2>3 DEF Probe, Owned, Goto
    <3>2. \A j \in Indexers : pc'[j] \notin {"read", "walk", "insert"}
      BY <1>0, <2>1, <3>1
    <3> QED
      BY <2>1, <3>2, NobodyWalks DEF Walks
  <2> QED
    BY <1>4, <2>2, <2>3
<1>5. ASSUME NEW i \in Indexers, Clear(i) PROVE Walks'
  <2>1. \A j \in Indexers : j # i => pc'[j] \notin {"read", "walk", "insert"}
    BY <1>5 DEF Clear, Owned, Goto
  <2>2. pc'[i] = "read" /\ files_count' = 0 /\ \A f \in Names : rows'[f] = 0
    BY <1>5 DEF Clear, Goto
  <2> QED
    BY <1>5, <2>1, <2>2 DEF Walks, Clear
<1>6. ASSUME NEW i \in Indexers, ReadDirectory(i) PROVE Walks'
  <2>1. \A j \in Indexers : j # i => pc'[j] \notin {"read", "walk", "insert"}
    BY <1>6 DEF ReadDirectory, Owned, Goto
  <2>2. pc'[i] = "walk" /\ walked' = found' /\ walked' \subseteq files' /\ found' \subseteq Names
    BY <1>6 DEF ReadDirectory, Goto
  <2>3. ~mixed => Walking(i)'
    <3> SUFFICES ASSUME ~mixed PROVE Walking(i)'
      OBVIOUS
    <3>1. files_count' = 0 /\ \A f \in Names : rows'[f] = 0
      BY <1>6 DEF ReadDirectory, Walks
    <3>2. Once' = {}
      BY <3>1 DEF Once
    <3> QED
      BY <2>2, <3>1, <3>2, FS_EmptySet DEF Walking
  <2> QED
    BY <1>6, <2>1, <2>2, <2>3 DEF Walks, ReadDirectory
<1>7. ASSUME NEW i \in Indexers, NEW f \in Names, Visit(i, f) PROVE Walks'
  <2>1. pc' = pc /\ pc[i] = "walk" /\ \A j \in Indexers : j # i => pc[j] \notin {"read", "walk", "insert"}
    BY <1>7 DEF Visit, Owned
  <2>2. ~mixed => Walking(i)'
    <3> SUFFICES ASSUME ~mixed PROVE Walking(i)'
      OBVIOUS
    <3>1. Walking(i) /\ f \in found /\ rows[f] = 0
      BY <1>7 DEF Visit, Walks, Walking
    <3>2. CASE f \in files
      <4>1. rows' = [rows EXCEPT ![f] = 1] /\ files_count' = files_count + 1
        BY <1>7, <3>1, <3>2 DEF Visit
      <4>2. Once' = Once \cup {f} /\ f \notin Once
        BY <3>1, <4>1 DEF Once
      <4>3. files_count' = Cardinality(Once')
        BY <3>1, <4>1, <4>2, OnceFinite, FS_AddElement DEF Walking
      <4>4. found' = found \ {f} /\ walked' = walked
        BY <1>7 DEF Visit
      <4> QED
        BY <3>1, <4>1, <4>3, <4>4 DEF Walking
    <3>3. CASE f \notin files
      <4>1. f \notin walked
        BY <3>3 DEF Walks
      <4>2. UNCHANGED <<rows, files_count, walked>> /\ found' = found \ {f}
        BY <1>7, <3>3 DEF Visit
      <4> QED
        BY <3>1, <4>1, <4>2 DEF Walking, Once
    <3> QED
      BY <3>2, <3>3
  <2> QED
    BY <1>7, <2>1, <2>2 DEF Walks, Visit
<1>8. ASSUME NEW i \in Indexers, DeleteMetadata(i) PROVE Walks'
  <2>1. \A j \in Indexers : j # i => pc'[j] \notin {"read", "walk", "insert"}
    BY <1>8 DEF DeleteMetadata, Owned, Goto
  <2>2. pc[i] = "walk" /\ pc'[i] = "insert" /\ found = {}
    BY <1>8 DEF DeleteMetadata, Goto
  <2>3. UNCHANGED <<rows, files_count, mixed, found, walked, files>>
    BY <1>8 DEF DeleteMetadata
  <2> QED
    BY <2>1, <2>2, <2>3 DEF Walks, Walking, Once
<1>9. ASSUME NEW i \in Indexers, InsertMetadata(i) PROVE Walks'
  <2>1. \A j \in Indexers : pc'[j] \notin {"read", "walk", "insert"}
    BY <1>9 DEF InsertMetadata, Owned, Goto
  <2> QED
    BY <1>9, <2>1, NobodyWalks DEF InsertMetadata
<1>10. CASE Start \/ Signal
  <2>1. UNCHANGED <<rows, found, walked, files, lock>>
    BY <1>10 DEF Start, Signal
  <2>2. walked' \subseteq files'
    BY <2>1 DEF Walks
  <2>3. CASE UNCHANGED pc /\ mixed' = (mixed \/ lock \in Indexers)
    <3>1. CASE lock \in Indexers
      BY <2>2, <2>3, <3>1, NobodyWalks
    <3>2. CASE lock \notin Indexers
      <4>1. \A i \in Indexers : pc'[i] \notin {"read", "walk", "insert"}
        BY <2>3, <3>2 DEF Owned
      <4> QED
        BY <2>2, <4>1, NobodyWalks
    <3> QED
      BY <3>1, <3>2
  <2>4. ASSUME NEW i \in Indexers, CreateThread(i) PROVE Walks'
    BY <2>1, <2>2, <2>4, WalkGoesOn DEF CreateThread, Goto
  <2> QED
    BY <1>10, <2>3, <2>4 DEF Start, Signal, IndexFiles
<1>11. CASE Timer
  <2>1. PICK i \in Indexers : CreateThread(i)
    BY <1>11 DEF Timer
  <2>2. \A j \in Indexers : pc'[j] \in {"read", "walk", "insert"} => pc'[j] = pc[j]
    BY <2>1 DEF CreateThread, Goto
  <2> QED
    BY <1>11, <2>1, <2>2, WalkGoesOn DEF Timer, CreateThread, Walks
<1>12. CASE Crash
  BY <1>12, NobodyWalks DEF Crash
<1>13. CASE ScriptCommit
  <2>1. CASE mixed' = TRUE
    BY <1>13, <2>1, NobodyWalks DEF ScriptCommit, Walks
  <2>2. CASE UNCHANGED <<rows, missed, mixed>>
    BY <1>13, <2>2, WalkGoesOn DEF ScriptCommit, Walks
  <2> QED
    BY <1>13, <2>1, <2>2 DEF ScriptCommit
<1>14. CASE Age \/ ScriptCount \/ ScriptList \/ ScriptMetadata
  BY <1>14, WalkGoesOn DEF Age, ScriptCount, ScriptList, ScriptMetadata, Walks
<1>15. CASE UNCHANGED vars
  BY <1>15, WalkGoesOn DEF vars, Walks
<1> HIDE DEF Sound, Shape, Threads
<1> QED
  BY <1>1, <1>2, <1>3, <1>4, <1>5, <1>6, <1>7, <1>8, <1>9, <1>10, <1>11, <1>12, <1>13, <1>14,
     <1>15
  DEF Next, Handler, Indexer

(* What a walk stores is the number of rows, none of which is there twice. *)
THEOREM WalksAreExact == Spec => []WalkIsExact
<1>1. Init => Walks
  BY DEF Init, Walks, Threads
<1>2. Sound /\ Walks /\ [Next]_vars => Walks'
  BY WalksStep
<1>3. Walks => WalkIsExact
  BY DEF Walks, Walking, Once, WalkIsExact
<1> QED
  BY <1>1, <1>2, <1>3, IndexSound, PTL DEF Spec
====
