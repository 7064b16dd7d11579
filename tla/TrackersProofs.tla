---- MODULE TrackersProofs ----
(***************************************************************************)
(* Proofs about Trackers, for every number of servers and ciphers, all     *)
(* faults and any number of restarts of the tracker.                       *)
(***************************************************************************)
EXTENDS Trackers, FiniteSetTheorems, TLAPS

(* What the threads of the tracker point to. *)
Pointed ==
  /\ upc # "receive" => ref[1] \in Servers
  /\ victim # None => tpc = "next" /\ listed[victim]

(* A server uses the cipher of its last session, and not before the        *)
(* handler of that session has made an entry with it.                      *)
Agreed ==
  \A s \in Servers :
    /\ active[s] => /\ reg[s] = "idle" /\ cipher[s] = session[s]
                    /\ hpc[s] \in {"none", "delete", "insert"}
    /\ s \in okay => hpc[s] \in {"none", "delete", "insert"}
    /\ hpc[s] # "none" \/ s \in okay \/ active[s] => session[s] # None
    /\ listed[s] => hpc[s] \notin {"unstat", "add"} /\ entry[s] # None
    /\ listed[s] /\ hpc[s] # "lookup" => entry[s] = session[s]

Sound == TypeOK /\ Pointed /\ Agreed

-----------------------------------------------------------------------------
LEMMA SoundInit == Init => Sound
<1> SUFFICES ASSUME Init PROVE Sound
  OBVIOUS
<1>1. TypeOK
  <2>1. ref \in (Servers \cup {None}) \X CipherOrNone
    BY DEF Init, CipherOrNone
  <2>2. current \in 0..Width - 1
    BY WidthAssumption DEF Init
  <2>3. crashes \in 0..MaxCrashes
    BY FaultsAssumption DEF Init
  <2> QED
    BY <2>1, <2>2, <2>3 DEF Init, TypeOK, CipherOrNone
<1>2. Pointed /\ Agreed
  BY DEF Init, Pointed, Agreed
<1> QED
  BY <1>1, <1>2 DEF Sound

LEMMA ClientSound ==
  ASSUME Sound, NEW s \in Servers, ClientStep(s) PROVE Sound'
<1> USE DEF Sound, TypeOK, Pointed, Agreed, clientVars, netVars, entryVars, udpVars, timerVars,
            faultVars, CipherOrNone
<1>1. CASE StartRegister(s)
  BY <1>1 DEF StartRegister
<1>2. CASE SendRegister(s)
  <2> PICK c \in Fresh(s) : session' = [session EXCEPT ![s] = c]
    BY <1>2 DEF SendRegister
  <2>1. c \in Ciphers /\ c # None
    BY CiphersAssumption DEF Fresh
  <2>2. TypeOK'
    BY <1>2, <2>1 DEF SendRegister
  <2>3. ~active[s] /\ hpc[s] = "none"
    BY <1>2 DEF SendRegister
  <2> QED
    BY <1>2, <2>1, <2>2, <2>3 DEF SendRegister
<1>3. CASE FailRegister(s)
  BY <1>3 DEF FailRegister
<1>4. CASE GetOkay(s)
  BY <1>4 DEF GetOkay
<1>5. CASE SendUpdate(s)
  BY <1>5 DEF SendUpdate
<1>6. CASE ReplaceTracker(s)
  BY <1>6 DEF ReplaceTracker
<1>7. CASE Stop(s)
  BY <1>7 DEF Stop
<1>8. CASE Start(s)
  BY <1>8 DEF Start
<1>9. CASE Lose(s)
  BY <1>9 DEF Lose
<1> QED
  BY <1>1, <1>2, <1>3, <1>4, <1>5, <1>6, <1>7, <1>8, <1>9 DEF ClientStep

LEMMA HandlerSound ==
  ASSUME Sound, NEW s \in Servers, HandlerStep(s) PROVE Sound'
<1> USE DEF Sound, TypeOK, Pointed, Agreed, clientVars, netVars, entryVars, udpVars, timerVars,
            faultVars, CipherOrNone, Handles
<1>1. CASE RemoveServer(s)
  <2>1. TypeOK'
    BY <1>1 DEF RemoveServer
  <2>2. Pointed'
    BY <1>1 DEF RemoveServer
  <2>3. Agreed'
    BY <1>1 DEF RemoveServer
  <2> QED
    BY <2>1, <2>2, <2>3
<1>2. CASE RemoveStats(s)
  <2>1. current' \in 0..Width - 1
    BY <1>2, WidthAssumption DEF RemoveStats
  <2> QED
    BY <1>2, <2>1 DEF RemoveStats
<1>3. CASE AddServer(s)
  <2>1. hpc[s] \in {"add", "lookup"} /\ hpc' = [hpc EXCEPT ![s] = "stat"] /\ tpc = "wait"
    BY <1>3 DEF AddServer
  <2>2. TypeOK' /\ Pointed'
    BY <1>3, <2>1 DEF AddServer
  <2>3. Agreed'
    BY <1>3, <2>1 DEF AddServer
  <2> QED
    BY <2>2, <2>3
<1>4. CASE AddStats(s)
  <2>1. current' \in 0..Width - 1
    BY <1>4, WidthAssumption DEF AddStats
  <2> QED
    BY <1>4, <2>1 DEF AddStats
<1>5. CASE ReplyOkay(s)
  BY <1>5 DEF ReplyOkay
<1>6. CASE DeleteRow(s)
  BY <1>6 DEF DeleteRow
<1>7. CASE InsertRow(s)
  BY <1>7 DEF InsertRow
<1> QED
  BY <1>1, <1>2, <1>3, <1>4, <1>5, <1>6, <1>7 DEF HandlerStep

LEMMA UpdateSound ==
  ASSUME Sound, UpdateStep \/ (\E s \in Servers : Receive(s)) PROVE Sound'
<1> USE DEF Sound, TypeOK, Pointed, Agreed, clientVars, netVars, entryVars, udpVars, timerVars,
            faultVars, CipherOrNone
<1>1. ASSUME NEW s \in Servers, Receive(s) PROVE Sound'
  <2>1. /\ upc' \in {"receive", "update"} /\ ref' \in (Servers \cup {None}) \X CipherOrNone
        /\ upc' # "receive" => ref'[1] \in Servers
    BY <1>1 DEF Receive
  <2>2. datagrams' \subseteq Servers \X Ciphers
    BY <1>1 DEF Receive
  <2> QED
    BY <1>1, <2>1, <2>2 DEF Receive
<1>2. CASE FindServer
  BY <1>2 DEF FindServer, Known
<1>3. CASE RemoveOldStats
  <2>1. current' \in 0..Width - 1
    BY <1>3, WidthAssumption DEF RemoveOldStats
  <2> QED
    BY <1>3, <2>1 DEF RemoveOldStats
<1>4. CASE Stamp
  BY <1>4 DEF Stamp
<1>5. CASE AddNewStats
  <2>1. current' \in 0..Width - 1
    BY <1>5, WidthAssumption DEF AddNewStats
  <2> QED
    BY <1>5, <2>1 DEF AddNewStats
<1> QED
  BY <1>1, <1>2, <1>3, <1>4, <1>5 DEF UpdateStep

LEMMA TimerSound ==
  ASSUME Sound, TimerStep \/ (\E s \in Servers : TimePasses(s)) PROVE Sound'
<1> USE DEF Sound, TypeOK, Pointed, Agreed, clientVars, netVars, entryVars, udpVars, timerVars,
            faultVars, CipherOrNone
<1>1. ASSUME NEW s \in Servers, TimePasses(s) PROVE Sound'
  BY <1>1 DEF TimePasses
<1>2. CASE BeginPass
  BY <1>2 DEF BeginPass
<1>3. ASSUME NEW s \in Servers, SkipServer(s) PROVE Sound'
  BY <1>3 DEF SkipServer
<1>4. ASSUME NEW s \in Servers, RemoveOverdueStats(s) PROVE Sound'
  <2>1. current' \in 0..Width - 1
    BY <1>4, WidthAssumption DEF RemoveOverdueStats
  <2> QED
    BY <1>4, <2>1 DEF RemoveOverdueStats
<1>5. CASE HideServer
  BY <1>5 DEF HideServer
<1>6. CASE EndPass
  BY <1>6 DEF EndPass
<1> QED
  BY <1>1, <1>2, <1>3, <1>4, <1>5, <1>6 DEF TimerStep

LEMMA CrashSound == ASSUME Sound, Crash PROVE Sound'
<1>1. TypeOK'
  <2>1. ref' \in (Servers \cup {None}) \X CipherOrNone
    BY DEF Crash, CipherOrNone
  <2>2. current' \in 0..Width - 1
    BY WidthAssumption DEF Crash
  <2>3. crashes' \in 0..MaxCrashes
    BY FaultsAssumption DEF Crash, Sound, TypeOK
  <2> QED
    BY <2>1, <2>2, <2>3 DEF Crash, Sound, TypeOK, clientVars, netVars
<1>2. Pointed' /\ Agreed'
  BY DEF Crash, Sound, Pointed, Agreed, TypeOK, clientVars, netVars
<1> QED
  BY <1>1, <1>2 DEF Sound

LEMMA SoundStep == ASSUME Sound, [Next]_vars PROVE Sound'
<1>1. CASE UNCHANGED vars
  BY <1>1 DEF Sound, TypeOK, Pointed, Agreed, vars, clientVars, netVars, entryVars, udpVars,
              timerVars, faultVars
<1> QED
  BY <1>1, ClientSound, HandlerSound, UpdateSound, TimerSound, CrashSound DEF Next

(* Each step keeps the types, the pointers and the ciphers.                *)
THEOREM TrackersSound == Spec => []Sound
  BY SoundInit, SoundStep, PTL DEF Spec

(* The variables keep their types; in particular the receive thread works  *)
(* on an entry that it has found.                                          *)
THEOREM TrackersTyped == Spec => []TypeOK
<1>1. Sound => TypeOK
  BY DEF Sound
<1> QED
  BY <1>1, TrackersSound, PTL

(* A tracker that lists a server has the cipher with which the server      *)
(* sends updates, for every order of registrations, restarts and faults.   *)
THEOREM CiphersAgree == Spec => []UpdatesAreUnderstood
<1>1. Sound => UpdatesAreUnderstood
  BY DEF Sound, Agreed, UpdatesAreUnderstood
<1> QED
  BY <1>1, TrackersSound, PTL

-----------------------------------------------------------------------------
(* The total.  It is the number of listed servers, plus the entries that   *)
(* were removed with their stats still counted, less those that are listed *)
(* and not yet counted, less the one that is being updated or taken off    *)
(* the list: modulo Width, where it may wrap meanwhile.                    *)
Listed   == {s \in Servers : listed[s]}
At(here) == {s \in Servers : hpc[s] = here}
Updating == IF upc \in {"stamp", "stat"} THEN 1 ELSE 0
Hiding   == IF victim # None THEN 1 ELSE 0

Expected ==
  Cardinality(Listed) + Cardinality(At("unstat")) - Cardinality(At("stat")) - Updating - Hiding

Congruent(m, n) == \E k \in Int : m = n + k * Width

Balanced == ~miscounted => Congruent(current, Expected)

LEMMA CardinalityAdd ==
  ASSUME NEW S, IsFiniteSet(S), NEW x
  PROVE  /\ Cardinality(S) \in Nat
         /\ x \notin S => Cardinality(S \cup {x}) = Cardinality(S) + 1
         /\ x \in S => Cardinality(S \ {x}) = Cardinality(S) - 1
  BY FS_AddElement, FS_RemoveElement, FS_CardinalityType

Finite ==
  /\ IsFiniteSet(Listed) /\ Cardinality(Listed) \in Nat
  /\ \A here : IsFiniteSet(At(here)) /\ Cardinality(At(here)) \in Nat

LEMMA SetsFinite == Finite
<1>1. Listed \subseteq Servers /\ \A here : At(here) \subseteq Servers
  BY DEF Listed, At
<1> QED
  BY <1>1, ServersAssumption, FS_Subset, FS_CardinalityType DEF Finite

LEMMA Cards ==
  /\ Cardinality(Listed) \in Nat
  /\ Cardinality(At("unstat")) \in Nat /\ Cardinality(At("stat")) \in Nat
  BY SetsFinite DEF Finite

LEMMA ExpectedInt == Expected \in Int
  BY Cards DEF Expected, Updating, Hiding

LEMMA CongruentUp ==
  ASSUME NEW c \in 0..Width - 1, NEW e \in Int, Congruent(c, e)
  PROVE  Congruent((c + 1) % Width, e + 1)
<1> PICK k \in Int : c = e + k * Width
  BY DEF Congruent
<1>1. CASE c = Width - 1
  <2>1. (c + 1) % Width = 0
    BY <1>1, WidthAssumption
  <2>2. 0 = (e + 1) + (k - 1) * Width
    BY <1>1, WidthAssumption
  <2> QED
    BY <2>1, <2>2 DEF Congruent
<1>2. CASE c < Width - 1
  <2>1. (c + 1) % Width = c + 1
    BY <1>2, WidthAssumption
  <2>2. c + 1 = (e + 1) + k * Width
    BY WidthAssumption
  <2> QED
    BY <2>1, <2>2 DEF Congruent
<1> QED
  BY <1>1, <1>2, WidthAssumption

LEMMA CongruentDown ==
  ASSUME NEW c \in 0..Width - 1, NEW e \in Int, Congruent(c, e)
  PROVE  Congruent((c - 1) % Width, e - 1)
<1> PICK k \in Int : c = e + k * Width
  BY DEF Congruent
<1>1. CASE c = 0
  <2>1. (c - 1) % Width = Width - 1
    BY <1>1, WidthAssumption
  <2>2. Width - 1 = (e - 1) + (k + 1) * Width
    BY <1>1, WidthAssumption
  <2> QED
    BY <2>1, <2>2 DEF Congruent
<1>2. CASE c > 0
  <2>1. (c - 1) % Width = c - 1
    BY <1>2, WidthAssumption
  <2>2. c - 1 = (e - 1) + k * Width
    BY WidthAssumption
  <2> QED
    BY <2>1, <2>2 DEF Congruent
<1> QED
  BY <1>1, <1>2, WidthAssumption

-----------------------------------------------------------------------------
LEMMA BalancedInit == Init => Balanced
<1> SUFFICES ASSUME Init PROVE Balanced
  OBVIOUS
<1>1. Listed = {} /\ At("unstat") = {} /\ At("stat") = {}
  BY DEF Init, Listed, At
<1>2. Expected = 0
  BY <1>1, FS_EmptySet DEF Init, Expected, Updating, Hiding
<1>3. 0 = 0 + 0 * Width
  BY WidthAssumption
<1> QED
  BY <1>2, <1>3 DEF Init, Balanced, Congruent

(* The parts of the expected total that a step leaves alone. *)
Parts == <<Listed, At("unstat"), At("stat"), Updating, Hiding, current, miscounted>>

LEMMA PartsKept == ASSUME Balanced, Parts' = Parts PROVE Balanced'
<1>1. Expected' = Expected /\ current' = current /\ miscounted' = miscounted
  BY DEF Parts, Expected
<1> QED
  BY <1>1 DEF Balanced, Congruent

LEMMA ClientParts == ASSUME Sound, NEW s \in Servers, ClientStep(s) PROVE Parts' = Parts
<1> USE DEF clientVars, netVars, entryVars, udpVars, timerVars, faultVars, Parts, Listed, At,
            Updating, Hiding
<1>1. CASE SendRegister(s)
  <2>1. hpc \in [Servers -> {"none", "lookup", "unstat", "add", "stat", "reply", "delete", "insert"}]
    BY DEF Sound, TypeOK
  <2>2. hpc[s] = "none" /\ hpc' = [hpc EXCEPT ![s] = "lookup"]
    BY <1>1 DEF SendRegister
  <2>3. At("unstat")' = At("unstat") /\ At("stat")' = At("stat")
    BY <2>1, <2>2
  <2> QED
    BY <1>1, <2>3 DEF SendRegister
<1>2. CASE ~SendRegister(s)
  BY <1>2 DEF ClientStep, StartRegister, FailRegister, GetOkay, SendUpdate, ReplaceTracker, Stop,
              Start, Lose
<1> QED
  BY <1>1, <1>2

LEMMA UpdateBalanced ==
  ASSUME Sound, Balanced, UpdateStep \/ (\E s \in Servers : Receive(s)) PROVE Balanced'
<1> USE DEF clientVars, netVars, entryVars, udpVars, timerVars, faultVars, Hiding
<1>0. current \in 0..Width - 1 /\ Expected \in Int
  BY ExpectedInt DEF Sound, TypeOK
<1>1. ASSUME NEW s \in Servers, Receive(s) PROVE Balanced'
  <2>1. Updating' = Updating
    BY <1>1 DEF Receive, Updating
  <2>2. Parts' = Parts
    BY <1>1, <2>1 DEF Receive, Parts, Listed, At
  <2> QED
    BY <2>2, PartsKept
<1>2. CASE FindServer \/ Stamp
  <2>1. Updating' = Updating
    BY <1>2 DEF FindServer, Stamp, Updating
  <2>2. Parts' = Parts
    BY <1>2, <2>1 DEF FindServer, Stamp, Parts, Listed, At
  <2> QED
    BY <2>2, PartsKept
<1>3. CASE RemoveOldStats
  <2>1. Updating = 0 /\ Updating' = 1
    BY <1>3 DEF RemoveOldStats, Updating
  <2>2. Listed' = Listed /\ At("unstat")' = At("unstat") /\ At("stat")' = At("stat")
    BY <1>3 DEF RemoveOldStats, Listed, At
  <2>3. Hiding' = Hiding /\ Hiding \in Int
    BY <1>3 DEF RemoveOldStats
  <2>4. Expected' = Expected - 1
    BY <2>1, <2>2, <2>3, Cards DEF Expected
  <2> QED
    BY <1>0, <1>3, <2>4, CongruentDown DEF RemoveOldStats, Balanced, Congruent
<1>4. CASE AddNewStats
  <2>1. Updating = 1 /\ Updating' = 0
    BY <1>4 DEF AddNewStats, Updating
  <2>2. Listed' = Listed /\ At("unstat")' = At("unstat") /\ At("stat")' = At("stat")
    BY <1>4 DEF AddNewStats, Listed, At
  <2>3. Hiding' = Hiding /\ Hiding \in Int
    BY <1>4 DEF AddNewStats
  <2>4. Expected' = Expected + 1
    BY <2>1, <2>2, <2>3, Cards DEF Expected
  <2> QED
    BY <1>0, <1>4, <2>4, CongruentUp DEF AddNewStats, Balanced, Congruent
<1> QED
  BY <1>1, <1>2, <1>3, <1>4 DEF UpdateStep

LEMMA TimerBalanced ==
  ASSUME Sound, Balanced, TimerStep \/ (\E s \in Servers : TimePasses(s)) PROVE Balanced'
<1> USE DEF clientVars, netVars, entryVars, udpVars, timerVars, faultVars, Updating
<1>0. current \in 0..Width - 1 /\ Expected \in Int
  BY ExpectedInt DEF Sound, TypeOK
<1>1. ASSUME NEW s \in Servers, TimePasses(s) \/ SkipServer(s) PROVE Parts' = Parts
  BY <1>1 DEF TimePasses, SkipServer, Parts, Listed, At, Hiding
<1>2. CASE BeginPass \/ EndPass
  <2>1. Parts' = Parts
    BY <1>2 DEF BeginPass, EndPass, Parts, Listed, At, Hiding
  <2> QED
    BY <2>1, PartsKept
<1>3. ASSUME NEW s \in Servers, RemoveOverdueStats(s) PROVE Balanced'
  <2>1. Hiding = 0 /\ Hiding' = 1
    BY <1>3, ServersAssumption DEF RemoveOverdueStats, Hiding
  <2>2. Listed' = Listed /\ At("unstat")' = At("unstat") /\ At("stat")' = At("stat")
    BY <1>3 DEF RemoveOverdueStats, Listed, At
  <2>3. Updating' = Updating /\ Updating \in Int
    BY <1>3 DEF RemoveOverdueStats
  <2>4. Expected' = Expected - 1
    BY <2>1, <2>2, <2>3, Cards DEF Expected
  <2> QED
    BY <1>0, <1>3, <2>4, CongruentDown DEF RemoveOverdueStats, Balanced, Congruent
<1>4. CASE HideServer
  <2>1. Hiding = 1 /\ Hiding' = 0
    BY <1>4 DEF HideServer, Hiding
  <2>2. victim \in Listed /\ Listed' = Listed \ {victim}
    BY <1>4 DEF HideServer, Listed, Sound, TypeOK, Pointed
  <2>3. Cardinality(Listed') = Cardinality(Listed) - 1
    BY <2>2, SetsFinite, CardinalityAdd DEF Finite
  <2>4. At("unstat")' = At("unstat") /\ At("stat")' = At("stat")
    BY <1>4 DEF HideServer, At
  <2>5. Updating' = Updating /\ Updating \in Int
    BY <1>4 DEF HideServer
  <2>6. Expected' = Expected
    BY <2>1, <2>3, <2>4, <2>5, Cards DEF Expected
  <2> QED
    BY <1>4, <2>6 DEF HideServer, Balanced, Congruent
<1> QED
  BY <1>1, <1>2, <1>3, <1>4, PartsKept DEF TimerStep

(* A handler that moves on leaves one set of handlers and enters another.  *)
LEMMA HandlerMoves ==
  ASSUME Sound, NEW s \in Servers, NEW here, NEW next, Handles(s, here, next), here # next
  PROVE  /\ s \in At(here) /\ At(here)' = At(here) \ {s}
         /\ next \in {"unstat", "add", "stat", "reply", "delete", "insert", "none"} =>
              s \notin At(next) /\ At(next)' = At(next) \cup {s}
         /\ \A other : other \notin {here, next} => At(other)' = At(other)
  BY DEF Sound, TypeOK, Handles, At

LEMMA HandlerBalanced ==
  ASSUME Sound, Balanced, NEW s \in Servers, HandlerStep(s) PROVE Balanced'
<1> USE DEF clientVars, netVars, entryVars, udpVars, timerVars, faultVars
<1>0. current \in 0..Width - 1 /\ Expected \in Int /\ Finite
  BY ExpectedInt, SetsFinite DEF Sound, TypeOK
<1>i. Updating \in Int /\ Hiding \in Int
  BY DEF Updating, Hiding
<1>a. ASSUME UNCHANGED <<udpVars, timerVars>> PROVE Updating' = Updating /\ Hiding' = Hiding
  BY <1>a DEF Updating, Hiding
<1>1. CASE RemoveServer(s)
  <2>1. Updating' = Updating /\ Hiding' = Hiding
    BY <1>1, <1>a DEF RemoveServer
  <2>2. s \notin At("unstat") /\ At("unstat")' = At("unstat") \cup {s} /\ At("stat")' = At("stat")
    BY <1>1, HandlerMoves DEF RemoveServer
  <2>3. Cardinality(At("unstat")') = Cardinality(At("unstat")) + 1
    BY <1>0, <2>2, CardinalityAdd DEF Finite
  <2>4. CASE listed[s]
    <3>1. s \in Listed /\ Listed' = Listed \ {s}
      BY <1>1, <2>4 DEF RemoveServer, Listed, Sound, TypeOK
    <3>2. Cardinality(Listed') = Cardinality(Listed) - 1
      BY <1>0, <3>1, CardinalityAdd DEF Finite
    <3>3. Expected' = Expected
      BY <1>i, <2>1, <2>2, <2>3, <3>2, Cards DEF Expected
    <3> QED
      BY <1>1, <2>4, <3>3 DEF RemoveServer, Balanced, Congruent
  <2>5. CASE ~listed[s]
    BY <1>1, <2>5 DEF RemoveServer, Balanced
  <2> QED
    BY <2>4, <2>5
<1>2. CASE RemoveStats(s)
  <2>1. Updating' = Updating /\ Hiding' = Hiding /\ Listed' = Listed
    BY <1>2, <1>a DEF RemoveStats, Listed
  <2>2. s \in At("unstat") /\ At("unstat")' = At("unstat") \ {s} /\ At("stat")' = At("stat")
    BY <1>2, HandlerMoves DEF RemoveStats
  <2>3. Cardinality(At("unstat")') = Cardinality(At("unstat")) - 1
    BY <1>0, <2>2, CardinalityAdd DEF Finite
  <2>4. Expected' = Expected - 1
    BY <1>i, <2>1, <2>2, <2>3, Cards DEF Expected
  <2> QED
    BY <1>0, <1>2, <2>4, CongruentDown DEF RemoveStats, Balanced, Congruent
<1>3. CASE AddServer(s)
  <2>1. Updating' = Updating /\ Hiding' = Hiding
    BY <1>3, <1>a DEF AddServer
  <2>2. s \notin At("stat") /\ At("stat")' = At("stat") \cup {s} /\ At("unstat")' = At("unstat")
    BY <1>3, HandlerMoves DEF AddServer
  <2>3. s \notin Listed /\ Listed' = Listed \cup {s}
    BY <1>3 DEF AddServer, Handles, Known, Listed, Sound, TypeOK, Agreed
  <2>4. /\ Cardinality(At("stat")') = Cardinality(At("stat")) + 1
        /\ Cardinality(Listed') = Cardinality(Listed) + 1
    BY <1>0, <2>2, <2>3, CardinalityAdd DEF Finite
  <2>5. Expected' = Expected
    BY <1>i, <2>1, <2>2, <2>4, Cards DEF Expected
  <2> QED
    BY <1>3, <2>5 DEF AddServer, Balanced, Congruent
<1>4. CASE AddStats(s)
  <2>1. Updating' = Updating /\ Hiding' = Hiding /\ Listed' = Listed
    BY <1>4, <1>a DEF AddStats, Listed
  <2>2. s \in At("stat") /\ At("stat")' = At("stat") \ {s} /\ At("unstat")' = At("unstat")
    BY <1>4, HandlerMoves DEF AddStats
  <2>3. Cardinality(At("stat")') = Cardinality(At("stat")) - 1
    BY <1>0, <2>2, CardinalityAdd DEF Finite
  <2>4. Expected' = Expected + 1
    BY <1>i, <2>1, <2>2, <2>3, Cards DEF Expected
  <2> QED
    BY <1>0, <1>4, <2>4, CongruentUp DEF AddStats, Balanced, Congruent
<1>5. CASE ReplyOkay(s) \/ DeleteRow(s) \/ InsertRow(s)
  <2>1. Updating' = Updating /\ Hiding' = Hiding
    BY <1>5, <1>a DEF ReplyOkay, DeleteRow, InsertRow
  <2>2. At("stat")' = At("stat") /\ At("unstat")' = At("unstat")
    BY <1>5, HandlerMoves DEF ReplyOkay, DeleteRow, InsertRow
  <2>3. Parts' = Parts
    BY <1>5, <2>1, <2>2 DEF ReplyOkay, DeleteRow, InsertRow, Parts, Listed
  <2> QED
    BY <2>3, PartsKept
<1> QED
  BY <1>1, <1>2, <1>3, <1>4, <1>5 DEF HandlerStep

LEMMA CrashBalanced == ASSUME Crash PROVE Balanced'
<1>1. Listed' = {} /\ At("unstat")' = {} /\ At("stat")' = {}
  BY DEF Crash, Listed, At
<1>2. Updating' = 0 /\ Hiding' = 0 /\ current' = 0
  BY DEF Crash, Updating, Hiding
<1>3. Expected' = 0
  BY <1>1, <1>2, FS_EmptySet DEF Expected
<1>4. 0 = 0 + 0 * Width
  BY WidthAssumption
<1> QED
  BY <1>2, <1>3, <1>4 DEF Balanced, Congruent

LEMMA BalancedStep == ASSUME Sound, Balanced, [Next]_vars PROVE Balanced'
<1>1. CASE UNCHANGED vars
  <2>1. Parts' = Parts
    BY <1>1 DEF vars, clientVars, netVars, entryVars, udpVars, timerVars, faultVars, Parts, Listed,
                At, Updating, Hiding
  <2> QED
    BY <2>1, PartsKept
<1>2. ASSUME NEW s \in Servers, ClientStep(s) PROVE Balanced'
  BY <1>2, ClientParts, PartsKept
<1> QED
  BY <1>1, <1>2, HandlerBalanced, UpdateBalanced, TimerBalanced, CrashBalanced DEF Next

(* The total of the status is right whenever nobody is changing the list,  *)
(* for any number of servers that it can count: additions and removals of  *)
(* the handlers, the receive thread and the timer, each made apart from    *)
(* the list, come out even, and where the unsigned total wraps meanwhile   *)
(* it wraps back.                                                          *)
THEOREM TotalsAreListed ==
  ASSUME Cardinality(Servers) < Width PROVE Spec => []TotalIsListed
<1>1. Init => Sound /\ Balanced
  BY SoundInit, BalancedInit
<1>2. Sound /\ Balanced /\ [Next]_vars => (Sound /\ Balanced)'
  BY SoundStep, BalancedStep
<1>3. Sound /\ Balanced => TotalIsListed
  <2> SUFFICES ASSUME Sound, Balanced, Quiet, ~miscounted PROVE current = Cardinality(Listed)
    BY DEF TotalIsListed, Listed
  <2>1. At("unstat") = {} /\ At("stat") = {}
    BY DEF Quiet, At
  <2>2. Updating = 0 /\ Hiding = 0
    BY DEF Quiet, Updating, Hiding, Sound, Pointed
  <2>3. Expected = Cardinality(Listed)
    BY <2>1, <2>2, FS_EmptySet, Cards DEF Expected
  <2>4. Cardinality(Listed) <= Cardinality(Servers) /\ Cardinality(Servers) \in Nat
    BY ServersAssumption, FS_Subset, FS_CardinalityType DEF Listed
  <2>5. PICK k \in Int : current = Cardinality(Listed) + k * Width
    BY <2>3 DEF Balanced, Congruent
  <2>6. current \in 0..Width - 1 /\ Cardinality(Listed) \in 0..Width - 1
    BY <2>4, Cards, WidthAssumption DEF Sound, TypeOK
  <2>7. k = 0
    <3>1. CASE k >= 1
      <4>1. k * Width >= Width
        BY <3>1, WidthAssumption
      <4> QED
        BY <2>5, <2>6, <4>1, WidthAssumption
    <3>2. CASE k <= -1
      <4>1. k * Width <= -Width
        BY <3>2, WidthAssumption
      <4> QED
        BY <2>5, <2>6, <4>1, WidthAssumption
    <3> QED
      BY <3>1, <3>2
  <2> QED
    BY <2>5, <2>6, <2>7, WidthAssumption
<1> QED
  BY <1>1, <1>2, <1>3, PTL DEF Spec
====
