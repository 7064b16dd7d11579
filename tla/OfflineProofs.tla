---- MODULE OfflineProofs ----
(***************************************************************************)
(* Proofs about OfflineMessages, for every number of senders, logins and   *)
(* editors, every limit and any number of crashes.                         *)
(***************************************************************************)
EXTENDS OfflineMessages, FiniteSetTheorems, SequenceTheorems, TLAPS

(* What the proofs need of the types. *)
Types ==
  /\ pending \in Seq(Messages) /\ token \in Senders \cup {None}
  /\ disk \in [pending : Seq(Messages), token : Senders \cup {None}]
  /\ accepted \in Seq(Messages)
  /\ delivered \in [Sessions -> Seq(Messages)]
  /\ rows \in [Sessions -> Seq(Messages)] /\ ids \in [Sessions -> SUBSET Messages]
  /\ pc \in [Threads ->
              {"idle", "find", "mint", "insert", "select", "send", "delete", "commit",
               "begun", "done", "gone"}]
  /\ sent \in [Senders -> 0..Sends]
  /\ \A s \in Senders : pc[s] \in {"idle", "find", "mint", "insert"}
  /\ \A s \in Senders : pc[s] # "idle" => sent[s] > 0
  /\ crashes \in 0..Crashes
  /\ open \in BOOLEAN

-----------------------------------------------------------------------------
(* Sequences. *)

LEMMA AppendSet ==
  ASSUME NEW S, NEW s \in Seq(S), NEW m \in S
  PROVE  ToSet(Append(s, m)) = ToSet(s) \cup {m}
<1>1. DOMAIN s = 1..Len(s) /\ DOMAIN Append(s, m) = 1..(Len(s) + 1) /\ Len(s) \in Nat
  BY AppendProperties, LenProperties
<1>2. \A i \in 1..Len(s) : Append(s, m)[i] = s[i]
  BY AppendProperties
<1>3. Append(s, m)[Len(s) + 1] = m
  BY AppendProperties
<1>4. ToSet(Append(s, m)) \subseteq ToSet(s) \cup {m}
  BY <1>1, <1>2, <1>3 DEF ToSet
<1>5. ToSet(s) \cup {m} \subseteq ToSet(Append(s, m))
  <2>1. ASSUME NEW i \in 1..Len(s) PROVE s[i] \in ToSet(Append(s, m))
    BY <1>1, <1>2, <2>1 DEF ToSet
  <2>2. m \in ToSet(Append(s, m))
    BY <1>1, <1>3 DEF ToSet
  <2> QED
    BY <1>1, <2>1, <2>2 DEF ToSet
<1> QED
  BY <1>4, <1>5

LEMMA RemoveOne ==
  ASSUME NEW S, NEW s \in Seq(S), NEW k \in DOMAIN s
  PROVE  /\ RemoveAt(s, k) \in Seq(S)
         /\ Len(RemoveAt(s, k)) = Len(s) - 1
         /\ ToSet(s) \ {s[k]} \subseteq ToSet(RemoveAt(s, k))
         /\ \A i \in 1..(Len(s) - 1) : RemoveAt(s, k)[i] = IF i < k THEN s[i] ELSE s[i + 1]
<1> DEFINE a == SubSeq(s, 1, k - 1)
           b == SubSeq(s, k + 1, Len(s))
<1>1. DOMAIN s = 1..Len(s) /\ Len(s) \in Nat /\ k \in 1..Len(s)
  BY LenProperties
<1>2. \A i \in 1..Len(s) : s[i] \in S
  BY <1>1, ElementOfSeq
<1>3. /\ a \in Seq(S) /\ Len(a) = k - 1
      /\ \A i \in 1..(k - 1) : a[i] = s[i]
  <2>1. \A i \in 1..(k - 1) : s[i] \in S
    BY <1>1, <1>2
  <2>2. 1 \in Int /\ k - 1 \in Int
    BY <1>1
  <2> HIDE DEF a
  <2>3. /\ SubSeq(s, 1, k - 1) \in Seq(S)
        /\ Len(SubSeq(s, 1, k - 1)) = IF 1 <= k - 1 THEN k - 1 - 1 + 1 ELSE 0
        /\ \A i \in 1..(k - 1 - 1 + 1) : SubSeq(s, 1, k - 1)[i] = s[1 + i - 1]
    BY <2>1, <2>2, SubSeqProperties
  <2> QED
    BY <1>1, <2>3 DEF a
<1>4. /\ b \in Seq(S) /\ Len(b) = Len(s) - k
      /\ \A i \in 1..(Len(s) - k) : b[i] = s[k + i]
  <2>1. \A i \in (k + 1)..Len(s) : s[i] \in S
    BY <1>1, <1>2
  <2>2. k + 1 \in Int /\ Len(s) \in Int
    BY <1>1
  <2> HIDE DEF b
  <2>3. /\ SubSeq(s, k + 1, Len(s)) \in Seq(S)
        /\ Len(SubSeq(s, k + 1, Len(s))) = IF k + 1 <= Len(s) THEN Len(s) - (k + 1) + 1 ELSE 0
        /\ \A i \in 1..(Len(s) - (k + 1) + 1) : SubSeq(s, k + 1, Len(s))[i] = s[k + 1 + i - 1]
    BY <2>1, <2>2, SubSeqProperties
  <2> QED
    BY <1>1, <2>3 DEF b
<1> HIDE DEF a, b
<1>5. RemoveAt(s, k) = a \o b
  BY DEF RemoveAt, a, b
<1>6. /\ a \o b \in Seq(S) /\ Len(a \o b) = Len(a) + Len(b)
      /\ \A i \in 1..Len(a) + Len(b) : (a \o b)[i] = IF i <= Len(a) THEN a[i] ELSE b[i - Len(a)]
  BY <1>3, <1>4, ConcatProperties
<1>7. ASSUME NEW i \in 1..Len(s), i # k PROVE s[i] \in ToSet(a \o b)
  <2>1. DOMAIN (a \o b) = 1..(Len(s) - 1)
    <3>1. Len(a \o b) = Len(s) - 1
      BY <1>1, <1>3, <1>4, <1>6
    <3>2. DOMAIN (a \o b) = 1..Len(a \o b)
      BY <1>6, LenProperties
    <3> QED
      BY <3>1, <3>2
  <2>2. CASE i < k
    <3>1. i \in 1..Len(a) + Len(b) /\ i <= Len(a) /\ i \in 1..(k - 1) /\ i \in 1..(Len(s) - 1)
      BY <1>1, <1>3, <1>4, <2>2
    <3>2. (a \o b)[i] = s[i]
      BY <1>3, <1>6, <3>1
    <3> QED
      BY <2>1, <3>1, <3>2 DEF ToSet
  <2>3. CASE i > k
    <3>1. i - 1 \in 1..(Len(s) - 1) /\ (a \o b)[i - 1] = b[i - k]
      <4>1. /\ i - 1 \in 1..Len(a) + Len(b) /\ ~(i - 1 <= Len(a)) /\ (i - 1) - Len(a) = i - k
            /\ i - 1 \in 1..(Len(s) - 1)
        BY <1>1, <1>3, <1>4, <2>3
      <4> QED
        BY <1>6, <4>1
    <3>2. i - k \in 1..(Len(s) - k) /\ b[i - k] = s[k + (i - k)] /\ k + (i - k) = i
      BY <1>1, <1>4, <2>3
    <3> QED
      BY <2>1, <3>1, <3>2 DEF ToSet
  <2> QED
    BY <1>1, <1>7, <2>2, <2>3
<1>8. ToSet(s) \ {s[k]} \subseteq ToSet(a \o b)
  BY <1>1, <1>7 DEF ToSet
<1>9. Len(a \o b) = Len(s) - 1
  BY <1>1, <1>3, <1>4, <1>6
<1>10. ASSUME NEW i \in 1..(Len(s) - 1)
       PROVE  (a \o b)[i] = IF i < k THEN s[i] ELSE s[i + 1]
  <2>1. CASE i < k
    <3>1. i \in 1..Len(a) + Len(b) /\ i <= Len(a) /\ i \in 1..(k - 1)
      BY <1>1, <1>3, <1>4, <2>1
    <3> QED
      BY <1>3, <1>6, <2>1, <3>1
  <2>2. CASE ~(i < k)
    <3>1. (a \o b)[i] = b[i - (k - 1)]
      <4>1. i \in 1..Len(a) + Len(b) /\ ~(i <= Len(a)) /\ Len(a) = k - 1
        BY <1>1, <1>3, <1>4, <2>2
      <4> QED
        BY <1>6, <4>1
    <3>2. i - (k - 1) \in 1..(Len(s) - k) /\ k + (i - (k - 1)) = i + 1
      BY <1>1, <2>2
    <3>3. b[i - (k - 1)] = s[k + (i - (k - 1))]
      BY <1>4, <3>2
    <3> QED
      BY <2>2, <3>1, <3>2, <3>3
  <2> QED
    BY <2>1, <2>2
<1> QED
  BY <1>5, <1>6, <1>8, <1>9, <1>10

-----------------------------------------------------------------------------
LEMMA TypesInit == Init => Types
<1> SUFFICES ASSUME Init PROVE Types
  OBVIOUS
<1>1. <<>> \in Seq(Messages)
  OBVIOUS
<1>2. Database \in [pending : Seq(Messages), token : Senders \cup {None}]
  BY <1>1 DEF Init, Database
<1>3. /\ pc \in [Threads ->
            {"idle", "find", "mint", "insert", "select", "send", "delete", "commit",
             "begun", "done", "gone"}]
      /\ \A s \in Senders : pc[s] = "idle"
  BY DEF Init, Threads
<1>4. sent \in [Senders -> 0..Sends] /\ crashes \in 0..Crashes
  BY BoundsAssumption DEF Init
<1>5. /\ delivered \in [Sessions -> Seq(Messages)] /\ rows \in [Sessions -> Seq(Messages)]
      /\ ids \in [Sessions -> SUBSET Messages]
  BY <1>1 DEF Init
<1> QED
  BY <1>1, <1>2, <1>3, <1>4, <1>5 DEF Init, Types

(* A step that only moves one thread to another label. *)
LEMMA TypesMove ==
  ASSUME Types, NEW t \in Threads,
         NEW l \in {"find", "mint", "insert", "select", "send", "delete", "commit", "begun", "done"},
         Goto(t, l),
         t \in Senders => pc[t] # "idle" /\ l \in {"find", "mint", "insert"},
         UNCHANGED <<pending, token, disk, sent, rows, ids, crashes, accepted, delivered>>,
         open' \in BOOLEAN
  PROVE  Types'
<1>1. pc' \in [Threads ->
             {"idle", "find", "mint", "insert", "select", "send", "delete", "commit",
              "begun", "done", "gone"}]
  BY DEF Types, Goto
<1>2. \A r \in Threads : pc'[r] = IF r = t THEN l ELSE pc[r]
  BY DEF Types, Goto
<1>3. ASSUME NEW r \in Senders
      PROVE  pc'[r] \in {"idle", "find", "mint", "insert"} /\ (pc'[r] # "idle" => sent'[r] > 0)
  <2>1. r \in Threads
    BY DEF Threads
  <2>2. CASE r = t
    BY <1>2, <2>1, <2>2 DEF Types
  <2>3. CASE r # t
    BY <1>2, <2>1, <2>3 DEF Types
  <2> QED
    BY <2>2, <2>3
<1> QED
  BY <1>1, <1>3 DEF Types

LEMMA TypesStep ==
  ASSUME Types, [Next]_vars
  PROVE  Types'
<1> USE ThreadsAssumption, BoundsAssumption
    DEF Types, dbVars, threadVars, faultVars, historyVars, Threads, Goto, Autocommit, Begin, Commit,
        Database
<1>1. ASSUME NEW s \in Senders, Count(s) PROVE Types'
  <2>1. sent' = [sent EXCEPT ![s] = @ + 1] /\ sent[s] \in 0..Sends /\ sent[s] + 1 \in 0..Sends
    BY <1>1 DEF Count
  <2>2. sent'[s] > 0
    BY <2>1
  <2>3. \A r \in Senders : r # s => sent'[r] = sent[r] /\ pc'[r] = pc[r]
    BY <1>1, <2>1 DEF Count
  <2>4. /\ pc' \in [Threads ->
                {"idle", "find", "mint", "insert", "select", "send", "delete", "commit",
                 "begun", "done", "gone"}]
        /\ pc'[s] \in {"idle", "find"}
    <3>1. pc[s] = "idle" /\ (pc' = pc \/ pc' = [pc EXCEPT ![s] = "find"])
      BY <1>1 DEF Count
    <3>2. pc \in [Threads ->
                {"idle", "find", "mint", "insert", "select", "send", "delete", "commit",
                 "begun", "done", "gone"}]
      OBVIOUS
    <3> HIDE DEF Types
    <3> QED
      BY <3>1, <3>2
  <2>5. \A r \in Senders : /\ pc'[r] \in {"idle", "find", "mint", "insert"}
                           /\ pc'[r] # "idle" => sent'[r] > 0
    BY <2>2, <2>3, <2>4
  <2>6. UNCHANGED <<pending, token, disk, open, rows, ids, crashes, accepted, delivered>>
    BY <1>1 DEF Count
  <2>7. sent' \in [Senders -> 0..Sends]
    BY <2>1
  <2> QED
    BY <2>4, <2>5, <2>6, <2>7
<1>2. ASSUME NEW s \in Senders, FindToken(s) PROVE Types'
  <2>1. s \in Threads /\ pc[s] # "idle"
    BY <1>2 DEF FindToken
  <2>2. PICK l \in {"mint", "insert"} : Goto(s, l)
    BY <1>2 DEF FindToken
  <2>3. UNCHANGED <<pending, token, disk, open, sent, rows, ids, crashes, accepted, delivered>>
    BY <1>2 DEF FindToken
  <2> HIDE DEF Types, Threads, Goto
  <2>4. Types
    OBVIOUS
  <2>5. open' \in BOOLEAN
    BY <2>3, <2>4 DEF Types
  <2> QED
    BY <2>1, <2>2, <2>3, <2>4, <2>5, TypesMove
<1>3. ASSUME NEW s \in Senders, MintToken(s) PROVE Types'
  BY <1>3 DEF MintToken
<1>4. ASSUME NEW s \in Senders, Store(s) PROVE Types'
  <2>1. <<s, sent[s]>> \in Messages
    <3>1. sent[s] \in 0..Sends /\ sent[s] > 0
      BY <1>4 DEF Store
    <3>2. sent[s] \in 1..Sends
      BY <3>1
    <3> QED
      BY <3>2 DEF Messages
  <2>2. pending' \in Seq(Messages) /\ accepted' \in Seq(Messages)
    BY <1>4, <2>1, AppendProperties DEF Store
  <2> QED
    BY <1>4, <2>2 DEF Store
<1>5. ASSUME NEW d \in Sessions, Login(d) PROVE Types'
  BY <1>5 DEF Login
<1>6. ASSUME NEW d \in Sessions, Select(d) PROVE Types'
  BY <1>6 DEF Select
<1>7. ASSUME NEW d \in Sessions, SendRow(d) PROVE Types'
  <2>1. Head(rows[d]) \in Messages /\ Tail(rows[d]) \in Seq(Messages)
    BY <1>7, HeadTailProperties DEF SendRow
  <2>2. Append(delivered[d], Head(rows[d])) \in Seq(Messages)
    BY <2>1, AppendProperties
  <2>3. rows' \in [Sessions -> Seq(Messages)] /\ ids' \in [Sessions -> SUBSET Messages]
    BY <1>7, <2>1 DEF SendRow
  <2>4. delivered' \in [Sessions -> Seq(Messages)]
    <3>1. delivered' = delivered \/ delivered' = [delivered EXCEPT ![d] = Append(@, Head(rows[d]))]
      BY <1>7 DEF SendRow
    <3>2. delivered \in [Sessions -> Seq(Messages)]
      OBVIOUS
    <3> HIDE DEF Types
    <3> QED
      BY <2>2, <3>1, <3>2
  <2> QED
    BY <1>7, <2>3, <2>4 DEF SendRow
<1>8. ASSUME NEW d \in Sessions, EndSend(d) \/ EndDelete(d) PROVE Types'
  <2>1. d \in Threads /\ d \notin Senders
    OBVIOUS
  <2>2. PICK l \in {"delete", "commit"} : Goto(d, l)
    BY <1>8 DEF EndSend, EndDelete
  <2>3. UNCHANGED <<pending, token, disk, open, sent, rows, ids, crashes, accepted, delivered>>
    BY <1>8 DEF EndSend, EndDelete
  <2> HIDE DEF Types, Threads, Goto
  <2>4. Types
    OBVIOUS
  <2>5. open' \in BOOLEAN
    BY <2>3, <2>4 DEF Types
  <2> QED
    BY <2>1, <2>2, <2>3, <2>4, <2>5, TypesMove
<1>9. ASSUME NEW d \in Sessions, DeleteRow(d) PROVE Types'
  <2>1. pending' \in Seq(Messages)
    BY <1>9, RemoveOne DEF DeleteRow
  <2>2. ids' \in [Sessions -> SUBSET Messages]
    BY <1>9 DEF DeleteRow
  <2> QED
    BY <1>9, <2>1, <2>2 DEF DeleteRow
<1>10. ASSUME NEW d \in Sessions, EndDelivery(d) PROVE Types'
  <2>1. disk' \in [pending : Seq(Messages), token : Senders \cup {None}]
    BY <1>10 DEF EndDelivery
  <2> QED
    BY <1>10, <2>1 DEF EndDelivery
<1>11. ASSUME Restart, crashes' \in 0..Crashes PROVE Types'
  <2>1. pending' \in Seq(Messages) /\ token' \in Senders \cup {None}
    BY <1>11 DEF Restart
  <2>2. /\ pc' \in [Threads -> {"idle", "find", "mint", "insert", "select", "send", "delete",
                              "commit", "begun", "done", "gone"}]
        /\ \A s \in Senders : pc'[s] = "idle"
    BY <1>11 DEF Restart
  <2>3. rows' \in [Sessions -> Seq(Messages)] /\ ids' \in [Sessions -> SUBSET Messages]
    BY <1>11 DEF Restart
  <2> QED
    BY <1>11, <2>1, <2>2, <2>3 DEF Restart
<1>12. ASSUME NEW e \in Editors, BeginImmediate(e) PROVE Types'
  <2>1. CASE crashes < Crashes /\ crashes' = crashes + 1 /\ Restart
    <3> HIDE DEF Types
    <3>1. crashes' \in 0..Crashes
      BY <2>1, BoundsAssumption DEF Types
    <3> QED
      BY <1>11, <2>1, <3>1
  <2>2. CASE ~open
    <3>1. e \in Threads /\ e \notin Senders
      OBVIOUS
    <3>2. Goto(e, "begun") /\ open' = TRUE
      BY <1>12, <2>2 DEF BeginImmediate
    <3>3. UNCHANGED <<pending, token, disk, sent, rows, ids, crashes, accepted, delivered>>
      BY <1>12, <2>2 DEF BeginImmediate
    <3> HIDE DEF Types, Threads, Goto
    <3>4. Types
      OBVIOUS
    <3> QED
      BY <3>1, <3>2, <3>3, <3>4, TypesMove
  <2>3. open => crashes < Crashes /\ crashes' = crashes + 1 /\ Restart
    BY <1>12 DEF BeginImmediate
  <2> HIDE DEF Types
  <2> QED
    BY <2>1, <2>2, <2>3
<1>13. ASSUME NEW e \in Editors, CommitTransaction(e) PROVE Types'
  BY <1>13 DEF CommitTransaction
<1>14. CASE Crash
  <2> HIDE DEF Types
  <2>1. Restart /\ crashes < Crashes /\ crashes' = crashes + 1
    BY <1>14 DEF Crash
  <2>2. crashes' \in 0..Crashes
    BY <2>1, BoundsAssumption DEF Types
  <2> QED
    BY <1>11, <2>1, <2>2
<1>15. CASE UNCHANGED vars
  BY <1>15 DEF vars
<1> HIDE DEF Types
<1> QED
  BY <1>1, <1>2, <1>3, <1>4, <1>5, <1>6, <1>7, <1>8, <1>9, <1>10, <1>12, <1>13, <1>14, <1>15
  DEF Next

-----------------------------------------------------------------------------
(* Senders that have found the number of messages below the limit, and     *)
(* will insert one.                                                        *)
Admitted == {s \in Senders : pc[s] # "idle"}

Bounded ==
  /\ Len(pending) + Cardinality(Admitted) < Limit + Cardinality(Senders)
  /\ Len(disk.pending) < Limit + Cardinality(Senders)

LEMMA AdmittedFinite ==
  /\ IsFiniteSet(Admitted) /\ Cardinality(Admitted) \in Nat /\ Cardinality(Senders) \in Nat
  /\ Cardinality(Admitted) <= Cardinality(Senders)
BY ThreadsAssumption, FS_Subset, FS_CardinalityType DEF Admitted

LEMMA BoundedStep ==
  ASSUME Types, Bounded, [Next]_vars
  PROVE  Bounded'
<1> USE ThreadsAssumption, BoundsAssumption, AdmittedFinite, LenProperties
    DEF dbVars, threadVars, faultVars, historyVars, Goto, Autocommit, Begin, Commit, Database
<1>0. /\ Len(pending) \in Nat /\ Len(disk.pending) \in Nat
      /\ Len(pending) < Limit + Cardinality(Senders)
  BY DEF Types, Bounded
<1>1. ASSUME Admitted' = Admitted, Len(pending') <= Len(pending), Len(pending') \in Nat,
             disk'.pending = disk.pending \/ disk'.pending = pending'
      PROVE  Bounded'
  BY <1>0, <1>1 DEF Bounded
<1>2. ASSUME NEW s \in Senders, Count(s) PROVE Bounded'
  <2>1. UNCHANGED <<pending, disk>>
    BY <1>2 DEF Count
  <2>2. CASE UNCHANGED pc
    BY <2>1, <2>2 DEF Bounded, Admitted
  <2>3. CASE Len(pending) < Limit /\ Goto(s, "find")
    <3>1. Admitted' = Admitted \cup {s} /\ s \notin Admitted /\ Admitted' \subseteq Senders
      BY <1>2, <2>3 DEF Count, Admitted, Types, Threads
    <3>2. Cardinality(Admitted') <= Cardinality(Senders) /\ Cardinality(Admitted') \in Nat
      BY <3>1, FS_Subset, FS_CardinalityType
    <3> QED
      BY <1>0, <2>1, <2>3, <3>2 DEF Bounded
  <2> QED
    BY <1>0, <1>2, <2>2, <2>3 DEF Count
<1>3. ASSUME NEW s \in Senders, FindToken(s) \/ MintToken(s) PROVE Bounded'
  <2>1. UNCHANGED pending /\ (disk' = disk \/ disk'.pending = pending')
    BY <1>3 DEF FindToken, MintToken
  <2>2. Admitted' = Admitted
    BY <1>3 DEF FindToken, MintToken, Admitted, Types, Threads
  <2> QED
    BY <1>0, <1>1, <2>1, <2>2
<1>4. ASSUME NEW s \in Senders, Store(s) PROVE Bounded'
  <2>1. <<s, sent[s]>> \in Messages
    <3>1. sent[s] \in 0..Sends /\ sent[s] > 0
      BY <1>4 DEF Store, Types
    <3>2. sent[s] \in 1..Sends
      BY <3>1
    <3> QED
      BY <3>2 DEF Messages
  <2>2. Len(pending') = Len(pending) + 1
    BY <1>4, <2>1, AppendProperties DEF Store, Types
  <2>3. Admitted' = Admitted \ {s} /\ s \in Admitted
    BY <1>4 DEF Store, Admitted, Types, Threads
  <2>4. Cardinality(Admitted') = Cardinality(Admitted) - 1 /\ Cardinality(Admitted') \in Nat
    BY <2>3, FS_RemoveElement, FS_CardinalityType
  <2>5. disk' = disk \/ disk'.pending = pending'
    BY <1>4 DEF Store
  <2> QED
    <3>1. Len(pending') + Cardinality(Admitted') < Limit + Cardinality(Senders)
      BY <1>0, <2>2, <2>4 DEF Bounded
    <3>2. Len(pending') < Limit + Cardinality(Senders)
      BY <1>0, <2>2, <2>4, <3>1
    <3> QED
      BY <2>5, <3>1, <3>2 DEF Bounded
<1>5. ASSUME NEW d \in Sessions, Login(d) \/ Select(d) \/ SendRow(d) \/ EndSend(d) \/ EndDelete(d)
      PROVE  Bounded'
  <2>1. UNCHANGED <<pending, disk>> /\ \A s \in Senders : pc'[s] = pc[s]
    BY <1>5 DEF Login, Select, SendRow, EndSend, EndDelete, Types, Threads
  <2> QED
    BY <1>0, <1>1, <2>1 DEF Admitted
<1>6. ASSUME NEW d \in Sessions, DeleteRow(d) PROVE Bounded'
  <2>1. Len(pending') <= Len(pending) /\ Len(pending') \in Nat
    <3>1. CASE UNCHANGED pending
      BY <1>0, <3>1
    <3>2. ASSUME NEW k \in DOMAIN pending, pending' = RemoveAt(pending, k)
          PROVE  Len(pending') <= Len(pending) /\ Len(pending') \in Nat
      BY <1>0, <3>2, RemoveOne DEF Types
    <3> QED
      BY <1>6, <3>1, <3>2 DEF DeleteRow
  <2>2. UNCHANGED pc /\ (disk' = disk \/ disk'.pending = pending')
    BY <1>6 DEF DeleteRow
  <2> QED
    BY <1>1, <2>1, <2>2 DEF Admitted
<1>7. ASSUME NEW d \in Sessions, EndDelivery(d) PROVE Bounded'
  <2>1. UNCHANGED pending /\ (disk' = disk \/ disk'.pending = pending')
    BY <1>7 DEF EndDelivery
  <2>2. \A s \in Senders : pc'[s] = pc[s]
    BY <1>7 DEF EndDelivery, Types, Threads
  <2> QED
    BY <1>0, <1>1, <2>1, <2>2 DEF Admitted
<1>8. ASSUME Restart PROVE Bounded'
  <2>1. pending' = disk.pending /\ disk' = disk /\ Admitted' = {}
    BY <1>8 DEF Restart, Admitted, Types, Threads
  <2> QED
    BY <1>0, <2>1, FS_EmptySet DEF Bounded
<1>9. ASSUME NEW e \in Editors, BeginImmediate(e) PROVE Bounded'
  <2>1. CASE ~open
    <3>1. UNCHANGED <<pending, disk>> /\ \A s \in Senders : pc'[s] = pc[s]
      BY <1>9, <2>1 DEF BeginImmediate, Types, Threads
    <3> QED
      BY <1>0, <1>1, <3>1 DEF Admitted
  <2> QED
    BY <1>8, <1>9, <2>1 DEF BeginImmediate
<1>10. ASSUME NEW e \in Editors, CommitTransaction(e) PROVE Bounded'
  <2>1. UNCHANGED pending /\ disk'.pending = pending' /\ \A s \in Senders : pc'[s] = pc[s]
    BY <1>10 DEF CommitTransaction, Types, Threads
  <2> QED
    BY <1>0, <1>1, <2>1 DEF Admitted
<1>11. CASE Crash
  BY <1>8, <1>11 DEF Crash
<1>12. CASE UNCHANGED vars
  BY <1>0, <1>1, <1>12 DEF vars, Admitted
<1> QED
  BY <1>2, <1>3, <1>4, <1>5, <1>6, <1>7, <1>9, <1>10, <1>11, <1>12 DEF Next

THEOREM OfflineTyped == Spec => []Types
<1> QED
  BY TypesInit, TypesStep, PTL DEF Spec

(* The lock of the database is only held in a transaction. *)
Locked == lock \in Editors \cup {None} /\ (lock # None => open)

Histories ==
  /\ asserted \in BOOLEAN /\ broken \subseteq Sessions
  /\ due \in [Sessions -> SUBSET Messages]
  /\ joined \cup unwritten \cup twice \subseteq Messages

LEMMA LockedStep ==
  ASSUME Types, Locked, [Next]_vars
  PROVE  Locked'
<1> USE DEF Locked, dbVars, threadVars, faultVars, historyVars, Begin, Commit, Restart, None
<1>1. ASSUME UNCHANGED <<open, lock>> PROVE Locked'
  BY <1>1
<1>2. ASSUME NEW s \in Senders, Count(s) \/ FindToken(s) \/ MintToken(s) \/ Store(s) PROVE Locked'
  BY <1>1, <1>2 DEF Count, FindToken, MintToken, Store
<1>3. ASSUME NEW d \in Sessions,
             Login(d) \/ Select(d) \/ SendRow(d) \/ EndSend(d) \/ DeleteRow(d) \/ EndDelete(d)
      PROVE  Locked'
  BY <1>1, <1>3 DEF Login, Select, SendRow, EndSend, DeleteRow, EndDelete
<1>4. ASSUME NEW d \in Sessions, EndDelivery(d) PROVE Locked'
  BY <1>4 DEF EndDelivery
<1>5. ASSUME NEW e \in Editors, BeginImmediate(e) \/ CommitTransaction(e) PROVE Locked'
  BY <1>5 DEF BeginImmediate, CommitTransaction
<1>6. CASE Crash
  BY <1>6 DEF Crash
<1>7. CASE UNCHANGED vars
  BY <1>1, <1>7 DEF vars
<1> QED
  BY <1>2, <1>3, <1>4, <1>5, <1>6, <1>7 DEF Next

LEMMA SetOfSeq ==
  ASSUME NEW S, NEW s \in Seq(S)
  PROVE  ToSet(s) \subseteq S
BY LenProperties, ElementOfSeq DEF ToSet

LEMMA HistoriesStep ==
  ASSUME Types, Histories, [Next]_vars
  PROVE  Histories'
<1> USE DEF Histories, dbVars, threadVars, faultVars, historyVars, Restart
<1>1. ASSUME NEW s \in Senders, Count(s) \/ FindToken(s) \/ MintToken(s) PROVE Histories'
  BY <1>1 DEF Count, FindToken, MintToken
<1>2. ASSUME NEW s \in Senders, Store(s) PROVE Histories'
  <2>1. <<s, sent[s]>> \in Messages
    <3>1. sent[s] \in 0..Sends /\ sent[s] > 0
      BY <1>2 DEF Store, Types
    <3>2. sent[s] \in 1..Sends
      BY <3>1
    <3> QED
      BY <3>2 DEF Messages
  <2> QED
    BY <1>2, <2>1 DEF Store
<1>3. ASSUME NEW d \in Sessions, Login(d) \/ Select(d) PROVE Histories'
  <2>1. ToSet(pending) \subseteq Messages /\ ToSet(accepted) \subseteq Messages
    BY SetOfSeq DEF Types
  <2>2. CASE Login(d)
    BY <2>1, <2>2 DEF Login
  <2>3. CASE Select(d)
    BY <2>1, <2>3 DEF Select
  <2> QED
    BY <1>3, <2>2, <2>3
<1>4. ASSUME NEW d \in Sessions, SendRow(d) PROVE Histories'
  <2>1. Head(rows[d]) \in Messages
    BY <1>4, HeadTailProperties DEF SendRow, Types
  <2> QED
    BY <1>4, <2>1 DEF SendRow
<1>5. ASSUME NEW d \in Sessions, EndSend(d) \/ DeleteRow(d) \/ EndDelete(d) \/ EndDelivery(d)
      PROVE  Histories'
  BY <1>5 DEF EndSend, DeleteRow, EndDelete, EndDelivery
<1>6. ASSUME NEW e \in Editors, BeginImmediate(e) \/ CommitTransaction(e) PROVE Histories'
  BY <1>6 DEF BeginImmediate, CommitTransaction
<1>7. CASE Crash
  BY <1>7 DEF Crash
<1>8. CASE UNCHANGED vars
  BY <1>8 DEF vars
<1> QED
  BY <1>1, <1>2, <1>3, <1>4, <1>5, <1>6, <1>7, <1>8 DEF Next

(* The variables keep their types, and the lock of the database is only    *)
(* held in a transaction.                                                  *)
THEOREM OfflineTypeCorrect == Spec => []TypeOK
<1>1. Init => Locked /\ Histories
  BY DEF Init, Locked, Histories
<1>2. Types /\ Locked /\ Histories /\ [Next]_vars => Locked' /\ Histories'
  BY LockedStep, HistoriesStep
<1>3. Types /\ Locked /\ Histories => TypeOK
  BY DEF Types, Locked, Histories, TypeOK
<1> QED
  BY <1>1, <1>2, <1>3, OfflineTyped, PTL DEF Spec

(* However many senders pass the limit at the same time, and whatever is   *)
(* rolled back, the table holds less than one message more per sender.     *)
THEOREM LimitKept == Spec => []LimitIsKept
<1>1. Init => Bounded
  <2> SUFFICES ASSUME Init PROVE Bounded
    OBVIOUS
  <2>1. Admitted = {} /\ pending = <<>> /\ disk.pending = <<>>
    BY DEF Init, Admitted, Threads, Database
  <2> QED
    BY <2>1, AdmittedFinite, FS_EmptySet, BoundsAssumption DEF Bounded
<1>2. Types /\ Bounded /\ [Next]_vars => Bounded'
  BY BoundedStep
<1>3. Types /\ Bounded => LimitIsKept
  BY AdmittedFinite, BoundsAssumption, LenProperties DEF Types, Bounded, LimitIsKept
<1> QED
  BY <1>1, <1>2, <1>3, OfflineTyped, PTL DEF Spec

-----------------------------------------------------------------------------
(* What is accepted is in the table or has been sent, both as the threads  *)
(* see it and as it was committed; what is noted for deletion was sent.    *)
Excused == joined \cup unwritten

Kept ==
  /\ ToSet(accepted) \ Excused \subseteq ToSet(pending) \cup Received
  /\ ToSet(accepted) \ Excused \subseteq ToSet(disk.pending) \cup Received
  /\ \A d \in Sessions : ids[d] \subseteq Received \cup unwritten

(* A step that deletes nothing and accepts nothing. *)
LEMMA KeptUnchanged ==
  ASSUME Kept, UNCHANGED <<accepted, joined, unwritten, delivered, pending>>,
         disk' = disk \/ disk'.pending = pending',
         \A d \in Sessions : ids'[d] \subseteq ids[d]
  PROVE  Kept'
BY DEF Kept, Excused, Received

LEMMA KeptStep ==
  ASSUME Types, Kept, [Next]_vars
  PROVE  Kept'
<1> USE ThreadsAssumption
    DEF dbVars, threadVars, faultVars, historyVars, Goto, Autocommit, Begin, Commit, Database
<1>1. ASSUME NEW s \in Senders, Count(s) \/ FindToken(s) \/ MintToken(s) PROVE Kept'
  BY <1>1, KeptUnchanged DEF Count, FindToken, MintToken
<1>2. ASSUME NEW s \in Senders, Store(s) PROVE Kept'
  <2> DEFINE m == <<s, sent[s]>>
  <2>1. m \in Messages
    <3>1. sent[s] \in 0..Sends /\ sent[s] > 0
      BY <1>2 DEF Store, Types
    <3>2. sent[s] \in 1..Sends
      BY <3>1
    <3> QED
      BY <3>2 DEF Messages
  <2>2. /\ accepted' = Append(accepted, m) /\ pending' = Append(pending, m)
        /\ joined' = (IF open THEN joined \cup {m} ELSE joined)
        /\ UNCHANGED <<delivered, unwritten, ids, open>>
        /\ disk' = IF open THEN disk ELSE [pending |-> pending', token |-> token']
    BY <1>2 DEF Store
  <2> HIDE DEF m
  <2>3. ToSet(accepted') = ToSet(accepted) \cup {m} /\ ToSet(pending') = ToSet(pending) \cup {m}
    BY <2>1, <2>2, AppendSet DEF Types
  <2>4. CASE open
    BY <2>2, <2>3, <2>4 DEF Kept, Excused, Received
  <2>5. CASE ~open
    <3>1. disk'.pending = pending' /\ joined' = joined
      BY <2>2, <2>5
    <3> QED
      BY <2>2, <2>3, <3>1 DEF Kept, Excused, Received
  <2> QED
    BY <2>4, <2>5
<1>3. ASSUME NEW d \in Sessions, Login(d) \/ Select(d) \/ EndSend(d) \/ EndDelete(d) PROVE Kept'
  BY <1>3, KeptUnchanged DEF Login, Select, EndSend, EndDelete
<1>4. ASSUME NEW d \in Sessions, SendRow(d) PROVE Kept'
  <2> DEFINE m == Head(rows[d])
  <2>1. m \in Messages /\ delivered[d] \in Seq(Messages)
    BY <1>4, HeadTailProperties DEF SendRow, Types
  <2>2. /\ UNCHANGED <<pending, disk, accepted, joined>>
        /\ ids' = [ids EXCEPT ![d] = @ \cup {m}]
        /\ \/ delivered' = [delivered EXCEPT ![d] = Append(@, m)] /\ UNCHANGED unwritten
           \/ unwritten' = unwritten \cup {m} /\ UNCHANGED delivered
    BY <1>4 DEF SendRow
  <2> HIDE DEF m
  <2>3. Received \cup unwritten \cup {m} \subseteq Received' \cup unwritten' /\ Received \subseteq Received'
        /\ unwritten \subseteq unwritten'
    <3>1. CASE delivered' = [delivered EXCEPT ![d] = Append(@, m)] /\ UNCHANGED unwritten
      <4>1. ToSet(delivered'[d]) = ToSet(delivered[d]) \cup {m}
        BY <2>1, <3>1, AppendSet DEF Types
      <4>2. \A e \in Sessions : ToSet(delivered[e]) \subseteq ToSet(delivered'[e])
        BY <3>1, <4>1 DEF Types
      <4> QED
        BY <3>1, <4>1, <4>2 DEF Received
    <3>2. CASE unwritten' = unwritten \cup {m} /\ UNCHANGED delivered
      BY <3>2 DEF Received
    <3> QED
      BY <2>2, <3>1, <3>2
  <2>4. \A e \in Sessions : ids'[e] \subseteq ids[e] \cup {m}
    BY <2>2 DEF Types
  <2> QED
    BY <2>2, <2>3, <2>4 DEF Kept, Excused
<1>5. ASSUME NEW d \in Sessions, DeleteRow(d) PROVE Kept'
  <2>1. PICK m \in ids[d] :
          /\ \/ UNCHANGED pending
             \/ \E k \in DOMAIN pending : pending[k] = m /\ pending' = RemoveAt(pending, k)
          /\ disk' = (IF open THEN disk ELSE [pending |-> pending', token |-> token'])
          /\ ids' = [ids EXCEPT ![d] = @ \ {m}]
          /\ UNCHANGED <<accepted, joined, unwritten, delivered>>
    BY <1>5 DEF DeleteRow
  <2>2. ToSet(pending) \ {m} \subseteq ToSet(pending')
    BY <2>1, RemoveOne DEF Types
  <2>3. m \in Received \cup unwritten
    BY <2>1 DEF Kept
  <2>4. disk' = disk \/ disk'.pending = pending'
    BY <2>1
  <2>5. ToSet(accepted') \ Excused' \subseteq ToSet(pending') \cup Received'
    BY <2>1, <2>2, <2>3 DEF Kept, Excused, Received
  <2>6. \A e \in Sessions : ids'[e] \subseteq Received' \cup unwritten'
    BY <2>1 DEF Kept, Types, Received
  <2>7. ToSet(accepted') \ Excused' \subseteq ToSet(disk'.pending) \cup Received'
    <3>1. CASE disk' = disk
      BY <2>1, <3>1 DEF Kept, Excused, Received
    <3>2. CASE disk'.pending = pending'
      BY <2>5, <3>2
    <3> QED
      BY <2>4, <3>1, <3>2
  <2> QED
    BY <2>5, <2>6, <2>7 DEF Kept
<1>6. ASSUME NEW d \in Sessions, EndDelivery(d) PROVE Kept'
  <2>1. disk' = disk \/ disk'.pending = pending'
    BY <1>6 DEF EndDelivery
  <2> QED
    BY <1>6, <2>1, KeptUnchanged DEF EndDelivery
<1>7. ASSUME Restart PROVE Kept'
  <2>1. pending' = disk.pending /\ \A d \in Sessions : ids'[d] = {}
    BY <1>7 DEF Restart
  <2> QED
    BY <1>7, <2>1 DEF Restart, Kept, Excused, Received
<1>8. ASSUME NEW e \in Editors, BeginImmediate(e) PROVE Kept'
  BY <1>7, <1>8, KeptUnchanged DEF BeginImmediate
<1>9. ASSUME NEW e \in Editors, CommitTransaction(e) PROVE Kept'
  BY <1>9, KeptUnchanged DEF CommitTransaction
<1>10. CASE Crash
  BY <1>7, <1>10 DEF Crash
<1>11. CASE UNCHANGED vars
  BY <1>11, KeptUnchanged DEF vars
<1> QED
  BY <1>1, <1>2, <1>3, <1>4, <1>5, <1>6, <1>8, <1>9, <1>10, <1>11 DEF Next

(* Crashes, other logins and the shared transaction lose no message but    *)
(* those that joined it and those that could not be written.               *)
THEOREM NoMessageLost == Spec => []NothingLost
<1>1. Init => Kept
  <2> SUFFICES ASSUME Init PROVE Kept
    OBVIOUS
  <2>1. ToSet(accepted) = {}
    BY DEF Init, ToSet
  <2> QED
    BY <2>1 DEF Init, Kept
<1>2. Types /\ Kept /\ [Next]_vars => Kept'
  BY KeptStep
<1>3. Kept => NothingLost
  BY DEF Kept, Excused, NothingLost
<1> QED
  BY <1>1, <1>2, <1>3, OfflineTyped, PTL DEF Spec

-----------------------------------------------------------------------------
(* Only an insertion into an empty table stores a token. *)
LEMMA TokenStep ==
  ASSUME Types, [Next]_vars
  PROVE  token # None /\ crashes' = crashes => token' = token
<1> SUFFICES ASSUME token # None, crashes' = crashes PROVE token' = token
  OBVIOUS
<1> USE DEF dbVars, threadVars, faultVars, historyVars
<1>1. crashes + 1 # crashes
  BY DEF Types
<1> QED
  BY <1>1
  DEF Next, Count, FindToken, MintToken, Store, Login, Select, SendRow, EndSend, DeleteRow,
      EndDelete, EndDelivery, BeginImmediate, CommitTransaction, Crash, vars

THEOREM TokensAreKept == Spec => TokenIsKept
<1>1. Types /\ [Next]_vars => [token # None /\ crashes' = crashes => token' = token]_vars
  BY TokenStep
<1> QED
  BY <1>1, OfflineTyped, PTL DEF Spec, TokenIsKept
-----------------------------------------------------------------------------
(* What a login has to deliver: the messages that were stored before it    *)
(* are in the table when it reads it, unless they were sent, and it sends  *)
(* what it has read before it deletes anything.                            *)
Served(d) ==
  /\ due[d] \subseteq ToSet(accepted)
  /\ pc[d] = "send" => due[d] \ Excused \subseteq ToSet(rows[d]) \cup Received
  /\ pc[d] \in {"delete", "commit", "done"} => due[d] \ Excused \subseteq Received

AllServed == \A d \in Sessions : Served(d)

LEMMA HeadAndTail ==
  ASSUME NEW S, NEW s \in Seq(S), s # <<>>
  PROVE  /\ Head(s) \in S /\ Tail(s) \in Seq(S)
         /\ ToSet(s) = {Head(s)} \cup ToSet(Tail(s))
         /\ DOMAIN Tail(s) = 1..(Len(s) - 1) /\ DOMAIN s = 1..Len(s) /\ Len(s) \in Nat \ {0}
         /\ Head(s) = s[1] /\ \A i \in DOMAIN Tail(s) : Tail(s)[i] = s[i + 1]
<1>1. /\ Head(s) \in S /\ Tail(s) \in Seq(S) /\ Len(Tail(s)) = Len(s) - 1
      /\ \A i \in 1..Len(Tail(s)) : Tail(s)[i] = s[i + 1]
  BY HeadTailProperties
<1>2. DOMAIN s = 1..Len(s) /\ Len(s) \in Nat /\ DOMAIN Tail(s) = 1..Len(Tail(s))
  BY <1>1, LenProperties
<1>3. Head(s) = s[1] /\ Len(s) # 0
  BY EmptySeq, HeadTailProperties
<1>4. ToSet(s) \subseteq {Head(s)} \cup ToSet(Tail(s))
  <2>1. ASSUME NEW i \in 1..Len(s), i # 1 PROVE s[i] \in ToSet(Tail(s))
    <3>1. i - 1 \in 1..Len(Tail(s)) /\ Tail(s)[i - 1] = s[i - 1 + 1] /\ i - 1 + 1 = i
      BY <1>1, <1>2, <2>1
    <3> QED
      BY <1>2, <3>1 DEF ToSet
  <2> QED
    BY <1>2, <1>3, <2>1 DEF ToSet
<1>5. {Head(s)} \cup ToSet(Tail(s)) \subseteq ToSet(s)
  <2>1. 1 \in 1..Len(s) /\ \A i \in 1..Len(Tail(s)) : i + 1 \in 1..Len(s)
    BY <1>1, <1>2, <1>3
  <2> QED
    BY <1>1, <1>2, <1>3, <2>1 DEF ToSet
<1> QED
  BY <1>1, <1>2, <1>3, <1>4, <1>5

(* Nothing is taken back: what was sent stays sent. *)
LEMMA ServedKept ==
  ASSUME NEW d \in Sessions, Served(d), due'[d] = due[d], pc'[d] = pc[d], rows'[d] = rows[d],
         ToSet(accepted) \subseteq ToSet(accepted'), Excused \subseteq Excused',
         Received \subseteq Received'
  PROVE  Served(d)'
BY DEF Served

LEMMA StoreAppends ==
  ASSUME Types, NEW s \in Senders, Store(s)
  PROVE  /\ <<s, sent[s]>> \in Messages
         /\ accepted' = Append(accepted, <<s, sent[s]>>)
         /\ ToSet(accepted') = ToSet(accepted) \cup {<<s, sent[s]>>}
         /\ pending' = Append(pending, <<s, sent[s]>>)
         /\ ToSet(pending') = ToSet(pending) \cup {<<s, sent[s]>>}
<1>1. sent[s] \in 0..Sends /\ sent[s] > 0
  BY DEF Store, Types
<1>2. sent[s] \in 1..Sends
  BY <1>1
<1>3. <<s, sent[s]>> \in Messages
  BY <1>2 DEF Messages
<1>4. accepted' = Append(accepted, <<s, sent[s]>>) /\ pending' = Append(pending, <<s, sent[s]>>)
  BY DEF Store
<1> QED
  <2>1. accepted \in Seq(Messages) /\ pending \in Seq(Messages)
    BY DEF Types
  <2>0. \A q \in Seq(Messages), m \in Messages : ToSet(Append(q, m)) = ToSet(q) \cup {m}
    BY AppendSet
  <2>2. ToSet(Append(accepted, <<s, sent[s]>>)) = ToSet(accepted) \cup {<<s, sent[s]>>}
    BY <1>3, <2>1, <2>0
  <2>3. ToSet(Append(pending, <<s, sent[s]>>)) = ToSet(pending) \cup {<<s, sent[s]>>}
    BY <1>3, <2>1, <2>0
  <2> QED
    BY <1>3, <1>4, <2>2, <2>3

LEMMA SendDelivers ==
  ASSUME Types, NEW d \in Sessions, SendRow(d)
  PROVE  /\ Head(rows[d]) \in Messages
         /\ ToSet(rows[d]) = {Head(rows[d])} \cup ToSet(rows'[d])
         /\ rows' = [rows EXCEPT ![d] = Tail(rows[d])]
         /\ ids' = [ids EXCEPT ![d] = ids[d] \cup {Head(rows[d])}]
         /\ UNCHANGED <<pending, disk, pc, sent, crashes, accepted, due, joined, twice>>
         /\ \/ delivered' = delivered /\ unwritten' = unwritten \cup {Head(rows[d])}
            \/ /\ delivered' = [delivered EXCEPT ![d] = Append(delivered[d], Head(rows[d]))]
               /\ ToSet(delivered'[d]) = ToSet(delivered[d]) \cup {Head(rows[d])}
               /\ unwritten' = unwritten
<1>1. rows[d] \in Seq(Messages) /\ rows[d] # <<>> /\ delivered[d] \in Seq(Messages)
  BY DEF SendRow, Types
<1>2. /\ Head(rows[d]) \in Messages
      /\ ToSet(rows[d]) = {Head(rows[d])} \cup ToSet(Tail(rows[d]))
  BY <1>1, HeadAndTail
<1>3. /\ rows' = [rows EXCEPT ![d] = Tail(rows[d])]
      /\ ids' = [ids EXCEPT ![d] = ids[d] \cup {Head(rows[d])}]
      /\ UNCHANGED <<pending, disk, pc, sent, crashes, accepted, due, joined, twice>>
      /\ \/ delivered' = delivered /\ unwritten' = unwritten \cup {Head(rows[d])}
         \/ /\ delivered' = [delivered EXCEPT ![d] = Append(delivered[d], Head(rows[d]))]
            /\ unwritten' = unwritten
  BY DEF SendRow, dbVars, faultVars
<1>4. ToSet(Append(delivered[d], Head(rows[d]))) = ToSet(delivered[d]) \cup {Head(rows[d])}
  BY <1>1, <1>2, AppendSet
<1>5. rows'[d] = Tail(rows[d])
  BY <1>3 DEF Types
<1>6. delivered' = [delivered EXCEPT ![d] = Append(delivered[d], Head(rows[d]))] =>
        delivered'[d] = Append(delivered[d], Head(rows[d]))
  BY DEF Types
<1> QED
  BY <1>2, <1>3, <1>4, <1>5, <1>6

LEMMA SendReceives ==
  ASSUME Types, NEW d \in Sessions, SendRow(d)
  PROVE  /\ Received \subseteq Received' /\ Excused \subseteq Excused'
         /\ Head(rows[d]) \in Received' \cup Excused'
<1> DEFINE m == Head(rows[d])
<1>1. CASE delivered' = delivered /\ unwritten' = unwritten \cup {m}
  BY <1>1, SendDelivers DEF Received, Excused
<1>2. CASE /\ delivered' = [delivered EXCEPT ![d] = Append(delivered[d], m)]
           /\ ToSet(delivered'[d]) = ToSet(delivered[d]) \cup {m}
           /\ unwritten' = unwritten
  <2>1. \A e \in Sessions : ToSet(delivered[e]) \subseteq ToSet(delivered'[e])
    BY <1>2 DEF Types
  <2>2. Received \subseteq Received'
    BY <2>1 DEF Received
  <2>3. m \in Received'
    BY <1>2 DEF Received
  <2>4. Excused' = Excused
    BY <1>2, SendDelivers DEF Excused
  <2> QED
    BY <2>2, <2>3, <2>4
<1> QED
  BY <1>1, <1>2, SendDelivers

LEMMA ServedStep ==
  ASSUME Types, Histories, Kept, AllServed, [Next]_vars
  PROVE  AllServed'
<1> USE ThreadsAssumption DEF dbVars, threadVars, faultVars, historyVars, Goto
<1> DEFINE Still(d) == due'[d] = due[d] /\ pc'[d] = pc[d] /\ rows'[d] = rows[d]
           More == /\ ToSet(accepted) \subseteq ToSet(accepted') /\ Excused \subseteq Excused'
                   /\ Received \subseteq Received'
<1>0. UNCHANGED <<accepted, joined, unwritten, delivered>> => More
  BY DEF Excused, Received
<1>1. ASSUME NEW s \in Senders, Count(s) \/ FindToken(s) \/ MintToken(s) PROVE AllServed'
  <2>1. More /\ \A d \in Sessions : Still(d)
    BY <1>0, <1>1 DEF Count, FindToken, MintToken, Types, Threads
  <2> QED
    BY <2>1, ServedKept DEF AllServed
<1>2. ASSUME NEW s \in Senders, Store(s) PROVE AllServed'
  <2>1. \A d \in Sessions : Still(d)
    BY <1>2 DEF Store, Types, Threads
  <2>2. More
    BY <1>2, StoreAppends DEF Store, Excused, Received
  <2> QED
    BY <2>1, <2>2, ServedKept DEF AllServed
<1>3. ASSUME NEW d \in Sessions, Login(d) PROVE AllServed'
  <2>1. More /\ accepted' = accepted /\ pc'[d] = "select" /\ due'[d] = ToSet(accepted)
    BY <1>0, <1>3 DEF Login, Types, Threads, Histories
  <2>2. \A e \in Sessions \ {d} : Still(e)
    BY <1>3 DEF Login, Types, Threads
  <2>3. \A e \in Sessions \ {d} : Served(e)'
    BY <2>1, <2>2, ServedKept DEF AllServed
  <2> QED
    BY <2>1, <2>3 DEF AllServed, Served
<1>4. ASSUME NEW d \in Sessions, Select(d) PROVE AllServed'
  <2>1. /\ More /\ accepted' = accepted /\ pc'[d] = "send" /\ due'[d] = due[d]
        /\ rows'[d] = pending /\ Received' = Received /\ Excused' = Excused
    BY <1>0, <1>4 DEF Select, Types, Threads, Received, Excused
  <2>2. \A e \in Sessions \ {d} : Still(e)
    BY <1>4 DEF Select, Types, Threads
  <2>3. \A e \in Sessions \ {d} : Served(e)'
    BY <2>1, <2>2, ServedKept DEF AllServed
  <2>4. due[d] \subseteq ToSet(accepted) /\ due[d] \ Excused \subseteq ToSet(pending) \cup Received
    BY DEF AllServed, Served, Kept
  <2> QED
    BY <2>1, <2>3, <2>4 DEF AllServed, Served
<1>5. ASSUME NEW d \in Sessions, SendRow(d) PROVE AllServed'
  <2>1. More /\ Head(rows[d]) \in Received' \cup Excused'
    BY <1>5, SendReceives, SendDelivers
  <2>2. /\ pc' = pc /\ due' = due /\ accepted' = accepted /\ pc[d] = "send"
        /\ ToSet(rows[d]) = {Head(rows[d])} \cup ToSet(rows'[d])
        /\ \A e \in Sessions \ {d} : rows'[e] = rows[e]
    BY <1>5, SendDelivers DEF SendRow, Types
  <2>3. \A e \in Sessions \ {d} : Served(e)'
    BY <2>1, <2>2, ServedKept DEF AllServed
  <2>4. due[d] \subseteq ToSet(accepted) /\ due[d] \ Excused \subseteq ToSet(rows[d]) \cup Received
    BY <2>2 DEF AllServed, Served
  <2> QED
    BY <2>1, <2>2, <2>3, <2>4 DEF AllServed, Served
<1>6. ASSUME NEW d \in Sessions, EndSend(d) \/ EndDelete(d) \/ EndDelivery(d) PROVE AllServed'
  <2>1. /\ UNCHANGED <<accepted, joined, unwritten, delivered, due, rows>>
        /\ \A e \in Sessions \ {d} : pc'[e] = pc[e]
        /\ pc'[d] \in {"delete", "commit", "done"}
        /\ (pc[d] = "send" /\ rows[d] = <<>>) \/ pc[d] \in {"delete", "commit"}
    BY <1>6 DEF EndSend, EndDelete, EndDelivery, Types, Threads
  <2>2. Received' = Received /\ Excused' = Excused
    BY <2>1 DEF Received, Excused
  <2>3. ToSet(<<>>) = {}
    BY DEF ToSet
  <2> QED
    BY <2>1, <2>2, <2>3 DEF AllServed, Served
<1>7. ASSUME NEW d \in Sessions, DeleteRow(d) PROVE AllServed'
  <2>1. More /\ \A e \in Sessions : Still(e)
    BY <1>0, <1>7 DEF DeleteRow
  <2> QED
    BY <2>1, ServedKept DEF AllServed
<1>8. ASSUME Restart PROVE AllServed'
  <2>1. UNCHANGED <<accepted, joined, unwritten, delivered, due>>
    BY <1>8 DEF Restart
  <2>2. Received' = Received /\ Excused' = Excused
    BY <2>1 DEF Received, Excused
  <2>3. \A d \in Sessions : pc'[d] = "gone" \/ (pc'[d] = pc[d] /\ pc[d] \in {"idle", "done"})
    BY <1>8 DEF Restart, Types, Threads
  <2> QED
    BY <2>1, <2>2, <2>3 DEF AllServed, Served
<1>9. ASSUME NEW e \in Editors, BeginImmediate(e) PROVE AllServed'
  <2>1. CASE ~open
    <3>1. More /\ \A d \in Sessions : Still(d)
      BY <1>0, <1>9, <2>1 DEF BeginImmediate, Types, Threads
    <3> QED
      BY <3>1, ServedKept DEF AllServed
  <2> QED
    BY <1>8, <1>9, <2>1 DEF BeginImmediate
<1>10. ASSUME NEW e \in Editors, CommitTransaction(e) PROVE AllServed'
  <2>1. More /\ \A d \in Sessions : Still(d)
    BY <1>0, <1>10 DEF CommitTransaction, Types, Threads
  <2> QED
    BY <2>1, ServedKept DEF AllServed
<1>11. CASE Crash
  BY <1>8, <1>11 DEF Crash
<1>12. CASE UNCHANGED vars
  <2>1. More /\ \A d \in Sessions : Still(d)
    BY <1>0, <1>12 DEF vars
  <2> QED
    BY <2>1, ServedKept DEF AllServed
<1> QED
  BY <1>1, <1>2, <1>3, <1>4, <1>5, <1>6, <1>7, <1>9, <1>10, <1>11, <1>12 DEF Next

(* When the delivery of a login is over, everything that was stored before *)
(* it began has been sent, whatever other logins read, sent and deleted    *)
(* meanwhile and whichever thread's statements joined its transaction.     *)
THEOREM LoginsAreServed == Spec => []DeliveredAtLogin
<1>1. Init => Histories /\ Kept /\ AllServed
  <2> SUFFICES ASSUME Init PROVE Histories /\ Kept /\ AllServed
    OBVIOUS
  <2>1. ToSet(accepted) = {}
    BY DEF Init, ToSet
  <2>2. \A d \in Sessions : pc[d] = "idle" /\ due[d] = {}
    BY DEF Init, Threads
  <2> QED
    BY <2>1, <2>2 DEF Init, Histories, Kept, AllServed, Served
<1>2. Types /\ Histories /\ Kept /\ AllServed /\ [Next]_vars => Histories' /\ Kept' /\ AllServed'
  BY HistoriesStep, KeptStep, ServedStep
<1>3. AllServed => DeliveredAtLogin
  BY DEF AllServed, Served, Excused, DeliveredAtLogin
<1> QED
  BY <1>1, <1>2, <1>3, OfflineTyped, PTL DEF Spec

-----------------------------------------------------------------------------
(* The order of the messages.  One message is earlier than another if it   *)
(* was accepted before, whenever both were.                                *)
Earlier(a, b, log) ==
  \A k, l \in DOMAIN log : log[k] = a /\ log[l] = b => k < l

Sorted(q, log) ==
  /\ ToSet(q) \subseteq ToSet(log)
  /\ \A i, j \in DOMAIN q : i < j => Earlier(q[i], q[j], log)

(* A sender numbers its messages, and has not stored the one it is sending.*)
Numbered ==
  \A s \in Senders, n \in 1..Sends :
    <<s, n>> \in ToSet(accepted) => n <= sent[s] /\ (pc[s] # "idle" => n < sent[s])

(* What a login has sent was stored before what it has still to send.      *)
InTurn(d) ==
  /\ Sorted(rows[d], accepted) /\ Sorted(delivered[d], accepted)
  /\ \A a \in ToSet(delivered[d]), b \in ToSet(rows[d]) : Earlier(a, b, accepted)
  /\ pc[d] \in {"idle", "select"} => delivered[d] = <<>>

Ordered ==
  /\ Numbered
  /\ Sorted(pending, accepted) /\ Sorted(disk.pending, accepted)
  /\ \A d \in Sessions : InTurn(d)

LEMMA EmptySorted == \A log : Sorted(<<>>, log)
BY DEF Sorted, ToSet

(* A new message is later than all others, and does not change their order.*)
LEMMA LogGrows ==
  ASSUME NEW S, NEW log \in Seq(S), NEW m \in S, m \notin ToSet(log)
  PROVE  /\ \A a, b \in ToSet(log) : Earlier(a, b, log) => Earlier(a, b, Append(log, m))
         /\ \A a \in ToSet(log) : Earlier(a, m, Append(log, m))
         /\ \A q : Sorted(q, log) => Sorted(q, Append(log, m))
<1>1. /\ DOMAIN log = 1..Len(log) /\ DOMAIN Append(log, m) = 1..(Len(log) + 1) /\ Len(log) \in Nat
      /\ \A i \in 1..Len(log) : Append(log, m)[i] = log[i]
      /\ Append(log, m)[Len(log) + 1] = m
  BY AppendProperties, LenProperties
<1>2. \A i \in 1..Len(log) : log[i] # m
  BY <1>1 DEF ToSet
<1>3. ASSUME NEW a \in ToSet(log), NEW k \in DOMAIN Append(log, m), Append(log, m)[k] = a
      PROVE  k \in DOMAIN log /\ log[k] = a
  <2>1. a # m
    OBVIOUS
  <2> QED
    BY <1>1, <1>3, <2>1
<1>4. ASSUME NEW a \in ToSet(log), NEW b \in ToSet(log), Earlier(a, b, log)
      PROVE  Earlier(a, b, Append(log, m))
  BY <1>3, <1>4 DEF Earlier
<1>5. ASSUME NEW a \in ToSet(log) PROVE Earlier(a, m, Append(log, m))
  <2> SUFFICES ASSUME NEW k \in DOMAIN Append(log, m), NEW l \in DOMAIN Append(log, m),
                      Append(log, m)[k] = a, Append(log, m)[l] = m
               PROVE  k < l
    BY DEF Earlier
  <2>1. k \in 1..Len(log)
    BY <1>1, <1>3
  <2>2. l = Len(log) + 1
    BY <1>1, <1>2
  <2> QED
    BY <1>1, <2>1, <2>2
<1>6. ToSet(log) \subseteq ToSet(Append(log, m))
  BY AppendSet
<1>7. ASSUME NEW q, Sorted(q, log) PROVE Sorted(q, Append(log, m))
  <2>1. \A i \in DOMAIN q : q[i] \in ToSet(log)
    BY <1>7 DEF Sorted, ToSet
  <2> QED
    BY <1>4, <1>6, <1>7, <2>1 DEF Sorted
<1> QED
  BY <1>4, <1>5, <1>7

LEMMA SortedAppend ==
  ASSUME NEW S, NEW q \in Seq(S), NEW m \in S, NEW log, Sorted(q, log), m \in ToSet(log),
         \A a \in ToSet(q) : Earlier(a, m, log)
  PROVE  Sorted(Append(q, m), log)
<1>1. /\ DOMAIN q = 1..Len(q) /\ DOMAIN Append(q, m) = 1..(Len(q) + 1) /\ Len(q) \in Nat
      /\ \A i \in 1..Len(q) : Append(q, m)[i] = q[i]
      /\ Append(q, m)[Len(q) + 1] = m
  BY AppendProperties, LenProperties
<1>2. ToSet(Append(q, m)) \subseteq ToSet(log)
  BY AppendSet DEF Sorted
<1>3. ASSUME NEW i \in 1..(Len(q) + 1), NEW j \in 1..(Len(q) + 1), i < j
      PROVE  Earlier(Append(q, m)[i], Append(q, m)[j], log)
  <2>1. i \in 1..Len(q) /\ Append(q, m)[i] = q[i] /\ q[i] \in ToSet(q)
    BY <1>1, <1>3 DEF ToSet
  <2>2. CASE j = Len(q) + 1
    BY <1>1, <2>1, <2>2
  <2>3. CASE j \in 1..Len(q)
    BY <1>1, <1>3, <2>1, <2>3 DEF Sorted
  <2> QED
    BY <1>1, <2>2, <2>3
<1> QED
  BY <1>1, <1>2, <1>3 DEF Sorted

LEMMA SortedTail ==
  ASSUME NEW S, NEW q \in Seq(S), q # <<>>, NEW log, Sorted(q, log)
  PROVE  /\ Sorted(Tail(q), log) /\ Head(q) \in ToSet(log)
         /\ \A b \in ToSet(Tail(q)) : Earlier(Head(q), b, log)
<1>1. /\ ToSet(q) = {Head(q)} \cup ToSet(Tail(q))
      /\ DOMAIN Tail(q) = 1..(Len(q) - 1) /\ DOMAIN q = 1..Len(q) /\ Len(q) \in Nat \ {0}
      /\ Head(q) = q[1] /\ \A i \in DOMAIN Tail(q) : Tail(q)[i] = q[i + 1]
  BY HeadAndTail
<1>2. \A i \in DOMAIN Tail(q) : i + 1 \in DOMAIN q /\ 1 < i + 1
  BY <1>1
<1>3. \A i, j \in DOMAIN Tail(q) : i < j => Earlier(Tail(q)[i], Tail(q)[j], log)
  BY <1>1, <1>2 DEF Sorted
<1>4. \A i \in DOMAIN Tail(q) : Earlier(Head(q), Tail(q)[i], log)
  BY <1>1, <1>2 DEF Sorted
<1> QED
  BY <1>1, <1>3, <1>4 DEF Sorted, ToSet

(* Nothing is in a sorted sequence twice; what is taken out of it is gone. *)
LEMMA SortedRemove ==
  ASSUME NEW S, NEW q \in Seq(S), NEW k \in DOMAIN q, NEW log, Sorted(q, log)
  PROVE  /\ Sorted(RemoveAt(q, k), log)
         /\ ToSet(RemoveAt(q, k)) = ToSet(q) \ {q[k]}
<1> DEFINE r == RemoveAt(q, k)
<1>1. DOMAIN q = 1..Len(q) /\ Len(q) \in Nat /\ k \in 1..Len(q)
  BY LenProperties
<1>2. /\ r \in Seq(S) /\ Len(r) = Len(q) - 1 /\ ToSet(q) \ {q[k]} \subseteq ToSet(r)
      /\ \A i \in 1..(Len(q) - 1) : r[i] = IF i < k THEN q[i] ELSE q[i + 1]
  BY RemoveOne
<1>3. DOMAIN r = 1..(Len(q) - 1)
  BY <1>2, LenProperties
<1> HIDE DEF r
<1>4. ASSUME NEW x, Earlier(x, x, log) PROVE x \notin ToSet(log)
  <2> SUFFICES ASSUME NEW i \in DOMAIN log, log[i] = x PROVE FALSE
    BY DEF ToSet
  <2>1. i < i
    BY <1>4 DEF Earlier
  <2> QED
    BY <2>1, SMT
<1>5. \A i \in DOMAIN q : q[i] \in ToSet(log)
  BY DEF Sorted, ToSet
<1>6. ASSUME NEW i \in DOMAIN q, NEW j \in DOMAIN q, i # j PROVE q[i] # q[j]
  <2>1. i < j \/ j < i
    BY <1>1, <1>6
  <2>2. Earlier(q[i], q[j], log) \/ Earlier(q[j], q[i], log)
    BY <2>1 DEF Sorted
  <2> QED
    BY <1>4, <1>5, <2>2
<1>7. ASSUME NEW i \in DOMAIN r PROVE r[i] \in ToSet(q) \ {q[k]}
  <2>1. CASE i < k
    <3>1. i \in DOMAIN q /\ i # k /\ r[i] = q[i]
      BY <1>1, <1>2, <1>3, <2>1
    <3> QED
      BY <1>6, <3>1 DEF ToSet
  <2>2. CASE ~(i < k)
    <3>1. i + 1 \in DOMAIN q /\ i + 1 # k /\ r[i] = q[i + 1]
      BY <1>1, <1>2, <1>3, <2>2
    <3> QED
      BY <1>6, <3>1 DEF ToSet
  <2> QED
    BY <2>1, <2>2
<1>8. ToSet(r) = ToSet(q) \ {q[k]}
  BY <1>2, <1>7 DEF ToSet
<1>9. ASSUME NEW i \in DOMAIN r, NEW j \in DOMAIN r, i < j PROVE Earlier(r[i], r[j], log)
  <2> DEFINE f(n) == IF n < k THEN n ELSE n + 1
  <2>1. f(i) \in DOMAIN q /\ f(j) \in DOMAIN q /\ f(i) < f(j)
    BY <1>1, <1>3, <1>9
  <2>2. r[i] = q[f(i)] /\ r[j] = q[f(j)]
    BY <1>2, <1>3
  <2> HIDE DEF f
  <2> QED
    BY <2>1, <2>2 DEF Sorted
<1> QED
  BY <1>8, <1>9 DEF Sorted, r

-----------------------------------------------------------------------------
(* A step that accepts, sends and deletes nothing. *)
LEMMA OrderedKept ==
  ASSUME Ordered, UNCHANGED <<accepted, sent, delivered, rows, pending>>,
         disk' = disk \/ disk'.pending = pending',
         \A s \in Senders : pc'[s] # "idle" => pc[s] # "idle",
         \A d \in Sessions : pc'[d] \in {"idle", "select"} => pc[d] \in {"idle", "select"}
  PROVE  Ordered'
<1>1. Numbered'
  BY DEF Ordered, Numbered
<1>2. Sorted(pending, accepted)' /\ Sorted(disk.pending, accepted)'
  BY DEF Ordered
<1>3. ASSUME NEW d \in Sessions PROVE InTurn(d)'
  BY DEF Ordered, InTurn
<1> QED
  BY <1>1, <1>2, <1>3 DEF Ordered

(* A sender that stores its message has not stored it before. *)
LEMMA StoreIsNew ==
  ASSUME Types, Numbered, NEW s \in Senders, Store(s)
  PROVE  <<s, sent[s]>> \notin ToSet(accepted)
<1>1. sent[s] \in 1..Sends /\ pc[s] # "idle"
  <2>1. sent[s] \in 0..Sends /\ sent[s] > 0 /\ pc[s] = "insert"
    BY DEF Store, Types
  <2> QED
    BY <2>1
<1>2. ~(sent[s] < sent[s])
  BY <1>1
<1> QED
  BY <1>1, <1>2 DEF Numbered

LEMMA OrderedStep ==
  ASSUME Types, Ordered, [Next]_vars
  PROVE  Ordered'
<1> USE ThreadsAssumption
    DEF dbVars, threadVars, faultVars, historyVars, Goto, Autocommit, Begin, Commit, Database
<1>1. ASSUME NEW s \in Senders, Count(s) PROVE Ordered'
  <2>1. /\ UNCHANGED <<accepted, delivered, rows, pending, disk>>
        /\ \A d \in Sessions : pc'[d] = pc[d]
        /\ sent' = [sent EXCEPT ![s] = @ + 1] /\ sent[s] \in 0..Sends
    BY <1>1 DEF Count, Types, Threads
  <2>2. \A r \in Senders \ {s} : sent'[r] = sent[r] /\ pc'[r] = pc[r]
    BY <1>1 DEF Count, Types, Threads
  <2>3. sent'[s] = sent[s] + 1 /\ sent'[s] \in Int /\ sent[s] \in Int
    BY <2>1 DEF Types
  <2>4. Numbered'
    <3> SUFFICES ASSUME NEW r \in Senders, NEW n \in 1..Sends, <<r, n>> \in ToSet(accepted)'
                 PROVE  n <= sent'[r] /\ (pc'[r] # "idle" => n < sent'[r])
      BY DEF Numbered
    <3>1. n <= sent[r] /\ (pc[r] # "idle" => n < sent[r])
      BY <2>1 DEF Ordered, Numbered
    <3> QED
      BY <2>2, <2>3, <3>1
  <2> QED
    BY <2>1, <2>4 DEF Ordered, InTurn
<1>2. ASSUME NEW s \in Senders, FindToken(s) \/ MintToken(s) PROVE Ordered'
  <2>1. /\ UNCHANGED <<accepted, sent, delivered, rows, pending>>
        /\ disk' = disk \/ disk'.pending = pending'
        /\ \A r \in Senders : pc'[r] # "idle" => pc[r] # "idle"
        /\ \A d \in Sessions : pc'[d] = pc[d]
    BY <1>2 DEF FindToken, MintToken, Types, Threads
  <2> QED
    BY <2>1, OrderedKept
<1>3. ASSUME NEW s \in Senders, Store(s) PROVE Ordered'
  <2> DEFINE m == <<s, sent[s]>>
  <2>1. /\ m \in Messages /\ m \notin ToSet(accepted)
        /\ accepted' = Append(accepted, m) /\ ToSet(accepted') = ToSet(accepted) \cup {m}
        /\ pending' = Append(pending, m)
    BY <1>3, StoreAppends, StoreIsNew DEF Ordered
  <2>2. /\ UNCHANGED <<sent, delivered, rows>>
        /\ \A d \in Sessions : pc'[d] = pc[d]
        /\ \A r \in Senders \ {s} : pc'[r] = pc[r]
        /\ pc[s] = "insert" /\ pc'[s] = "idle" /\ sent[s] \in 0..Sends
        /\ disk' = disk \/ disk'.pending = pending'
    BY <1>3 DEF Store, Types, Threads
  <2>3. Numbered'
    <3> SUFFICES ASSUME NEW r \in Senders, NEW n \in 1..Sends, <<r, n>> \in ToSet(accepted')
                 PROVE  n <= sent[r] /\ (pc'[r] # "idle" => n < sent[r])
      BY <2>2 DEF Numbered
    <3>1. CASE <<r, n>> \in ToSet(accepted)
      BY <2>2, <3>1 DEF Ordered, Numbered
    <3>2. CASE r = s /\ n = sent[s]
      BY <2>2, <3>2
    <3> QED
      BY <2>1, <3>1, <3>2
  <2> HIDE DEF m
  <2>4. /\ \A a, b \in ToSet(accepted) : Earlier(a, b, accepted) => Earlier(a, b, accepted')
        /\ \A a \in ToSet(accepted) : Earlier(a, m, accepted')
        /\ \A q : Sorted(q, accepted) => Sorted(q, accepted')
    BY <2>1, LogGrows DEF Types
  <2>5. Sorted(pending', accepted')
    <3>1. Sorted(pending, accepted') /\ ToSet(pending) \subseteq ToSet(accepted)
      BY <2>4 DEF Ordered, Sorted
    <3> QED
      BY <2>1, <2>4, <3>1, SortedAppend DEF Types
  <2>6. Sorted(disk'.pending, accepted')
    BY <2>2, <2>4, <2>5 DEF Ordered
  <2>7. ASSUME NEW d \in Sessions PROVE InTurn(d)'
    <3>1. ToSet(delivered[d]) \subseteq ToSet(accepted) /\ ToSet(rows[d]) \subseteq ToSet(accepted)
      BY DEF Ordered, InTurn, Sorted
    <3>2. InTurn(d)
      BY DEF Ordered
    <3> QED
      BY <2>2, <2>4, <3>1, <3>2 DEF InTurn
  <2> QED
    BY <2>3, <2>5, <2>6, <2>7 DEF Ordered
<1>4. ASSUME NEW d \in Sessions, Login(d) \/ EndSend(d) \/ EndDelete(d) \/ EndDelivery(d)
      PROVE  Ordered'
  <2>1. /\ UNCHANGED <<accepted, sent, delivered, rows, pending>>
        /\ disk' = disk \/ disk'.pending = pending'
        /\ \A s \in Senders : pc'[s] = pc[s]
        /\ \A e \in Sessions : pc'[e] \in {"idle", "select"} => pc[e] \in {"idle", "select"}
    BY <1>4 DEF Login, EndSend, EndDelete, EndDelivery, Types, Threads
  <2> QED
    BY <2>1, OrderedKept
<1>5. ASSUME NEW d \in Sessions, Select(d) PROVE Ordered'
  <2>1. /\ UNCHANGED <<accepted, sent, delivered, pending, disk>>
        /\ \A s \in Senders : pc'[s] = pc[s]
        /\ pc'[d] = "send" /\ rows'[d] = pending /\ delivered[d] = <<>>
        /\ \A e \in Sessions \ {d} : rows'[e] = rows[e] /\ pc'[e] = pc[e]
    BY <1>5 DEF Select, Types, Threads, Ordered, InTurn
  <2>2. ToSet(<<>>) = {}
    BY DEF ToSet
  <2>3. InTurn(d)'
    BY <2>1, <2>2 DEF Ordered, InTurn
  <2>4. ASSUME NEW e \in Sessions \ {d} PROVE InTurn(e)'
    BY <2>1 DEF Ordered, InTurn
  <2> QED
    BY <2>1, <2>3, <2>4 DEF Ordered, Numbered
<1>6. ASSUME NEW d \in Sessions, SendRow(d) PROVE Ordered'
  <2> DEFINE m == Head(rows[d])
  <2>1. /\ UNCHANGED <<pending, disk, pc, sent, accepted>>
        /\ m \in Messages /\ ToSet(rows[d]) = {m} \cup ToSet(rows'[d])
        /\ rows'[d] = Tail(rows[d])
        /\ \A e \in Sessions \ {d} : rows'[e] = rows[e] /\ delivered'[e] = delivered[e]
        /\ \/ delivered'[d] = delivered[d]
           \/ /\ delivered'[d] = Append(delivered[d], m)
              /\ ToSet(delivered'[d]) = ToSet(delivered[d]) \cup {m}
    BY <1>6, SendDelivers, SMTT(30) DEF Types
  <2>2. rows[d] \in Seq(Messages) /\ delivered[d] \in Seq(Messages) /\ rows[d] # <<>> /\ pc[d] = "send"
    BY <1>6 DEF Types, SendRow
  <2>3. InTurn(d)
    BY DEF Ordered
  <2>4. /\ Sorted(rows'[d], accepted) /\ m \in ToSet(accepted)
        /\ \A b \in ToSet(rows'[d]) : Earlier(m, b, accepted)
    BY <2>1, <2>2, <2>3, SortedTail DEF InTurn
  <2>5. /\ Sorted(delivered'[d], accepted)
        /\ \A a \in ToSet(delivered'[d]), b \in ToSet(rows'[d]) : Earlier(a, b, accepted)
    <3>1. CASE delivered'[d] = delivered[d]
      BY <2>1, <2>3, <3>1 DEF InTurn
    <3>2. CASE /\ delivered'[d] = Append(delivered[d], m)
               /\ ToSet(delivered'[d]) = ToSet(delivered[d]) \cup {m}
      <4>1. \A a \in ToSet(delivered[d]) : Earlier(a, m, accepted)
        BY <2>1, <2>3 DEF InTurn
      <4>2. Sorted(Append(delivered[d], m), accepted)
        BY <2>1, <2>2, <2>3, <2>4, <4>1, SortedAppend DEF InTurn
      <4>3. \A a \in ToSet(delivered[d]), b \in ToSet(rows'[d]) : Earlier(a, b, accepted)
        BY <2>1, <2>3 DEF InTurn
      <4> QED
        BY <2>4, <3>2, <4>2, <4>3
    <3> QED
      BY <2>1, <3>1, <3>2
  <2> HIDE DEF m
  <2>6. InTurn(d)'
    BY <2>1, <2>2, <2>4, <2>5 DEF InTurn
  <2>7. ASSUME NEW e \in Sessions \ {d} PROVE InTurn(e)'
    BY <2>1 DEF Ordered, InTurn
  <2> QED
    BY <2>1, <2>6, <2>7 DEF Ordered, Numbered
<1>7. ASSUME NEW d \in Sessions, DeleteRow(d) PROVE Ordered'
  <2>1. /\ UNCHANGED <<accepted, sent, delivered, rows, pc>>
        /\ disk' = disk \/ disk'.pending = pending'
    BY <1>7 DEF DeleteRow
  <2>2. Sorted(pending', accepted)
    <3>1. CASE UNCHANGED pending
      BY <3>1 DEF Ordered
    <3>2. ASSUME NEW k \in DOMAIN pending, pending' = RemoveAt(pending, k)
          PROVE  Sorted(pending', accepted)
      BY <3>2, SortedRemove DEF Types, Ordered
    <3> QED
      BY <1>7, <3>1, <3>2 DEF DeleteRow
  <2>3. Sorted(disk'.pending, accepted)
    BY <2>1, <2>2 DEF Ordered
  <2>4. Numbered' /\ \A e \in Sessions : InTurn(e)'
    BY <2>1 DEF Ordered, Numbered, InTurn
  <2> QED
    BY <2>1, <2>2, <2>3, <2>4 DEF Ordered
<1>8. ASSUME Restart PROVE Ordered'
  <2>1. /\ UNCHANGED <<accepted, sent, delivered, disk>> /\ pending' = disk.pending
        /\ \A s \in Senders : pc'[s] = "idle"
        /\ \A d \in Sessions : rows'[d] = <<>> /\ (pc'[d] = pc[d] \/ pc'[d] = "gone")
    BY <1>8 DEF Restart, Types, Threads
  <2>2. ToSet(<<>>) = {}
    BY DEF ToSet
  <2>3. ASSUME NEW d \in Sessions PROVE InTurn(d)'
    BY <2>1, <2>2, EmptySorted DEF Ordered, InTurn
  <2>4. Numbered'
    BY <2>1 DEF Ordered, Numbered
  <2> QED
    BY <2>1, <2>3, <2>4 DEF Ordered
<1>9. ASSUME NEW e \in Editors, BeginImmediate(e) PROVE Ordered'
  <2>1. CASE ~open
    <3>1. /\ UNCHANGED <<accepted, sent, delivered, rows, pending, disk>>
          /\ \A t \in Senders \cup Sessions : pc'[t] = pc[t]
      BY <1>9, <2>1 DEF BeginImmediate, Types, Threads
    <3> QED
      BY <3>1, OrderedKept
  <2> QED
    BY <1>8, <1>9, <2>1 DEF BeginImmediate
<1>10. ASSUME NEW e \in Editors, CommitTransaction(e) PROVE Ordered'
  <2>1. /\ UNCHANGED <<accepted, sent, delivered, rows, pending>> /\ disk'.pending = pending'
        /\ \A t \in Senders \cup Sessions : pc'[t] = pc[t]
    BY <1>10 DEF CommitTransaction, Types, Threads
  <2> QED
    BY <2>1, OrderedKept
<1>11. CASE Crash
  BY <1>8, <1>11 DEF Crash
<1>12. CASE UNCHANGED vars
  BY <1>12, OrderedKept DEF vars
<1> QED
  BY <1>1, <1>2, <1>3, <1>4, <1>5, <1>6, <1>7, <1>9, <1>10, <1>11, <1>12 DEF Next

(* A login gets its messages in the order in which they were stored, also  *)
(* those of different senders and after a crash has taken some back.       *)
THEOREM DeliveredInOrder == Spec => []InOrder
<1>1. Init => Ordered
  <2> SUFFICES ASSUME Init PROVE Ordered
    OBVIOUS
  <2>1. /\ accepted = <<>> /\ pending = <<>> /\ disk.pending = <<>> /\ ToSet(<<>>) = {}
        /\ \A d \in Sessions : rows[d] = <<>> /\ delivered[d] = <<>>
    BY DEF Init, Database, ToSet
  <2> QED
    BY <2>1, EmptySorted DEF Ordered, Numbered, InTurn
<1>2. Types /\ Ordered /\ [Next]_vars => Ordered'
  BY OrderedStep
<1>3. Ordered => InOrder
  BY DEF Ordered, InTurn, Sorted, Earlier, InOrder
<1> QED
  BY <1>1, <1>2, <1>3, OfflineTyped, PTL DEF Spec

-----------------------------------------------------------------------------
(* Until a crash, what a login has sent and what is still in the table is  *)
(* what it has noted for deletion; so whoever reads it as well does it     *)
(* while the first is delivering.                                          *)
Had(d) == ToSet(rows[d]) \cup ToSet(delivered[d])

Noted ==
  \A d \in Sessions :
    /\ rows[d] # <<>> => pc[d] = "send"
    /\ ids[d] # {} => pc[d] \in {"send", "delete"}
    /\ ToSet(delivered[d]) \cap ToSet(pending) \subseteq ids[d]

Apart == \A d, e \in Sessions : d # e => Had(d) \cap Had(e) \subseteq twice

Once == crashes = 0 => Noted /\ Apart

LEMMA OnceKept ==
  ASSUME Once, UNCHANGED <<crashes, delivered, ids, twice, rows>>,
         ToSet(pending') \subseteq ToSet(pending),
         \A d \in Sessions : \/ pc'[d] = pc[d]
                             \/ ids[d] = {} /\ rows[d] = <<>>
                             \/ pc[d] = "send" /\ pc'[d] = "delete" /\ rows[d] = <<>>
  PROVE  Once'
<1>1. Noted => Noted'
  BY DEF Noted
<1>2. Apart => Apart'
  BY DEF Apart, Had
<1> QED
  BY <1>1, <1>2 DEF Once

LEMMA OnceStep ==
  ASSUME Types, Ordered, Once, [Next]_vars
  PROVE  Once'
<1> USE ThreadsAssumption DEF dbVars, threadVars, faultVars, historyVars, Goto
<1>1. ASSUME NEW s \in Senders, Count(s) \/ FindToken(s) \/ MintToken(s) PROVE Once'
  <2>1. /\ UNCHANGED <<crashes, delivered, ids, twice, rows, pending>>
        /\ \A d \in Sessions : pc'[d] = pc[d]
    BY <1>1 DEF Count, FindToken, MintToken, Types, Threads
  <2> QED
    BY <2>1, OnceKept
<1>2. ASSUME NEW s \in Senders, Store(s) PROVE Once'
  <2> DEFINE m == <<s, sent[s]>>
  <2>1. m \notin ToSet(accepted) /\ ToSet(pending') = ToSet(pending) \cup {m}
    BY <1>2, StoreAppends, StoreIsNew DEF Ordered
  <2>2. /\ UNCHANGED <<crashes, delivered, ids, twice, rows>>
        /\ \A d \in Sessions : pc'[d] = pc[d]
    BY <1>2 DEF Store, Types, Threads
  <2> HIDE DEF m
  <2>3. \A d \in Sessions : m \notin ToSet(delivered[d])
    BY <2>1 DEF Ordered, InTurn, Sorted
  <2>4. Noted => Noted'
    BY <2>1, <2>2, <2>3 DEF Noted
  <2>5. Apart => Apart'
    BY <2>2 DEF Apart, Had
  <2> QED
    BY <2>2, <2>4, <2>5 DEF Once
<1>3. ASSUME NEW d \in Sessions, Login(d) \/ EndSend(d) \/ EndDelete(d) PROVE Once'
  <2> SUFFICES ASSUME crashes = 0, Noted PROVE Once'
    BY <1>3 DEF Login, EndSend, EndDelete, Once
  <2>1. /\ UNCHANGED <<crashes, delivered, ids, twice, rows, pending>>
        /\ \A e \in Sessions \ {d} : pc'[e] = pc[e]
        /\ \/ pc[d] = "idle" \/ (pc[d] = "delete" /\ ids[d] = {})
           \/ pc[d] = "send" /\ pc'[d] = "delete" /\ rows[d] = <<>>
    BY <1>3 DEF Login, EndSend, EndDelete, Types, Threads
  <2>2. \/ ids[d] = {} /\ rows[d] = <<>>
        \/ pc[d] = "send" /\ pc'[d] = "delete" /\ rows[d] = <<>>
    BY <2>1 DEF Noted
  <2> QED
    BY <2>1, <2>2, OnceKept
<1>4. ASSUME NEW d \in Sessions, EndDelivery(d) PROVE Once'
  <2> SUFFICES ASSUME crashes = 0, Noted PROVE Once'
    BY <1>4 DEF EndDelivery, Once
  <2>1. /\ UNCHANGED <<crashes, delivered, ids, twice, rows, pending>>
        /\ \A e \in Sessions \ {d} : pc'[e] = pc[e]
        /\ pc[d] = "commit"
    BY <1>4 DEF EndDelivery, Types, Threads
  <2>2. ids[d] = {} /\ rows[d] = <<>>
    BY <2>1 DEF Noted
  <2> QED
    BY <2>1, <2>2, OnceKept
<1>5. ASSUME NEW d \in Sessions, Select(d) PROVE Once'
  <2> SUFFICES ASSUME crashes = 0, Noted, Apart PROVE Noted' /\ Apart'
    BY <1>5 DEF Select, Once
  <2>1. /\ UNCHANGED <<delivered, ids, pending>>
        /\ pc[d] = "select" /\ pc'[d] = "send" /\ rows'[d] = pending /\ delivered[d] = <<>>
        /\ \A e \in Sessions \ {d} : pc'[e] = pc[e] /\ rows'[e] = rows[e]
        /\ twice' = twice \cup (ToSet(pending) \cap BeingDelivered)
    BY <1>5 DEF Select, Types, Threads, Ordered, InTurn
  <2>2. ToSet(<<>>) = {}
    BY DEF ToSet
  <2>3. Noted'
    BY <2>1, <2>2 DEF Noted
  <2>4. ASSUME NEW e \in Sessions \ {d}
        PROVE  ToSet(pending) \cap Had(e) \subseteq twice'
    <3> SUFFICES ASSUME NEW m \in ToSet(pending), m \in Had(e) PROVE m \in BeingDelivered
      BY <2>1
    <3>1. Delivering(e)
      <4>1. CASE m \in ToSet(rows[e])
        <5>1. rows[e] # <<>>
          BY <2>2, <4>1
        <5> QED
          BY <5>1 DEF Noted, Delivering
      <4>2. CASE m \in ToSet(delivered[e])
        <5>1. m \in ids[e]
          BY <4>2 DEF Noted
        <5> QED
          BY <5>1 DEF Noted, Delivering
      <4> QED
        BY <4>1, <4>2 DEF Had
    <3> QED
      BY <3>1 DEF BeingDelivered, Had
  <2>5. Had(d)' = ToSet(pending) /\ \A e \in Sessions \ {d} : Had(e)' = Had(e)
    BY <2>1, <2>2 DEF Had
  <2>6. Apart'
    <3> SUFFICES ASSUME NEW a \in Sessions, NEW b \in Sessions, a # b
                 PROVE  Had(a)' \cap Had(b)' \subseteq twice'
      BY DEF Apart
    <3>1. CASE a = d
      BY <2>4, <2>5, <3>1
    <3>2. CASE b = d
      BY <2>4, <2>5, <3>2
    <3>3. CASE a # d /\ b # d
      BY <2>1, <2>5, <3>3 DEF Apart
    <3> QED
      BY <3>1, <3>2, <3>3
  <2> QED
    BY <2>3, <2>6
<1>6. ASSUME NEW d \in Sessions, SendRow(d) PROVE Once'
  <2> SUFFICES ASSUME crashes = 0, Noted, Apart PROVE Noted' /\ Apart'
    BY <1>6, SendDelivers DEF Once
  <2> DEFINE m == Head(rows[d])
  <2>1. /\ UNCHANGED <<pending, pc, twice>>
        /\ ToSet(rows[d]) = {m} \cup ToSet(rows'[d])
        /\ ids'[d] = ids[d] \cup {m} /\ pc[d] = "send"
        /\ \A e \in Sessions \ {d} : /\ rows'[e] = rows[e] /\ ids'[e] = ids[e]
                                     /\ delivered'[e] = delivered[e]
        /\ \/ delivered'[d] = delivered[d]
           \/ ToSet(delivered'[d]) = ToSet(delivered[d]) \cup {m}
    <3>1. rows \in [Sessions -> Seq(Messages)] /\ ids \in [Sessions -> SUBSET Messages]
      BY DEF Types
    <3>0. delivered \in [Sessions -> Seq(Messages)]
      BY DEF Types
    <3>2. UNCHANGED <<pending, pc, twice>> /\ pc[d] = "send"
      BY <1>6 DEF SendRow
    <3>3. ids'[d] = ids[d] \cup {m}
      BY <1>6, <3>1 DEF SendRow
    <3>4. \A e \in Sessions \ {d} : rows'[e] = rows[e] /\ ids'[e] = ids[e]
      BY <1>6, <3>1 DEF SendRow
    <3>5. ToSet(rows[d]) = {m} \cup ToSet(rows'[d])
      BY <1>6, SendDelivers
    <3>6. CASE delivered' = delivered
      BY <3>2, <3>3, <3>4, <3>5, <3>6
    <3>7. CASE /\ delivered' = [delivered EXCEPT ![d] = Append(delivered[d], m)]
               /\ ToSet(delivered'[d]) = ToSet(delivered[d]) \cup {m}
      <4>1. \A e \in Sessions \ {d} : delivered'[e] = delivered[e]
        BY <3>0, <3>7
      <4> QED
        BY <3>2, <3>3, <3>4, <3>5, <3>7, <4>1
    <3> QED
      BY <1>6, <3>6, <3>7, SendDelivers
  <2> HIDE DEF m
  <2>2. Noted'
    BY <2>1 DEF Noted
  <2>3. Had(d)' \subseteq Had(d) /\ \A e \in Sessions \ {d} : Had(e)' = Had(e)
    BY <2>1 DEF Had
  <2>4. Apart'
    <3> SUFFICES ASSUME NEW a \in Sessions, NEW b \in Sessions, a # b
                 PROVE  Had(a)' \cap Had(b)' \subseteq twice'
      BY DEF Apart
    <3>1. Had(a)' \subseteq Had(a) /\ Had(b)' \subseteq Had(b)
      BY <2>3
    <3> QED
      BY <2>1, <3>1 DEF Apart
  <2> QED
    BY <2>2, <2>4
<1>7. ASSUME NEW d \in Sessions, DeleteRow(d) PROVE Once'
  <2> SUFFICES ASSUME crashes = 0, Noted, Apart PROVE Noted' /\ Apart'
    BY <1>7 DEF DeleteRow, Once
  <2>1. PICK m \in ids[d] :
          /\ \/ m \notin ToSet(pending) /\ UNCHANGED pending
             \/ \E k \in DOMAIN pending : pending[k] = m /\ pending' = RemoveAt(pending, k)
          /\ ids' = [ids EXCEPT ![d] = @ \ {m}]
          /\ UNCHANGED <<pc, rows, delivered, twice>>
    BY <1>7 DEF DeleteRow
  <2>2. ToSet(pending') = ToSet(pending) \ {m}
    BY <2>1, SortedRemove DEF Types, Ordered
  <2>3. ids'[d] = ids[d] \ {m} /\ \A e \in Sessions \ {d} : ids'[e] = ids[e]
    BY <2>1 DEF Types
  <2>4. Noted'
    BY <2>1, <2>2, <2>3 DEF Noted
  <2>5. Apart'
    BY <2>1 DEF Apart, Had
  <2> QED
    BY <2>4, <2>5
<1>8. ASSUME crashes' = crashes + 1 PROVE Once'
  <2>1. crashes' # 0
    BY <1>8 DEF Types
  <2> QED
    BY <2>1 DEF Once
<1>9. ASSUME NEW e \in Editors, BeginImmediate(e) PROVE Once'
  <2>1. CASE ~open
    <3>1. /\ UNCHANGED <<crashes, delivered, ids, twice, rows, pending>>
          /\ \A d \in Sessions : pc'[d] = pc[d]
      BY <1>9, <2>1 DEF BeginImmediate, Types, Threads
    <3> QED
      BY <3>1, OnceKept
  <2> QED
    BY <1>8, <1>9, <2>1 DEF BeginImmediate
<1>10. ASSUME NEW e \in Editors, CommitTransaction(e) PROVE Once'
  <2>1. /\ UNCHANGED <<crashes, delivered, ids, twice, rows, pending>>
        /\ \A d \in Sessions : pc'[d] = pc[d]
    BY <1>10 DEF CommitTransaction, Types, Threads
  <2> QED
    BY <2>1, OnceKept
<1>11. CASE Crash
  BY <1>8, <1>11 DEF Crash
<1>12. CASE UNCHANGED vars
  BY <1>12, OnceKept DEF vars
<1> QED
  BY <1>1, <1>2, <1>3, <1>4, <1>5, <1>6, <1>7, <1>9, <1>10, <1>11, <1>12 DEF Next

(* Two logins get the same message only if both had it in hand at once, or *)
(* a crash took back its deletion: a row that was read is sent and deleted *)
(* by whoever read it before the delivery is over.                         *)
THEOREM DeliveredOnlyOnce == Spec => []DeliveredOnce
<1>1. Init => Ordered /\ Once
  <2> SUFFICES ASSUME Init PROVE Ordered /\ Once
    OBVIOUS
  <2>1. /\ accepted = <<>> /\ pending = <<>> /\ disk.pending = <<>> /\ ToSet(<<>>) = {}
        /\ \A d \in Sessions : rows[d] = <<>> /\ delivered[d] = <<>> /\ ids[d] = {}
    BY DEF Init, Database, ToSet
  <2> QED
    BY <2>1, EmptySorted DEF Ordered, Numbered, InTurn, Once, Noted, Apart, Had
<1>2. Types /\ Ordered /\ Once /\ [Next]_vars => Ordered' /\ Once'
  BY OrderedStep, OnceStep
<1>3. Once => DeliveredOnce
  BY DEF Once, Apart, Had, DeliveredOnce
<1> QED
  BY <1>1, <1>2, <1>3, OfflineTyped, PTL DEF Spec
====
