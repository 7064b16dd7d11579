---- MODULE SessionsProofs ----
(***************************************************************************)
(* Proofs about Sessions, for every set of users, administrators and       *)
(* accounts and every limit.  The places of the listener are counted       *)
(* whatever clients and administrators do; the online users are counted,   *)
(* and Presence is implemented, when nothing happens that makes the        *)
(* counter wrong (Countable); what administrators do reaches the sessions  *)
(* of clients that log in once (LogsInOnce).                               *)
(***************************************************************************)
EXTENDS Sessions, FiniteSetTheorems, TLAPS

(* TypeOK but for the range of the counter, which needs the rest. *)
Typed ==
  /\ listener \in Users \cup {None}
  /\ pending \in Int
  /\ wd_users \subseteq Users
  /\ wd_current_users \in Int
  /\ pc \in [Users -> {"off", "accept", "loop", "message", "info", "refuse", "account",
                       "set", "state", "count", "leave", "remove", "end"}]
  /\ state \in [Users -> States]
  /\ login \in [Users -> Logins \cup {None}]
  /\ account \in [Users -> Versions \cup {Null}]
  /\ read \in [Users -> Versions \cup {Null}]
  /\ accounts \in [Logins -> Versions \cup {Null}]
  /\ banlist \subseteq Users
  /\ job \in [Admins -> {"idle", "ban", "edit", "reload", "delete", "disconnect"}]
  /\ name \in [Admins -> Logins \cup {None}]
  /\ targets \in [Admins -> SUBSET Users]
  /\ stale \in [Admins -> SUBSET Users]
  /\ missed \subseteq Users

(* An administrator who edits or deletes has an account to do it to. *)
Named == \A a \in Admins : job[a] \in {"edit", "reload", "delete"} => name[a] \in Logins

(* A login that reads its account has a name. *)
Asking == \A u \in Users : pc[u] = "account" => login[u] \in Logins

Basic == up \in BOOLEAN /\ requests \in Scenarios /\ Typed /\ Named /\ Asking

-----------------------------------------------------------------------------
LEMMA BasicInit == Init => Basic
<1> SUFFICES ASSUME Init PROVE Basic
  OBVIOUS
<1>1. accounts \in [Logins -> Versions \cup {Null}]
  BY TablesAssumption DEF Init, Versions
<1> QED
  BY <1>1 DEF Init, Basic, Typed, Named, Asking, States, Versions, None

LEMMA TypedStep ==
  ASSUME Typed, Named, Asking, [Next]_vars
  PROVE  Typed'
<1> USE DEF userVars, dataVars, adminVars, connVars, Goto, Become, Aim
<1>1. ASSUME NEW u \in Users, Check(u) PROVE Typed'
  BY <1>1 DEF Typed, Check
<1>2. ASSUME NEW u \in Users, Start(u) PROVE Typed'
  BY <1>2 DEF Typed, Start
<1>3. ASSUME NEW u \in Users, Accept(u) PROVE Typed'
  BY <1>3 DEF Typed, Accept, States
<1>4. ASSUME NEW u \in Users, Take(u) PROVE Typed'
  BY <1>4 DEF Typed, Take
<1>5. ASSUME NEW u \in Users, Break(u) PROVE Typed'
  BY <1>5 DEF Typed, Break
<1>6. ASSUME NEW u \in Users, ClientInfo(u) PROVE Typed'
  BY <1>6 DEF Typed, ClientInfo
<1>7. ASSUME NEW u \in Users, SetClientInfo(u) PROVE Typed'
  BY <1>7 DEF Typed, SetClientInfo, States
<1>8. ASSUME NEW u \in Users, Other(u) PROVE Typed'
  BY <1>8 DEF Typed, Other
<1>9. ASSUME NEW u \in Users, NEW l \in Logins, SendLogin(u, l) PROVE Typed'
  BY <1>9 DEF Typed, SendLogin
<1>10. ASSUME NEW u \in Users, ReadAccount(u) PROVE Typed'
  BY <1>10 DEF Typed, ReadAccount, Asking
<1>11. ASSUME NEW u \in Users, Refuse(u) PROVE Typed'
  BY <1>11 DEF Typed, Refuse, States
<1>12. ASSUME NEW u \in Users, SetAccount(u) PROVE Typed'
  BY <1>12 DEF Typed, SetAccount
<1>13. ASSUME NEW u \in Users, SetLoggedIn(u) PROVE Typed'
  BY <1>13 DEF Typed, SetLoggedIn, States
<1>14. ASSUME NEW u \in Users, CountUser(u) PROVE Typed'
  BY <1>14 DEF Typed, CountUser
<1>15. ASSUME NEW u \in Users, Unwritable(u) PROVE Typed'
  BY <1>15 DEF Typed, Unwritable, States
<1>16. ASSUME NEW u \in Users, Leave(u) PROVE Typed'
  BY <1>16 DEF Typed, Leave, States
<1>17. ASSUME NEW u \in Users, RemoveUser(u) PROVE Typed'
  BY <1>17 DEF Typed, RemoveUser
<1>18. ASSUME NEW u \in Users, End(u) PROVE Typed'
  BY <1>18 DEF Typed, End, States
<1>19. ASSUME NEW a \in Admins, NEW u \in Users, NEW next \in {"ban", "disconnect"},
              FindPeer(a, u, next)
       PROVE  Typed'
  BY <1>19 DEF Typed, FindPeer
<1>20. ASSUME NEW a \in Admins, NEW u \in Users, AddBan(a, u) PROVE Typed'
  BY <1>20 DEF Typed, AddBan
<1>21. ASSUME NEW a \in Admins, NEW u \in Users, SetDisconnected(a, u) PROVE Typed'
  BY <1>21 DEF Typed, SetDisconnected, States
<1>22. ASSUME NEW a \in Admins, Finish(a) PROVE Typed'
  BY <1>22 DEF Typed, Finish
<1>23. ASSUME NEW a \in Admins, NEW l \in Logins, NEW flag \in BOOLEAN, FindUsers(a, l, flag)
       PROVE  Typed'
  BY <1>23 DEF Typed, FindUsers
<1>24. ASSUME NEW a \in Admins, DeleteUser(a) PROVE Typed'
  BY <1>24 DEF Typed, DeleteUser
<1>25. ASSUME NEW a \in Admins, NEW l \in Logins, FindAccount(a, l) PROVE Typed'
  BY <1>25 DEF Typed, FindAccount
<1>26. ASSUME NEW a \in Admins, NEW l \in Logins, EditUser(a, l) PROVE Typed'
  BY <1>26 DEF Typed, EditUser, Named, Versions, Null
<1>27. ASSUME NEW a \in Admins, NEW u \in Users, Reload(a, u) PROVE Typed'
  BY <1>27 DEF Typed, Reload, Named
<1>28. ASSUME NEW a \in Admins, NEW l \in Logins, FailToRename(a, l) PROVE Typed'
  BY <1>28 DEF Typed, FailToRename
<1>29. ASSUME NEW a \in Admins, NEW u \in Users, AddToBanlist(a, u) \/ DeleteBan(a, u)
       PROVE  Typed'
  BY <1>29 DEF Typed, AddToBanlist, DeleteBan
<1>30. CASE UNCHANGED vars
  BY <1>30 DEF Typed, vars
<1> QED
  BY <1>1, <1>2, <1>3, <1>4, <1>5, <1>6, <1>7, <1>8, <1>9, <1>10, <1>11, <1>12, <1>13, <1>14,
     <1>15, <1>16, <1>17, <1>18, <1>19, <1>20, <1>21, <1>22, <1>23, <1>24, <1>25, <1>26, <1>27,
     <1>28, <1>29, <1>30
  DEF Next, Client, Thread, Admin, AdminStep, DisconnectUser, BanUser

LEMMA NamedStep ==
  ASSUME Typed, Named, Asking, [Next]_vars
  PROVE  Named' /\ Asking'
<1> USE DEF userVars, dataVars, adminVars, connVars, Goto, Become, Aim
<1>1. ASSUME NEW u \in Users, NEW l \in Logins, SendLogin(u, l) PROVE Named' /\ Asking'
  BY <1>1 DEF Typed, Named, Asking, SendLogin
<1>2. ASSUME NEW u \in Users, \/ Check(u) \/ Start(u) \/ Take(u) \/ Break(u) \/ Unwritable(u)
                              \/ Accept(u) \/ ClientInfo(u) \/ SetClientInfo(u) \/ Other(u)
      PROVE  Named' /\ Asking'
  BY <1>2 DEF Typed, Named, Asking, Check, Start, Take, Break, Unwritable, Accept, ClientInfo,
              SetClientInfo, Other
<1>3. ASSUME NEW u \in Users, \/ ReadAccount(u) \/ Refuse(u) \/ SetAccount(u) \/ SetLoggedIn(u)
                              \/ CountUser(u) \/ Leave(u) \/ RemoveUser(u) \/ End(u)
      PROVE  Named' /\ Asking'
  BY <1>3 DEF Typed, Named, Asking, ReadAccount, Refuse, SetAccount, SetLoggedIn, CountUser,
              Leave, RemoveUser, End
<1>4. ASSUME NEW a \in Admins, NEW u \in Users, NEW next \in {"ban", "disconnect"},
             FindPeer(a, u, next)
      PROVE  Named' /\ Asking'
  BY <1>4 DEF Typed, Named, Asking, FindPeer
<1>5. ASSUME NEW a \in Admins, NEW u \in Users,
             \/ AddBan(a, u) \/ AddToBanlist(a, u) \/ DeleteBan(a, u)
             \/ SetDisconnected(a, u) \/ Reload(a, u)
      PROVE  Named' /\ Asking'
  BY <1>5 DEF Typed, Named, Asking, AddBan, AddToBanlist, DeleteBan, SetDisconnected, Reload
<1>6. ASSUME NEW a \in Admins, NEW l \in Logins, NEW flag \in BOOLEAN,
             FindUsers(a, l, flag) \/ FindAccount(a, l) \/ EditUser(a, l) \/ FailToRename(a, l)
      PROVE  Named' /\ Asking'
  BY <1>6 DEF Typed, Named, Asking, FindUsers, FindAccount, EditUser, FailToRename
<1>7. ASSUME NEW a \in Admins, DeleteUser(a) \/ Finish(a) PROVE Named' /\ Asking'
  BY <1>7 DEF Typed, Named, Asking, DeleteUser, Finish
<1>8. CASE UNCHANGED vars
  BY <1>8 DEF Named, Asking, vars
<1> QED
  BY <1>1, <1>2, <1>3, <1>4, <1>5, <1>6, <1>7, <1>8
  DEF Next, Client, Thread, Admin, AdminStep, DisconnectUser, BanUser

LEMMA BasicStep == Basic /\ [Next]_vars => Basic'
<1> SUFFICES ASSUME Basic, [Next]_vars PROVE Basic'
  OBVIOUS
<1>1. Typed' /\ Named' /\ Asking'
  BY TypedStep, NamedStep DEF Basic
<1>2. up' \in BOOLEAN /\ requests' \in Scenarios
  BY DEF Basic, Next, vars, DisconnectUser, BanUser, FindPeer
<1> QED
  BY <1>1, <1>2 DEF Basic

-----------------------------------------------------------------------------
(* Each thread of a connection holds a place, and so does the client that  *)
(* the listener is about to start one for.                                 *)
Places ==
  /\ pending = Cardinality(Threads) /\ pending <= Pending
  /\ listener # None => pc[listener] = "off" /\ pending < Pending

LEMMA ThreadsFinite == IsFiniteSet(Threads) /\ Cardinality(Threads) \in Nat
BY UsersAssumption, FS_Subset, FS_CardinalityType DEF Threads

(* What a step does to the set of connections. *)
LEMMA SameThreads ==
  ASSUME Typed, NEW u \in Users, pc[u] # "off",
         NEW label, label # "off", Goto(u, label)
  PROVE  Threads' = Threads /\ \A v \in Users : pc[v] = "off" <=> pc'[v] = "off"
BY DEF Typed, Threads, Goto

LEMMA PlacesStep ==
  ASSUME Typed, Places, [Next]_vars
  PROVE  Places'
<1> USE PendingAssumption, UsersAssumption DEF userVars, dataVars, adminVars, connVars, None
<1>1. ASSUME NEW u \in Users, Check(u) PROVE Places'
  BY <1>1, ThreadsFinite DEF Typed, Places, Threads, Check
<1>2. ASSUME NEW u \in Users, Start(u) PROVE Places'
  <2>1. CASE pending' = pending + 1 /\ Goto(u, "accept")
    <3>1. Threads' = Threads \cup {u} /\ u \notin Threads
      BY <1>2, <2>1 DEF Typed, Places, Threads, Start, Goto
    <3>2. Cardinality(Threads') = Cardinality(Threads) + 1
      BY <3>1, ThreadsFinite, FS_AddElement
    <3>3. listener' = None /\ pending < Pending
      BY <1>2 DEF Start, Places
    <3> QED
      BY <2>1, <3>2, <3>3, ThreadsFinite DEF Places
  <2>2. CASE UNCHANGED <<pending, pc>>
    BY <1>2, <2>2 DEF Places, Threads, Start
  <2> QED
    BY <1>2, <2>1, <2>2 DEF Start
<1>3. ASSUME NEW u \in Users, End(u) PROVE Places'
  <2>1. Threads' = Threads \ {u} /\ u \in Threads
    BY <1>3 DEF Typed, Threads, End, Goto
  <2>2. Cardinality(Threads') = Cardinality(Threads) - 1
    BY <2>1, ThreadsFinite, FS_RemoveElement
  <2>3. pending' = pending - 1 /\ listener' = listener
    BY <1>3 DEF End
  <2>4. listener # None => pc'[listener] = "off"
    BY <1>3 DEF Typed, Places, End, Goto
  <2> QED
    BY <2>2, <2>3, <2>4, ThreadsFinite DEF Places
<1>4. ASSUME UNCHANGED <<pending, listener>>, Threads' = Threads,
             \A v \in Users : pc[v] = "off" <=> pc'[v] = "off"
      PROVE  Places'
  BY <1>4 DEF Typed, Places
<1>5. ASSUME NEW u \in Users,
             Take(u) \/ Break(u) \/ Accept(u) \/ ClientInfo(u) \/ SetClientInfo(u) \/ Other(u)
      PROVE  Places'
  <2>1. pc[u] # "off" /\ UNCHANGED <<pending, listener>>
    BY <1>5 DEF Take, Break, Accept, ClientInfo, SetClientInfo, Other
  <2>2. PICK label \in {"message", "leave", "loop", "end", "info"} : Goto(u, label)
    BY <1>5 DEF Take, Break, Accept, ClientInfo, SetClientInfo, Other
  <2>3. label # "off"
    BY <2>2
  <2>4. Threads' = Threads /\ \A v \in Users : pc[v] = "off" <=> pc'[v] = "off"
    BY <2>1, <2>2, <2>3, SameThreads
  <2> QED
    BY <2>1, <2>4, <1>4
<1>6. ASSUME NEW u \in Users, \/ ReadAccount(u) \/ Refuse(u) \/ SetAccount(u) \/ SetLoggedIn(u)
                              \/ CountUser(u) \/ Leave(u) \/ RemoveUser(u)
                              \/ \E l \in Logins : SendLogin(u, l)
      PROVE  Places'
  <2>1. pc[u] # "off" /\ UNCHANGED <<pending, listener>>
    BY <1>6 DEF ReadAccount, Refuse, SetAccount, SetLoggedIn, CountUser, Leave, RemoveUser, SendLogin
  <2>2. PICK label \in {"refuse", "account", "set", "loop", "state", "count", "remove", "end"} :
           Goto(u, label)
    BY <1>6 DEF ReadAccount, Refuse, SetAccount, SetLoggedIn, CountUser, Leave, RemoveUser, SendLogin
  <2>3. label # "off"
    BY <2>2
  <2>4. Threads' = Threads /\ \A v \in Users : pc[v] = "off" <=> pc'[v] = "off"
    BY <2>1, <2>2, <2>3, SameThreads
  <2> QED
    BY <2>1, <2>4, <1>4
<1>7. ASSUME UNCHANGED <<pc, pending, listener>> PROVE Places'
  BY <1>7 DEF Places, Threads
<1>8. ASSUME NEW u \in Users, Unwritable(u) PROVE Places'
  BY <1>7, <1>8 DEF Unwritable
<1>9. ASSUME NEW a \in Admins, NEW u \in Users, NEW next \in {"ban", "disconnect"},
             \/ FindPeer(a, u, next) \/ AddBan(a, u) \/ AddToBanlist(a, u) \/ DeleteBan(a, u)
             \/ SetDisconnected(a, u) \/ Reload(a, u)
      PROVE  Places'
  BY <1>7, <1>9 DEF FindPeer, AddBan, AddToBanlist, DeleteBan, SetDisconnected, Reload
<1>10. ASSUME NEW a \in Admins, \/ DeleteUser(a) \/ Finish(a)
                                \/ \E l \in Logins : \/ FindAccount(a, l) \/ EditUser(a, l)
                                                     \/ FailToRename(a, l)
                                                     \/ \E flag \in BOOLEAN : FindUsers(a, l, flag)
       PROVE  Places'
  BY <1>7, <1>10 DEF FindUsers, FindAccount, DeleteUser, EditUser, FailToRename, Finish
<1>11. CASE UNCHANGED vars
  BY <1>7, <1>11 DEF vars
<1> QED
  BY <1>1, <1>2, <1>3, <1>5, <1>6, <1>8, <1>9, <1>10, <1>11
  DEF Next, Client, Thread, Admin, AdminStep, DisconnectUser, BanUser

LEMMA PlacesInit == Init => Places
<1> SUFFICES ASSUME Init PROVE Places
  OBVIOUS
<1>1. Threads = {} /\ pending = 0 /\ listener = None
  BY DEF Init, Threads
<1> QED
  BY <1>1, FS_EmptySet, PendingAssumption DEF Places

(* The places are counted, whatever happens to the sessions. *)
THEOREM Counted == Spec => [](Basic /\ Places)
<1>1. Init => Basic /\ Places
  BY BasicInit, PlacesInit
<1>2. Basic /\ Places /\ [Next]_vars => Basic' /\ Places'
  BY BasicStep, PlacesStep DEF Basic
<1> QED
  BY <1>1, <1>2, PTL DEF Spec

(* The variables keep their types; in particular the counter of the        *)
(* listener (_wd_pending_connections) stays between zero and its limit.    *)
THEOREM SessionsTyped == Spec => []TypeOK
<1>1. Basic /\ Places => TypeOK
  <2> SUFFICES ASSUME Basic, Places PROVE TypeOK
    OBVIOUS
  <2>1. pending \in 0..Pending
    BY ThreadsFinite, PendingAssumption DEF Basic, Typed, Places
  <2> QED
    BY <2>1 DEF Basic, Typed, TypeOK
<1> QED
  BY <1>1, Counted, PTL

-----------------------------------------------------------------------------
(* Nobody logs in twice, replies can be written until the login, and no    *)
(* account is deleted.                                                     *)
Countable == \A r \in Scenarios : r \cap {"again", "unwritable", "delete"} = {}

(* Where a connection is and what its user is like. *)
Stage(u) ==
  /\ pc[u] \in {"off", "accept"} => account[u] = Null
  /\ pc[u] \in {"off", "accept", "end"} => u \notin wd_users
  /\ pc[u] \in {"info", "refuse", "account", "set"} => account[u] = Null
  /\ pc[u] = "set" => read[u] # Null
  /\ pc[u] \in {"state", "count"} => account[u] # Null
  /\ account[u] = Null /\ pc[u] \notin {"off", "accept", "remove", "end"} =>
       state[u] \in {"CONNECTED", "GAVE_CLIENT_INFO"}
  /\ account[u] # Null /\ pc[u] # "state" => state[u] \in {"LOGGED_IN", "DISCONNECTED"}

Stages == \A u \in Users : Stage(u)

(* Only users that have logged in are disconnected or banned. *)
Aims ==
  \A a \in Admins :
    /\ job[a] # "delete"
    /\ job[a] \in {"ban", "disconnect"} => \A u \in targets[a] \ stale[a] : account[u] # Null

Staged == Basic /\ Places /\ Stages /\ Aims

LEMMA StagesStep ==
  ASSUME Countable, Basic, Places, Stages, Aims, [Next]_vars
  PROVE  Stages'
<1> USE DEF userVars, dataVars, adminVars, connVars, Goto, Become, Aim, Basic, Typed, Stages,
            Stage, Null, Versions
<1>0. "again" \notin requests /\ "unwritable" \notin requests /\ "delete" \notin requests
  BY DEF Countable
<1>1. ASSUME NEW u \in Users, Check(u) \/ Start(u) \/ Accept(u) PROVE Stages'
  <2>1. CASE Check(u)
    BY <2>1 DEF Check
  <2>2. CASE Start(u)
    BY <2>2, UsersAssumption DEF Start, Places
  <2>3. CASE Accept(u)
    BY <2>3 DEF Accept
  <2> QED
    BY <1>1, <2>1, <2>2, <2>3
<1>2. ASSUME NEW u \in Users, Take(u) \/ Break(u) PROVE Stages'
  BY <1>2 DEF Take, Break
<1>3. ASSUME NEW u \in Users, ClientInfo(u) \/ SetClientInfo(u) \/ Other(u) PROVE Stages'
  BY <1>3, <1>0 DEF ClientInfo, SetClientInfo, Other, MayHandle
<1>4. ASSUME NEW u \in Users, NEW l \in Logins, SendLogin(u, l) PROVE Stages'
  BY <1>4, <1>0 DEF SendLogin, MayHandle
<1>5. ASSUME NEW u \in Users, ReadAccount(u) PROVE Stages'
  BY <1>5 DEF ReadAccount, Asking
<1>6. ASSUME NEW u \in Users, Refuse(u) PROVE Stages'
  BY <1>6, <1>0 DEF Refuse
<1>7. ASSUME NEW u \in Users, SetAccount(u) PROVE Stages'
  BY <1>7 DEF SetAccount
<1>8. ASSUME NEW u \in Users, SetLoggedIn(u) PROVE Stages'
  BY <1>8 DEF SetLoggedIn
<1>9. ASSUME NEW u \in Users, CountUser(u) PROVE Stages'
  BY <1>9 DEF CountUser
<1>10. ASSUME NEW u \in Users, Unwritable(u) PROVE Stages'
  BY <1>10 DEF Unwritable
<1>11. ASSUME NEW u \in Users, Leave(u) PROVE Stages'
  BY <1>11 DEF Leave
<1>12. ASSUME NEW u \in Users, RemoveUser(u) PROVE Stages'
  BY <1>12 DEF RemoveUser
<1>13. ASSUME NEW u \in Users, End(u) PROVE Stages'
  BY <1>13 DEF End
<1>14. ASSUME NEW a \in Admins, NEW u \in Users, NEW next \in {"ban", "disconnect"},
              FindPeer(a, u, next)
       PROVE  Stages'
  BY <1>14 DEF FindPeer
<1>15. ASSUME NEW a \in Admins, NEW u \in Users,
              AddBan(a, u) \/ AddToBanlist(a, u) \/ DeleteBan(a, u)
       PROVE  Stages'
  BY <1>15 DEF AddBan, AddToBanlist, DeleteBan
<1>16. ASSUME NEW a \in Admins, NEW u \in Users, SetDisconnected(a, u) PROVE Stages'
  BY <1>16 DEF SetDisconnected, Aims
<1>17. ASSUME NEW a \in Admins, NEW u \in Users, Reload(a, u) PROVE Stages'
  BY <1>17 DEF Reload, Named
<1>18. ASSUME NEW a \in Admins, \/ DeleteUser(a) \/ Finish(a)
                                \/ \E l \in Logins : \/ FindAccount(a, l) \/ EditUser(a, l)
                                                     \/ FailToRename(a, l)
                                                     \/ \E flag \in BOOLEAN : FindUsers(a, l, flag)
       PROVE  Stages'
  BY <1>18 DEF DeleteUser, EditUser, FailToRename, Finish, FindAccount, FindUsers
<1>19. CASE UNCHANGED vars
  BY <1>19 DEF vars
<1> HIDE DEF Stages
<1> QED
  BY <1>1, <1>2, <1>3, <1>4, <1>5, <1>6, <1>7, <1>8, <1>9, <1>10, <1>11, <1>12, <1>13, <1>14,
     <1>15, <1>16, <1>17, <1>18, <1>19
  DEF Next, Client, Thread, Admin, AdminStep, DisconnectUser, BanUser

LEMMA AimsStep ==
  ASSUME Countable, Basic, Stages, Aims, [Next]_vars
  PROVE  Aims'
<1> USE DEF userVars, dataVars, adminVars, connVars, Goto, Become, Aim, Basic, Typed, Aims, Null
<1>0. "delete" \notin requests
  BY DEF Countable
<1>1. ASSUME UNCHANGED <<adminVars, account>> PROVE Aims'
  BY <1>1
<1>2. ASSUME NEW u \in Users, \/ Check(u) \/ Start(u) \/ Take(u) \/ Break(u) \/ Unwritable(u)
                              \/ Accept(u) \/ ClientInfo(u) \/ SetClientInfo(u) \/ Other(u)
                              \/ ReadAccount(u) \/ Refuse(u) \/ SetLoggedIn(u) \/ CountUser(u)
                              \/ Leave(u) \/ RemoveUser(u) \/ \E l \in Logins : SendLogin(u, l)
      PROVE  Aims'
  <2>1. UNCHANGED <<adminVars, account>>
    BY <1>2 DEF Check, Start, Take, Break, Unwritable, Accept, ClientInfo, SetClientInfo, Other,
                ReadAccount, Refuse, SetLoggedIn, CountUser, Leave, RemoveUser, SendLogin
  <2> QED
    BY <1>1, <2>1
<1>3. ASSUME NEW u \in Users, SetAccount(u) PROVE Aims'
  BY <1>3 DEF SetAccount, Stages, Stage
<1>4. ASSUME NEW u \in Users, End(u) PROVE Aims'
  BY <1>4 DEF End
<1>5. ASSUME NEW a \in Admins, NEW u \in Users, NEW next \in {"ban", "disconnect"},
             FindPeer(a, u, next)
      PROVE  Aims'
  BY <1>5 DEF FindPeer
<1>6. ASSUME NEW a \in Admins, NEW u \in Users,
             AddBan(a, u) \/ AddToBanlist(a, u) \/ DeleteBan(a, u)
      PROVE  Aims'
  BY <1>6 DEF AddBan, AddToBanlist, DeleteBan
<1>7. ASSUME NEW a \in Admins, NEW u \in Users, SetDisconnected(a, u) PROVE Aims'
  BY <1>7 DEF SetDisconnected
<1>8. ASSUME NEW a \in Admins, NEW u \in Users, Reload(a, u) PROVE Aims'
  BY <1>8 DEF Reload
<1>9. ASSUME NEW a \in Admins, \/ DeleteUser(a) \/ Finish(a)
                               \/ \E l \in Logins : \/ FindAccount(a, l) \/ EditUser(a, l)
                                                    \/ FailToRename(a, l)
                                                    \/ \E flag \in BOOLEAN : FindUsers(a, l, flag)
      PROVE  Aims'
  BY <1>9, <1>0 DEF DeleteUser, EditUser, FailToRename, Finish, FindAccount, FindUsers
<1>10. CASE UNCHANGED vars
  BY <1>1, <1>10 DEF vars
<1> HIDE DEF Aims
<1> QED
  BY <1>2, <1>3, <1>4, <1>5, <1>6, <1>7, <1>8, <1>9, <1>10
  DEF Next, Client, Thread, Admin, AdminStep, DisconnectUser, BanUser

(* A user is logged in or was disconnected exactly when it has its account *)
(* and has stored its state; only such users are ever disconnected.        *)
THEOREM UsersAreStaged == ASSUME Countable PROVE Spec => []Staged
<1>1. Init => Staged
  BY BasicInit, PlacesInit DEF Init, Staged, Stages, Stage, Aims, Null
<1>2. Staged /\ [Next]_vars => Staged'
  BY BasicStep, PlacesStep, StagesStep, AimsStep DEF Staged, Basic
<1> QED
  BY <1>1, <1>2, PTL DEF Spec

-----------------------------------------------------------------------------
(* Presence is implemented: every step connects, logs in, logs out or      *)
(* closes, or changes nothing that Presence knows of.                      *)

(* Steps that move a thread and leave everybody's account alone. *)
LEMMA MoveStutters ==
  ASSUME Staged, NEW u \in Users, pc[u] # "off",
         NEW label \in {"loop", "message", "info", "refuse", "account", "set", "leave", "remove",
                        "count", "end"},
         Goto(u, label), UNCHANGED <<account, pending, wd_current_users>>,
         \/ account[u] = Null
         \/ pc[u] \in {"loop", "message", "info", "refuse", "account", "set", "leave"} /\
            label \in {"loop", "message", "info", "refuse", "account", "set", "leave"}
         \/ pc[u] \in {"state", "count", "remove", "end"} /\ label \in {"count", "remove", "end"}
  PROVE  UNCHANGED P!vars
<1> USE DEF Staged, Basic, Typed, Goto
<1>1. Threads' = Threads
  BY DEF Threads
<1>2. Online' = Online
  BY DEF Online, LoggedIn
<1> QED
  BY <1>1, <1>2 DEF P!vars

(* Steps of administrators, and those that only change a state. *)
LEMMA RestStutters ==
  ASSUME UNCHANGED <<pc, pending, wd_current_users>>,
         \A u \in Users : account[u] = Null <=> account'[u] = Null
  PROVE  UNCHANGED P!vars
<1>1. Threads' = Threads
  BY DEF Threads
<1>2. Online' = Online
  BY DEF Online, LoggedIn
<1> QED
  BY <1>1, <1>2 DEF P!vars

LEMMA StepImplements ==
  ASSUME Countable, Staged, [Next]_vars
  PROVE  P!Next \/ UNCHANGED P!vars
<1> USE DEF userVars, dataVars, adminVars, connVars
<1>1. ASSUME NEW u \in Users, Check(u) PROVE UNCHANGED P!vars
  BY <1>1, RestStutters DEF Check
<1>2. ASSUME NEW u \in Users, Start(u) PROVE P!Connect(u) \/ UNCHANGED P!vars
  <2>1. CASE UNCHANGED <<pending, pc>>
    BY <1>2, <2>1, RestStutters DEF Start
  <2>2. CASE pending' = pending + 1 /\ Goto(u, "accept")
    <3>1. u \notin Threads /\ pending < Pending
      BY <1>2, UsersAssumption DEF Start, Staged, Places, Threads
    <3>2. Threads' = Threads \cup {u}
      BY <2>2 DEF Threads, Goto, Staged, Basic, Typed
    <3>3. Online' = Online
      <4>1. account[u] = Null /\ account' = account
        BY <1>2, UsersAssumption DEF Start, Staged, Places, Stages, Stage
      <4> QED
        BY <2>2, <4>1 DEF Online, LoggedIn, Goto, Staged, Basic, Typed
    <3>4. UNCHANGED wd_current_users
      BY <1>2 DEF Start
    <3> QED
      BY <2>2, <3>1, <3>2, <3>3, <3>4 DEF P!Connect
  <2> QED
    BY <1>2, <2>1, <2>2 DEF Start
<1>3. ASSUME NEW u \in Users, CountUser(u) PROVE P!LogIn(u)
  <2>1. u \in Threads \ Online
    BY <1>3 DEF CountUser, Threads, Online
  <2>2. Online' = Online \cup {u}
    BY <1>3 DEF CountUser, Online, LoggedIn, Goto, Staged, Stages, Stage, Basic, Typed
  <2>3. Threads' = Threads
    BY <1>3 DEF CountUser, Threads, Goto, Staged, Basic, Typed
  <2>4. wd_current_users' = wd_current_users + 1 /\ UNCHANGED pending
    BY <1>3 DEF CountUser
  <2> QED
    BY <2>1, <2>2, <2>3, <2>4 DEF P!LogIn
<1>4. ASSUME NEW u \in Users, Leave(u) PROVE P!LogOut(u) \/ UNCHANGED P!vars
  <2>1. Threads' = Threads
    BY <1>4 DEF Leave, Threads, Goto, Staged, Basic, Typed
  <2>2. CASE account[u] = Null
    <3>1. state[u] \in {"CONNECTED", "GAVE_CLIENT_INFO"}
      BY <1>4, <2>2 DEF Leave, Staged, Stages, Stage
    <3>2. UNCHANGED <<account, pending, wd_current_users>> /\ pc[u] = "leave" /\ Goto(u, "remove")
      BY <1>4, <3>1 DEF Leave
    <3> QED
      BY <2>2, <3>2, MoveStutters
  <2>3. CASE account[u] # Null
    <3>1. u \in Online
      BY <1>4, <2>3 DEF Leave, Online, LoggedIn
    <3>2. Online' = Online \ {u}
      BY <1>4 DEF Leave, Online, LoggedIn, Goto, Staged, Basic, Typed
    <3>3. state[u] \in {"LOGGED_IN", "DISCONNECTED"}
      BY <1>4, <2>3 DEF Leave, Staged, Stages, Stage
    <3>4. wd_current_users' = wd_current_users - 1 /\ UNCHANGED pending
      BY <1>4, <3>3 DEF Leave
    <3> QED
      BY <2>1, <3>1, <3>2, <3>4 DEF P!LogOut
  <2> QED
    BY <2>2, <2>3
<1>5. ASSUME NEW u \in Users, End(u) PROVE P!Close(u)
  <2>1. u \in Threads \ Online
    BY <1>5 DEF End, Threads, Online
  <2>2. Online' = Online
    BY <1>5 DEF End, Online, LoggedIn, Goto, Null, Staged, Basic, Typed
  <2>3. Threads' = Threads \ {u}
    BY <1>5 DEF End, Threads, Goto, Staged, Basic, Typed
  <2>4. pending' = pending - 1 /\ UNCHANGED wd_current_users
    BY <1>5 DEF End
  <2> QED
    BY <2>1, <2>2, <2>3, <2>4 DEF P!Close
<1>6. ASSUME NEW u \in Users, \/ Take(u) \/ Break(u) \/ ClientInfo(u) \/ SetClientInfo(u)
                              \/ Other(u) \/ \E l \in Logins : SendLogin(u, l)
      PROVE  UNCHANGED P!vars
  <2>1. PICK label \in {"loop", "message", "info", "refuse", "account", "leave"} : Goto(u, label)
    BY <1>6 DEF Take, Break, ClientInfo, SetClientInfo, Other, SendLogin
  <2>2. pc[u] \in {"loop", "message", "info"} /\ UNCHANGED <<account, pending, wd_current_users>>
    BY <1>6 DEF Take, Break, ClientInfo, SetClientInfo, Other, SendLogin
  <2> QED
    BY <2>1, <2>2, MoveStutters
<1>7. ASSUME NEW u \in Users, Accept(u) PROVE UNCHANGED P!vars
  <2>1. account[u] = Null /\ pc[u] # "off"
    BY <1>7 DEF Accept, Staged, Stages, Stage
  <2>2. PICK label \in {"loop", "end"} : Goto(u, label)
    BY <1>7 DEF Accept
  <2>3. UNCHANGED <<account, pending, wd_current_users>>
    BY <1>7 DEF Accept
  <2> QED
    BY <2>1, <2>2, <2>3, MoveStutters
<1>8. ASSUME NEW u \in Users, ReadAccount(u) \/ Refuse(u) PROVE UNCHANGED P!vars
  <2>1. PICK label \in {"set", "refuse", "loop"} : Goto(u, label)
    BY <1>8 DEF ReadAccount, Refuse
  <2>2. pc[u] \in {"account", "refuse"} /\ UNCHANGED <<account, pending, wd_current_users>>
    BY <1>8 DEF ReadAccount, Refuse
  <2> QED
    BY <2>1, <2>2, MoveStutters
<1>9. ASSUME NEW u \in Users, SetAccount(u) PROVE UNCHANGED P!vars
  <2>1. Threads' = Threads
    BY <1>9 DEF SetAccount, Threads, Goto, Staged, Basic, Typed
  <2>2. Online' = Online
    BY <1>9 DEF SetAccount, Online, LoggedIn, Goto, Staged, Stages, Stage, Basic, Typed
  <2> QED
    BY <1>9, <2>1, <2>2 DEF SetAccount, P!vars
<1>10. ASSUME NEW u \in Users, SetLoggedIn(u) \/ RemoveUser(u) PROVE UNCHANGED P!vars
  <2>1. PICK label \in {"count", "end"} : Goto(u, label)
    BY <1>10 DEF SetLoggedIn, RemoveUser
  <2>2. pc[u] \in {"state", "remove"} /\ UNCHANGED <<account, pending, wd_current_users>>
    BY <1>10 DEF SetLoggedIn, RemoveUser
  <2> QED
    BY <2>1, <2>2, MoveStutters
<1>11. ASSUME NEW u \in Users, Unwritable(u) PROVE UNCHANGED P!vars
  BY <1>11, RestStutters DEF Unwritable
<1>12. ASSUME NEW a \in Admins, NEW u \in Users, NEW next \in {"ban", "disconnect"},
              FindPeer(a, u, next)
       PROVE  UNCHANGED P!vars
  BY <1>12, RestStutters DEF FindPeer
<1>13. ASSUME NEW a \in Admins, NEW u \in Users,
              AddBan(a, u) \/ AddToBanlist(a, u) \/ DeleteBan(a, u) \/ SetDisconnected(a, u)
       PROVE  UNCHANGED P!vars
  BY <1>13, RestStutters DEF AddBan, AddToBanlist, DeleteBan, SetDisconnected
<1>14. ASSUME NEW a \in Admins, NEW u \in Users, Reload(a, u) PROVE UNCHANGED P!vars
  <2>1. \A v \in Users : account[v] = Null <=> account'[v] = Null
    BY <1>14 DEF Reload, Staged, Basic, Typed
  <2> QED
    BY <1>14, <2>1, RestStutters DEF Reload
<1>15. ASSUME NEW a \in Admins, \/ DeleteUser(a) \/ Finish(a)
                                \/ \E l \in Logins : \/ FindAccount(a, l) \/ EditUser(a, l)
                                                     \/ FailToRename(a, l)
                                                     \/ \E flag \in BOOLEAN : FindUsers(a, l, flag)
       PROVE  UNCHANGED P!vars
  BY <1>15, RestStutters DEF DeleteUser, EditUser, FailToRename, Finish, FindAccount, FindUsers
<1>16. CASE UNCHANGED vars
  BY <1>16, RestStutters DEF vars
<1> QED
  BY <1>1, <1>2, <1>3, <1>4, <1>5, <1>6, <1>7, <1>8, <1>9, <1>10, <1>11, <1>12, <1>13, <1>14,
     <1>15, <1>16
  DEF Next, Client, Thread, Admin, AdminStep, DisconnectUser, BanUser, P!Next

(* The daemon implements Presence: the places of the listener and the      *)
(* published number of users follow the connections and the logins, in     *)
(* every scenario that does not make the counter wrong.                    *)
THEOREM PresenceImplemented == ASSUME Countable PROVE Spec => ImplementsPresence
<1>1. Init => P!Init
  <2> SUFFICES ASSUME Init PROVE P!Init
    OBVIOUS
  <2> QED
    BY DEF Init, P!Init, Threads, Online, LoggedIn
<1>2. Staged /\ [Next]_vars => [P!Next]_(P!vars)
  BY StepImplements
<1> QED
  BY <1>1, <1>2, UsersAreStaged, PTL DEF Spec, ImplementsPresence, P!Spec

(* What the steps of Presence keep true of the published numbers. *)
Published ==
  /\ Online \subseteq Threads /\ Threads \subseteq Users
  /\ wd_current_users = Cardinality(Online)
  /\ pending = Cardinality(Threads) /\ pending <= Pending

LEMMA PublishedStep ==
  ASSUME Published, P!Next \/ UNCHANGED P!vars
  PROVE  Published'
<1> USE PendingAssumption DEF Published
<1>0. /\ IsFiniteSet(Threads) /\ IsFiniteSet(Online)
      /\ Cardinality(Online) \in Nat /\ Cardinality(Threads) \in Nat
  BY UsersAssumption, FS_Subset, FS_CardinalityType
<1>1. ASSUME NEW u \in Users, P!Connect(u) PROVE Published'
  <2>1. Cardinality(Threads') = Cardinality(Threads) + 1
    BY <1>0, <1>1, FS_AddElement DEF P!Connect
  <2>2. Cardinality(Online') = Cardinality(Online)
    BY <1>1 DEF P!Connect
  <2> QED
    BY <1>0, <1>1, <2>1, <2>2 DEF P!Connect
<1>2. ASSUME NEW u \in Users, P!LogIn(u) PROVE Published'
  BY <1>0, <1>2, FS_AddElement DEF P!LogIn
<1>3. ASSUME NEW u \in Users, P!LogOut(u) PROVE Published'
  BY <1>0, <1>3, FS_RemoveElement DEF P!LogOut
<1>4. ASSUME NEW u \in Users, P!Close(u) PROVE Published'
  <2>1. Cardinality(Threads') = Cardinality(Threads) - 1
    BY <1>0, <1>4, FS_RemoveElement DEF P!Close
  <2>2. Cardinality(Online') = Cardinality(Online)
    BY <1>4 DEF P!Close
  <2> QED
    BY <1>0, <1>4, <2>1, <2>2 DEF P!Close
<1>5. CASE UNCHANGED P!vars
  BY <1>5 DEF P!vars
<1> QED
  BY <1>1, <1>2, <1>3, <1>4, <1>5 DEF P!Next

(* wd_current_users is the number of users that are online, and each of    *)
(* them has one of the places that the listener counts.                    *)
THEOREM UsersAreCounted == ASSUME Countable PROVE Spec => []Published
<1>1. Init => Published
  <2> SUFFICES ASSUME Init PROVE Published
    OBVIOUS
  <2>1. Threads = {} /\ Online = {} /\ pending = 0 /\ wd_current_users = 0
    BY DEF Init, Threads, Online, LoggedIn
  <2> QED
    BY <2>1, FS_EmptySet, PendingAssumption DEF Published
<1>2. Staged /\ Published /\ [Next]_vars => Published'
  BY StepImplements, PublishedStep
<1> QED
  BY <1>1, <1>2, UsersAreStaged, PTL DEF Spec

-----------------------------------------------------------------------------
(* Whatever is refused, cannot be written to, is disconnected, banned,     *)
(* edited or deleted by any number of administrators at once: clients log  *)
(* in once.                                                                *)
LogsInOnce == \A r \in Scenarios : "again" \notin r

(* A connection that takes messages, and one whose user has its account.   *)
Working(u)     == pc[u] \notin {"off", "accept", "remove", "end"}
HasLoggedIn(u) == account[u] # Null /\ Working(u)

(* Where the login of a connection is, whoever may disconnect it before it *)
(* has ended.                                                              *)
Phase(u) ==
  /\ read[u] # Null <=> pc[u] = "set"
  /\ pc[u] \in {"off", "accept", "info", "refuse", "account", "set"} => account[u] = Null
  /\ pc[u] \in {"state", "count"} => account[u] # Null
  /\ Working(u) => u \in wd_users
  /\ pc[u] = "set" \/ account[u] # Null => login[u] \in Logins
  /\ account[u] # Null /\ pc[u] # "state" => state[u] \in {"LOGGED_IN", "DISCONNECTED"}

Phases == \A u \in Users : Phase(u)

(* What the handlers of administrators have to visit. *)
Jobs ==
  \A a \in Admins :
    /\ job[a] \in {"idle", "edit"} => targets[a] = {} /\ stale[a] = {}
    /\ job[a] = "ban" => \A u \in targets[a] \ stale[a] : account[u] # Null

LEMMA PhasesStep ==
  ASSUME LogsInOnce, Basic, Places, Phases, [Next]_vars
  PROVE  Phases'
<1> USE DEF userVars, dataVars, adminVars, connVars, Goto, Become, Aim, Basic, Typed, Phases,
            Phase, Working, Null, Versions
<1>0. "again" \notin requests
  BY DEF LogsInOnce
<1>1. ASSUME NEW u \in Users, Check(u) PROVE Phases'
  BY <1>1 DEF Check
<1>2. ASSUME NEW u \in Users, Start(u) PROVE Phases'
  BY <1>2, UsersAssumption DEF Start, Places
<1>3. ASSUME NEW u \in Users, Accept(u) PROVE Phases'
  BY <1>3 DEF Accept
<1>4. ASSUME NEW u \in Users, Take(u) \/ Break(u) PROVE Phases'
  BY <1>4 DEF Take, Break
<1>5. ASSUME NEW u \in Users, ClientInfo(u) PROVE Phases'
  BY <1>5, <1>0 DEF ClientInfo, MayHandle
<1>6. ASSUME NEW u \in Users, SetClientInfo(u) \/ Other(u) PROVE Phases'
  BY <1>6 DEF SetClientInfo, Other
<1>7. ASSUME NEW u \in Users, NEW l \in Logins, SendLogin(u, l) PROVE Phases'
  BY <1>7, <1>0 DEF SendLogin, MayHandle
<1>8. ASSUME NEW u \in Users, ReadAccount(u) PROVE Phases'
  BY <1>8 DEF ReadAccount, Asking
<1>9. ASSUME NEW u \in Users, Refuse(u) PROVE Phases'
  BY <1>9 DEF Refuse
<1>10. ASSUME NEW u \in Users, SetAccount(u) PROVE Phases'
  BY <1>10 DEF SetAccount
<1>11. ASSUME NEW u \in Users, SetLoggedIn(u) PROVE Phases'
  BY <1>11 DEF SetLoggedIn
<1>12. ASSUME NEW u \in Users, CountUser(u) PROVE Phases'
  BY <1>12 DEF CountUser
<1>13. ASSUME NEW u \in Users, Unwritable(u) PROVE Phases'
  BY <1>13 DEF Unwritable
<1>14. ASSUME NEW u \in Users, Leave(u) PROVE Phases'
  BY <1>14 DEF Leave
<1>15. ASSUME NEW u \in Users, RemoveUser(u) PROVE Phases'
  BY <1>15 DEF RemoveUser
<1>16. ASSUME NEW u \in Users, End(u) PROVE Phases'
  BY <1>16 DEF End
<1>17. ASSUME NEW a \in Admins, NEW u \in Users, SetDisconnected(a, u) PROVE Phases'
  BY <1>17 DEF SetDisconnected
<1>18. ASSUME NEW a \in Admins, NEW u \in Users, Reload(a, u) PROVE Phases'
  BY <1>18 DEF Reload, Named
<1>19. ASSUME UNCHANGED userVars PROVE Phases'
  BY <1>19
<1>20. ASSUME NEW a \in Admins, NEW u \in Users, NEW next \in {"ban", "disconnect"},
              FindPeer(a, u, next) \/ AddBan(a, u) \/ AddToBanlist(a, u) \/ DeleteBan(a, u)
       PROVE  Phases'
  BY <1>19, <1>20 DEF FindPeer, AddBan, AddToBanlist, DeleteBan
<1>21. ASSUME NEW a \in Admins, \/ DeleteUser(a) \/ Finish(a)
                                \/ \E l \in Logins : \/ FindAccount(a, l) \/ EditUser(a, l)
                                                     \/ FailToRename(a, l)
                                                     \/ \E flag \in BOOLEAN : FindUsers(a, l, flag)
       PROVE  Phases'
  BY <1>19, <1>21 DEF DeleteUser, EditUser, FailToRename, Finish, FindAccount, FindUsers
<1>22. CASE UNCHANGED vars
  BY <1>19, <1>22 DEF vars
<1> HIDE DEF Phases
<1> QED
  BY <1>1, <1>2, <1>3, <1>4, <1>5, <1>6, <1>7, <1>8, <1>9, <1>10, <1>11, <1>12, <1>13, <1>14,
     <1>15, <1>16, <1>17, <1>18, <1>20, <1>21, <1>22
  DEF Next, Client, Thread, Admin, AdminStep, DisconnectUser, BanUser

LEMMA JobsStep ==
  ASSUME Basic, Phases, Jobs, [Next]_vars
  PROVE  Jobs'
<1> USE DEF userVars, dataVars, adminVars, connVars, Goto, Become, Aim, Basic, Typed, Jobs, Null
<1>1. ASSUME UNCHANGED <<adminVars, account>> PROVE Jobs'
  BY <1>1
<1>2. ASSUME NEW u \in Users, \/ Check(u) \/ Start(u) \/ Take(u) \/ Break(u) \/ Unwritable(u)
                              \/ Accept(u) \/ ClientInfo(u) \/ SetClientInfo(u) \/ Other(u)
                              \/ ReadAccount(u) \/ Refuse(u) \/ SetLoggedIn(u) \/ CountUser(u)
                              \/ Leave(u) \/ RemoveUser(u) \/ \E l \in Logins : SendLogin(u, l)
      PROVE  Jobs'
  <2>1. UNCHANGED <<adminVars, account>>
    BY <1>2 DEF Check, Start, Take, Break, Unwritable, Accept, ClientInfo, SetClientInfo, Other,
                ReadAccount, Refuse, SetLoggedIn, CountUser, Leave, RemoveUser, SendLogin
  <2> QED
    BY <1>1, <2>1
<1>3. ASSUME NEW u \in Users, SetAccount(u) PROVE Jobs'
  BY <1>3 DEF SetAccount, Phases, Phase
<1>4. ASSUME NEW u \in Users, End(u) PROVE Jobs'
  BY <1>4 DEF End
<1>5. ASSUME NEW a \in Admins, NEW u \in Users, NEW next \in {"ban", "disconnect"},
             FindPeer(a, u, next)
      PROVE  Jobs'
  BY <1>5 DEF FindPeer
<1>6. ASSUME NEW a \in Admins, NEW u \in Users,
             AddBan(a, u) \/ AddToBanlist(a, u) \/ DeleteBan(a, u)
      PROVE  Jobs'
  BY <1>6 DEF AddBan, AddToBanlist, DeleteBan
<1>7. ASSUME NEW a \in Admins, NEW u \in Users, SetDisconnected(a, u) PROVE Jobs'
  BY <1>7 DEF SetDisconnected
<1>8. ASSUME NEW a \in Admins, NEW u \in Users, Reload(a, u) PROVE Jobs'
  BY <1>8 DEF Reload, Named, Versions
<1>9. ASSUME NEW a \in Admins, \/ DeleteUser(a) \/ Finish(a)
                               \/ \E l \in Logins : \/ FindAccount(a, l) \/ EditUser(a, l)
                                                    \/ FailToRename(a, l)
                                                    \/ \E flag \in BOOLEAN : FindUsers(a, l, flag)
      PROVE  Jobs'
  BY <1>9 DEF DeleteUser, EditUser, FailToRename, Finish, FindAccount, FindUsers
<1>10. CASE UNCHANGED vars
  BY <1>1, <1>10 DEF vars
<1> HIDE DEF Jobs
<1> QED
  BY <1>2, <1>3, <1>4, <1>5, <1>6, <1>7, <1>8, <1>9, <1>10
  DEF Next, Client, Thread, Admin, AdminStep, DisconnectUser, BanUser

(* What a user lacks is on its way to it: an administrator that is at work *)
(* has it on its list, to reload its account or to disconnect it.          *)
WillReload(a, u) ==
  job[a] = "reload" /\ name[a] = login[u] /\ u \in targets[a] /\ accounts[login[u]] # Null
WillDisconnect(a, u) == job[a] = "disconnect" /\ u \in targets[a] \ stale[a]

Excused(u) ==
  \/ u \in missed
  \/ state[u] = "DISCONNECTED" /\ pc[u] \notin {"set", "state"}
  \/ \E a \in Admins : WillDisconnect(a, u)

(* A version of the account of a user that may be stored. *)
Current(u, version) ==
  version = accounts[login[u]] \/ Excused(u) \/ \E a \in Admins : WillReload(a, u)

Kept(u) ==
  /\ pc[u] = "set" => Current(u, read[u])
  /\ HasLoggedIn(u) => Current(u, account[u])
  /\ u \in banlist /\ pc[u] \in {"account", "set"} => u \in missed
  /\ u \in banlist /\ HasLoggedIn(u) => Excused(u)

AllKept == \A u \in Users : Kept(u)

(* A step of another thread. *)
LEMMA KeptStutter ==
  ASSUME NEW v \in Users, Kept(v), UNCHANGED <<dataVars, job, name, targets, missed>>,
         pc'[v] = pc[v], state'[v] = state[v], login'[v] = login[v], account'[v] = account[v],
         read'[v] = read[v], \A a \in Admins : v \in stale'[a] <=> v \in stale[a]
  PROVE  Kept(v)'
BY DEF Kept, Current, Excused, WillReload, WillDisconnect, HasLoggedIn, Working, dataVars

(* A step of the user's own thread or client. *)
LEMMA KeptOwnStep ==
  ASSUME LogsInOnce, Basic, Phases, NEW u \in Users, Kept(u), Client(u) \/ Thread(u),
         UNCHANGED requests
  PROVE  Kept(u)'
<1> USE DEF userVars, dataVars, adminVars, connVars, Goto, Basic, Typed, Phases, Phase,
            Kept, Current, Excused, WillReload, WillDisconnect, HasLoggedIn, Working, Null
<1>0. "again" \notin requests
  BY DEF LogsInOnce
<1>1. CASE Check(u) \/ Start(u) \/ Accept(u)
  BY <1>1 DEF Check, Start, Accept
<1>2. CASE Take(u) \/ Break(u) \/ Other(u)
  BY <1>2 DEF Take, Break, Other
<1>3. CASE ClientInfo(u) \/ SetClientInfo(u)
  BY <1>3 DEF ClientInfo, SetClientInfo
<1>4. ASSUME NEW l \in Logins, SendLogin(u, l) PROVE Kept(u)'
  BY <1>4, <1>0 DEF SendLogin, MayHandle
<1>5. CASE ReadAccount(u)
  BY <1>5 DEF ReadAccount, Asking
<1>6. CASE Refuse(u)
  BY <1>6 DEF Refuse
<1>7. CASE SetAccount(u)
  BY <1>7 DEF SetAccount
<1>8. CASE SetLoggedIn(u)
  BY <1>8 DEF SetLoggedIn
<1>9. CASE CountUser(u) \/ Unwritable(u)
  BY <1>9 DEF CountUser, Unwritable
<1>10. CASE Leave(u) \/ RemoveUser(u) \/ End(u)
  BY <1>10 DEF Leave, RemoveUser, End
<1> QED
  BY <1>1, <1>2, <1>3, <1>4, <1>5, <1>6, <1>7, <1>8, <1>9, <1>10 DEF Client, Thread

LEMMA KeptOtherStep ==
  ASSUME Basic, NEW u \in Users, NEW v \in Users \ {u}, Kept(v), Client(u) \/ Thread(u)
  PROVE  Kept(v)'
<1> USE DEF userVars, dataVars, adminVars, connVars, Goto, Basic, Typed
<1>1. CASE End(u)
  BY <1>1
  DEF End, Kept, Current, Excused, WillReload, WillDisconnect, HasLoggedIn, Working
<1>2. CASE Client(u)
  BY <1>2, KeptStutter DEF Client, Check, Start, Take, Break, Unwritable, SendLogin
<1>3. CASE Thread(u) /\ ~End(u)
  BY <1>3, KeptStutter
  DEF Thread, Accept, ClientInfo, SetClientInfo, Other, ReadAccount, Refuse, SetAccount,
      SetLoggedIn, CountUser, Leave, RemoveUser
<1> QED
  BY <1>1, <1>2, <1>3

(* An edit puts the users of its account on the list of those to reload;   *)
(* under a new name it misses them, and nobody has an account of that name *)
(* but who is missed already, will be reloaded or was disconnected.        *)
LEMMA KeptEditStep ==
  ASSUME Basic, Phases, Jobs, NEW a \in Admins, NEW v \in Users, Kept(v),
         NEW new_name \in Logins, EditUser(a, new_name)
  PROVE  Kept(v)'
<1> USE DEF userVars, connVars, Become, Aim, Basic, Typed, Phases, Phase, Kept, Current, Excused,
            WillReload, WillDisconnect, HasLoggedIn, Working, Null
<1> DEFINE old == name[a]
<1>1. /\ job' = [job EXCEPT ![a] = "reload"] /\ targets' = [targets EXCEPT ![a] = wd_users]
      /\ name' = [name EXCEPT ![a] = new_name]
      /\ old \in Logins /\ job[a] = "edit" /\ targets[a] = {} /\ stale[a] = {}
      /\ UNCHANGED <<userVars, banlist, stale>> /\ missed \subseteq missed'
  BY DEF EditUser, Named, Jobs
<1>2. Excused(v) => Excused(v)'
  BY <1>1
<1>3. ASSUME NEW version, login[v] \in Logins, Working(v), version # Null, Current(v, version),
             read[v] = version \/ account[v] = version
      PROVE  Current(v, version)'
  <2>1. CASE accounts[old] = Null \/ new_name = old
    <3>1. /\ accounts'[old] = IF accounts[old] = Null THEN Null ELSE accounts[old] + 1
          /\ \A k \in Logins \ {old} : accounts'[k] = accounts[k]
      BY <1>1, <2>1 DEF EditUser
    <3>2. \A k \in Logins : accounts[k] = Null <=> accounts'[k] = Null
      BY <1>1, <3>1 DEF Versions
    <3>3. ASSUME NEW b \in Admins, WillReload(b, v) PROVE WillReload(b, v)'
      BY <1>1, <1>3, <3>2, <3>3
    <3>4. CASE login[v] = old /\ accounts[old] # Null
      <4>1. WillReload(a, v)'
        BY <1>1, <1>3, <2>1, <3>2, <3>4
      <4> QED
        BY <4>1
    <3>5. CASE login[v] # old \/ accounts[old] = Null
      <4>1. accounts'[login[v]] = accounts[login[v]] /\ login' = login
        BY <1>1, <1>3, <3>1, <3>5
      <4> HIDE DEF WillReload, Excused
      <4> QED
        BY <1>2, <1>3, <3>3, <4>1
    <3> QED
      BY <3>4, <3>5
  <2>2. CASE accounts[old] # Null /\ new_name # old
    <3>1. /\ accounts[new_name] = Null
          /\ accounts' = [accounts EXCEPT ![old] = Null, ![new_name] = accounts[old] + 1]
          /\ missed' = missed \cup {u \in Users : login[u] = old /\ HasRead(u)}
      BY <2>2 DEF EditUser
    <3>2. CASE login[v] = old
      <4>1. v \in missed'
        BY <1>3, <3>1, <3>2 DEF HasRead
      <4> QED
        BY <4>1
    <3>3. CASE login[v] = new_name
      <4>1. ~\E b \in Admins : WillReload(b, v)
        BY <3>1, <3>3
      <4>2. Excused(v)
        BY <1>3, <3>1, <3>3, <4>1
      <4> QED
        BY <1>2, <4>2
    <3>4. CASE login[v] \notin {old, new_name}
      <4>1. accounts'[login[v]] = accounts[login[v]] /\ login' = login
        BY <1>1, <1>3, <3>1, <3>4
      <4>2. ASSUME NEW b \in Admins, WillReload(b, v) PROVE WillReload(b, v)'
        BY <1>1, <4>1, <4>2
      <4> HIDE DEF WillReload, Excused
      <4> QED
        BY <1>2, <1>3, <4>1, <4>2
    <3> QED
      BY <3>2, <3>3, <3>4
  <2> QED
    BY <2>1, <2>2
<1>4. pc' = pc /\ state' = state /\ login' = login /\ account' = account /\ read' = read
  BY <1>1
<1>5. (pc[v] = "set" => Current(v, read[v]))'
  <2> HIDE DEF Current
  <2> QED
    BY <1>3, <1>4
<1>6. (HasLoggedIn(v) => Current(v, account[v]))'
  <2> HIDE DEF Current
  <2> QED
    BY <1>3, <1>4
<1> QED
  BY <1>1, <1>2, <1>4, <1>5, <1>6

(* A step of an administrator. *)
LEMMA KeptAdminStep ==
  ASSUME Basic, Phases, Jobs, NEW a \in Admins, NEW v \in Users, Kept(v),
         \/ Admin(a)
         \/ \E peer \in Users : DisconnectUser(a, peer) \/ BanUser(a, peer)
  PROVE  Kept(v)'
<1> USE DEF userVars, dataVars, adminVars, connVars, Become, Aim, Basic, Typed, Phases, Phase,
            Kept, Current, Excused, WillReload, WillDisconnect, HasLoggedIn, Working, Null
<1>1. ASSUME NEW peer \in Users, NEW next \in {"ban", "disconnect"}, FindPeer(a, peer, next)
      PROVE  Kept(v)'
  BY <1>1 DEF FindPeer
<1>2. ASSUME NEW u \in Users, AddBan(a, u) PROVE Kept(v)'
  BY <1>2 DEF AddBan, Jobs
<1>3. ASSUME NEW u \in Users, SetDisconnected(a, u) PROVE Kept(v)'
  BY <1>3 DEF SetDisconnected
<1>4. CASE Finish(a)
  BY <1>4 DEF Finish
<1>5. ASSUME NEW l \in Logins, NEW flag \in BOOLEAN, FindUsers(a, l, flag) PROVE Kept(v)'
  BY <1>5 DEF FindUsers
<1>6. CASE DeleteUser(a)
  BY <1>6 DEF DeleteUser, HasRead, Named
<1>7. ASSUME NEW l \in Logins, FindAccount(a, l) PROVE Kept(v)'
  BY <1>7 DEF FindAccount
<1>8. ASSUME NEW l \in Logins, EditUser(a, l) PROVE Kept(v)'
  BY <1>8, KeptEditStep
<1>9. ASSUME NEW u \in Users, Reload(a, u) PROVE Kept(v)'
  BY <1>9 DEF Reload
<1>10. ASSUME NEW l \in Logins, FailToRename(a, l) PROVE Kept(v)'
  BY <1>10 DEF FailToRename
<1>11. ASSUME NEW u \in Users, AddToBanlist(a, u) PROVE Kept(v)'
  BY <1>11 DEF AddToBanlist, HasRead
<1>12. ASSUME NEW u \in Users, DeleteBan(a, u) PROVE Kept(v)'
  BY <1>12 DEF DeleteBan
<1> QED
  BY <1>1, <1>2, <1>3, <1>4, <1>5, <1>6, <1>7, <1>8, <1>9, <1>10, <1>11, <1>12
  DEF Admin, AdminStep, DisconnectUser, BanUser

LEMMA AllKeptStep ==
  ASSUME LogsInOnce, Basic, Phases, Jobs, AllKept, [Next]_vars
  PROVE  AllKept'
<1> SUFFICES ASSUME NEW v \in Users PROVE Kept(v)'
  BY DEF AllKept
<1>1. Kept(v)
  BY DEF AllKept
<1>2. ASSUME NEW u \in Users, Client(u) \/ Thread(u), UNCHANGED requests PROVE Kept(v)'
  BY <1>1, <1>2, KeptOwnStep, KeptOtherStep
<1>3. ASSUME NEW a \in Admins, Admin(a) PROVE Kept(v)'
  BY <1>1, <1>3, KeptAdminStep
<1>4. ASSUME NEW a \in Admins, NEW peer \in Users, DisconnectUser(a, peer) \/ BanUser(a, peer)
      PROVE  Kept(v)'
  BY <1>1, <1>4, KeptAdminStep
<1>5. CASE UNCHANGED vars
  BY <1>1, <1>5, KeptStutter DEF vars, userVars, adminVars
<1> QED
  BY <1>2, <1>3, <1>4, <1>5 DEF Next

Careful == Basic /\ Places /\ Phases /\ Jobs /\ AllKept

LEMMA SessionsAreCareful == ASSUME LogsInOnce PROVE Spec => []Careful
<1>1. Init => Careful
  BY BasicInit, PlacesInit
  DEF Init, Careful, Phases, Phase, Working, Jobs, AllKept, Kept, HasLoggedIn, Null
<1>2. Careful /\ [Next]_vars => Careful'
  BY BasicStep, PlacesStep, PhasesStep, JobsStep, AllKeptStep DEF Careful, Basic
<1> QED
  BY <1>1, <1>2, PTL DEF Spec

(* When no administrator is at work, who is logged in has its account as   *)
(* it is now and is not banned, but for sessions that were between reading *)
(* and storing, sessions of an account that was given a new name, and      *)
(* addresses that add_ban put on the banlist: however many administrators  *)
(* edit, delete, ban and disconnect at once, none undoes what another did. *)
THEOREM SessionsStayCurrent == ASSUME LogsInOnce PROVE Spec => []SessionsAreCurrent
<1>1. Careful => SessionsAreCurrent
  BY DEF Careful, SessionsAreCurrent, AllKept, Kept, Current, Excused, WillReload,
         WillDisconnect, HasLoggedIn, Working, Online, LoggedIn, Phases, Phase
<1> QED
  BY <1>1, SessionsAreCareful, PTL

-----------------------------------------------------------------------------
(* Once its login has ended, no step of a user's thread sets its state but *)
(* the last ones.                                                          *)
DisconnectStays ==
  \A u \in LoggedIn : state[u] = "DISCONNECTED" => state'[u] \in {"DISCONNECTED", "NONE"}

LEMMA DisconnectStep ==
  ASSUME Basic, Phases, [Next]_vars
  PROVE  DisconnectStays
<1> USE DEF userVars, dataVars, adminVars, connVars, DisconnectStays, LoggedIn, Basic, Typed
<1>1. ASSUME state' = state PROVE DisconnectStays
  BY <1>1
<1>2. ASSUME NEW u \in Users, Accept(u) \/ SetClientInfo(u) \/ SetLoggedIn(u)
      PROVE  DisconnectStays
  BY <1>2 DEF Accept, SetClientInfo, SetLoggedIn, Phases, Phase
<1>3. ASSUME NEW u \in Users, Refuse(u) \/ Unwritable(u) \/ Leave(u) \/ End(u)
      PROVE  DisconnectStays
  BY <1>3 DEF Refuse, Unwritable, Leave, End
<1>4. ASSUME NEW a \in Admins, NEW u \in Users, SetDisconnected(a, u) PROVE DisconnectStays
  BY <1>4 DEF SetDisconnected
<1>5. ASSUME NEW u \in Users, \/ Check(u) \/ Start(u) \/ Take(u) \/ Break(u) \/ ClientInfo(u)
                              \/ Other(u) \/ ReadAccount(u) \/ SetAccount(u) \/ CountUser(u)
                              \/ RemoveUser(u) \/ \E l \in Logins : SendLogin(u, l)
      PROVE  DisconnectStays
  BY <1>1, <1>5 DEF Check, Start, Take, Break, ClientInfo, Other, ReadAccount, SetAccount,
                    CountUser, RemoveUser, SendLogin
<1>6. ASSUME NEW a \in Admins, NEW u \in Users, NEW next \in {"ban", "disconnect"},
             \/ FindPeer(a, u, next) \/ AddBan(a, u) \/ AddToBanlist(a, u) \/ DeleteBan(a, u)
             \/ Reload(a, u)
      PROVE  DisconnectStays
  BY <1>1, <1>6 DEF FindPeer, AddBan, AddToBanlist, DeleteBan, Reload
<1>7. ASSUME NEW a \in Admins, \/ DeleteUser(a) \/ Finish(a)
                               \/ \E l \in Logins : \/ FindAccount(a, l) \/ EditUser(a, l)
                                                    \/ FailToRename(a, l)
                                                    \/ \E flag \in BOOLEAN : FindUsers(a, l, flag)
      PROVE  DisconnectStays
  BY <1>1, <1>7 DEF DeleteUser, EditUser, FailToRename, Finish, FindAccount, FindUsers
<1>8. CASE UNCHANGED vars
  BY <1>1, <1>8 DEF vars
<1> HIDE DEF DisconnectStays
<1> QED
  BY <1>2, <1>3, <1>4, <1>5, <1>6, <1>7, <1>8
  DEF Next, Client, Thread, Admin, AdminStep, DisconnectUser, BanUser

(* No login undoes what an administrator did, or a failed write, also      *)
(* when accounts are deleted and replies before the login cannot be        *)
(* written.                                                                *)
THEOREM DisconnectsAreFinal == ASSUME LogsInOnce PROVE Spec => DisconnectIsFinal
<1>1. Careful /\ [Next]_vars => [DisconnectStays]_vars
  BY DisconnectStep DEF Careful
<1> QED
  BY <1>1, SessionsAreCareful, PTL DEF Spec, DisconnectIsFinal, DisconnectStays
====
