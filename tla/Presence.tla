---- MODULE Presence ----
(***************************************************************************)
(* What the listener and the login promise: a bounded number of clients is *)
(* connected at a time, a client is online from its login until its        *)
(* connection ends, and `number of online users' (the status file,         *)
(* man/wired.8) counts those that are.                                     *)
(***************************************************************************)
EXTENDS Integers

CONSTANTS Users, Limit

VARIABLES
  connected,  \* who holds one of the Limit places
  online,     \* who is logged in
  places,     \* how many places are taken
  count       \* the published number of online users

vars == <<connected, online, places, count>>

Init == connected = {} /\ online = {} /\ places = 0 /\ count = 0

Connect(u) ==
  /\ u \notin connected /\ places < Limit
  /\ connected' = connected \cup {u}
  /\ places' = places + 1
  /\ UNCHANGED <<online, count>>

LogIn(u) ==
  /\ u \in connected \ online
  /\ online' = online \cup {u}
  /\ count' = count + 1
  /\ UNCHANGED <<connected, places>>

LogOut(u) ==
  /\ u \in online
  /\ online' = online \ {u}
  /\ count' = count - 1
  /\ UNCHANGED <<connected, places>>

Close(u) ==
  /\ u \in connected \ online
  /\ connected' = connected \ {u}
  /\ places' = places - 1
  /\ UNCHANGED <<online, count>>

Next == \E u \in Users : Connect(u) \/ LogIn(u) \/ LogOut(u) \/ Close(u)

Spec == Init /\ [][Next]_vars
====
