---- MODULE Slots ----
(***************************************************************************)
(* What the transfer queue promises ("Maximum number of downloads across   *)
(* all clients", "... per client", wired.conf.5): a transfer waits, is     *)
(* given one of a limited number of slots, moves its data only while it    *)
(* has it, and gives it back once.  The limits may change at any time; a   *)
(* slot is given by those in force.                                        *)
(***************************************************************************)
EXTENDS Integers, FiniteSets

CONSTANTS Users, KeyOf, Types, AccountLimit, TotalChoices

VARIABLES
  type,   \* the type of each user's transfer, None if it has none
  phase,  \* whether it waits, has a slot, moves data with it or has given it back
  total   \* how many slots of each type there are, 0 is no limit

vars == <<type, phase, total>>

None == "none"

Init ==
  /\ type = [u \in Users |-> None]
  /\ phase = [u \in Users |-> None]
  /\ total \in TotalChoices

Holders(t) == {u \in Users : type[u] = t /\ phase[u] \in {"granted", "moving"}}

Free(t, k) ==
  /\ total[t] > 0 => Cardinality(Holders(t)) < total[t]
  /\ AccountLimit[t][k] > 0 =>
       Cardinality({u \in Holders(t) : KeyOf[u] = k}) < AccountLimit[t][k]

Turns(u, from, to) ==
  /\ phase[u] = from
  /\ phase' = [phase EXCEPT ![u] = to]
  /\ UNCHANGED <<type, total>>

Ask(u, t) ==
  /\ phase[u] = None
  /\ type' = [type EXCEPT ![u] = t]
  /\ phase' = [phase EXCEPT ![u] = "waiting"]
  /\ UNCHANGED total

Grant(u)    == Turns(u, "waiting", "granted") /\ Free(type[u], KeyOf[u])
Move(u)     == Turns(u, "granted", "moving")
Stop(u)     == Turns(u, "moving", "granted")
GiveBack(u) == Turns(u, "granted", "returned")

(* Without a slot: it was given back, or none was ever given. *)
Leave(u) ==
  /\ phase[u] \in {"waiting", "returned"}
  /\ type' = [type EXCEPT ![u] = None]
  /\ phase' = [phase EXCEPT ![u] = None]
  /\ UNCHANGED total

Configure == total' \in TotalChoices \ {total} /\ UNCHANGED <<type, phase>>

Next ==
  \/ \E u \in Users :
       /\ phase'[u] # phase[u]
       /\ \/ \E t \in Types : Ask(u, t)
          \/ Grant(u) \/ Move(u) \/ Stop(u) \/ GiveBack(u) \/ Leave(u)
  \/ Configure

Spec == Init /\ [][Next]_vars
====
