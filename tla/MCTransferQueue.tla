---- MODULE MCTransferQueue ----
(* Small instances of TransferQueue for TLC. *)
EXTENDS TransferQueue, TLC

CONSTANTS u1, u2, u3, k1, k2

(* u1 and u2 are two connections of one client, u3 is another client. *)
MCKeyOf == [u \in Users |-> IF u \in {u1, u2} THEN k1 ELSE k2]

(* Each client may run one transfer of a type, or as many as it likes; one *)
(* or two may run in all.                                                  *)
MCAccountLimit == [t \in Types |-> [k \in Keys |-> 1]]
NoAccountLimit == [t \in Types |-> [k \in Keys |-> 0]]
OneSlot == {[t \in Types |-> 1]}
OneOrTwoSlots == {[t \in Types |-> n] : n \in {1, 2}}
Sym == Permutations({u1, u2})
====
