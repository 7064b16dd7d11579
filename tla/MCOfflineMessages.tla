---- MODULE MCOfflineMessages ----
(* Instances of OfflineMessages for TLC. *)
EXTENDS OfflineMessages, TLC

CONSTANTS s1, s2, d1, d2, e1

Symmetry == Permutations({s1, s2}) \* the logins differ in Unreliable
====
