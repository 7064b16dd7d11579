---- MODULE MCTrackers ----
(* Small instances of Trackers for TLC. *)
EXTENDS Trackers, TLC

CONSTANT s1
====
