---- MODULE MCIndex ----
(* Instances of Index for TLC. *)
EXTENDS Index, TLC

CONSTANTS f, g, x, h1, h2, i1, i2

(* Two files or directories and a file that may be in either. *)
Paths == {<<f>>, <<g>>, <<f, x>>, <<g, x>>}

(* Nothing, an empty directory, a directory with the file. *)
FewTrees == {{}, {<<f>>}, {<<f>>, <<f, x>>}}

Events(n) == [e \in EventKinds |-> n]

(* Two changes; a change with a search, a crash, a walk that is denied or  *)
(* the script; the script with a signal.                                   *)
FewEvents == {[Events(0) EXCEPT !["change"] = 2],
              [Events(0) EXCEPT !["change"] = 1, !["search"] = 1],
              [Events(0) EXCEPT !["change"] = 1, !["crash"] = 1],
              [Events(0) EXCEPT !["change"] = 1, !["deny"] = 1],
              [Events(0) EXCEPT !["change"] = 1, !["rebuild"] = 1],
              [Events(0) EXCEPT !["signal"] = 1, !["rebuild"] = 1]}
====
