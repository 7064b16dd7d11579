---- MODULE MCSessions ----
(* Instances of Sessions for TLC. *)
EXTENDS Sessions, TLC

CONSTANTS ann, bob, eve, root, guest, other

(* What leaves the counter of online users right. *)
CountedRequests == {{"refused", "disconnect", "ban", "edit"}}

(* Edits and deletions; new names; bans; or clients that cannot be written *)
(* to.                                                                     *)
AdminRequests ==
  {{"edit", "delete"}, {"edit", "rename"}, {"ban", "banlist"}, {"unwritable", "refused"}}

(* A new name may be that of an account there is already. *)
OneAccount == [l \in Logins |-> IF l = guest THEN 0 ELSE Null]
AdminTables ==
  [r \in AdminRequests |-> {OneAccount} \cup IF "rename" \in r THEN {[l \in Logins |-> 0]} ELSE {}]
CountedTables == [r \in CountedRequests |-> {OneAccount}]

Symmetry == Permutations({ann, bob, eve})
====
