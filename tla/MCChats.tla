---- MODULE MCChats ----
(* Instances of Chats for TLC: what each client asks for. *)
EXTENDS Chats, TLC

CONSTANTS a, b, c, p

(* Two members change and fall idle; one of them transfers files, and is   *)
(* disconnected when that fails.                                           *)
StatusRequests == a :> {"status", "idle", "away"}
                  @@ b :> {"other", "away", "transfer"} @@ c :> {}

(* Two members leave, and one of them transfers files and may be           *)
(* disconnected, while a third user comes and goes.                        *)
PublicRequests == a :> {"leave"} @@ b :> {"leave", "transfer"}
                  @@ c :> {"join", "leave"}

(* Private chats are created, joined, left, and members are kicked from them. *)
PrivateRequests ==
  a :> {"create", "join", "leave", "invite", "kick"}
  @@ b :> {"join", "leave", "invite", "decline", "disconnect"} @@ c :> {}

MemberScenarios == {StatusRequests, PublicRequests, PrivateRequests}

(* What clients were told has no effect on the server, and with kicks no   *)
(* invariant depends on it either.                                         *)
View == <<requests, state, status, idle, lockVars, chatVars, pc, threadVars,
          IF Calm THEN clientVars ELSE <<>>>>

(* Two members set their status at the same time. *)
DeadlockScenarios == {a :> {"status"} @@ b :> {"status"}}
====
