----------------------------- MODULE MCCommands -----------------------------
(* Four addresses in a loop: a line with a branch, an entry point, a       *)
(* return address; two or three threads.                                   *)
EXTENDS Commands, TLC

CONSTANTS a1, a2, a3, entry, t1, t2

Identity == [a \in Address |-> a]
LoopFlow == (a1 :> {a2}) @@ (a2 :> {a1, a3}) @@ (a3 :> {entry, a1}) @@ (entry :> {a1})
Stops == (a1 :> {a2}) @@ (a2 :> {a3, a1}) @@ (a3 :> {}) @@ (entry :> {})
=============================================================================
