-------------------------- MODULE MCReverseReplay --------------------------
(* A loop whose body has two arms: 1 opens the loop, 3 and 4 are the arms,  *)
(* 5 joins them.                                                            *)
EXTENDS ReverseReplay, TLC

Arms == (1 :> {2}) @@ (2 :> {3, 4}) @@ (3 :> {5}) @@ (4 :> {5}) @@ (5 :> {1})
=============================================================================
