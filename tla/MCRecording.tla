---------------------------- MODULE MCRecording ----------------------------
(* Two threads that exist from the start and one that may be created.      *)
EXTENDS Recording, TLC

CONSTANTS t1, t2, t3, create, terminate, load, ret1, ret2, ret3, ret4

Addresses == {create, terminate, load, ret1, ret2, ret3, ret4}
Identity == [a \in Addresses |-> a]

OwnSites == (t1 :> {ret1, ret2}) @@ (t2 :> {ret3}) @@ (t3 :> {ret4})
SharedSites == [t \in {t1, t2, t3} |-> {ret1}]

Anybody == [t \in {t1, t2, t3} |-> {t1, t2, t3}]
============================================================================
