------------------------------ MODULE MCReplay ------------------------------
(* The main thread loads a DLL whose DllMain creates a worker, and two     *)
(* more: one from where the worker loads one too, the other from where the *)
(* first was loaded, in a call that does not return.                       *)
EXTENDS Replay, TLC

CONSTANTS main, worker, t1, t2, t3,
          create, load, ret1, ret2, ret3

Addresses == {create, load, ret1, ret2, ret3}
Identity == [a \in Addresses |-> a]
Ids == (main :> t1) @@ (worker :> t2)

Scripts ==
    (main :> << CallOf(load, ret1, NoRole), CallOf(create, ret2, worker),
                ReturnStep, ReturnStep, CallOf(load, ret3, NoRole), ReturnStep,
                CallOf(load, ret1, NoRole) >>) @@
    (worker :> << CallOf(load, ret3, NoRole), ReturnStep >>)
=============================================================================
