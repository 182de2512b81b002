-------------------------------- MODULE Clock --------------------------------
(***************************************************************************)
(* The version of the debuggee, globals::run_id and globals::run_sequence, *)
(* that everything recorded about it is stamped with.                      *)
(***************************************************************************)
EXTENDS Naturals

CONSTANTS MaxRun, MaxSequence      \* bounds on the clock
VARIABLES run_id, run_sequence
=============================================================================
