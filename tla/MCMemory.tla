------------------------------ MODULE MCMemory ------------------------------
(* Two pages, for the heap or for a DLL, and the trampoline.                *)
EXTENDS Memory
CONSTANTS zero, one
=============================================================================
