--------------------------- MODULE MCBreakpoints ---------------------------
(* Two threads, one intercepted function, the return addresses of its      *)
(* callers, and two lines of the program of which a plugin has moved one.  *)
EXTENDS BreakpointSession

CONSTANTS t1, t2, entry, ret1, ret2, line, moved, home, shell

Addresses == {entry, ret1, ret2, line, moved, home, shell}
TrueAddresses == [a \in Addresses |-> IF a = moved THEN home ELSE a]

MixedSites == [t \in {t1, t2} |-> IF t = t1 THEN {ret1, ret2} ELSE {ret1}]
SharedSites == [t \in {t1, t2} |-> {ret1}]

Steps == {{line, home}, {home}}
Targets == {{line, home}, {line}}
============================================================================
