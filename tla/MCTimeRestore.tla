--------------------------- MODULE MCTimeRestore ---------------------------
EXTENDS TimeRestore
CONSTANTS main, t1, d1
=============================================================================
