------------------------- MODULE VersionedRegister -------------------------
(***************************************************************************)
(* What every history in Chronoporia promises to the time-restore phase.   *)
(* One piece of debuggee state (a thread, a DLL, a page) has a current     *)
(* value.  A snapshot records the current value under the version          *)
(* <<run_id, run_sequence>>; going back to a recorded version starts a new *)
(* run with the value recorded there.  A recorded value never changes.     *)
(***************************************************************************)
EXTENDS Naturals

CONSTANT Value

VARIABLES run,      \* run_id of the current run
          seq,      \* run_sequence inside the current run
          current,  \* the value the debuggee holds now
          past      \* <<run, seq>> of a snapshot |-> the value it recorded

vars == <<run, seq, current, past>>

Init ==
    /\ run = 0
    /\ seq = 0
    /\ current \in Value
    /\ past = [v \in {} |-> current]

Change(v) ==
    /\ current' = v
    /\ UNCHANGED <<run, seq, past>>

Advance ==
    /\ seq' = seq + 1
    /\ UNCHANGED <<run, current, past>>

Snapshot ==
    /\ past' = [v \in DOMAIN past \cup {<<run, seq>>} |->
                   IF v = <<run, seq>> THEN current ELSE past[v]]
    /\ seq' = seq + 1
    /\ UNCHANGED <<run, current>>

GoBack(v) ==
    /\ current' = past[v]
    /\ run' = run + 1
    /\ seq' = 0
    /\ UNCHANGED past

Next ==
    \/ \E v \in Value : Change(v)
    \/ Advance
    \/ Snapshot
    \/ \E v \in DOMAIN past : GoBack(v)

Spec == Init /\ [][Next]_vars
============================================================================
