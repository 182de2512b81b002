------------------------- MODULE BreakpointSession -------------------------
(***************************************************************************)
(* The breakpoint manager under its callers, from the entry point of the   *)
(* debuggee to the debugger prompt.                                        *)
(*                                                                         *)
(* While the debuggee runs, every intercepted call holds a breakpoint at   *)
(* its return address (event_log.cpp).  At the prompt the user places and  *)
(* removes breakpoints, steps, resumes and reverses.  A time restore       *)
(* overwrites the debuggee's memory, code included, with the memory of a   *)
(* snapshot; the tables of the manager are not part of any snapshot.       *)
(*                                                                         *)
(* A thread reaching its breakpoint and the debugger handling it are one   *)
(* step here; module Recording has them apart.                             *)
(***************************************************************************)
EXTENDS BreakpointManager, FiniteSets

CONSTANTS EntryPoints,   \* the intercepted functions of ntdll
          ReturnSites,   \* where the intercepted calls of a thread return to
          UserSites,     \* where the user asks for breakpoints
          StepSets,      \* what get_breakpoints_for_step may answer
          Predecessors,  \* what get_address_predecessors may answer
          ShellCode,     \* the int3 that ends the dll-unload shell code
          MaxDepth,      \* bound on nested intercepted calls
          MaxHolds,      \* bound on the holders of one return address
          MaxSnapshots,  \* bound on snapshots taken
          MaxRestores,   \* bound on time restores
          Recursion,     \* may a return address be pending twice?
          AskTwice       \* may the user ask twice for one breakpoint?

ASSUME SessionAssumption ==
    /\ Thread # {}
    /\ EntryPoints \subseteq Address
    /\ ReturnSites \in [Thread -> SUBSET Address]
    /\ UserSites \subseteq Address
    /\ StepSets \subseteq SUBSET Address
    /\ Predecessors \subseteq SUBSET Address
    /\ ShellCode \in Address
    /\ MaxDepth \in Nat /\ MaxHolds \in Nat /\ MaxSnapshots \in Nat /\ MaxRestores \in Nat
    /\ Recursion \in BOOLEAN /\ AskTwice \in BOOLEAN

\* The intercepted functions are ntdll's; users and plugins name lines of the
\* program, and the code a plugin moves goes into memory of its own.
ASSUME SitesAssumption ==
    \A a \in UserSites \cup UNION Predecessors : TrueAddress[a] \notin EntryPoints

VARIABLES phase,       \* what the debugger is doing
          calls,       \* the return addresses a thread still has to reach,
                       \* innermost last; part of the debuggee's stack
          snapshots,   \* memory and stacks as snapshots recorded them
          restores,    \* number of time restores so far
          job          \* the command under way, and the debuggee's memory
                       \* when a step began

vars == <<breakpointVars, phase, calls, snapshots, restores, job>>

Phase == {"starting",    \* before the entry point
          "running",     \* RecordingPhase and ReconstructionPhase
          "prompt",      \* DebuggerPhase, the debuggee suspended
          "stepping",    \* run_step_mode, run_to_address
          "lifted",      \* single stepping over a user breakpoint
          "restoring",   \* a reverse step waits for its time restore
          "restored",    \* ... which is done
          "placing",     \* ReverseReplayPhase::Enter, predecessors placed
          "placed",      \* ... those listed twice a second time
          "reversing",   \* ReverseReplayPhase::Run
          "stepOver",    \* ... single stepping over a reverse breakpoint
          "leaving",     \* ReverseReplayPhase::Exit, predecessors removed
          "left",        \* ... those listed twice a second time
          "detached"}

Idle == [thread |-> CHOOSE t \in Thread : TRUE, addresses |-> {}, twice |-> {},
         stop |-> ShellCode, over |-> ShellCode, memory |-> [a \in Address |-> Code]]

Init ==
    /\ BreakpointInit
    /\ phase = "starting"
    /\ calls = [t \in Thread |-> <<>>]
    /\ snapshots = <<>>
    /\ restores = 0
    /\ job = Idle

----------------------------------------------------------------------------
(* The debuggee runs.                                                      *)

\* Mutant: the first snapshot is taken before the trampoline is loaded.
ReachEntryPointSnapshotFirst ==
    /\ phase = "starting"
    /\ CreatePermanentBreakpoints(EntryPoints)
    /\ snapshots' = <<[memory |-> byte, stacks |-> calls]>>
    /\ phase' = "running"
    /\ UNCHANGED <<calls, restores, job>>

\* HandleBreakpoint at child_entry_address: LoadTrampoline, first snapshot.
ReachEntryPoint ==
    /\ phase = "starting"
    /\ CreatePermanentBreakpoints(EntryPoints)
    /\ snapshots' = <<[memory |-> byte', stacks |-> calls]>>
    /\ phase' = "running"
    /\ UNCHANGED <<calls, restores, job>>

\* OnBreakpointEnter, ReplayEvent
EnterCall(t, a) ==
    /\ phase = "running"
    /\ Len(calls[t]) < MaxDepth
    /\ a \in Tracked => Len(address_to_bp[a].holders) < MaxHolds
    /\ Recursion \/ \A i \in 1..Len(calls[t]) : calls[t][i] # a
    /\ CreateHeldBreakpoints({a}, t, "Return")
    /\ calls' = [calls EXCEPT ![t] = Append(@, a)]
    /\ UNCHANGED <<phase, snapshots, restores, job>>

Innermost(t) == calls[t][Len(calls[t])]

\* The thread reaches the return address: OnBreakpointReturn, ReplayEventEnd
\* when it is stopped there, nothing when it is not.
LeaveCall(t) ==
    /\ phase = "running"
    /\ calls[t] # <<>>
    /\ \/ /\ byte[Innermost(t)] = int3
          /\ GetBreakpointType(Innermost(t), t) = "Return"
          /\ RemoveBreakpoints({Innermost(t)}, t)
       \/ /\ byte[Innermost(t)] = Code
          /\ UNCHANGED breakpointVars
    /\ calls' = [calls EXCEPT ![t] = SubSeq(@, 1, Len(@) - 1)]
    /\ UNCHANGED <<phase, snapshots, restores, job>>

\* SnapshotProcess (micro snapshots) on a timeout.
TakeSnapshot ==
    /\ phase = "running"
    /\ Len(snapshots) < MaxSnapshots
    /\ snapshots' = Append(snapshots, [memory |-> byte, stacks |-> calls])
    /\ UNCHANGED <<breakpointVars, phase, calls, restores, job>>

\* The last micro snapshot: TransitionToDebugger.
StopRunning ==
    /\ phase = "running"
    /\ phase' = "prompt"
    /\ UNCHANGED <<breakpointVars, calls, snapshots, restores, job>>

----------------------------------------------------------------------------
(* TimeRestorePhase: Enter tracks the end of the shell code, Exit puts the *)
(* snapshot's memory back.  The shell code's buffer goes with the memory.  *)
TrackShellCodeBreakpoint(a) ==
    address_to_bp' = [b \in Tracked \cup {a} |->
        IF b = a THEN [saved |-> Code, kind |-> "ShellCode", count |-> 0, holders |-> <<>>]
        ELSE address_to_bp[b]]

RestoreTo(snapshot) ==
    /\ restores < MaxRestores
    /\ restores' = restores + 1
    /\ TrackShellCodeBreakpoint(ShellCode)
    /\ byte' = snapshot.memory
    /\ calls' = snapshot.stacks
    /\ UNCHANGED <<permanent, user_breakpoints, snapshots>>

\* Out of the recording into the reconstruction; `snapshot --run_id ...`; and
\* before a reverse replay.
TimeRestore(i) ==
    /\ phase \in {"running", "prompt", "restoring"}
    /\ RestoreTo(snapshots[i])
    /\ phase' = IF phase = "restoring" THEN "restored" ELSE phase
    /\ UNCHANGED job

----------------------------------------------------------------------------
(* Commands at the prompt.                                                 *)

AddUserBreakpoint(a) ==
    /\ phase = "prompt"
    /\ AskTwice \/ TrueAddress[a] \notin UserAddress
    /\ CreateUserBreakpoint(a)
    /\ UNCHANGED <<phase, calls, snapshots, restores, job>>

DropUserBreakpoint(a) ==
    /\ phase = "prompt"
    /\ RemoveUserBreakpoint(a)
    /\ UNCHANGED <<phase, calls, snapshots, restores, job>>

\* Stepping over the breakpoint a thread is stopped at (resume_command.cpp,
\* single_step_user_breakpoint).
LiftUserBreakpoint(a) ==
    /\ phase = "prompt"
    /\ DisableUserBreakpoint(a)
    /\ phase' = "lifted"
    /\ job' = [Idle EXCEPT !.addresses = {a}]
    /\ UNCHANGED <<calls, snapshots, restores>>

LowerUserBreakpoint ==
    /\ phase = "lifted"
    /\ \E a \in job.addresses : EnableUserBreakpoint(a)
    /\ phase' = "prompt"
    /\ job' = Idle
    /\ UNCHANGED <<calls, snapshots, restores>>

\* run_step_mode and, for a single return address, run_to_address: place, run,
\* remove.
BeginStep(t, S, kind) ==
    /\ phase = "prompt"
    /\ CreateHeldBreakpoints(S, t, kind)
    /\ phase' = "stepping"
    /\ job' = [Idle EXCEPT !.thread = t, !.addresses = S, !.memory = byte]
    /\ UNCHANGED <<calls, snapshots, restores>>

EndStep ==
    /\ phase = "stepping"
    /\ RemoveBreakpoints(job.addresses, job.thread)
    /\ phase' = "prompt"
    /\ job' = Idle
    /\ UNCHANGED <<calls, snapshots, restores>>

\* StepCommand::transition_to_time_restore.  The list of predecessors may hold
\* one address several times: a line is listed for every branch on it.
BeginReverse(t, S, twice, stop) ==
    /\ phase = "prompt"
    /\ restores < MaxRestores
    /\ phase' = "restoring"
    /\ job' = [Idle EXCEPT !.thread = t, !.stop = stop,
                            !.addresses = {TrueAddress[a] : a \in S},
                            !.twice = {TrueAddress[a] : a \in twice}]
    /\ UNCHANGED <<breakpointVars, calls, snapshots, restores>>

(* ReverseReplayPhase.  Enter writes a breakpoint at every predecessor and  *)
(* then one at the address the user came from, the catch.  An address that *)
(* is written twice has int3 saved as its byte.                             *)
PlacePredecessors ==
    /\ phase = "restored"
    /\ CreateReverseBreakpoints(job.addresses, job.thread)
    /\ phase' = "placing"
    /\ UNCHANGED <<calls, snapshots, restores, job>>

PlaceDuplicates ==
    /\ phase = "placing"
    /\ CreateReverseBreakpoints(job.twice, job.thread)
    /\ phase' = "placed"
    /\ UNCHANGED <<calls, snapshots, restores, job>>

PlaceCatch ==
    /\ phase = "placed"
    /\ CreateReverseBreakpoints({job.stop}, job.thread)
    /\ phase' = "reversing"
    /\ UNCHANGED <<calls, snapshots, restores, job>>

\* A breakpoint was hit with the wrong branch count: step over it.
BeginStepOver(a) ==
    /\ phase = "reversing"
    /\ a \in job.addresses \cup {job.stop}
    /\ DisableBreakpoint(a)
    /\ phase' = "stepOver"
    /\ job' = [job EXCEPT !.over = a]
    /\ UNCHANGED <<calls, snapshots, restores>>

EndStepOver ==
    /\ phase = "stepOver"
    /\ EnableBreakpoint(job.over)
    /\ phase' = "reversing"
    /\ job' = [job EXCEPT !.over = ShellCode]
    /\ UNCHANGED <<calls, snapshots, restores>>

\* The predecessor was reached; Exit removes what Enter wrote.  The second
\* removal of an address finds no entry and takes the user's breakpoint there.
RemovePredecessors ==
    /\ phase = "reversing"
    /\ RemoveBreakpoints(job.addresses, job.thread)
    /\ phase' = "leaving"
    /\ UNCHANGED <<calls, snapshots, restores, job>>

RemoveDuplicates ==
    /\ phase = "leaving"
    /\ RemoveBreakpoints(job.twice, job.thread)
    /\ phase' = "left"
    /\ UNCHANGED <<calls, snapshots, restores, job>>

RemoveCatch ==
    /\ phase = "left"
    /\ RemoveBreakpoints({job.stop}, job.thread)
    /\ phase' = "prompt"
    /\ job' = Idle
    /\ UNCHANGED <<calls, snapshots, restores>>

\* It was missed: the predecessors were moved into the next transition, so
\* Exit finds an empty list and only the catch goes.
RetryReverse ==
    /\ phase = "reversing"
    /\ restores < MaxRestores
    /\ RemoveBreakpoints({job.stop}, job.thread)
    /\ phase' = "restoring"
    /\ UNCHANGED <<calls, snapshots, restores, job>>

\* DetachCommand: UnloadTrampoline
Detach ==
    /\ phase = "prompt"
    /\ RemoveAllPermanentBreakpoints
    /\ phase' = "detached"
    /\ UNCHANGED <<calls, snapshots, restores, job>>

----------------------------------------------------------------------------
Next ==
    \/ ReachEntryPoint
    \/ \E t \in Thread : \/ \E a \in ReturnSites[t] : EnterCall(t, a)
                         \/ LeaveCall(t)
    \/ TakeSnapshot \/ StopRunning
    \/ \E i \in 1..Len(snapshots) : TimeRestore(i)
    \/ \E a \in UserSites : \/ AddUserBreakpoint(a) \/ DropUserBreakpoint(a)
                           \/ LiftUserBreakpoint(a)
    \/ LowerUserBreakpoint
    \/ \E t \in Thread : 
          \/ \E S \in StepSets : BeginStep(t, S, "Step")
          \/ \E a \in UserSites : BeginStep(t, {a}, "Return")
    \/ EndStep
    \/ \E t \in Thread : \E S \in Predecessors : \E twice \in SUBSET S : \E a \in UserSites :
          BeginReverse(t, S, twice, TrueAddress[a])
    \/ PlacePredecessors \/ PlaceDuplicates \/ PlaceCatch
    \/ \E a \in Address : BeginStepOver(a)
    \/ EndStepOver
    \/ RemovePredecessors \/ RemoveDuplicates \/ RemoveCatch \/ RetryReverse
    \/ Detach

Spec == Init /\ [][Next]_vars

----------------------------------------------------------------------------
Stacks == [Thread -> Seq(Address)]
SnapshotOf == [memory : [Address -> Byte], stacks : Stacks]
Job == [thread : Thread, addresses : SUBSET Address, twice : SUBSET Address,
        stop : Address, over : Address, memory : [Address -> Byte]]

SessionTypeOK ==
    /\ phase \in Phase
    /\ calls \in Stacks
    /\ snapshots \in Seq(SnapshotOf)
    /\ restores \in 0..MaxRestores
    /\ job \in Job

TypeOK == BreakpointTypeOK /\ SessionTypeOK

\* The count of a breakpoint threads hold is the number of holds, so that the
\* entry goes with the last of them, neither earlier (the others would stop
\* at an address nobody knows) nor never (breakpoint_manager.cpp:83-88).
CountMatchesHolders ==
    \A a \in Tracked :
        address_to_bp[a].kind \in {"Return", "Step", "Reverse"} =>
            /\ address_to_bp[a].count = Len(address_to_bp[a].holders)
            /\ address_to_bp[a].count > 0

\* A thread inside an intercepted call will be stopped when the call returns,
\* and known to be the one that waits for it (event_log.cpp:44-55, 59-70).
\* This is so only where no other thread returns, see HeldIsArmed, and only
\* before the first time restore: no snapshot saves the table, an entry that
\* outlives its int3 is taken for armed when the next call overwrites it.
OpenCallsAreCaught ==
    restores = 0 => \A t \in Thread : \A i \in 1..Len(calls[t]) :
        LET site == calls[t][i]
        IN  (\A u \in Thread \ {t} : site \notin ReturnSites[u]) =>
                /\ byte[site] = int3
                /\ GetBreakpointType(site, t) = "Return"

\* No int3 is left in the debuggee without an entry that knows the byte it
\* covers, whoever shares a breakpoint with whom (breakpoint_manager.cpp:70-94,
\* 253-266), unless the user asks for one he has.  A time restore puts back an
\* int3 whose entry is gone when its snapshot was taken during a call, so this
\* too ends with the first restore.
NoStrayInt3 ==
    restores = 0 =>
        \A a \in Address : byte[a] = int3 => a \in Tracked \cup UserAddress

\* A step leaves the debuggee's code as it found it, whichever of the user's
\* breakpoints it landed on (step_command.cpp:266-374).
StepLeavesNoTrace ==
    [][phase = "stepping" /\ phase' = "prompt" => byte' = job.memory]_vars

\* Interception survives every time restore: the first snapshot is taken
\* after the permanent breakpoints are in place (record_phase.cpp:146-151).
EntryPointsStayArmed ==
    phase \notin {"starting", "detached"} =>
        \A a \in EntryPoints : /\ byte[a] = int3
                              /\ \A t \in Thread : GetBreakpointType(a, t) = "Permanent"

\* Reverse replay leaves no entry in the table when it ends at the prompt,
\* however often it was retried and whatever its list held twice
\* (reverse_replay_phase.cpp:47-61, 161-172).  An int3 it may leave: at an
\* address that was written twice.
ReverseLeavesNothingHeld ==
    phase = "prompt" => \A a \in Tracked : address_to_bp[a].kind # "Reverse"

----------------------------------------------------------------------------
(* What the tests and comments of the repository say, and the program does *)
(* not do.                                                                 *)

\* "removing one holder leaves the breakpoint installed for the remaining
\* holder" (test_breakpoint_manager.cpp:73-76).
HeldIsArmed ==
    phase = "running" =>
        \A a \in Tracked : address_to_bp[a].kind = "Return" => byte[a] = int3
=============================================================================
