------------------------------ MODULE Commands ------------------------------
(***************************************************************************)
(* The commands that let the suspended debuggee run and stop it again:     *)
(* resume and step (resume_command.cpp, step_command.cpp), over the        *)
(* suspend counts Windows keeps for each thread (thread_utils.cpp,         *)
(* nt_wrappers.cpp).                                                       *)
(*                                                                         *)
(* A thread that executes an int3 or a trapped instruction has an event    *)
(* queued and goes no further; a debug loop takes the events one by one,   *)
(* and the whole process is frozen from WaitForDebugEvent to               *)
(* ContinueDebugEvent, so a pass through a loop is one step.  The queue    *)
(* outlives the loop: a stop may be handled by another command than the    *)
(* one it happened in.                                                     *)
(***************************************************************************)
EXTENDS BreakpointManager, FiniteSets

CONSTANTS Flow,          \* where an instruction may lead
          EntryPoints,   \* intercepted functions
          UserSites,     \* where the user asks for breakpoints
          StepStops,     \* get_breakpoints_for_step, per address
          Branching,     \* step stops after which one instruction is stepped
          ReturnSite,    \* get_frame_return_address
          Main,          \* globals::main_thread_id
          Known,         \* thread_id_to_meta when the session begins
          MaxCommands,   \* bound on commands
          MaxOthers      \* bound on debug events that are no exceptions

ASSUME CommandsAssumption ==
    /\ Flow \in [Address -> SUBSET Address]
    /\ StepStops \in [Address -> SUBSET Address]
    /\ EntryPoints \subseteq Address /\ UserSites \subseteq Address
    /\ Branching \subseteq Address /\ ReturnSite \in Address
    /\ Main \in Known /\ Known \subseteq Thread
    /\ MaxCommands \in Nat /\ MaxOthers \in Nat

(* The debuggee. *)
VARIABLES at,            \* the instruction a thread is at
          off,           \* and the distance of Rip from its start
          trap,          \* threads with the trap flag
          suspended,     \* suspend counts
          queued         \* debug events not yet continued

(* The debugger. *)
VARIABLES mode,          \* the loop it is in
          thread_id_to_meta,
          pending_user_breakpoint_,
          conditional,   \* user breakpoints with a condition
          over,          \* the breakpoint being stepped over
          potential_stops,
          suspended_thread_ids,
          commands, others

(* History. *)
VARIABLES interrupted,   \* a step met an event that was not its own
          asked_twice    \* where the user asked for a breakpoint he had

debuggee == <<at, off, trap, suspended, queued>>
loop == <<over, potential_stops, suspended_thread_ids>>
counters == <<commands, others>>
history == <<interrupted, asked_twice>>
vars == <<breakpointVars, debuggee, mode, thread_id_to_meta, pending_user_breakpoint_,
          conditional, loop, counters, history>>

\* Thread t is, or is to be, stepped over its breakpoint at a; u goes on.
Over(t, a, u, then) ==
    [thread |-> t, address |-> a, waiter |-> u, then |-> then, set |-> TRUE]
None == [Over(Main, ReturnSite, Main, "prompt") EXCEPT !.set = FALSE]

Init ==
    /\ byte = [a \in Address |-> IF a \in EntryPoints THEN int3 ELSE Code]
    /\ address_to_bp = [a \in EntryPoints |->
           [saved |-> Code, kind |-> "Permanent", count |-> 1, holders |-> <<>>]]
    /\ permanent = EntryPoints
    /\ user_breakpoints = [a \in {} |-> Code]
    /\ at \in [Thread -> Address \ EntryPoints]
    /\ off = [t \in Thread |-> 0]
    /\ trap = {}
    /\ suspended = [t \in Thread |-> 1]
    /\ queued = <<>>
    /\ mode = "prompt"
    /\ thread_id_to_meta = Known
    /\ pending_user_breakpoint_ = None
    /\ conditional = {}
    /\ over = None /\ potential_stops = {} /\ suspended_thread_ids = {}
    /\ commands = 0 /\ others = 0
    /\ interrupted = FALSE /\ asked_twice = {}

----------------------------------------------------------------------------
(* Suspend counts.                                                         *)

Less(n) == IF n = 0 THEN 0 ELSE n - 1

Suspended(S) == [t \in Thread |-> IF t \in S THEN suspended[t] + 1 ELSE suspended[t]]
Resumed(S) == [t \in Thread |-> IF t \in S THEN Less(suspended[t]) ELSE suspended[t]]

SuspendProcess == suspended' = Suspended(Thread)
ResumeProcess == suspended' = Resumed(Thread)
SuspendThreadId(t) == suspended' = Suspended({t})

\* Mutant: the thread that is to run is suspended as well.
SuspendAllThreads(t) == suspended' = Suspended(thread_id_to_meta)
\* Mutant: nobody is suspended.
SuspendNoThreads(t) == UNCHANGED suspended

SuspendAllThreadsExceptCurrent(t) == suspended' = Suspended(thread_id_to_meta \ {t})

\* Mutant: only the thread that stepped is resumed.
ResumeStepped == suspended' = Resumed({over.thread})
ResumeAllThreads == suspended' = Resumed(thread_id_to_meta)

\* SuspendAllThreadsExceptCurrent, then ResumeProcess.
ResumeOnly(t) ==
    suspended' = [u \in Thread |->
        IF u \in thread_id_to_meta \ {t} THEN Less(suspended[u] + 1) ELSE Less(suspended[u])]

RollBack(t) == off' = [off EXCEPT ![t] = @ - 1]

----------------------------------------------------------------------------
(* The debuggee runs.                                                      *)

MayRun(t) == suspended[t] = 0 /\ \A i \in 1..Len(queued) : queued[i].thread # t

\* An int3 leaves the trap flag for the instruction after it.
Execute(t) ==
    /\ MayRun(t)
    /\ \/ /\ off[t] = 0 /\ byte[at[t]] = int3
          /\ off' = [off EXCEPT ![t] = 1]
          /\ queued' = Append(queued, [thread |-> t, kind |-> "breakpoint"])
          /\ UNCHANGED <<at, trap>>
       \/ /\ off[t] # 0 \/ byte[at[t]] = Code
          /\ \E a \in Flow[at[t]] : at' = [at EXCEPT ![t] = a]
          /\ off' = [off EXCEPT ![t] = 0]
          /\ queued' = IF t \in trap THEN Append(queued, [thread |-> t, kind |-> "single step"])
                       ELSE queued
          /\ trap' = trap \ {t}
    /\ UNCHANGED <<breakpointVars, suspended, mode, thread_id_to_meta,
                   pending_user_breakpoint_, conditional, loop, counters, history>>

\* A DLL is loaded, a thread created, a string printed.
OtherEvent(t) ==
    /\ MayRun(t)
    /\ others < MaxOthers
    /\ others' = others + 1
    /\ queued' = Append(queued, [thread |-> t, kind |-> "other"])
    /\ UNCHANGED <<breakpointVars, at, off, trap, suspended, mode, thread_id_to_meta,
                   pending_user_breakpoint_, conditional, loop, commands, history>>

----------------------------------------------------------------------------
(* A debug loop takes an event.                                            *)

Takes(m) == mode = m /\ queued # <<>>
Event == Head(queued)
ContinueDebugEvent == queued' = Tail(queued)
Hit == Event.kind = "breakpoint"
HitType == GetBreakpointType(at[Event.thread], Event.thread)
SteppedOver == Event = [thread |-> over.thread, kind |-> "single step"]
\* GetRipAddress opens the thread.
OpenThread == thread_id_to_meta' = thread_id_to_meta \cup {Event.thread}

\* The event is continued and nothing else: a thread that stopped at an int3
\* goes on one byte past it.
Ignore ==
    /\ ContinueDebugEvent
    /\ UNCHANGED <<breakpointVars, at, off, trap, suspended, mode,
                   pending_user_breakpoint_, conditional, loop, counters, history>>

----------------------------------------------------------------------------
(* The prompt.                                                             *)

Command == mode = "prompt" /\ commands < MaxCommands /\ commands' = commands + 1

\* No check for one that is there: int3 is then saved as the program's byte.
AddUserBreakpoint(a) ==
    /\ Command
    /\ CreateUserBreakpoint(a)
    /\ conditional' = conditional \ {TrueAddress[a]}
    /\ asked_twice' = asked_twice \cup ({TrueAddress[a]} \cap UserAddress)
    /\ UNCHANGED <<debuggee, mode, thread_id_to_meta, pending_user_breakpoint_, loop,
                   others, interrupted>>

\* By the name of a function or by file and line: the condition is compiled, or
\* nothing is created.
AddConditionalBreakpoint(a) ==
    /\ Command
    /\ \/ /\ CreateUserBreakpoint(a)
          /\ conditional' = conditional \cup {TrueAddress[a]}
          /\ asked_twice' = asked_twice \cup ({TrueAddress[a]} \cap UserAddress)
       \/ UNCHANGED <<breakpointVars, conditional, asked_twice>>
    /\ UNCHANGED <<debuggee, mode, thread_id_to_meta, pending_user_breakpoint_, loop,
                   others, interrupted>>

is_user_breakpoint_conditional(a) == a \in conditional

DropUserBreakpoint(a) ==
    /\ Command
    /\ RemoveUserBreakpoint(a)
    /\ conditional' = conditional \ {TrueAddress[a]}
    /\ UNCHANGED <<debuggee, mode, thread_id_to_meta, pending_user_breakpoint_, loop,
                   others, history>>

\* Lifting a breakpoint the user has meanwhile removed does nothing.
Lift(a) == IF a \in UserAddress THEN DisableUserBreakpoint(a) ELSE UNCHANGED breakpointVars

\* Mutant: the breakpoint is not put back.
ForgetToLower(a) == UNCHANGED breakpointVars
Lower(a) == IF a \in UserAddress THEN EnableUserBreakpoint(a) ELSE UNCHANGED breakpointVars

\* resume_process_execution, up to its loop.
Resume ==
    /\ Command
    /\ LET p == pending_user_breakpoint_
       IN  \/ /\ p.set
              /\ pending_user_breakpoint_' = None
              /\ Lift(p.address)
              /\ trap' = trap \cup {p.thread}
              /\ ResumeOnly(p.thread)
              /\ mode' = "resumeOver"
              /\ over' = p
           \/ /\ ~p.set
              /\ ResumeProcess
              /\ mode' = "resume"
              /\ UNCHANGED <<breakpointVars, trap, pending_user_breakpoint_, over>>
    /\ UNCHANGED <<at, off, queued, thread_id_to_meta, conditional, potential_stops,
                   suspended_thread_ids, others, history>>

----------------------------------------------------------------------------
(* resume_process_execution: the loop.                                     *)

\* RedirectToTrampoline runs the instruction the int3 is on.
ResumePermanent ==
    /\ Takes("resume") /\ Hit /\ HitType = "Permanent"
    /\ OpenThread /\ ContinueDebugEvent
    /\ \E a \in Flow[at[Event.thread]] : at' = [at EXCEPT ![Event.thread] = a]
    /\ off' = [off EXCEPT ![Event.thread] = 0]
    /\ UNCHANGED <<breakpointVars, trap, suspended, mode, pending_user_breakpoint_,
                   conditional, loop, counters, history>>

ResumeStops ==
    /\ Takes("resume") /\ Hit /\ HitType = "User"
    /\ OpenThread /\ RollBack(Event.thread)
    /\ pending_user_breakpoint_' = Over(Event.thread, at[Event.thread], Event.thread, "resume")
    /\ SuspendProcess /\ ContinueDebugEvent
    /\ mode' = "prompt"
    /\ UNCHANGED <<breakpointVars, at, trap, conditional, loop, counters, history>>

\* The condition is not met.
ResumePasses ==
    /\ Takes("resume") /\ Hit /\ HitType = "User"
    /\ is_user_breakpoint_conditional(at[Event.thread])
    /\ OpenThread /\ RollBack(Event.thread)
    /\ Lift(at[Event.thread])
    /\ trap' = trap \cup {Event.thread}
    /\ SuspendAllThreadsExceptCurrent(Event.thread)
    /\ ContinueDebugEvent
    /\ over' = Over(Event.thread, at[Event.thread], Event.thread, "resume")
    /\ mode' = "resumeOver"
    /\ UNCHANGED <<at, pending_user_breakpoint_, conditional, potential_stops,
                   suspended_thread_ids, counters, history>>

ResumeIgnores ==
    /\ Takes("resume")
    /\ IF Hit THEN HitType \notin {"Permanent", "User", NoBreakpoint} /\ OpenThread
              ELSE UNCHANGED thread_id_to_meta
    /\ Ignore

\* bp_type.value() throws.
ResumeThrows ==
    /\ Takes("resume") /\ Hit /\ HitType = NoBreakpoint
    /\ mode' = "aborted"
    /\ UNCHANGED <<breakpointVars, debuggee, thread_id_to_meta, pending_user_breakpoint_,
                   conditional, loop, counters, history>>

\* single_step_and_restore
ResumeLowers ==
    /\ Takes("resumeOver") /\ SteppedOver
    /\ Lower(over.address)
    /\ ContinueDebugEvent
    /\ ResumeAllThreads
    /\ mode' = "resume"
    /\ over' = None
    /\ UNCHANGED <<at, off, trap, thread_id_to_meta, pending_user_breakpoint_, conditional,
                   potential_stops, suspended_thread_ids, counters, history>>

ResumeOverIgnores ==
    /\ Takes("resumeOver") /\ ~SteppedOver
    /\ Ignore /\ UNCHANGED thread_id_to_meta

----------------------------------------------------------------------------
(* step_source and run_step_mode.                                          *)

\* At a user breakpoint the thread is first stepped over it.
StepSource ==
    /\ Command
    /\ StepStops[at[Main]] # {}
    /\ potential_stops' = StepStops[at[Main]]
    /\ \/ /\ GetBreakpointType(at[Main], Main) = "User"
          /\ Lift(at[Main])
          /\ trap' = trap \cup {Main}
          /\ suspended' = Resumed({Main})
          /\ over' = Over(Main, at[Main], Main, "stepBegin")
          /\ mode' = "stepOver"
       \/ /\ GetBreakpointType(at[Main], Main) # "User"
          /\ mode' = "stepBegin"
          /\ UNCHANGED <<breakpointVars, trap, suspended, over>>
    /\ UNCHANGED <<at, off, queued, thread_id_to_meta, pending_user_breakpoint_, conditional,
                   suspended_thread_ids, others, history>>

\* single_step_user_breakpoint
StepLowers ==
    /\ Takes("stepOver") /\ SteppedOver
    /\ Lower(over.address)
    /\ SuspendThreadId(over.thread)
    /\ ContinueDebugEvent
    /\ mode' = over.then
    /\ UNCHANGED <<at, off, trap, thread_id_to_meta, pending_user_breakpoint_, conditional,
                   loop, counters, history>>

StepOverIgnores ==
    /\ Takes("stepOver") /\ ~SteppedOver
    /\ Ignore /\ UNCHANGED thread_id_to_meta

StepBegins ==
    /\ mode = "stepBegin"
    /\ CreateHeldBreakpoints(potential_stops, Main, "Step")
    /\ suspended' = Resumed({Main})
    /\ mode' = "step"
    /\ UNCHANGED <<at, off, trap, queued, thread_id_to_meta, pending_user_breakpoint_,
                   conditional, loop, counters, history>>

StepAgain ==
    /\ mode = "stepAgain"
    /\ suspended' = Resumed({over.waiter})
    /\ mode' = "step"
    /\ over' = None
    /\ UNCHANGED <<breakpointVars, at, off, trap, queued, thread_id_to_meta,
                   pending_user_breakpoint_, conditional, potential_stops,
                   suspended_thread_ids, counters, history>>

\* What a missing breakpoint type may be read as, and what it is otherwise.
StepHit(type) ==
    /\ Takes("step") /\ Hit
    /\ \/ HitType = type
       \/ HitType = NoBreakpoint /\ type \in {"User", "Return"}
    /\ OpenThread
    /\ interrupted' = (interrupted \/ Event.thread # Main)
    /\ UNCHANGED asked_twice

\* The end of run_step_mode, however it came about.
StepEnds ==
    /\ mode \in {"stepEnd", "branchEnd"}
    /\ RemoveBreakpoints(potential_stops, Main)
    /\ potential_stops' = {}
    /\ mode' = IF mode = "branchEnd" THEN "instructionBegin" ELSE "prompt"
    /\ UNCHANGED <<debuggee, thread_id_to_meta, pending_user_breakpoint_, conditional, over,
                   suspended_thread_ids, counters, history>>

\* Note that it is the stepped thread that is rolled back.
StepStopsAtUser ==
    /\ StepHit("User")
    /\ RollBack(Main)
    /\ SuspendThreadId(Event.thread)
    /\ ContinueDebugEvent
    /\ mode' = "stepEnd"
    /\ UNCHANGED <<breakpointVars, at, trap, pending_user_breakpoint_, conditional, loop,
                   counters>>

StepPassesUser ==
    /\ StepHit("User")
    /\ is_user_breakpoint_conditional(at[Event.thread])
    /\ ~(Holds(Event.thread, at[Event.thread])
         /\ address_to_bp[at[Event.thread]].kind = "Step")
    /\ RollBack(Main)
    /\ Lift(at[Event.thread])
    /\ trap' = trap \cup {Main}
    /\ suspended' = [Suspended({Event.thread}) EXCEPT ![Main] = Less(@)]
    /\ ContinueDebugEvent
    /\ over' = Over(Main, at[Event.thread], Event.thread, "stepAgain")
    /\ mode' = "stepOver"
    /\ UNCHANGED <<at, pending_user_breakpoint_, conditional, potential_stops,
                   suspended_thread_ids, counters>>

\* step_into_line, when run_step_mode has returned: at a branch out of the line
\* one instruction more is stepped, without source information none.
AfterStep(a) == IF a \in Branching THEN "branchEnd" ELSE "stepEnd"

\* A stop of another thread at a step breakpoint would be remembered here;
\* GetBreakpointType answers Step only to the thread that holds one.
StepArrives ==
    /\ StepHit("Step")
    /\ RollBack(Event.thread)
    /\ SuspendThreadId(Event.thread)
    /\ ContinueDebugEvent
    /\ mode' = AfterStep(at[Event.thread])
    /\ UNCHANGED <<breakpointVars, at, trap, pending_user_breakpoint_, conditional, loop,
                   counters>>

StepIgnores ==
    /\ \/ StepHit("Permanent") \/ StepHit("Return") \/ StepHit("SpinLock")
    /\ ContinueDebugEvent
    /\ UNCHANGED <<breakpointVars, at, off, trap, suspended, mode,
                   pending_user_breakpoint_, conditional, loop, counters>>

\* Any other event ends the loop with the thread running.
StepBreaksOff ==
    /\ Takes("step") /\ ~Hit
    /\ ContinueDebugEvent
    /\ interrupted' = TRUE /\ UNCHANGED asked_twice
    /\ mode' = "stepEnd"
    /\ UNCHANGED <<breakpointVars, at, off, trap, suspended, thread_id_to_meta,
                   pending_user_breakpoint_, conditional, loop, counters>>

----------------------------------------------------------------------------
(* step_instruction.                                                       *)

StepInstruction ==
    /\ \/ Command
       \/ mode = "instructionBegin" /\ UNCHANGED commands
    /\ trap' = trap \cup {Main}
    /\ ResumeProcess
    /\ mode' = "instruction"
    /\ UNCHANGED <<breakpointVars, at, off, queued, thread_id_to_meta,
                   pending_user_breakpoint_, conditional, loop, others, history>>

InstructionStops ==
    /\ Takes("instruction")
    /\ Event.thread = Main /\ Event.kind # "other"
    /\ IF Hit THEN RollBack(Main) ELSE UNCHANGED off
    /\ SuspendProcess /\ ContinueDebugEvent
    /\ mode' = "prompt"
    /\ UNCHANGED <<breakpointVars, at, trap, thread_id_to_meta, pending_user_breakpoint_,
                   conditional, loop, counters, history>>

InstructionIgnores ==
    /\ Takes("instruction")
    /\ Event.thread # Main \/ Event.kind = "other"
    /\ Ignore /\ UNCHANGED thread_id_to_meta

----------------------------------------------------------------------------
(* step_out_from and run_to_address.  The check for recursion compares Rsp *)
(* with this_thread_only, and never holds.                                 *)

StepOut ==
    /\ Command
    /\ CreateHeldBreakpoints({ReturnSite}, Main, "Return")
    /\ ResumeProcess
    /\ mode' = "out"
    /\ UNCHANGED <<at, off, trap, queued, thread_id_to_meta, pending_user_breakpoint_,
                   conditional, loop, others, history>>

Reached == Hit /\ at[Event.thread] = ReturnSite

\* Between ContinueDebugEvent and SuspendProcess the thread runs.
OutReaches ==
    /\ Takes("out") /\ Reached /\ Event.thread = Main
    /\ OpenThread /\ RollBack(Main) /\ ContinueDebugEvent
    /\ mode' = "outReached"
    /\ UNCHANGED <<breakpointVars, at, trap, suspended, pending_user_breakpoint_,
                   conditional, loop, counters, history>>

OutEnds ==
    /\ mode = "outReached"
    /\ RemoveBreakpoints({ReturnSite}, Main)
    /\ suspended' = [t \in Thread |->
           IF t \in suspended_thread_ids THEN suspended[t] ELSE suspended[t] + 1]
    /\ suspended_thread_ids' = {}
    /\ mode' = "prompt"
    /\ UNCHANGED <<at, off, trap, queued, thread_id_to_meta, pending_user_breakpoint_,
                   conditional, over, potential_stops, counters, history>>

OutSuspends ==
    /\ Takes("out") /\ Reached /\ Event.thread # Main
    /\ OpenThread /\ RollBack(Event.thread)
    /\ SuspendThreadId(Event.thread)
    /\ ContinueDebugEvent
    /\ suspended_thread_ids' = suspended_thread_ids \cup {Event.thread}
    /\ UNCHANGED <<breakpointVars, at, trap, mode, pending_user_breakpoint_, conditional,
                   over, potential_stops, counters, history>>

OutIgnores ==
    /\ Takes("out") /\ ~Reached
    /\ IF Event.kind = "other" THEN UNCHANGED thread_id_to_meta ELSE OpenThread
    /\ Ignore

----------------------------------------------------------------------------
Next ==
    \/ \E t \in Thread : Execute(t)
    \/ \E t \in Thread : OtherEvent(t)
    \/ \E a \in UserSites : AddUserBreakpoint(a)
    \/ \E a \in UserSites : AddConditionalBreakpoint(a)
    \/ \E a \in UserSites : DropUserBreakpoint(a)
    \/ Resume \/ ResumePermanent \/ ResumeStops \/ ResumePasses \/ ResumeIgnores
    \/ ResumeThrows \/ ResumeLowers \/ ResumeOverIgnores
    \/ StepSource \/ StepLowers \/ StepOverIgnores \/ StepBegins \/ StepAgain
    \/ StepStopsAtUser \/ StepPassesUser \/ StepArrives \/ StepIgnores \/ StepBreaksOff
    \/ StepEnds \/ StepInstruction \/ InstructionStops \/ InstructionIgnores
    \/ StepOut \/ OutReaches \/ OutEnds \/ OutSuspends \/ OutIgnores

\* Windows schedules the runnable threads, and the loops only wait for events.
DebugLoop ==
    \/ ResumePermanent \/ ResumeStops \/ ResumePasses \/ ResumeIgnores \/ ResumeThrows
    \/ ResumeLowers \/ ResumeOverIgnores \/ StepLowers \/ StepOverIgnores \/ StepBegins
    \/ StepAgain \/ StepStopsAtUser \/ StepPassesUser \/ StepArrives \/ StepIgnores
    \/ StepBreaksOff \/ StepEnds \/ InstructionStops \/ InstructionIgnores \/ OutReaches \/ OutEnds
    \/ OutSuspends \/ OutIgnores
Fairness == WF_vars(DebugLoop) /\ \A t \in Thread : WF_vars(Execute(t))

Spec == Init /\ [][Next]_vars /\ Fairness

----------------------------------------------------------------------------
(* Properties. *)

\* At the prompt the user's breakpoints and the entry points are armed: whatever
\* events came in between, what was lifted is lowered and what was placed for a
\* step is removed.  Nothing else is armed, except where the user has once asked
\* for a breakpoint he had: that int3 is never taken away
\* (breakpoint_manager.cpp:21-28).
PromptLeavesBreakpoints ==
    mode = "prompt" =>
        \A a \in Address : byte[a] = int3 <=> a \in UserAddress \cup EntryPoints \cup asked_twice

\* Suspend counts nest: at the prompt every thread is suspended once, and while
\* the program runs freely nobody is, unless a step was interrupted.
SuspendCountsBalance ==
    ~interrupted =>
        /\ mode = "prompt" => \A t \in Thread : suspended[t] = 1
        /\ mode = "resume" => \A t \in Thread : suspended[t] = 0

\* "keeping every other thread frozen until the trap fires": no other thread
\* that the debugger has ever opened runs while a breakpoint is lifted.
FrozenWhileLifted ==
    mode \in {"resumeOver", "stepOver"} /\ ~interrupted =>
        \A t \in thread_id_to_meta \ {over.thread} : suspended[t] > 0

\* A lifted breakpoint is put back: the loop that waits for the trap does not
\* wait for ever, whatever other stops are queued.
LiftedIsLowered ==
    mode \in {"resumeOver", "stepOver"} /\ ~interrupted
        ~> mode \notin {"resumeOver", "stepOver"}
=============================================================================
