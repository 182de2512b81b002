----------------------------- MODULE Recording -----------------------------
(***************************************************************************)
(* The recording: threads of the debuggee run into the entry points of     *)
(* NtCreateThreadEx, NtTerminateThread, LdrLoadDll and LdrUnloadDll, the   *)
(* debugger redirects them through the trampoline, waits for the call to   *)
(* return, and logs the event (record_phase.cpp, event_log.cpp,            *)
(* base_event.h, thread_events.cpp, thread_manager.cpp).                   *)
(*                                                                         *)
(* A thread that executes an int3 stops; Windows queues the exception and  *)
(* the other threads go on until the debugger waits for it.  Stopping and  *)
(* handling are therefore two steps, and other threads may stop, and their *)
(* stops be handled, between them.                                         *)
(***************************************************************************)
EXTENDS BreakpointManager, ExecutionTree, FiniteSets

CONSTANTS CreateThread,     \* the address of NtCreateThreadEx
          TerminateThread,  \* the address of NtTerminateThread
          LoadDll,          \* the address of LdrLoadDll (and of LdrUnloadDll)
          FirstThreads,     \* the threads that exist at the entry point
          ReturnSites,      \* where the intercepted calls of a thread return to
          Victims,          \* the threads a thread may terminate
          Recursion,        \* may a return address be pending twice?
          MaxEvents,        \* bound on intercepted calls
          MaxDepth          \* bound on their nesting

EntryPoints == {CreateThread, TerminateThread, LoadDll}
AllSites == UNION {ReturnSites[t] : t \in Thread}

ASSUME RecordingAssumption ==
    /\ EntryPoints \subseteq Address
    /\ CreateThread # TerminateThread
    /\ LoadDll \notin {CreateThread, TerminateThread}
    /\ FirstThreads \subseteq Thread
    /\ ReturnSites \in [Thread -> SUBSET Address]
    /\ EntryPoints \cap AllSites = {}
    /\ Victims \in [Thread -> SUBSET Thread]
    /\ Recursion \in BOOLEAN
    /\ MaxEvents \in Nat /\ MaxDepth \in Nat

(* The debuggee. *)
VARIABLES status,     \* of each thread
          at,         \* where a thread is: in the program's code, at an entry
                      \* point, in the body of the intercepted function, or at
                      \* its return address
          frames,     \* its intercepted calls, innermost last
          stopped     \* it executed an int3 and waits for the debugger

(* The debugger. *)
VARIABLES phase,
          event_log,
          pending_thread_events,   \* a stack of events per thread, top last
          global_sequence,
          thread_id_to_sequence,
          current_thread_ids,
          process_thread_history   \* <<tree>> of a thread seen, else <<>>

debuggee == <<status, at, frames, stopped>>
events == <<event_log, pending_thread_events, global_sequence, thread_id_to_sequence>>
threads == <<current_thread_ids, process_thread_history>>
vars == <<breakpointVars, debuggee, phase, events, threads>>

\* The entry snapshot moved run_sequence once, the events move both counters;
\* the recording is run 0.
run_sequence == global_sequence + 1
run_id == 0

Loaded == "loaded"
Unloaded == "unloaded"

\* A frame is open from the moment the debugger has seen the call until it has
\* seen the return.
Frame(function, site, target) ==
    [function |-> function, site |-> site, target |-> target, open |-> FALSE]

Top(s) == s[Len(s)]
Pop(s) == SubSeq(s, 1, Len(s) - 1)
OpenFrames(t) == {i \in 1..Len(frames[t]) : frames[t][i].open}

\* The entry point was reached, the trampolines are loaded, the threads are
\* tracked and the first snapshot is taken.
Init ==
    /\ byte = [a \in Address |-> IF a \in EntryPoints THEN int3 ELSE Code]
    /\ address_to_bp = [a \in EntryPoints |->
           [saved |-> Code, kind |-> "Permanent", count |-> 1, holders |-> <<>>]]
    /\ permanent = EntryPoints
    /\ user_breakpoints = [a \in {} |-> Code]
    /\ status = [t \in Thread |-> IF t \in FirstThreads THEN "alive" ELSE "unborn"]
    /\ at = [t \in Thread |-> "code"]
    /\ frames = [t \in Thread |-> <<>>]
    /\ stopped = [t \in Thread |-> FALSE]
    /\ phase = "recording"
    /\ event_log = <<>>
    /\ pending_thread_events = [t \in Thread |-> <<>>]
    /\ global_sequence = 0
    /\ thread_id_to_sequence = [t \in Thread |-> 0]
    /\ current_thread_ids = FirstThreads
    /\ process_thread_history = [t \in Thread |->
           IF t \in FirstThreads THEN <<AddChild(NewTree(Loaded, 0, 0), Loaded, 0, 0)>>
           ELSE <<>>]

----------------------------------------------------------------------------
(* The debuggee's threads.                                                 *)

Runs(t) ==
    /\ phase = "recording"
    /\ status[t] = "alive"
    /\ ~stopped[t]

\* The targets of a call: the new thread's id, which the kernel picks and
\* nobody else gets, or the thread to terminate.
Targets(t, function) ==
    CASE function = CreateThread    -> {u \in Thread : status[u] = "unborn"}
      [] function = TerminateThread -> {u \in Victims[t] : status[u] \in {"alive", "dead"}}
      [] function = LoadDll         -> {t}

\* A call, from the program's code or from the DllMain of a DLL being loaded.
Call(t, function, site, target) ==
    /\ Runs(t)
    /\ \/ at[t] = "code"
       \/ at[t] = "body" /\ Top(frames[t]).function = LoadDll
    /\ Len(frames[t]) < MaxDepth
    /\ global_sequence + Cardinality({u \in Thread : at[u] = "entry"}) < MaxEvents
    /\ Recursion \/ \A i \in 1..Len(frames[t]) : frames[t][i].site # site
    /\ at' = [at EXCEPT ![t] = "entry"]
    /\ frames' = [frames EXCEPT ![t] = Append(@, Frame(function, site, target))]
    /\ status' = IF function = CreateThread
                 THEN [status EXCEPT ![target] = "reserved"] ELSE status
    /\ UNCHANGED <<breakpointVars, stopped, phase, events, threads>>

\* The address the thread executes next, where an int3 may be.
Rip(t) == IF at[t] = "entry" THEN Top(frames[t]).function ELSE Top(frames[t]).site

Stop(t) ==
    /\ Runs(t)
    /\ at[t] \in {"entry", "return"}
    /\ byte[Rip(t)] = int3
    /\ stopped' = [stopped EXCEPT ![t] = TRUE]
    /\ UNCHANGED <<breakpointVars, status, at, frames, phase, events, threads>>

\* Back in the caller.
Return(t) ==
    /\ Runs(t)
    /\ at[t] = "return"
    /\ byte[Rip(t)] = Code
    /\ frames' = [frames EXCEPT ![t] = Pop(@)]
    /\ at' = [at EXCEPT ![t] = IF Len(frames[t]) = 1 THEN "code" ELSE "body"]
    /\ UNCHANGED <<breakpointVars, status, stopped, phase, events, threads>>

\* The system does what was asked.  A thread that terminates itself does not
\* return; a thread that is terminated takes its queued exception with it.
Perform(t) ==
    /\ Runs(t)
    /\ at[t] = "body"
    /\ LET frame == Top(frames[t])
           dying == frame.function = TerminateThread
       IN  /\ at' = [at EXCEPT ![t] = "return"]
           /\ status' = CASE frame.function = CreateThread ->
                               [status EXCEPT ![frame.target] = "alive"]
                          [] dying -> [status EXCEPT ![frame.target] = "dead"]
                          [] OTHER -> status
           /\ stopped' = IF dying THEN [stopped EXCEPT ![frame.target] = FALSE]
                                  ELSE stopped
    /\ UNCHANGED <<breakpointVars, frames, phase, events, threads>>

----------------------------------------------------------------------------
(* thread_manager.cpp                                                      *)

Recorded(t, state, run_seq) ==
    [process_thread_history EXCEPT ![t] =
        IF @ = <<>> THEN <<NewTree(state, run_id, run_seq)>>
                    ELSE <<AddChild(@[1], state, run_id, run_seq)>>]

\* Mutant: the thread is not listed.
TrackThreadUnlisted(t, run_seq) ==
    /\ UNCHANGED current_thread_ids
    /\ process_thread_history' = Recorded(t, Loaded, run_seq)

TrackThread(t, run_seq) ==
    /\ current_thread_ids' = current_thread_ids \cup {t}
    /\ process_thread_history' = Recorded(t, Loaded, run_seq)

\* "Untracking thread before tracking" records nothing.
UntrackThread(t, run_seq) ==
    /\ current_thread_ids' = current_thread_ids \ {t}
    /\ process_thread_history' = IF process_thread_history[t] = <<>>
                                 THEN process_thread_history
                                 ELSE Recorded(t, Unloaded, run_seq)

----------------------------------------------------------------------------
(* Events.                                                                 *)

\* BaseEvent's constructor, and what the subclass reads from the context.
NewEvent(t, function, target) ==
    [global_seq |-> global_sequence, run_sequence |-> run_sequence,
     thread_seq |-> thread_id_to_sequence[t], thread |-> t,
     function |-> function, target |-> target]

FinishEvent(event) ==
    \/ /\ event.function = CreateThread
       /\ TrackThread(event.target, event.run_sequence)
    \/ /\ event.function = TerminateThread
       /\ UntrackThread(event.target, event.run_sequence)
    \/ /\ event.function = LoadDll
       /\ UNCHANGED threads

\* Mutant: push_back.
AddEventLast(event) == event_log' = Append(event_log, event)

\* upper_bound and insert: calls return in another order than they began.
AddEvent(event) ==
    LET upTo == CHOOSE n \in 0..Len(event_log) : \A i \in 1..Len(event_log) :
                    event_log[i].global_seq <= event.global_seq <=> i <= n
    IN  event_log' = SubSeq(event_log, 1, upTo) \o <<event>>
                         \o SubSeq(event_log, upTo + 1, Len(event_log))

----------------------------------------------------------------------------
(* HandleBreakpoint: the debugger takes the exception of a stopped thread. *)

\* Mutant: the completed event stays on the stack.
KeepEvent(t) == pending_thread_events

PopEvent(t) == [pending_thread_events EXCEPT ![t] = Pop(@)]

Resume(t) == stopped' = [stopped EXCEPT ![t] = FALSE]

OpenTop(t, open) == [frames EXCEPT ![t][Len(frames[t])].open = open]

\* BreakpointType::Permanent
OnBreakpointEnter(t) ==
    LET frame == Top(frames[t])
    IN  /\ at' = [at EXCEPT ![t] = "body"]
        /\ frames' = OpenTop(t, TRUE)
        /\ CreateHeldBreakpoints({frame.site}, t, "Return")
        /\ pending_thread_events' = [pending_thread_events EXCEPT ![t] =
               Append(@, NewEvent(t, frame.function, frame.target))]
        /\ global_sequence' = global_sequence + 1
        /\ thread_id_to_sequence' = [thread_id_to_sequence EXCEPT ![t] = @ + 1]
        /\ UNCHANGED <<status, phase, event_log, threads>>

\* BreakpointType::Return
OnBreakpointReturn(t) ==
    IF pending_thread_events[t] = <<>>
    THEN UNCHANGED <<breakpointVars, status, at, frames, phase, events, threads>>
    ELSE /\ FinishEvent(Top(pending_thread_events[t]))
         /\ AddEvent(Top(pending_thread_events[t]))
         /\ pending_thread_events' = PopEvent(t)
         /\ RemoveBreakpoints({Rip(t)}, t)
         /\ frames' = OpenTop(t, FALSE)
         /\ UNCHANGED <<status, at, phase, global_sequence, thread_id_to_sequence>>

HandleBreakpoint(t) ==
    /\ phase = "recording"
    /\ stopped[t]
    /\ Resume(t)
    /\ LET type == GetBreakpointType(Rip(t), t)
       IN  \/ type = "Permanent" /\ OnBreakpointEnter(t)
           \/ type = "Return" /\ OnBreakpointReturn(t)
           \* rolled back, to execute the int3 again
           \/ /\ type = "SpinLock"
              /\ UNCHANGED <<breakpointVars, status, at, frames, phase, events, threads>>
           \* bp_type.value() throws
           \/ /\ type = NoBreakpoint
              /\ phase' = "aborted"
              /\ UNCHANGED <<breakpointVars, status, at, frames, events, threads>>

\* The time is up: the process is suspended and TimeRestorePhase is next.
Timeout ==
    /\ phase = "recording"
    /\ phase' = "restoring"
    /\ UNCHANGED <<breakpointVars, debuggee, events, threads>>

----------------------------------------------------------------------------
Next ==
    \/ \E t \in Thread :
          \/ \E function \in EntryPoints, site \in ReturnSites[t] :
                \E target \in Targets(t, function) : Call(t, function, site, target)
          \/ Stop(t) \/ Return(t) \/ Perform(t)
          \/ HandleBreakpoint(t)
    \/ Timeout

Spec == Init /\ [][Next]_vars

\* Windows schedules every thread that can run, and reports every exception
\* to the debugger, which waits for nothing else.  Nobody is bound to call.
Fairness ==
    \A t \in Thread : /\ WF_vars(Stop(t) \/ Return(t) \/ Perform(t))
                      /\ WF_vars(HandleBreakpoint(t))

FairSpec == Spec /\ Fairness

----------------------------------------------------------------------------
Event == [global_seq : Nat, run_sequence : Nat, thread_seq : Nat, thread : Thread,
          function : EntryPoints, target : Thread]

TypeOK ==
    /\ BreakpointTypeOK
    /\ status \in [Thread -> {"unborn", "reserved", "alive", "dead"}]
    /\ at \in [Thread -> {"code", "entry", "body", "return"}]
    /\ frames \in [Thread -> Seq([function : EntryPoints, site : Address,
                                  target : Thread, open : BOOLEAN])]
    /\ stopped \in [Thread -> BOOLEAN]
    /\ phase \in {"recording", "restoring", "aborted"}
    /\ event_log \in Seq(Event)
    /\ pending_thread_events \in [Thread -> Seq(Event)]
    /\ global_sequence \in Nat
    /\ thread_id_to_sequence \in [Thread -> Nat]
    /\ current_thread_ids \subseteq Thread

\* The log is in the order in which the calls began, whatever the order in
\* which they returned: AddEvent and ResetEventReplay search it by bisection
\* (event_log.cpp:24-31, 124-131).
LogSorted ==
    \A i, j \in 1..Len(event_log) :
        i < j => event_log[i].global_seq < event_log[j].global_seq

\* The events of the log and the pending events have the global sequences
\* handed out so far, each of them once: none is lost, none is logged twice
\* (event_log.cpp:44-70, base_event.h:26-42).
Places ==
    {<<"log", i>> : i \in 1..Len(event_log)} \cup
    UNION {{<<"pending", t, i>> : i \in 1..Len(pending_thread_events[t])} : t \in Thread}

SeqAt(p) == IF p[1] = "log" THEN event_log[p[2]].global_seq
            ELSE pending_thread_events[p[2]][p[3]].global_seq

EveryEventOnce ==
    /\ {SeqAt(p) : p \in Places} = 0..(global_sequence - 1)
    /\ \A p, q \in Places : SeqAt(p) = SeqAt(q) => p = q

\* The events a thread has pending are those of the calls it is in, outermost
\* first: the event a return completes is the event of the call that returns
\* ("write a verifier (or assert?) that checks if the address was a return
\* address to the initial breakpoint", event_log.cpp:57-58).  This needs
\* return addresses that no two pending calls share.
PendingMatchesFrames ==
    \A t \in Thread : status[t] = "alive" =>
        /\ OpenFrames(t) = 1..Len(pending_thread_events[t])
        /\ \A i \in OpenFrames(t) :
              /\ pending_thread_events[t][i].function = frames[t][i].function
              /\ pending_thread_events[t][i].target = frames[t][i].target

\* A thread holds as many return addresses as it has events pending, even when
\* calls share them: no thread is ever taken for one that returns while it has
\* nothing to complete, which would leave it at its int3 for good
\* (event_log.cpp:60-61, 69).
HoldsOf(t) ==
    UNION {{<<a, i>> : i \in {j \in 1..Len(address_to_bp[a].holders) :
                                 address_to_bp[a].holders[j] = t}} : a \in Tracked}

HoldsMatchPending ==
    \A t \in Thread : Cardinality(HoldsOf(t)) = Len(pending_thread_events[t])

\* Every exception the debugger takes has a reason it knows
\* (record_phase.cpp:153 calls .value()).
NeverAborted == phase # "aborted"

\* A thread that lives is tracked, or its creator lives and the event that will
\* track it waits for the creator's call to return (thread_events.cpp:14-29).  A
\* creator that is terminated inside NtCreateThreadEx never returns from it: its
\* thread is orphaned, and no event ever tracks it.
Creating(t, u) ==
    \E i \in 1..Len(pending_thread_events[t]) :
        /\ pending_thread_events[t][i].function = CreateThread
        /\ pending_thread_events[t][i].target = u

Orphaned(u) == \E t \in Thread : status[t] # "alive" /\ Creating(t, u)

LiveThreadsAreTracked ==
    \A u \in Thread : status[u] = "alive" /\ ~Orphaned(u) =>
        \/ u \in current_thread_ids
        \/ \E t \in Thread : status[t] = "alive" /\ Creating(t, u)

\* A call that was intercepted is logged, unless its thread dies or the
\* recording ends first (event_log.cpp:59-70).
Unfinished(t) ==
    /\ phase = "recording"
    /\ status[t] = "alive"
    /\ pending_thread_events[t] # <<>>
EveryCallIsLogged == \A t \in Thread : Unfinished(t) ~> ~Unfinished(t)

=============================================================================
