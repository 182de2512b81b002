---------------------------- MODULE TimeRestore ----------------------------
(***************************************************************************)
(* How a time restore puts back the threads and the DLLs of the debuggee:  *)
(* the histories the managers keep (thread_manager.cpp, module_manager.cpp)*)
(* over the runs of a session, and the two debug loops of                  *)
(* time_restore_phase.cpp.  The first loop lets the main thread unload     *)
(* DLLs in shell code, the second one waits for a worker that restores and *)
(* terminates threads.  Debug events left over from the phase before, and  *)
(* the ones a loop leaves over, are in queued.                             *)
(***************************************************************************)
EXTENDS ExecutionTree, Clock

CONSTANTS Thread, Main, Dll,
          MaxContext,             \* bound on how far a thread gets
          MaxChanges,             \* bound on threads and DLLs coming and going
          MaxStops                \* bound on stops

ASSUME TimeRestoreAssumption ==
    /\ Main \in Thread /\ Thread \cap Dll = {}
    /\ MaxContext \in Nat /\ MaxRun \in Nat /\ MaxSequence \in Nat /\ MaxChanges \in Nat /\ MaxStops \in Nat

(* The debuggee. *)
VARIABLES alive, dlls, context, queued

(* The debugger. *)
VARIABLES phase, next_phase,
          history,               \* process_thread_history, process_module_history
          current_thread_ids,
          snapshots,             \* what was there when each was taken
          target,
          to_unload,             \* what the shell code still unloads
          worker,                \* RestoreThreadsAtSequence
          timed_out              \* the pump has found the queue empty

VARIABLES missed,                \* what came or went while nobody kept track, and the
                                 \* threads of which the wrong call returned last
          thread_calls,          \* recorded calls about threads that have not returned
          changes, stops

debuggee == <<alive, dlls, context, queued>>
tracking == <<history, current_thread_ids, missed>>
clock == <<run_id, run_sequence, snapshots>>
restoring == <<target, to_unload, worker, timed_out>>
activity == <<thread_calls, changes, stops>>
vars == <<debuggee, phase, next_phase, tracking, clock, restoring, activity>>

Object == Thread \cup Dll
Context == 1..MaxContext     \* the registers of a thread: how far it has come
ShellCode == 0               \* those of the hijacked thread
NoWorker == [at |-> "none", leftover |-> {}, victim |-> Main]

Info(o, present) == [loaded |-> present, context |-> IF o \in Thread THEN context[o] ELSE ShellCode]
Missing == [loaded |-> FALSE, context |-> ShellCode]

StateAt(o, run, seq) ==
    IF history[o] = <<>> THEN Missing ELSE GetState(history[o][1], run, seq, Missing)
LoadedAt(run, seq) == {o \in Object : StateAt(o, run, seq).loaded}

RecordedAt(o, info, seq) ==
    IF history[o] = <<>> THEN <<NewTree(info, run_id, seq)>>
    ELSE <<AddChild(history[o][1], info, run_id, seq)>>
Recorded(o, info) == RecordedAt(o, info, run_sequence)

Init ==
    /\ alive = {Main} /\ dlls = {}
    /\ context = [t \in Thread |-> 1]
    /\ queued = <<>>
    /\ phase = "recording" /\ next_phase = "reconstruction"
    /\ current_thread_ids = {Main}
    /\ run_id = 0 /\ run_sequence = 1
    /\ history = [o \in Object |-> IF o = Main THEN <<NewTree(Info(Main, TRUE), 0, 0)>> ELSE <<>>]
    /\ snapshots = [v \in {<<0, 0>>} |-> [threads |-> [t \in {Main} |-> context[t]], dlls |-> {}]]
    /\ target = <<0, 0>> /\ to_unload = {} /\ worker = NoWorker /\ timed_out = FALSE
    /\ missed = {} /\ thread_calls = {} /\ changes = 0 /\ stops = 0

----------------------------------------------------------------------------
(* The debuggee runs.                                                      *)

Running == phase \in {"recording", "reconstruction", "resume"}
Waits(t) == \E i \in 1..Len(queued) : queued[i].thread = t
Runs(t) == Running /\ t \in alive /\ ~Waits(t)

Event(t, kind, o) == [thread |-> t, kind |-> kind, object |-> o]
Raise(t, kind, o) == queued' = Append(queued, Event(t, kind, o))
Changes == changes < MaxChanges /\ changes' = changes + 1
UnchangedDebugger == UNCHANGED <<phase, next_phase, tracking, clock, restoring>>

\* An intercepted call has a return to come; a thread that ends itself never
\* returns, and not every thread comes by an intercepted call.
MayReturn(kind, t) ==
    \/ UNCHANGED thread_calls
    \/ phase = "recording" /\ thread_calls' = thread_calls \cup {<<kind, t>>}

Work(t) ==
    /\ Runs(t)
    /\ \E c \in Context : c > context[t] /\ context' = [context EXCEPT ![t] = c]
    /\ UnchangedDebugger /\ UNCHANGED <<alive, dlls, queued, activity>>

CreateThread(t, u) ==
    /\ Runs(t) /\ u \notin alive /\ ~Waits(u) /\ Changes
    /\ alive' = alive \cup {u}
    /\ Raise(u, "create thread", u)
    /\ MayReturn("create", u)
    /\ UnchangedDebugger /\ UNCHANGED <<dlls, context, stops>>

ExitThread(t) ==
    /\ Runs(t) /\ t # Main /\ Changes
    /\ alive' = alive \ {t}
    /\ Raise(t, "exit thread", t)
    /\ MayReturn("terminate", t)
    /\ UnchangedDebugger /\ UNCHANGED <<dlls, context, stops>>

LoadDll(t, d) ==
    /\ Runs(t) /\ d \notin dlls /\ Changes
    /\ dlls' = dlls \cup {d}
    /\ Raise(t, "load dll", d)
    /\ UnchangedDebugger /\ UNCHANGED <<alive, context, thread_calls, stops>>

UnloadDll(t, d) ==
    /\ Runs(t) /\ d \in dlls /\ Changes
    /\ dlls' = dlls \ {d}
    /\ Raise(t, "unload dll", d)
    /\ UnchangedDebugger /\ UNCHANGED <<alive, context, thread_calls, stops>>

\* A thread reaches an entry point, or the return address of a call.
Stop(t, kind) ==
    /\ Runs(t) /\ stops < MaxStops
    /\ stops' = stops + 1
    /\ Raise(t, kind, t)
    /\ UnchangedDebugger /\ UNCHANGED <<alive, dlls, context, thread_calls, changes>>

----------------------------------------------------------------------------
(* The managers.                                                           *)

\* Mutant: an id that comes back keeps the history it has.
TrackKnownAt(o, seq) ==
    /\ history' = [history EXCEPT ![o] = IF @ = <<>> THEN RecordedAt(o, Info(o, TRUE), seq) ELSE @]
    /\ current_thread_ids' = current_thread_ids \cup ({o} \cap Thread)

\* TrackThread, TrackDLL
TrackAt(o, seq) ==
    /\ history' = [history EXCEPT ![o] = RecordedAt(o, Info(o, TRUE), seq)]
    /\ current_thread_ids' = current_thread_ids \cup ({o} \cap Thread)
Track(o) == TrackAt(o, run_sequence)

\* UntrackThread, UntrackDLL: what was never tracked is not recorded.
UntrackAt(o, seq) ==
    /\ history' = [history EXCEPT ![o] = IF @ = <<>> THEN <<>> ELSE RecordedAt(o, Missing, seq)]
    /\ current_thread_ids' = current_thread_ids \ {o}
Untrack(o) == UntrackAt(o, run_sequence)

de == queued[1]
Takes(ps) == phase \in ps /\ queued # <<>>
Comes == de.kind \in {"create thread", "load dll"}
Goes == de.kind \in {"exit thread", "unload dll"}
ContinueDebugEvent == queued' = Tail(queued)

\* The event is continued and nobody keeps track of what it says.
Drop ==
    /\ ContinueDebugEvent
    /\ missed' = IF Comes \/ Goes THEN missed \cup {de.object} ELSE missed
    /\ UNCHANGED <<alive, dlls, context, phase, next_phase, history, current_thread_ids, clock,
                   target, to_unload, worker, activity>>

TrackEvent ==
    /\ ContinueDebugEvent
    /\ IF Comes THEN Track(de.object)
       ELSE IF Goes THEN Untrack(de.object)
       ELSE UNCHANGED <<history, current_thread_ids>>
    /\ missed' = IF Comes \/ Goes THEN missed \ {de.object} ELSE missed
    /\ UNCHANGED <<alive, dlls, context, phase, next_phase, clock, target, to_unload, worker,
                   activity>>

----------------------------------------------------------------------------
(* The phases before and after a restore.                                  *)

\* RecordingPhase tracks DLLs by their events, threads by recorded calls.
RecordingEvent ==
    /\ Takes({"recording"})
    /\ IF de.kind \in {"create thread", "exit thread"} THEN Drop ELSE TrackEvent
    /\ UNCHANGED timed_out

\* BaseEvent: a call to one of the intercepted functions moves the clock.
CallBegins ==
    /\ phase = "recording" /\ run_sequence < MaxSequence
    /\ run_sequence' = run_sequence + 1
    /\ UNCHANGED <<debuggee, phase, next_phase, tracking, run_id, snapshots, restoring, activity>>

LastRecorded(t) ==
    IF history[t] = <<>> THEN 0 ELSE history[t][1].nodes[Len(history[t][1].nodes)].seq

\* ThreadCreateEvent::FinishEvent, ThreadDestroyEvent::FinishEvent: the call that
\* began at seq returns.  The kind of the call decides, not what has become of the
\* thread: a creation that returns behind the end of its thread tracks it for good.
FinishThreadEvent(kind, t, seq) ==
    /\ phase = "recording" /\ <<kind, t>> \in thread_calls
    /\ seq \in (LastRecorded(t) + 1)..(run_sequence - 1)
    /\ kind = "create" => TrackAt(t, seq)
    /\ kind = "terminate" => UntrackAt(t, seq)
    /\ missed' = IF (kind = "create") = (t \in alive) THEN missed \ {t} ELSE missed \cup {t}
    /\ thread_calls' = thread_calls \ {<<kind, t>>}
    /\ UNCHANGED <<debuggee, phase, next_phase, clock, restoring, changes, stops>>

ReconstructionEvent == Takes({"reconstruction"}) /\ TrackEvent /\ UNCHANGED timed_out

\* resume_process_execution looks at breakpoints only.
ResumeEvent == Takes({"resume"}) /\ Drop /\ UNCHANGED timed_out

\* DLLs that are gone although their event has not been seen yet.
Unreported == {queued[i].object : i \in {j \in 1..Len(queued) : queued[j].kind = "unload dll"}}

\* SnapshotThreads
MicroSnapshot ==
    /\ phase = "reconstruction"
    /\ run_sequence < MaxSequence
    /\ history' = [o \in Object |->
           IF o \in current_thread_ids THEN Recorded(o, Info(o, TRUE)) ELSE history[o]]
    /\ snapshots' = [v \in DOMAIN snapshots \cup {<<run_id, run_sequence>>} |->
           IF v = <<run_id, run_sequence>>
           THEN [threads |-> [t \in current_thread_ids |-> context[t]],
                 dlls |-> (dlls \ missed) \cup Unreported]
           ELSE snapshots[v]]
    /\ run_sequence' = run_sequence + 1
    /\ phase' \in {"reconstruction", "debugger"}
    /\ UNCHANGED <<debuggee, next_phase, current_thread_ids, missed, run_id, restoring, activity>>

ResumeCommand ==
    /\ phase = "debugger" /\ phase' = "resume"
    /\ UNCHANGED <<debuggee, next_phase, tracking, clock, restoring, activity>>

UserStop ==
    /\ phase = "resume" /\ phase' = "debugger"
    /\ UNCHANGED <<debuggee, next_phase, tracking, clock, restoring, activity>>

----------------------------------------------------------------------------
(* TimeRestorePhase.                                                       *)

\* RestoreDLLsAtSequence
dlls_to_free(v) == Dll \cap (LoadedAt(run_id, run_sequence) \ LoadedAt(v[1], v[2]))

Enter(v, next) ==
    /\ run_id < MaxRun
    /\ target' = v
    /\ to_unload' = dlls_to_free(v)
    /\ context' = [context EXCEPT ![Main] = ShellCode]
    /\ phase' = "dlls" /\ next_phase' = next
    /\ worker' = NoWorker /\ timed_out' = FALSE
    /\ thread_calls' = {}
    /\ UNCHANGED <<alive, dlls, queued, tracking, clock, changes, stops>>

EndRecording == phase = "recording" /\ Enter(<<0, 0>>, "reconstruction")
SnapshotCommand(v) == phase = "debugger" /\ v \in DOMAIN snapshots /\ Enter(v, "debugger")

\* The main thread runs the shell code, up to its int3.
RunShellCode ==
    /\ phase = "dlls" /\ ~Waits(Main)
    /\ \/ \E d \in to_unload :
              /\ to_unload' = to_unload \ {d}
              /\ dlls' = dlls \ {d}
              /\ IF d \in dlls THEN Raise(Main, "unload dll", d) ELSE UNCHANGED queued
       \/ /\ to_unload = {}
          /\ Raise(Main, "shell code", Main)
          /\ UNCHANGED <<dlls, to_unload>>
    /\ UNCHANGED <<alive, context, phase, next_phase, tracking, clock, target, worker,
                   timed_out, activity>>

\* The type of a stop: the main thread's Rip is in the shell code whatever it
\* stopped at before.
StopKnown == de.thread # Main \/ de.kind = "shell code"

\* Mutant: the loop is entered again before ContinueDebugEvent.
RestoreDllEventSkips ==
    /\ Takes({"dlls"})
    /\ Comes \/ (de.kind = "entry point" /\ StopKnown)
    /\ Drop /\ UNCHANGED timed_out

\* RunDllRestore
RestoreDllEvent ==
    /\ Takes({"dlls"})
    /\ Comes \/ Goes \/ (de.kind = "entry point" /\ StopKnown)
    /\ Drop /\ UNCHANGED timed_out

RestoreDllEnds ==
    /\ Takes({"dlls"}) /\ de.kind = "shell code"
    /\ ContinueDebugEvent
    /\ phase' = "threads"
    /\ worker' = [NoWorker EXCEPT !.at = "start"]
    /\ UNCHANGED <<alive, dlls, context, next_phase, tracking, clock, target, to_unload,
                   timed_out, activity>>

\* A stop at a return address, or one whose type is not known.
RestoreFails ==
    /\ Takes({"dlls", "threads"})
    /\ ~Comes /\ ~Goes /\ de.kind # "shell code"
    /\ de.kind = "entry point" => ~StopKnown
    /\ phase' = "failed"
    /\ UNCHANGED <<debuggee, next_phase, tracking, clock, restoring, activity>>

----------------------------------------------------------------------------
(* RestoreThreadsAtSequence, on a thread of its own.                       *)

snapped_threads == Thread \cap LoadedAt(target[1], target[2])
current_threads == Thread \cap LoadedAt(run_id, run_sequence)
Leftover == current_threads \ snapped_threads

WorkerStarts ==
    /\ worker.at = "start"
    /\ context' = [t \in Thread |->
           IF t \in snapped_threads \cap current_threads /\ t \in alive
           THEN StateAt(t, target[1], target[2]).context ELSE context[t]]
    /\ worker' = [worker EXCEPT !.at = "terminate", !.leftover = Leftover]
    /\ UNCHANGED <<alive, dlls, queued, phase, next_phase, tracking, clock, target, to_unload,
                   timed_out, activity>>

WorkerTerminates ==
    /\ worker.at = "terminate"
    /\ \E t \in worker.leftover :
           /\ alive' = alive \ {t}
           /\ IF t \in alive THEN Raise(t, "exit thread", t) ELSE UNCHANGED queued
           /\ worker' = [at |-> "untrack", leftover |-> worker.leftover \ {t}, victim |-> t]
    /\ UNCHANGED <<dlls, context, phase, next_phase, tracking, clock, target, to_unload,
                   timed_out, activity>>

WorkerUntracks ==
    /\ worker.at = "untrack"
    /\ Untrack(worker.victim)
    /\ missed' = missed \ {worker.victim}
    /\ worker' = [worker EXCEPT !.at = "terminate"]
    /\ UNCHANGED <<debuggee, phase, next_phase, clock, target, to_unload, timed_out, activity>>

WorkerEnds ==
    /\ worker.at = "terminate" /\ worker.leftover = {}
    /\ worker' = [worker EXCEPT !.at = "ready"]
    /\ UNCHANGED <<debuggee, phase, next_phase, tracking, clock, target, to_unload, timed_out,
                   activity>>

----------------------------------------------------------------------------
(* RunThreadRestore: the worker is asked only when no event is left, and   *)
(* goes on between the two.                                                *)

RestoreThreadEvent ==
    /\ Takes({"threads"}) /\ ~timed_out
    /\ Comes \/ Goes \/ de.kind = "entry point"
    /\ TrackEvent
    /\ UNCHANGED timed_out

FindsNoEvent ==
    /\ phase = "threads" /\ queued = <<>> /\ ~timed_out
    /\ timed_out' = TRUE
    /\ UNCHANGED <<debuggee, phase, next_phase, tracking, clock, target, to_unload, worker,
                   activity>>

AsksWorker ==
    /\ phase = "threads" /\ timed_out
    /\ timed_out' = FALSE
    /\ phase' = IF worker.at = "ready" THEN "exit" ELSE "threads"
    /\ UNCHANGED <<debuggee, next_phase, tracking, clock, target, to_unload, worker, activity>>

\* Mutant: the histories go on from where the program was.
BranchFromHere(o) == RevertToState(history[o][1], run_id, run_sequence, run_id + 1)
\* CreateThreadHistoryBranch, CreateModuleHistoryBranch
Branch(o) == RevertToState(history[o][1], target[1], target[2], run_id + 1)

Exit ==
    /\ phase = "exit"
    /\ history' = [o \in Object |-> IF history[o] = <<>> THEN <<>> ELSE <<Branch(o)>>]
    /\ run_id' = run_id + 1 /\ run_sequence' = 0
    /\ phase' = next_phase
    /\ worker' = NoWorker
    /\ UNCHANGED <<debuggee, next_phase, current_thread_ids, missed, snapshots, target,
                   to_unload, timed_out, activity>>

----------------------------------------------------------------------------
Program ==
    \E t \in Thread :
        \/ Work(t) \/ ExitThread(t)
        \/ \E u \in Thread \ {Main} : CreateThread(t, u)
        \/ \E d \in Dll : LoadDll(t, d) \/ UnloadDll(t, d)
        \/ \E kind \in {"entry point", "return"} : Stop(t, kind)
Phases ==
    \/ RecordingEvent \/ ReconstructionEvent \/ ResumeEvent
    \/ CallBegins
    \/ \E kind \in {"create", "terminate"}, t \in Thread \ {Main}, seq \in 1..MaxSequence :
            FinishThreadEvent(kind, t, seq)
    \/ MicroSnapshot \/ ResumeCommand \/ UserStop
    \/ EndRecording
    \/ \E v \in DOMAIN snapshots : SnapshotCommand(v)
DebugLoop ==
    \/ RestoreDllEvent \/ RestoreDllEnds \/ RestoreFails
    \/ RestoreThreadEvent \/ FindsNoEvent \/ AsksWorker \/ Exit
Worker == WorkerStarts \/ WorkerTerminates \/ WorkerUntracks \/ WorkerEnds

Next == Program \/ Phases \/ DebugLoop \/ RunShellCode \/ Worker

Spec == /\ Init /\ [][Next]_vars
        /\ WF_vars(DebugLoop) /\ WF_vars(RunShellCode) /\ WF_vars(Worker)

----------------------------------------------------------------------------
(* Properties. *)

\* What was recorded more than once in the version it was first tracked in: of
\* those records FindNode finds the first.
Hidden(v) ==
    {o \in Object : history[o] # <<>> /\
        LET tree == history[o][1]
        IN  /\ FindNode(tree, v[1], v[2]) = 1
            /\ \E n \in 2..Len(tree.nodes) : /\ tree.nodes[n].run = tree.nodes[1].run
                                            /\ tree.nodes[n].seq = tree.nodes[1].seq}

\* When a restore exits, no thread and no DLL that the debugger has kept track
\* of (it is not missed) outlives it unless the snapshot had it, and every thread
\* that is left has the registers the snapshot saved, through any number of runs -
\* but for those of which the version they were first tracked in hides something.
RestoreRewinds ==
    phase = "exit" =>
        LET seen == (Object \ missed) \ Hidden(target)
            snapshot == snapshots[target]
        IN  /\ \A t \in alive \cap seen :
                   t \in DOMAIN snapshot.threads /\ context[t] = snapshot.threads[t]
            /\ dlls \cap seen \subseteq snapshot.dlls

\* Between restores the thread history of the run, the set the next snapshot
\* goes through and the threads of the process agree, as far as events have
\* been seen.  Not so a thread whose creation returned behind its end, which is
\* tracked although it is dead, nor one that came or went with no call to return:
\* both are missed.
ThreadsAreKnown ==
    phase \in {"recording", "reconstruction", "debugger", "resume"} =>
        \A t \in {u \in Thread \ missed : ~Waits(u)} :
            /\ t \in alive <=> t \in current_thread_ids
            /\ t \in alive => t \in LoadedAt(run_id, run_sequence)

\* A restore ends: the shell code reaches its int3, the worker is done, and the
\* pump finds that out.
RestoreEnds ==
    phase \in {"dlls", "threads", "exit"} ~> phase \notin {"dlls", "threads", "exit"}
=============================================================================
