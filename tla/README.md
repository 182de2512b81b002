# Chronoporia in TLA+

Chronoporia is a time-travel debugger for Windows x64. It runs a program (the
*debuggee*) once, recording snapshots of it and the non-deterministic system
calls it makes; then it can put any snapshot back and run the program again
from there, and so step backwards. This directory holds a model of that
machinery: TLA+ modules translated from the code under `src/src`, TLC
configurations that check them on small instances, and TLAPS proofs of what
holds for instances of any size.

## 1. Inventory

### The parts and how they interact

| part | state | operations | correct when |
|---|---|---|---|
| **State machine and phases** (`execution_state_machine/`) | the current phase | process start, recording, time restore, reconstruction, debugger prompt, reverse replay; each has `Enter`, `Run`, `Exit`, and `Run` answers with the transition | the phases follow each other in the order the histories assume |
| **Recording phase** (`record_phase.cpp`) | the debug loop | handles the stops of all threads at entry points and return addresses until a timeout | every stop has a reason the debugger knows; every intercepted call is logged |
| **Event log** (`event_log.cpp`, `Events/`) | `event_log`, a stack of pending events per thread, a stack of replayed events per thread | `OnBreakpointEnter`, `OnBreakpointReturn`, `ReplayEvent`, `ReplayEventEnd`, `ResetEventReplay` | the log is sorted, complete, without duplicates; each return completes its own call |
| **Breakpoint manager** (`breakpoint_manager.cpp`) | `address_to_bp`, `permanent_bp_to_trampoline`, `user_breakpoints`, and the int3 bytes in the debuggee | create, remove, lift and lower breakpoints of six kinds; say why a thread stopped | tables and bytes agree; nobody's breakpoint is removed for somebody else |
| **Trampolines** (`trampoline_manager.cpp`, `trampoline.cpp`) | the copied prologues | load, redirect a stopped thread, unload | interception lasts until the user detaches |
| **Execution trees** (`execution_tree.h`) | a tree of `(run_id, run_seq, state)` nodes with a cursor | constructor, `AddChild`, `RevertToState`, `FindNode` and its three copies | what is found for a version is what was recorded for it |
| **Fully persistent regions** (`fully_persistent_region.h`) | per page, one sorted vector of nodes for each run, a parent for each run, a cached cursor | `update`, `make_branch`, `get_region_at_time` | the same |
| **Memory manager, regions** (`memory_manager.cpp`, `utils/memory/`) | trees of allocations and regions, persistent regions of pages | snapshot, restore, branch | a restore puts back the memory of the snapshot |
| **Thread and module managers** | `process_thread_history`, `current_thread_ids`, `process_module_history` | track, untrack, snapshot, restore, branch | a restore leaves the threads and DLLs of the snapshot |
| **Snapshot log** (`snapshot_log.cpp`) | `snapshot_history` | take, branch, look up | versions of snapshots are versions of all the histories |
| **Time restore phase** | the shell code buffer | breaks in, restores DLLs and threads through injected code, then memory, then branches every history | afterwards the debuggee and all histories are at the snapshot |
| **Reconstruction phase** | the number of micro snapshots left | replays events, takes micro snapshots | every logged call is replayed once and in its thread's order |
| **Reverse replay phase** | predecessors, stop, branch counter | places breakpoints at the predecessors of an instruction, runs to the last one before it, retries from an earlier snapshot | ends at the predecessor with no breakpoint left over |
| **Commands** (`cli/debugger/commands`) | - | step, resume, breakpoint, snapshot, detach | the debuggee is left as the command found it, apart from having run |
| **Thread utilities, NT wrappers** | suspend counts kept by Windows | suspend, resume, read and write contexts | counts balance |
| **C++ plugin: instrumentation** (`branch_instrumentation.cpp`, `utils.cpp`) | `code_`, `patches_`, `instruction_remap_`, `g_instrumented_leaders`; per thread a branch counter and a branch target | analyses functions, moves the start of each basic block into a counting stub, translates addresses, walks stacks | the patched program does what the program did; branch counts order what a thread does in one frame |
| **C++ plugin: analysis** (`predecessor_analysis.cpp`, `pdb.cpp`, `cpp_breakpoint_plugin.cpp`) | `g_analysis` | predecessors by instruction, by line and into calls; breakpoints of a step; line ranges | predecessors contain the true one; a step stays on its line |
| **Plugin manager** (`plugin_manager.cpp`) | a table of plugins | forwards queries, reads the thread's branch counter for them | - |
| dump command, process utilities, encoding of machine code, compiling conditions, fully persistent array | - | input and output, code generation, a data structure nothing uses | not modelled |

Everything versioned shares one clock: `globals::run_id`, incremented by each
time restore, and `globals::run_sequence`, incremented by each event
(`base_event.h:41`) and each snapshot. A history is asked for the state at
`(run_id, run_seq)` of a snapshot; `branch` calls at the exit of a restore tell
each history that the new run continues from there.

The breakpoint manager is shared by everything that runs the debuggee. Its
tables are globals of the debugger and part of no snapshot; the bytes it writes
are in the debuggee's memory, and part of every snapshot. Much of what is hard
here comes from that difference.

### What is hard

* **Interleaving.** A thread that executes an int3 stops at once, but the
  debugger hears of it later, and meanwhile handles the stops of others which
  may add or remove the very breakpoint.
* **Order.** Calls of several threads, and nested calls of one (a `DllMain`
  that creates a thread), return in another order than they began.
* **Restores.** A restore changes the debuggee behind the back of tables that
  describe it; versions of runs branch off one another.
* **Partial failure.** A thread that ends itself never returns from
  `NtTerminateThread`; a new thread runs before it is tracked; a timeout may
  come between any two steps.
* **Retries.** Reverse replay retries from a snapshot with breakpoints
  of the earlier try still in the tables, and corrects its guesses as it goes.
* **Leftovers.** Debug events queue behind each other and outlive the loop that
  should have taken them: each phase and command must cope with the events of
  the one before.
* **Patched code.** A thread may be stopped anywhere, in a stub too, and
  everything the debugger asks about it has to be translated back.

There is no persistence in this program and so no crash recovery, and no
network and so no lost messages. `PROJECT.json` lists every hazard at its line.

## 2. The modules

```
VersionedRegister            what a history promises
  ^ implemented by
  |-- TreeHistory            one object in an ExecutionTree
  |     ExecutionTree        the tree as a data type  <-- ExecutionTreeWalk (its loops)
  |     Clock                the version everything is recorded under
  |                                               TimeRestoreProofs       theorems
  |-- PageHistory            one page of a FullyPersistentRegion
                                                  PageHistoryProofs       theorems

BreakpointManager            tables, bytes and operations
  ^ extended by
  |-- BreakpointSession      all callers, from entry point to prompt and back
  |     MCBreakpoints        instance          BreakpointSessionProofs  theorems
  |-- Recording              threads, event log, thread manager (with ExecutionTree)
  |     MCRecording          instance          RecordingProofs         theorems
  |-- Replay                 the log answers the threads' calls again
  |     MCReplay             instance          ReplayProofs            theorems
  |-- Commands               resume and step, suspend counts, queued stops
        MCCommands           instance          CommandsProofs          theorems

ExecutionTree, Clock
  ^ extended by
  |-- TimeRestore            histories of threads and DLLs, the restore's two loops
  |     MCTimeRestore        instance          TimeRestoreProofs       theorems
  |-- Memory                 the address space, saved and put back
        MCMemory             instance

Program                      a thread and its code, untouched
  ^ implemented by
  |-- Instrumentation        the thread in stubs and patched code (with ControlFlow)
        MCInstrumentation    instance          InstrumentationProofs   theorems
ControlFlow                  branches, blocks, lines, predecessors: pure operators

ReverseReplay                a replay that looks for a predecessor by branch counts
        MCReverseReplay      instance          ReverseReplayProofs     theorems
```

**VersionedRegister** says what every history promises, whatever its data
structure: `past[v]`, the value found for snapshot `v`, never changes once the
snapshot was taken, and going back to `v` makes the current value `past[v]`.

**ExecutionTree** is `ExecutionTree<Data>`: a record of nodes, branches and a
cursor. `FindNode` is defined by what it finds (the latest node of the run at
or before the sequence, else where the run branched off). The depth-first loops
with their stacks and prunings, of which the header has four copies, are in
**ExecutionTreeWalk** as recursive operators; the run checks that they find what
the definitions say. **TreeHistory** is an object kept in such a tree the way
the managers keep it: `RecordState` is `TrackDLL`, `UntrackDLL` or an update of a
region, `Restore` is the exit of a time restore. It has the object itself,
`state`, and the tree, and implements VersionedRegister. The version they are
recorded under, `globals::run_id` and `globals::run_sequence`, is in **Clock**,
which TimeRestore and Memory share.

**PageHistory** is `FatNodeHistory` and the parts of `FullyPersistentRegion`
that drive it, for one page: the vectors of each run, the parents, and the
cached cursor `update` compares with. The debuggee writes, decommits and
recommits the page between snapshots.

**BreakpointManager** has the manager's three tables, the byte at each address,
and an operator for each function. A byte is the program's own or int3.
**BreakpointSession** has all callers as actions, and the phase the debugger is
in: intercepted calls and their returns while running; user breakpoints, steps,
lifting, reversing and detaching at the prompt; `ReverseReplayPhase::Enter` and
`Exit` in three steps each (the predecessors, those listed a second time, the
catch); snapshots and time restores, which
exchange the bytes and the threads' stacks and leave the tables. Here a stop
and its handling are one step. **Recording** has them apart: each thread is in
the program, at an entry point, in the body of a call or at a return address,
may be `stopped` there, and `HandleBreakpoint` takes the stop later. It also has
the log, the pending stacks, the thread manager's tracking, thread creation and
termination, and the timeout.

**Replay** goes on from there: the restore of the first snapshot, the
reconstruction with `ReplayEvent` and `ReplayEventEnd`, its micro snapshots, and
restores from the prompt with `ResetEventReplay`. A thread of the program is a
*role* with a script of calls and returns, the same in every run; that is what
replaying takes for granted. `done` is how far it has come, `frames` the calls it
is in. Its thread id belongs to a run: a role created again may get another, as
Windows picks it. The recording is in this module only
to produce what it leaves: a log, tables with the return addresses still held,
and stacks of pending events, for every point at which the timeout may cut it
off. `recorded` is a history variable for the properties, and so is `replayed`
in a snapshot.

**Commands** puts two threads under the commands that run the debuggee from the
prompt. A thread at an int3, or with the trap flag set, queues an event and goes
no further until it is continued; the debug loops of `resume_process_execution`,
`single_step_and_restore`, `run_step_mode`, `single_step_user_breakpoint`,
`step_instruction` and `run_to_address` take the events in order, whatever
command they were raised under. Every suspension and resumption changes the
counts Windows keeps. `mode` is the loop the debugger is in.

**TimeRestore** has the life of threads and DLLs: they come and go in the
recording, the reconstruction and under a resume; the managers record that, each
object in an ExecutionTree, when a debug event or the return of an intercepted
call tells them, and a restore puts the snapshot's threads back in the two loops
of TimeRestorePhase. The main thread runs the injected shell code, which unloads
DLLs; a worker restores contexts and terminates leftover threads while the
debug loop goes on tracking what it hears. Events of the phase before are still
queued when it begins.

**Memory** is the address space: pages allocated, committed, protected, written,
freed and reused, an image loaded and unloaded. `VirtualQueryEx` reports maximal
runs of like pages as regions; each region the debugger has ever seen has its own
ExecutionTree, and `update_stale_regions` marks the ones that have gone.

**ControlFlow** is what the C++ plugin computes from a program: branches and
their kinds, basic blocks, which blocks can be instrumented, line ranges, the
breakpoints of a step and the predecessors of an instruction in the three modes
of a reverse step. **Instrumentation** builds the stubs block by block, with
blocks that have to be left alone, and then runs a thread through the patched
code: the prologue's pushes and pops, the counter, the trap at the branch target
and the jump back. It asks for predecessors, return addresses and steps wherever
the thread is. **Program** is the same thread without stubs; Instrumentation
implements it when addresses are translated back with
`get_original_instruction_address`.

**ReverseReplay** takes from these that branch counts order the past: the path
of one thread since the snapshot, replayed again and again until it stands at a
predecessor with the right count.

How state corresponds to the code: variables have the code's names where there
is one (`address_to_bp`, `event_log`, `pending_thread_events`,
`process_thread_history`, `run_sequence` ...); the others are the debuggee's
(`byte`, `calls`, `frames`, `status`, `at`, `stopped`) or the debugger's program
counter (`phase`, `job`). `map` in `PROJECT.json` gives the lines of each
definition.

### Assumptions and abstractions

* Reading and writing the debuggee succeeds. `NtCreateThreadEx` succeeds, and
  the new thread's id is picked when the call begins. A terminated thread takes
  its queued exception with it.
* The loops that place several breakpoints run while the debuggee is suspended
  and are one step.
* The entry point's own return breakpoint has come and gone within
  `ReachEntryPoint`. In Recording the run is run 0 and
  `run_sequence = global_sequence + 1`, since only events move the clock between
  the entry snapshot and the timeout.
* In Replay the restore ends every thread the snapshot does not have
  (TimeRestore has the real loop), and a pending stop goes with the context it
  belongs to. At the prompt only restores are modelled: no command replays
  events.
* BreakpointSession's commands do not let a thread leave an intercepted call;
  step-out runs to an address of the program. What threads do between stops
  during a command is in Commands.
* In TreeHistory an object does not change again in the version it was first
  seen in. TimeRestore does not assume that; there `Hidden` names the objects
  for which `FindNode` goes on finding the first record (see "Departures").
* In Commands a debug loop's pass is one step, since the process is frozen from
  `WaitForDebugEvent` to `ContinueDebugEvent`. An intercepted call at the prompt
  is one instruction, run in the trampoline. The check of `run_to_address` for
  recursion compares the stack pointer with a flag and never holds, as in the
  code. A condition may hold or fail at any stop. A breakpoint may be asked for
  where there is one, as the code does not look; `asked_twice` is a history
  variable that remembers where.
* In TimeRestore an intercepted call that creates or ends a thread may return at
  any later time of the recording, or never (`thread_calls`), and
  `FinishThreadEvent` does what its kind says, whatever has become of the thread.
  Its event has a number behind the last record's, as numbers are handed out in
  order. A thread's registers are how far it has come; DLLs are loaded
  and unloaded one at a time by whoever runs. A restore cannot bring back a
  thread that has ended or a DLL that was unloaded, in the code either.
* In Memory a region's description holds its contents at each version;
  PageHistory shows that the fat nodes answer the same. The debuggee does not
  run while a snapshot is taken or restored.
* In Instrumentation an instruction has a category, a length and a target; groups
  of prologue instructions that touch neither stack nor counter are one. Indirect
  jumps go to the places `taken` names, starts of blocks. The branch target is
  set before the thread starts. The predecessors are asked for under each set of
  breakpoints in `Breakpoints`. `fallthrough_predecessor` decodes the live bytes
  from the start of the function, so an int3 is an instruction of one byte. Where
  it stands on a longer one, what is decoded after it depends on encodings, which
  are left open: `Misdecoded` is any operator. A program is what a compiler makes
  (`ProgramsAssumption`): functions apart from each other, each a row of
  instructions that ends in a jump or a return; a branch stays in its function or
  goes to the start of one; a conditional jump names its target. A call that
  never returns is not the last instruction of a function.
* In ReverseReplay the thread follows the same path in every replay (events are
  answered from the log) and the snapshot is always the first; blocks are all
  instrumented, and each predecessor's count is the stop's or one less. The
  analysis gives all of them the same of the two; any choice for each is more than
  that. `doubled` is any set of predecessors, those whose breakpoint was written
  over an int3: listed twice, or with a user's breakpoint among the snapshot's
  bytes. A user's breakpoint elsewhere on the path is not modelled.
* User breakpoints and predecessors are instructions of the program, never entry
  points in ntdll (`SitesAssumption`).
* `Detach` ends the session; the code goes back to the prompt of a debugger
  that has nothing left to intercept.

## 3. The runs

| run | bounds | shows |
|---|---|---|
| `execution_tree` | 2 states, runs 0-2, sequences 0-2, 3 nodes | TreeHistory implements VersionedRegister; all four walks find what is defined; `ExactNodeExists` finds only nodes recorded at that very version |
| `page_history` | 2 contents, runs 0-2, sequences 0-2 | PageHistory implements VersionedRegister; the cursor is never stale |
| `breakpoints` | 2 threads, one return address they share and one of its own, calls nested twice, a moved instruction, predecessors listed twice, 2 snapshots, 2 restores, nothing asked for twice | counts match holders; open calls are caught and no int3 is stray until the first restore; entry points stay armed through restores; steps leave the bytes as they were; reverse replay leaves nothing in the table, retried or not |
| `recording_calls` | 3 threads (one created), private return addresses, 3 calls nested twice, anybody terminates anybody | returns pair with calls; every stop is understood; living threads that are not orphaned are tracked, or their living creator will see to it; calls are logged (liveness) |
| `recording_log` | 3 threads, one shared return address, recursion, 4 calls | the log is sorted and complete, holds equal pending events |
| `replay` | 2 roles (one created), 3 thread ids, scripts of 4 calls and 1, one nested, one that never returns, one shared return address, 2 micro snapshots | a thread's calls are answered by its own events, in order; each return ends the event of its call; every thread gets through its logged calls (liveness) |
| `commands` | 2 threads in a loop of 4 addresses (a branch, an entry point, a return address), 2 places for user breakpoints with or without condition, 5 commands, 1 other debug event | at the prompt exactly the user's breakpoints, the entry points and what was asked for twice are armed; suspend counts balance; nobody else runs while a breakpoint is lifted, and it is lowered (liveness) |
| `time_restore` | main thread, one more, a DLL; runs 0-2, 2 versions each, 3 changes, 1 stop left over | a restore leaves no thread or DLL the snapshot did not have and every thread where it was; the tables know the threads that are alive; every restore ends (liveness) |
| `memory` | 2 pages and the trampoline, 2 contents, runs 0-2, 2 versions each, 3 changes | a restore leaves every page in the allocation, state, protection and contents of the snapshot |
| `instrumentation` | all programs of three instructions from nine kinds over four layouts of lines, with a function to call, and ten larger ones: loop, loop entered in mid-line, switch, chained calls, recursion, recursion through a pointer, two callees on one line, two functions of one line, a callee that may jump to another function, a line that ends in such a jump; one block's relocation may fail; a breakpoint at one of five addresses or none; 1 step, 4 counts | nobody runs into the middle of a patch; the patched program implements the program; stack walks are right inside stubs; counts never repeat at an instruction in frames equally deep; predecessors of all three modes are complete, with the right counts; a step stays on its line |
| `reverse_replay` | a loop with two arms, paths of up to 11 instructions, every set of at most 2 predecessors with right and wrong guesses, 3 replays | what is reported is the last visit with fewer branches than the stop; two replays suffice; the retries end (liveness) |
| `breakpoint_shared` | violation | one return disarms the breakpoint another thread still holds |

The bounds are small but every interesting case fits. For trees and pages, three
runs are needed for a branch of a branch and three versions for a version
between two others; three nodes give siblings, an ancestor and a tie. For
breakpoints, two holders of one address, a nested call and a retry after a
restore need two threads, depth two and two restores. In the recording, four
calls let two threads interleave a nested call each with a termination. In the replay, the scripts are chosen so
that a function is called more than once by one thread and by two threads, a
call is open around another, and a return address is used again that may still
be held from the recording. Five commands let a step be interrupted by a stop that a
resume must then handle, with a breakpoint set or removed in between. Three
changes and three runs let a thread or a region come in one run, go in another
and be restored in a third. Eleven instructions are more than two rounds of the
loop, so the last visit differs from the first and from a guess one off. Larger
instances that take too long to run every time were checked as well:
`time_restore` with three versions a run (9.7 million states, invariants only),
`memory` with four pages (1.9 million) and with four changes (3.2 million). Every
property has a mutant in `PROJECT.json`: a plausible bug in a mapped definition
that makes the same run fail.

Of the type invariants only that of BreakpointSession, which contains
BreakpointManager's, is a property of a run. Those of PageHistory and Recording
are proved all the same (`PageTyped`, `RecordingTyped`); those of TreeHistory and
Replay document their variables.

### Departures

What the code does that a reader might not expect, and where the model shows it:

* The first of two threads to return from calls with one return address disarms
  the breakpoint of the other (`breakpoint_shared`, against a unit test). A stop
  of the second that was already queued then finds no entry, and `.value()`
  throws (`record_phase.cpp:153`); `recording_calls` gives each thread its own
  addresses.
* The first restore ends `OpenCallsAreCaught` and `NoStrayInt3`. A snapshot taken
  during a call contains the int3 at its return address; restored after the call
  has returned, that int3 has no entry. The other way round, an entry survives
  whose byte is gone, and the next call to return there gets no int3, since
  `CreateReturnBreakpoint` writes one only for a new entry. Both come from tables
  that are in no snapshot.
* A user breakpoint asked for where there is one saves the int3 of the first as
  the program's byte (`breakpoint_manager.cpp:21-28`; `breakpoint_command.cpp`
  does not look either), and removing it writes that int3 back. It stays for good,
  with no entry: `asked_twice` in `PromptLeavesBreakpoints`.
* The same happens to a reverse breakpoint that is written twice, because its
  address is listed twice or is the stop's too. Lifting it for a step puts the int3
  back, the thread runs it and goes on in the middle of an instruction (`astray`
  in ReverseReplay), and removing it leaves the int3, or goes on to the user's
  breakpoint there. `ReverseLeavesNothingHeld` is about the table only.
* A thread that ends itself never returns from `NtTerminateThread` and stays
  "loaded" in the recording's history. A thread whose `NtCreateThreadEx` has not
  returned is unknown to it; in TimeRestore it is among the `missed` until the call
  returns. If the creator is terminated inside the call, nothing ever tracks its
  thread (`Orphaned`). If the call returns after the new thread has been
  terminated and untracked, the dead thread is tracked for good: `FinishEvent`
  goes by its kind, and `UntrackThread` has only warned that it knows no such
  thread (`thread_manager.cpp:55-56`); it too is among the `missed`. A thread that comes and goes in one version stays
  loaded, because `FindNode` finds the first of two equal nodes (`Hidden`); so
  does a DLL whose `DllMain` fails.
* For the same reason a snapshot whose version is that of a thread's creation
  restores the registers the thread was created with.
* Debug events the restore's first loop has no case for are dropped
  (`time_restore_phase.cpp:86-92`), and so is a thread's or DLL's coming and
  going under a resume: `missed`, and excluded by `RestoreRewinds` and
  `ThreadsAreKnown`. A stop of the main thread that was queued is looked up at
  the address of the shell code and ends the restore in failure.
* `ResetEventReplay` compares with `>`: an event that was replayed before the
  restore of a snapshot with the event's own number stays marked.
* `ReplayStackMatches` and `EveryLoggedCallIsReplayed` hold under conditions, and
  each names something that goes wrong without it. A thread's id must be the
  recorded one: `ReplayEvent` looks for the id in the log, and a thread created
  again under another id finds nothing and spins at its first call. Its calls up
  to then must have been logged: a call that had not returned at the timeout is
  not in the log. For the stack, its return addresses must be its own and not
  held from the recording.
* A step that another thread's stop or another debug event interrupts rolls back
  the stepped thread instead of the stopped one, or ends with the thread
  running (`step_command.cpp:288-334`): `interrupted`, which the properties about
  suspension exclude. `PromptLeavesBreakpoints` holds all the same.
* A step does not clear `pending_user_breakpoint_` (`resume_command.cpp:9-13`), so
  the next resume lifts a breakpoint the thread may have left long ago and waits
  for its trap; `LiftedIsLowered` holds for that case too.
* A step over a line that calls its own function again may stop in the deeper
  frame (`cpp_breakpoint_plugin.cpp:350`): breakpoints are addresses, not frames.
  `StepStaysOnLine` is about the time before the stop.
* A line may have code in several functions: the instances of a template do, and
  `findLinesByLinenum` (`pdb.cpp:891-962`) returns the ranges of all of them. The
  stops planned in the ranges are those for the branches of one function
  (`cpp_breakpoint_plugin.cpp:310-345`). If control gets from that function into
  another range of the line without a call, as by a tail jump, it leaves the line
  unnoticed. `StepStaysOnLine` speaks of lines in one function (`InOneFunction`);
  the program `Instances` violates it without that hypothesis.
* Branch counts do not tell the frames of a recursion apart. Its returns come back
  to one instruction again and again and pass no start of a block, so the count
  stays the same; `MomentsAreUnique` therefore has the depth of the frame too. A
  reverse step carries the stop's return addresses (`frame_return_addresses_`,
  `reverse_replay_phase.cpp:105`) but compares them with nothing, and so may take
  an earlier visit, in a deeper frame, for the last.
* A reverse step gives a pass up when the counter is the stop's, before it looks
  the address up (`reverse_replay_phase.cpp:87-90`), though the analysis gives a
  predecessor inside the stop's block just that counter. A visit in the stop's own
  block is thus never found. If there are others, the last of them is reported:
  stopped at 2 after the path 1 2 3 5 1 2, with predecessor 1, the step goes back to
  the first visit of 1. If there are none, as for most steps back by one instruction
  inside a block, the replays do not end. The properties of ReverseReplay speak of
  `EarlierVisits`.
* A breakpoint on an instruction of several bytes puts the decoding of the rest of
  the function out of step, and the instruction that falls through to a later one
  may not be found, or a wrong one be (`predecessor_analysis.cpp:71-104`; the TODO
  at `step_command.cpp:20` names the problem). The properties about predecessors
  have it as a condition (`InStep` in `WalkedHere`); without it they fail in the
  run. An address that is none of the program's instructions has no line.
* A predecessor by line is given the count of the stop, or one less. If the line
  called functions, it was begun with a smaller count, which nothing looks for;
  and if another block of the line stopped at is instrumented, the count is off by
  one (`is_block_leader` is asked of the line, `predecessor_analysis.cpp:161-178`).
  The properties compare the count with that of the instruction that led here, and
  where `OnlyLeader` holds.
* What a return led to has no predecessor: `fallthrough_predecessor` refuses calls
  and nothing looks for returns. A reverse step into calls keeps only the line of
  a function's last return, looks only at calls at smaller addresses than the
  stop, and from the entry of a function goes back to the start of the calling
  line, not into the call before; `IntoPredecessorsComplete` names these as its
  conditions. When the line before holds a call that was jumped over, what is
  proposed was perhaps never visited.
* The function that ran last is taken to be the one the line before calls by name
  (`predecessor_analysis.cpp:249-268`). If that function ends in a jump to another
  one (a tail call), the other's return ran last; and if the line before itself
  ends in a jump to another function, its calls are not looked for, because only
  the branches of the function stopped in are (`predecessor_analysis.cpp:223`).
  `IntoPredecessorsComplete` excludes both (`StaysInside`, and that the stop is in
  the function of the line before); without these conditions the programs
  `TailCall` and `JumpsAway` of the run violate it.
* If the stop's own address is among the predecessors (a loop of one
  instruction), its breakpoint is written twice, as above, and taken for the catch,
  so that it is never reported. If no predecessor was ever visited with fewer
  branches than the stop, the replays do not end. `Findable` excludes both.

Deadlock is not checked (`CHECK_DEADLOCK FALSE`): each model ends legitimately,
when its bounds are used up, when the user has detached, or after the timeout.

### Fairness

Five runs have liveness properties. In `recording_calls` and `replay`, `Fairness`
is weak fairness of each thread's own steps, the stop included, and of the
debugger's handling of each stopped thread. In `commands` it is weak fairness of
each thread's execution and of the debug loops; of no command: the user may leave
the prompt alone. In `time_restore` it is weak fairness of the debug loops, of the
main thread in the shell code and of the worker; of nothing the debuggee or the
user does. In `reverse_replay` it is weak fairness of the restore and of the
replay. Windows schedules every runnable thread, stopped threads are reported to
`WaitForDebugEvent` in turn, and the loops wait for nothing else. Nothing obliges
a thread to make a call, and nothing obliges the timeout to come.

## 4. The proofs

Every theorem is proved for all values of the constants that satisfy the named
assumptions of the modules, which TLC evaluates in each run. Where a theorem needs
more, it says so as a hypothesis, explained below. TLC checked each inductive
invariant, or its parts, on the run's instance before it was proved.

**BreakpointSessionProofs** begins with lemmas about each operation of the
manager: it preserves the types and `BreakpointOK` of every entry: the count is at least the
number of holders, and equal to it for the kinds threads hold. `>=` is needed
because a permanent breakpoint counts one more than its holders; equality alone
would not show that the count of a shared entry never falls below zero. The
lemmas rest on two about `erase(find(...))`: removing the first occurrence
shortens a vector by one (`EraseFirstShortens`, from the well-foundedness of the
naturals) and leaves the other holders as they were (`EraseFirstElements`).
RecordingProofs repeats those of them that it needs: the two modules have
different variables, and none can extend the other. From them follow, for every
set of threads and addresses and every bound:

* `TypeCorrect` and `CountsAreRight`, from the inductive invariant
  `TypesAndCounts`.
* `InterceptionSurvives`: `EntryPointsStayArmed`. By itself it is not inductive:
  a restore replaces all bytes. `InterceptionOK` adds that every snapshot was
  taken with the entry points armed (the first is taken after
  `LoadTrampoline`), that no user breakpoint is on an entry point (so no removal
  falls through to one), and that only entry points are permanent. Stepping over
  a reverse breakpoint writes a byte too, hence `JobOK`: the addresses of a
  reverse step are moved addresses and no entry points.
* `ReverseCleansUp`: `ReverseLeavesNothingHeld`. `ReverseOK` says for each phase
  of a reverse step where reverse breakpoints may be and that each is held once,
  by the reversing thread. A retry leaves the predecessors in the table; the
  next try overwrites them (`create_reverse_breakpoint` does not count), so one
  removal still suffices.
* `EveryInt3IsKnown` and `CallsAreCaught`: `NoStrayInt3` and
  `OpenCallsAreCaught`, both from `FirstRunInv`. An int3 that is removed puts
  back the byte its entry saved, so the invariant says what each entry saved
  (`BytesOK`), which kinds of entry can be where (`PlacesOK`), and that a
  thread's hold on a return address lasts as long as its call (`CallsOK`). The
  hypotheses name what breaks it otherwise. `SitesApart`: the return address of
  an intercepted call is no line of the user's and no stop of a step; where it
  is, two entries compete for one saved byte. `~Recursion`: no call is open
  twice with one return address in one thread, which holds it only once.
  `~AskTwice`: a breakpoint that exists is not asked for again; asked twice, it
  saves its own int3 as the program's byte. `Breakpoints.cfg` satisfies all
  three; threads may share return addresses in `EveryInt3IsKnown`.
* `StepsLeaveNoTrace`: `StepLeavesNoTrace`, an action property, of any run, first
  or restored. `StepInv` says that at the prompt the table has entries at known
  places only, so no breakpoint of a step is taken for an older one, and while a
  step is under way that its entries are the ones it added. Besides
  `SitesApart` it needs `ShellCodeApart`: the shell code is injected into memory
  of its own, where neither lines nor steps lead.

**CommandsProofs**, for every set of threads, every program and every bound:

* `CountsBalance`: `SuspendCountsBalance`. It speaks of two modes only; the
  inductive invariant `CountsInv` gives every thread's count in every mode
  (`Counts`). Two of its steps need more. A step that has lowered a breakpoint
  suspends the thread it was lifted for, which must be the thread that ran
  (`OverMain`). A step out suspends each thread that reaches the return address
  and leaves it out when it suspends the process: no thread may be suspended
  twice, so a thread suspended there must have no second stop in the queue
  (`SetAside`), and that holds because a thread has at most one event queued
  (`QueueOK`).
* `NobodySlipsPast`: `FrozenWhileLifted`, from the same invariant. Like
  `CountsBalance` it is about commands no other thread interrupts, as the
  properties say.
* `PromptIsClean`: `PromptLeavesBreakpoints`, interrupted or not, for breakpoints
  added and removed in any order. `ArmsInv` says in each mode which addresses are
  armed and why, for a step's places, a lifted breakpoint and a return address that
  may be one address, and which entry keeps the int3 when one of them goes. Where
  a breakpoint was asked for twice (`asked_twice`) the byte is int3 in every mode,
  also when the breakpoint is lifted, for every entry there has saved an int3.

Of the assumptions of Commands the proofs use only that the main thread is known.

**TimeRestoreProofs**, for any threads, DLLs and bounds:

* `TreeIsRegister`, TreeHistory implements VersionedRegister, for any number of
  runs, versions and states. `FindNode` picks the latest node of a run and falls
  back on the node where the run branched off, so the invariant says where nodes
  may be: nothing is recorded later than the clock, the nodes of the current run
  hang off the cursor, and a run's branch is the node a snapshot's version finds
  (`ClockOK`). Then a new node, or a new branch, is found by no version of an
  earlier snapshot. The lemmas about one tree are those that the two theorems
  below need of each of their many, so they are in one module.
* `ThreadsStayKnown` (`ThreadsAreKnown`) and `RestoresRewind` (`RestoreRewinds`)
  from one inductive invariant, `IInv`, that spans a whole session: recording,
  restore, reconstruction, commands, restore. Neither property is inductive. What
  a restore leaves depends on what the snapshot's version finds (`SnapshotsOK`:
  just what was saved), and that on every history fitting the clock
  (`HistoriesOK`). A thread is known between restores (`AllKnown`) or an event
  about it waits in the queue, and those events outlive the phase that should have
  taken them, so the invariant says of each what has become of its thread or DLL
  since (`EventOK`). While a restore puts DLLs back, each that does not belong is
  still to be unloaded or its load event waits (`DllsGoing`); while it puts
  threads back, each is left over, belongs with its registers, or is the one
  between being terminated and being untracked (`AllRestored`). `Exit` then turns
  "as in the target" into "as in the run that begins", by what `RevertToState`
  makes of a version (`BranchKeeps`), and that is `AllKnown` again. The first
  snapshot needs an argument of its own: micro snapshots are taken in the
  reconstruction only, which starts from it, with the main thread alone
  (`AllPresent`). What the debugger cannot know is excepted by the properties, as
  in the runs: objects whose events went unseen or were contradicted by a call that
  returned late, and versions a later record of the same moment hides.

**PageHistoryProofs**: the same for the fat nodes (`PageIsRegister`), with
`CursorNeverStale` (`CursorIsNearest`) and `PageTyped`. A search climbs from run
to parent run. `ClimbExists`: it ends, because parents are earlier runs, by the
well-foundedness of the naturals (`Climb` is a recursive function and not an
operator for this proof). `ClimbedSame`: what it finds depends only on the
branches it passes. Nodes are added at the clock and branches made from snapshots
before it, so earlier searches find what they found; and the cursor, where
`update` compares, is what the search for the clock's version finds.

**RecordingProofs**, for any threads, return addresses and numbers of events:

* `RecordingTyped`, `LogIsSorted` and `EveryEventIsLoggedOnce` from `Basics`. The
  log is sorted by insertion when an event completes; an event pending is in the
  stack of one thread, has a number nobody else has, and numbers are handed out
  in order (`EventsOK`).
* `LiveThreadsTracked`: `LiveThreadsAreTracked`. A thread that is alive and not
  tracked is the target of one open call of `NtCreateThreadEx`, however
  terminations overlap with it; if its creator has died inside that call, it is
  orphaned, which the property excepts. That the call returns is the liveness
  property `EveryCallIsLogged`, which is only checked.
* `RecordingNeverAborts`: `NeverAborted` where no two threads return to one
  address (`SitesAreOwn`; `breakpoint_shared` shows the other case). A thread
  stopped at a return address, its stop not handled yet, must still have its
  entry: the invariant relates each thread's open frames to the entries it holds.
* `PendingAlwaysMatchFrames`: `PendingMatchesFrames`, with `~Recursion` too: a
  return pops the newest event, which is the returning call's if each return
  address is held once.
* `HoldsAlwaysMatchPending`: `HoldsMatchPending`, with no hypothesis: it counts
  holds, and shared or repeated return addresses are counted too.

**ReplayProofs**: `CallsReplayInOrder` (`ReplaysInOrder`), for any scripts, thread
ids, return addresses, moment of the timeout and number of micro snapshots, with
no condition on which calls were logged or whose the return addresses are. By
itself the property is about living threads only, and a thread created in the
reconstruction may get any id that is free. `EventsReplayed` adds that the events
of an id nobody has are all left to replay, `IdsOK` that no two roles have one id
and that a role without an id has taken no step, for which `ProgramAssumption` is
needed: a thread is created by one call, once. The rest of `IInv` is what a call's
answer depends on: only entry points are permanent, so a stop that is answered
with an event is at a call (`TablesOK`); the calls a role is in are calls it has
begun (`FramesOK`), so a return never stops at an entry point; nothing is marked
as replayed before the first snapshot is restored (`NothingReplayed`); and that
snapshot is the start of every script (`FirstSnapshotOK`). `MarkShape`: the first
event not replayed is added to those replayed, and every other thread's and
function's are as they were.

`StackMatchesCalls` (`ReplayStackMatches`) says of what: the event a call gets is
the very call's own of the recording. It has the hypotheses of the property and no
more (the calls were logged, the return addresses of the thread are its own), and
those are about the state reached, so each step also needs that they held before
it (`GoodBefore`). Its invariant, `StackInv`, is in two halves:

* while recording, `RecordingOK`: the calls a thread is in are nested
  (`FramesNested`), each holds its return address (`HoldsOK`), there are as many
  holds as pending events (`CountsOK`), and the bytes are those of the table
  (`BytesOK`). When a recursive call returns the byte goes back, so that the outer
  call with that return address is never stopped at and keeps its hold for ever,
  with an event no later than it pending (`Oldest`). At the restore
  (`RestoreBegins`) this becomes a fact about the log alone, `LogOK`: each
  thread's events are of different calls, sorted by the moment of the call, and of
  the calls up to a recursive one not all are there.
* while reconstructing, `ReconstructionOK`: a role whose calls so far were logged
  (`Good`) has replayed the events of the calls it made, in their order
  (`ReplayedOK`), waits for the events of those it is in (`StackOK`), has no two
  open calls with one return address (`SitesDiffer`, by `LogOK`), and holds its
  return addresses once each (`HoldsOwn`). The step that counts is `AnswerIsOwn`:
  the first event left of the thread and function is the call's own.

**ReverseReplayProofs**, for any flow, trace, predecessors and number of replays,
from the invariant `SearchInv`:

* `TwoPassesSuffice`: `FoundInTwoPasses`. A pass that finds nothing ends only
  beyond every visit there is to find, so the counters it remembered are those
  of the last visits with fewer branches than the stop (`Corrected`), and the next
  pass stops at one (`SoughtTwice`). The property excludes visits in the stop's own
  block, and breakpoints written over others, to which that of a predecessor at the
  stop's address always belongs (`Doubling`).
* `ReportsTheLastEarlierVisit`: `ReportsLastEarlierVisit`, whatever was written
  twice, where every loop has an instrumented block (`LoopsHaveLeaders`). A
  loop inside a function needs a branch, and blocks begin where branches lead, so
  that is what instrumentation gives when it left no block of a loop alone. The returns of a recursion are a loop without a
  block, which the hypothesis excludes. Without it a thread is at one address
  several times with one count, and the first of these visits is taken for the
  last.

**InstrumentationProofs**, for any programs a compiler makes, any blocks that
are left alone, any depth, any counts, branch targets and steps:

* `NeverInside` (`NeverInsideAPatch`), `StackWalks` (`StackWalkFindsCallers`) and
  `RunsTheProgram` (`ImplementsProgram`, the refinement of Program) from one
  inductive invariant, `Inv`. `BlocksKept`: the patches are blocks that can be
  instrumented, none of them still to do. `StubsRun`: whatever slot of the emitted
  code a thread is at, the next one continues the same stub, from the prologue
  over the displaced instructions in their order to the jump back to where the
  patch ends. `TablesTell`: the tables name for each slot the instruction it
  stands for and the words a thread has pushed there. `ThreadSomewhere`: the
  thread is in a stub or at an instruction that is not inside a patch, and its
  stack is return addresses, none inside a patch, below just the words its place
  has pushed. None of these is inductive alone: a return may only be trusted for
  what was on the stack, and a jump back for where the blocks lie. The theorems
  rest on lemmas about the blocks: two of them never overlap (`BlocksApart`), no
  branch, call, return or fall-through leads into the middle of a patch
  (`NoWayIn`), and a stub moves exactly the instructions its patch covers, in
  order (`StubIs`, `MovedInOrder`).
* `CountsTellMoments` (`MomentsAreUnique`). By itself the property says nothing of
  where a thread may get next. `Moments` says where it has been: whatever it
  executed, it executed with a smaller count, or in a deeper frame, or in one as
  deep at a smaller address (`Before`). A fall-through goes up in the addresses, a
  return down in the frames, and everything else enters a block and is counted
  before the next instruction of the program.
* `PredecessorFound` (`PredecessorsComplete`) and `LinePredecessorFound`
  (`LinePredecessorsComplete`) from `Led`. `Remaps`: the remap finds each displaced
  instruction in its one stub. `LedTo`: the instruction executed last leads directly to
  where the thread is, or to the block whose stub it has entered, and the count
  has gone up by one exactly if that stub has counted. Where control fell through,
  the decoding must be in step (`InStep`), which holds for breakpoints on
  instructions of one byte or behind the stop; nothing is assumed of `Misdecoded`.
* `IntoPredecessorFound` (`IntoPredecessorsComplete`) from `LinePredecessorFound`
  and `Lines`, which says what has run of a line, in each frame. `Arrived`: at an
  instruction inside a line that runs straight through, the line that ran last is
  that line's own start, or, behind calls, the return line of the function called
  last, with the count the line was begun with (`LineRan`, `CountsAtStart`); `Left` says the same behind the instruction executed last.
  This cannot be told from the frame alone when a call returns, so `Callers` says
  of every frame which call it returns behind, and that a function that no jump
  leaves is still the one the frame is in. `StraightOn` is why a line is entered
  at its start: inside it there is no leader and no target, so control comes from
  the instruction before or back from a call. `MapsBack`, with `Remaps`, makes the
  two address tables inverse to each other, which the predecessors' line ranges
  depend on.
* `StepsStay` (`StepStaysOnLine`) from `Stepping`: in the frame that is stepped the
  thread is on the line or at one of the stops, and if it is deeper, what that
  frame will return to is; the stops are those planned for the line (`Planned`).
  `ExitPlanned` and `TransferPlanned` are the reason: where an instruction of the
  line falls through, jumps or cannot be followed, either the line goes on or a
  stop was planned.

What the proofs assume of the constants: `AddressAssumption` (moving an address
twice is moving it once), `ProgramsAssumption` (what a compiler makes, see
"Assumptions and abstractions"), `SessionAssumption`, `RecordingAssumption`,
`InstrumentationAssumption` and those of the other modules (the types of the
constants), `SitesAssumption`, and `ProgramAssumption` (scripts).

What is model-checked only: liveness, which is out of the prover's reach; the
walks of ExecutionTreeWalk, which are recursive operators, checked against the
definitions of ExecutionTree, which are not; and Memory's `RestoreIsExact`, which
follows a loop over the regions found.

## 5. Not modelled, and the plan

What remains worth modelling:

1. Composing the stubs with the recording and the restore: the local storage of
   threads is in Instrumentation and ReverseReplay only, so that a new thread
   runs with branch target 0 until its creator's call returns
   (`thread_events.cpp:26`) is a hazard no run covers.
2. Instruction pointers in snapshots: a thread restored in the middle of a queued
   stop (`snapshot_log.cpp:38`) would need Recording's stops in TimeRestore.
3. Failures of the operating system's calls, and the error state the state
   machine then enters.

What remains worth proving: that a restore of Memory is exact.

Not planned: the start of the process up to the loader's breakpoint (one thread,
one path); symbol look-up, compiling conditions, disassembly and formatting
(input and output without protocol state); encodings of jumps, stubs and shell
code (bytes in, bytes out); remote threads that allocate local storage (a system
call); `get_original_bytes`, which only reads; `fully_persistent_array.h`, which
only its unit test uses; loading of plugins.
