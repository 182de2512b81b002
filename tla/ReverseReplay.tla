--------------------------- MODULE ReverseReplay ---------------------------
(***************************************************************************)
(* A reverse step: the nearest snapshot is restored and the thread runs    *)
(* again until it is where the branch counter of a possible predecessor    *)
(* says (reverse_replay_phase.cpp, step_command.cpp).                      *)
(*                                                                         *)
(* trace is the path of the thread since the snapshot.  A replay follows   *)
(* it: events are answered from the log.  Each block counts when it is     *)
(* entered, and its prologue stops the thread once the counter has reached *)
(* the target in the thread's local storage.  The other threads' stops are *)
(* continued by the phase and change nothing here.                         *)
(*                                                                         *)
(* The phase gives a pass up as soon as the counter is the stop's, before  *)
(* it looks the address up among the predecessors.  A visit in the stop's  *)
(* own block is thus never found, and if it is the last one, an earlier    *)
(* one is reported: the properties speak of EarlierVisits.                 *)
(***************************************************************************)
EXTENDS Integers, Sequences, FiniteSets

CONSTANTS Address,
          Leaders,      \* first instructions of instrumented blocks
          Flow,         \* where an instruction may lead
          Start,        \* where the thread is in the snapshot
          MaxTrace,     \* bound on the length of the trace
          MaxPasses     \* the replays that are counted

ASSUME ReverseAssumption ==
    /\ Leaders \subseteq Address /\ Start \in Address
    /\ Flow \in [Address -> SUBSET Address]
    /\ MaxTrace \in Nat /\ MaxPasses \in Nat /\ MaxPasses >= 3

VARIABLES phase,
          trace, stop,           \* the path, and how much of it had run at the command
          position, entered,     \* of the replayed thread: it has run its block's prologue
          counter,               \* TlsKind::BranchCounter
          target,                \* TlsKind::BranchTarget
          predecessors,          \* branch counters expected, by address
          doubled,               \* reverse breakpoints that took an int3 for the byte to save
          branch_target,
          catch,                 \* ReverseCatchers, or none
          pred_last_seen_ctr_,
          passes

vars == <<phase, trace, stop, position, entered, counter, target, predecessors,
          doubled, branch_target, catch, pred_last_seen_ctr_, passes>>

Sentinel == MaxTrace + 2     \* no counter gets there
NoCatch == [address |-> {}, counter |-> 0]

\* The branch counter at a moment of the trace, the block's own visit included.
Counter(i) == Cardinality({j \in 1..i : trace[j] \in Leaders})
StoppedAddress == trace[stop]
StoppedCounter == Counter(stop)

get_branch_target(i) == IF trace[i] \in Leaders THEN Counter(i) - 1 ELSE Counter(i)

Init ==
    /\ phase = "debugger"
    /\ trace = <<Start>> /\ stop = 0
    /\ position = 1 /\ entered = TRUE
    /\ counter = Counter(1)
    /\ target = Sentinel
    /\ predecessors = <<>>
    /\ doubled = {}
    /\ branch_target = Sentinel
    /\ catch = NoCatch
    /\ pred_last_seen_ctr_ = <<>>
    /\ passes = 0

----------------------------------------------------------------------------
(* The thread runs.                                                        *)

\* It goes on to the next instruction, along the trace or beyond it.
Goes ==
    /\ position < MaxTrace
    /\ IF position < Len(trace) THEN UNCHANGED trace
       ELSE \E a \in Flow[trace[position]] : trace' = Append(trace, a)
    /\ position' = position + 1

Advance ==
    /\ Goes
    /\ entered' = (trace'[position + 1] \notin Leaders)

\* What the user did before the reverse step.
Forward ==
    /\ phase = "debugger"
    /\ Goes
    /\ entered' = TRUE
    /\ passes' = 0
    /\ counter' = IF trace'[position + 1] \in Leaders THEN counter + 1 ELSE counter
    /\ UNCHANGED <<phase, stop, target, predecessors, doubled, branch_target,
                   catch, pred_last_seen_ctr_>>

Armed == DOMAIN predecessors \cup catch.address

Execute ==
    /\ phase = "replay" /\ entered
    /\ trace[position] \notin Armed
    /\ Advance
    /\ UNCHANGED <<phase, stop, counter, target, predecessors, doubled, branch_target,
                   catch, pred_last_seen_ctr_, passes>>

\* A block's prologue, which goes on while the counter is below the target.
EnterBlock ==
    /\ phase = "replay" /\ ~entered
    /\ counter' = counter + 1
    /\ entered' = (counter' < target)
    /\ phase' = IF counter' < target THEN "replay" ELSE "trapped"
    /\ UNCHANGED <<trace, stop, position, target, predecessors, doubled, branch_target,
                   catch, pred_last_seen_ctr_, passes>>

----------------------------------------------------------------------------
(* The commands.                                                           *)

\* transition_to_time_restore: without predecessors the branch target alone
\* has to stop the replay.  A predecessor can be listed twice, or have a user's
\* breakpoint in the snapshot's bytes; the stop's address is written a second
\* time when it is a predecessor.
ReverseStep(preds, d) ==
    /\ phase = "debugger" /\ position > 1
    /\ stop' = position
    /\ \E c \in [preds -> {counter, counter - 1}] : predecessors' = c
    /\ d \subseteq (IF preds = {} THEN {} ELSE preds \cup {trace[position]})
    /\ trace[position] \in preds => trace[position] \in d
    /\ doubled' = d
    /\ branch_target' = IF preds = {} THEN get_branch_target(position) ELSE Sentinel
    /\ phase' = "restore"
    /\ passes' = 1
    /\ UNCHANGED <<trace, position, entered, counter, target, catch, pred_last_seen_ctr_>>

\* TimeRestorePhase, and ReverseReplayPhase::Enter.
Enter ==
    /\ phase = "restore"
    /\ position' = 1 /\ entered' = TRUE /\ counter' = Counter(1)
    /\ IF branch_target # Sentinel
       THEN target' = branch_target /\ catch' = NoCatch
       ELSE /\ catch' = [address |-> {StoppedAddress}, counter |-> StoppedCounter]
            /\ target' = StoppedCounter + 1
    /\ pred_last_seen_ctr_' = <<>>
    /\ phase' = "replay"
    /\ UNCHANGED <<trace, stop, predecessors, doubled, branch_target, passes>>

----------------------------------------------------------------------------
(* ReverseReplayPhase::Run                                                 *)

AtBreakpoint == phase = "replay" /\ entered /\ trace[position] \in Armed
Caught == AtBreakpoint /\ trace[position] \in catch.address

\* Mutant: the passes after the first still look for the first guess.
SameGuess == predecessors
LastSeen ==
    [a \in DOMAIN predecessors |->
        IF a \in DOMAIN pred_last_seen_ctr_ THEN pred_last_seen_ctr_[a] ELSE predecessors[a]]

TooFar ==
    /\ AtBreakpoint \/ phase = "trapped"
    /\ (Caught /\ counter = catch.counter) \/ counter >= StoppedCounter

Retry ==
    /\ TooFar
    /\ passes' = IF passes < MaxPasses THEN passes + 1 ELSE passes
    /\ predecessors' = LastSeen
    /\ phase' = "restore"
    /\ UNCHANGED <<trace, stop, position, entered, counter, target, doubled, branch_target,
                   catch, pred_last_seen_ctr_>>

\* The saved byte is put back for one step.  If it is an int3 itself the thread
\* runs it, and goes on in the middle of the instruction.
StepOver ==
    \/ trace[position] \notin doubled /\ Advance /\ UNCHANGED phase
    \/ /\ trace[position] \in doubled /\ phase' = "astray"
       /\ UNCHANGED <<trace, position, entered>>

StepOverCatch ==
    /\ Caught /\ ~TooFar
    /\ StepOver
    /\ UNCHANGED <<stop, counter, target, predecessors, doubled, branch_target, catch,
                   pred_last_seen_ctr_, passes>>

AtPredecessor == AtBreakpoint /\ ~Caught /\ ~TooFar

Found ==
    /\ AtPredecessor
    /\ counter = predecessors[trace[position]]
    /\ phase' = "debugger"
    /\ target' = Sentinel
    /\ catch' = NoCatch
    /\ pred_last_seen_ctr_' = <<>>
    /\ UNCHANGED <<trace, stop, position, entered, counter, predecessors, doubled,
                   branch_target, passes>>

\* Mutant: only the first visit is remembered.
FirstSeen ==
    [a \in DOMAIN pred_last_seen_ctr_ \cup {trace[position]} |->
        IF a \in DOMAIN pred_last_seen_ctr_ THEN pred_last_seen_ctr_[a] ELSE counter]
Seen ==
    [a \in DOMAIN pred_last_seen_ctr_ \cup {trace[position]} |->
        IF a = trace[position] THEN counter ELSE pred_last_seen_ctr_[a]]

StepOverPredecessor ==
    /\ AtPredecessor
    /\ counter # predecessors[trace[position]]
    /\ pred_last_seen_ctr_' = Seen
    /\ StepOver
    /\ UNCHANGED <<stop, counter, target, predecessors, doubled, branch_target, catch, passes>>

\* The stop at a branch target that is not far enough is continued.
PassTarget ==
    /\ phase = "trapped" /\ ~TooFar
    /\ phase' = "replay" /\ entered' = TRUE
    /\ UNCHANGED <<trace, stop, position, counter, target, predecessors, doubled,
                   branch_target, catch, pred_last_seen_ctr_, passes>>

Run == Execute \/ EnterBlock \/ Retry \/ StepOverCatch \/ Found \/ StepOverPredecessor
           \/ PassTarget
Next ==
    \/ Forward
    \/ \E preds \in SUBSET Address, d \in SUBSET Address :
            Cardinality(preds) <= 2 /\ ReverseStep(preds, d)
    \/ Enter
    \/ Run

Spec == Init /\ [][Next]_vars /\ WF_vars(Enter) /\ WF_vars(Run)

----------------------------------------------------------------------------
(* Properties. *)

\* The times the thread was at a before the stop, and those of them with fewer
\* branches than the stop: all but the ones in the stop's own block.
Visits(a) == {i \in 1..(stop - 1) : trace[i] = a}
EarlierVisits(a) == {i \in Visits(a) : Counter(i) < StoppedCounter}
Reported == phase = "debugger" /\ passes > 0

\* "found the predecessor": a reverse step that stops has gone back to the last
\* time the thread was at the address it stops at with fewer branches than the
\* stop, although the counters it is first told are guesses and several passes
\* correct them.  A later visit, in the stop's own block, it passes over.
ReportsLastEarlierVisit ==
    Reported =>
        /\ trace[position] \in DOMAIN predecessors
        /\ position \in EarlierVisits(trace[position])
        /\ \A i \in EarlierVisits(trace[position]) : i <= position

\* What a replay can find: a predecessor visited with fewer branches than the
\* stop.  With a breakpoint that the step over does not lift, nothing is promised.
Findable ==
    IF doubled = {} THEN {a \in DOMAIN predecessors : EarlierVisits(a) # {}} ELSE {}

\* One pass corrects the guesses: a predecessor the thread has been at, with fewer
\* branches than the stop, is found in the second replay.
FoundInTwoPasses == phase # "debugger" /\ passes > 2 => Findable = {}

\* "We didn't find what we were looking for, try again": where there is such a
\* predecessor the retries end.
FoundIfVisited == phase = "restore" /\ Findable # {} ~> Reported
=============================================================================
