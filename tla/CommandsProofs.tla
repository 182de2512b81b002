--------------------------- MODULE CommandsProofs ---------------------------
(***************************************************************************)
(* Theorems about Commands, for any number of threads, addresses, commands *)
(* and debug events.                                                       *)
(*                                                                         *)
(* Two invariants carry them.  CountsInv says how often each thread is     *)
(* suspended in each mode, and what the queue and the step under way must  *)
(* be for the next mode's counts to follow.  ArmsInv says which addresses  *)
(* are armed in each mode and what each table would put back there.        *)
(***************************************************************************)
EXTENDS Commands, SequenceTheorems, TLAPS

EventKind == {"breakpoint", "single step", "other"}
InQueue(t) == \E i \in 1..Len(queued) : queued[i].thread = t

\* A thread has at most one event in the queue.
QueueOK ==
    /\ queued \in Seq([thread : Thread, kind : EventKind])
    /\ \A i, j \in 1..Len(queued) : queued[i].thread = queued[j].thread => i = j

\* The modes in which the whole process is suspended, and those of a step out.
Halted == {"prompt", "stepBegin", "stepAgain", "stepEnd", "branchEnd", "instructionBegin"}
Out == {"out", "outReached"}

\* How often each thread is suspended in each mode.
Counts ==
    \A t \in Thread :
        /\ mode \in Halted => suspended[t] = 1
        /\ mode \in {"resume", "instruction"} => suspended[t] = 0
        /\ mode = "resumeOver" =>
               suspended[t] = IF t \in thread_id_to_meta \ {over.thread} THEN 1 ELSE 0
        /\ mode \in {"step", "stepOver"} => suspended[t] = IF t = Main THEN 0 ELSE 1
        /\ mode \in Out => suspended[t] = IF t \in suspended_thread_ids THEN 1 ELSE 0

\* A step only steps its own thread over a breakpoint.
OverMain ==
    /\ mode = "stepOver" => /\ over.thread = Main /\ over.waiter = Main
                            /\ over.then \in {"stepBegin", "stepAgain"}
    /\ mode = "stepAgain" => over.waiter = Main

\* Threads suspended during a step out have no event left: they are suspended
\* once only.
SetAside == \A t \in suspended_thread_ids : ~InQueue(t)

\* Once another thread has interrupted a step only the types are left.
Settled ==
    /\ suspended \in [Thread -> Nat]
    /\ thread_id_to_meta \subseteq Thread
    /\ interrupted \in BOOLEAN
    /\ mode \notin Out => suspended_thread_ids = {}
    /\ ~interrupted => Counts /\ OverMain /\ SetAside

CountsInv == QueueOK /\ Settled

----------------------------------------------------------------------------
(* The queue.                                                              *)

\* What a step may do to the queue.
Keeps == queued' = queued
TakesOne == queued # <<>> /\ queued' = Tail(queued)
Appends ==
    \E t \in Thread, k \in EventKind :
        MayRun(t) /\ queued' = Append(queued, [thread |-> t, kind |-> k])

LEMMA EventType ==
  ASSUME QueueOK, queued # <<>>
  PROVE  Event \in [thread : Thread, kind : EventKind]
BY HeadTailProperties DEF QueueOK, Event

\* An event that is taken leaves its thread without one.
LEMMA TakeQueue ==
  ASSUME QueueOK, TakesOne
  PROVE  /\ QueueOK'
         /\ \A t : InQueue(t)' => InQueue(t)
         /\ \A t : t = Event.thread => ~InQueue(t)'
<1> DEFINE n == Len(queued)
<1>1. /\ n \in Nat /\ n >= 1
      /\ queued' \in Seq([thread : Thread, kind : EventKind])
      /\ Len(queued') = n - 1
      /\ \A i \in 1..(n - 1) : queued'[i] = queued[i + 1]
  BY DEF QueueOK, TakesOne
<1>2. \A i \in 1..(n - 1) : i + 1 \in 1..n /\ i + 1 # 1 /\ 1 \in 1..n
  BY <1>1
<1>3. QueueOK'
  <2>1. ASSUME NEW i \in 1..(n - 1), NEW j \in 1..(n - 1),
               queued'[i].thread = queued'[j].thread
        PROVE  i = j
    <3>1. queued[i + 1].thread = queued[j + 1].thread
      BY <1>1, <2>1
    <3>2. i + 1 = j + 1
      BY <1>2, <3>1 DEF QueueOK
    <3> QED
      BY <1>1, <3>2
  <2> QED
    BY <1>1, <2>1 DEF QueueOK
<1>4. \A t : InQueue(t)' => InQueue(t)
  BY <1>1, <1>2 DEF InQueue
<1>5. ASSUME NEW t, t = Event.thread
      PROVE  ~InQueue(t)'
  <2>1. ASSUME NEW i \in 1..(n - 1), queued'[i].thread = queued[1].thread
        PROVE  FALSE
    BY <1>1, <1>2, <2>1 DEF QueueOK
  <2>2. Event = queued[1]
    BY DEF Event, QueueOK, TakesOne
  <2> QED
    BY <1>1, <1>5, <2>1, <2>2 DEF InQueue
<1> QED
  BY <1>3, <1>4, <1>5

\* Only a thread that is not suspended and has no event gets one.
LEMMA AppendQueue ==
  ASSUME QueueOK, Appends
  PROVE  /\ QueueOK'
         /\ \A t : InQueue(t)' => InQueue(t) \/ (t \in Thread /\ suspended[t] = 0)
<1>1. PICK u \in Thread, k \in EventKind :
         MayRun(u) /\ queued' = Append(queued, [thread |-> u, kind |-> k])
  BY DEF Appends
<1> DEFINE n == Len(queued)
<1> DEFINE e == [thread |-> u, kind |-> k]
<1>2. /\ n \in Nat
      /\ e \in [thread : Thread, kind : EventKind] /\ e.thread = u
      /\ queued' \in Seq([thread : Thread, kind : EventKind])
      /\ Len(queued') = n + 1
      /\ \A i \in 1..n : queued'[i] = queued[i]
      /\ queued'[n + 1] = e
  BY <1>1 DEF QueueOK
<1>3. suspended[u] = 0 /\ \A i \in 1..n : queued[i].thread # u
  BY <1>1 DEF MayRun
<1>4. \A i \in 1..(n + 1) : i \in 1..n \/ i = n + 1
  BY <1>2
<1>5. \A i, j \in 1..(n + 1) : queued'[i].thread = queued'[j].thread => i = j
  BY <1>2, <1>3, <1>4 DEF QueueOK
<1>6. QueueOK'
  BY <1>2, <1>5 DEF QueueOK
<1>7. \A t : InQueue(t)' => InQueue(t) \/ (t \in Thread /\ suspended[t] = 0)
  BY <1>2, <1>3, <1>4 DEF InQueue
<1> QED
  BY <1>6, <1>7

LEMMA QueueStep ==
  ASSUME QueueOK, Keeps \/ TakesOne \/ Appends
  PROVE  /\ QueueOK'
         /\ \A t : InQueue(t)' => InQueue(t) \/ (t \in Thread /\ suspended[t] = 0)
<1>1. CASE Keeps
  BY <1>1 DEF QueueOK, Keeps, InQueue
<1> QED
  BY <1>1, TakeQueue, AppendQueue

----------------------------------------------------------------------------
(* Suspend counts.                                                         *)

LEMMA Counting ==
  ASSUME suspended \in [Thread -> Nat], NEW S
  PROVE  /\ Suspended(S) \in [Thread -> Nat]
         /\ Resumed(S) \in [Thread -> Nat]
         /\ \A t \in Thread :
                /\ Suspended(S)[t] = IF t \in S THEN suspended[t] + 1 ELSE suspended[t]
                /\ suspended[t] = 0 => Resumed(S)[t] = 0
                /\ suspended[t] = 1 => Resumed(S)[t] = IF t \in S THEN 0 ELSE 1
BY DEF Suspended, Resumed, Less

\* A step that neither changes the mode nor the counts.
LEMMA Undisturbed ==
  ASSUME CountsInv, Keeps \/ TakesOne \/ Appends,
         UNCHANGED <<suspended, mode, over, suspended_thread_ids>>,
         thread_id_to_meta' \subseteq Thread,
         mode = "resumeOver" => thread_id_to_meta' = thread_id_to_meta,
         interrupted' \in BOOLEAN, interrupted => interrupted'
  PROVE  CountsInv'
<1>1. QueueOK' /\ \A t : InQueue(t)' => InQueue(t) \/ (t \in Thread /\ suspended[t] = 0)
  BY QueueStep DEF CountsInv
<1>2. ASSUME ~interrupted'
      PROVE  Counts' /\ OverMain' /\ SetAside'
  <2>1. ~interrupted /\ Counts /\ OverMain /\ SetAside
    BY <1>2 DEF CountsInv, Settled
  <2>2. Counts'
    BY <2>1 DEF Counts, Halted, Out
  <2>3. OverMain'
    BY <2>1 DEF OverMain
  <2>4. ASSUME NEW t \in suspended_thread_ids, InQueue(t)'
        PROVE  FALSE
    <3>1. t \in Thread /\ suspended[t] = 0
      BY <1>1, <2>1, <2>4 DEF SetAside
    <3>2. mode \in Out
      BY <2>4 DEF CountsInv, Settled
    <3> QED
      BY <2>1, <2>4, <3>1, <3>2 DEF Counts
  <2>5. SetAside'
    BY <2>4 DEF SetAside
  <2> QED
    BY <2>2, <2>3, <2>5
<1> QED
  BY <1>1, <1>2 DEF CountsInv, Settled

\* A step that leaves no thread set aside.
LEMMA Resettled ==
  ASSUME CountsInv, Keeps \/ TakesOne, suspended_thread_ids' = {},
         suspended' \in [Thread -> Nat],
         thread_id_to_meta' \subseteq Thread,
         interrupted' \in BOOLEAN, interrupted => interrupted',
         ~interrupted /\ ~interrupted' /\ Counts /\ OverMain => Counts' /\ OverMain'
  PROVE  CountsInv'
<1>1. QueueOK'
  BY QueueStep DEF CountsInv
<1>2. SetAside'
  BY DEF SetAside
<1> QED
  BY <1>1, <1>2 DEF CountsInv, Settled
----------------------------------------------------------------------------
(* The steps.                                                              *)

LEMMA InitCounts == Init => CountsInv
<1> SUFFICES ASSUME Init PROVE CountsInv
  OBVIOUS
<1>1. QueueOK
  BY DEF Init, QueueOK
<1>2. suspended \in [Thread -> Nat] /\ Counts
  BY DEF Init, Counts, Halted, Out
<1>3. OverMain /\ SetAside
  BY DEF Init, OverMain, SetAside
<1> QED
  BY <1>1, <1>2, <1>3, CommandsAssumption DEF Init, CountsInv, Settled

LEMMA MainThread == Main \in Thread
BY CommandsAssumption

\* Taking an event, perhaps opening its thread.
LEMMA OpenThreads ==
  ASSUME CountsInv, queued # <<>>, OpenThread \/ UNCHANGED thread_id_to_meta
  PROVE  thread_id_to_meta' \subseteq Thread
BY EventType DEF CountsInv, Settled, OpenThread

LEMMA Interrupting ==
  ASSUME interrupted' = (interrupted \/ Event.thread # Main)
  PROVE  /\ interrupted' \in BOOLEAN
         /\ interrupted => interrupted'
         /\ ~interrupted' => Event.thread = Main
BY Zenon

\* The debuggee and the prompt's breakpoint commands.
LEMMA OutsideSteps ==
  ASSUME CountsInv,
         \/ \E t \in Thread : Execute(t) \/ OtherEvent(t)
         \/ \E a \in UserSites :
               AddUserBreakpoint(a) \/ AddConditionalBreakpoint(a) \/ DropUserBreakpoint(a)
         \/ UNCHANGED vars
  PROVE  CountsInv'
<1> USE DEF loop, history, counters, debuggee
<1>1. thread_id_to_meta \subseteq Thread /\ interrupted \in BOOLEAN
  BY DEF CountsInv, Settled
<1>2. ASSUME NEW t \in Thread, Execute(t)
      PROVE  CountsInv'
  <2>1. Keeps \/ Appends
    BY <1>2 DEF Execute, Keeps, Appends, EventKind
  <2>2. UNCHANGED <<suspended, mode, over, suspended_thread_ids, thread_id_to_meta, interrupted>>
    BY <1>2 DEF Execute
  <2> QED
    BY <1>1, <2>1, <2>2, Undisturbed
<1>3. ASSUME NEW t \in Thread, OtherEvent(t)
      PROVE  CountsInv'
  <2>1. Appends
    BY <1>3 DEF OtherEvent, Appends, EventKind
  <2>2. UNCHANGED <<suspended, mode, over, suspended_thread_ids, thread_id_to_meta, interrupted>>
    BY <1>3 DEF OtherEvent
  <2> QED
    BY <1>1, <2>1, <2>2, Undisturbed
<1>4. ASSUME NEW a \in UserSites,
             AddUserBreakpoint(a) \/ AddConditionalBreakpoint(a) \/ DropUserBreakpoint(a)
      PROVE  CountsInv'
  <2>1. /\ Keeps
        /\ UNCHANGED <<suspended, mode, over, suspended_thread_ids, thread_id_to_meta,
                       interrupted>>
    BY <1>4 DEF AddUserBreakpoint, AddConditionalBreakpoint, DropUserBreakpoint, Keeps
  <2> QED
    BY <1>1, <2>1, Undisturbed
<1>5. CASE UNCHANGED vars
  <2>1. /\ Keeps
        /\ UNCHANGED <<suspended, mode, over, suspended_thread_ids, thread_id_to_meta,
                       interrupted>>
    BY <1>5 DEF vars, Keeps
  <2> QED
    BY <1>1, <2>1, Undisturbed
<1> QED
  BY <1>2, <1>3, <1>4, <1>5

\* Passes through a loop that stay in it and suspend nobody.
LEMMA IgnoringSteps ==
  ASSUME CountsInv,
         \/ ResumePermanent \/ ResumeIgnores \/ ResumeOverIgnores \/ StepOverIgnores
         \/ StepIgnores \/ InstructionIgnores \/ OutIgnores
  PROVE  CountsInv'
<1> USE DEF loop, history, counters
<1>1. interrupted \in BOOLEAN
  BY DEF CountsInv, Settled
<1>2. /\ TakesOne
      /\ OpenThread \/ UNCHANGED thread_id_to_meta
      /\ mode = "resumeOver" => UNCHANGED thread_id_to_meta
      /\ UNCHANGED <<suspended, mode, over, suspended_thread_ids>>
      /\ UNCHANGED interrupted \/ interrupted' = (interrupted \/ Event.thread # Main)
  BY DEF ResumePermanent, ResumeIgnores, ResumeOverIgnores, StepOverIgnores, StepIgnores,
         InstructionIgnores, OutIgnores, Ignore, ContinueDebugEvent, Takes, StepHit, TakesOne
<1>3. thread_id_to_meta' \subseteq Thread
  BY <1>2, OpenThreads DEF TakesOne
<1>4. interrupted' \in BOOLEAN /\ (interrupted => interrupted')
  <2>1. CASE UNCHANGED interrupted
    BY <1>1, <2>1
  <2>2. CASE interrupted' = (interrupted \/ Event.thread # Main)
    BY <2>2, Interrupting
  <2> QED
    BY <1>2, <2>1, <2>2
<1> QED
  BY <1>2, <1>3, <1>4, Undisturbed

\* resume_process_execution.
LEMMA ResumeSteps ==
  ASSUME CountsInv,
         Resume \/ ResumeStops \/ ResumePasses \/ ResumeThrows \/ ResumeLowers
  PROVE  CountsInv'
<1> USE DEF loop, history, counters, debuggee
<1> DEFINE Goal == /\ suspended' \in [Thread -> Nat]
                   /\ ~interrupted /\ Counts /\ OverMain => Counts' /\ OverMain'
<1>1. /\ Keeps \/ TakesOne
      /\ OpenThread \/ UNCHANGED thread_id_to_meta
      /\ queued = <<>> => UNCHANGED thread_id_to_meta
      /\ UNCHANGED <<suspended_thread_ids, interrupted>>
      /\ mode \in {"prompt", "resume", "resumeOver"}
  BY DEF Resume, Command, ResumeStops, ResumePasses, ResumeThrows, ResumeLowers, Takes,
         ContinueDebugEvent, Keeps, TakesOne
<1>2. thread_id_to_meta' \subseteq Thread /\ suspended_thread_ids' = {}
  BY <1>1, OpenThreads DEF CountsInv, Settled, Out
<1>3. /\ suspended \in [Thread -> Nat] /\ interrupted \in BOOLEAN
      /\ thread_id_to_meta \subseteq Thread
  BY DEF CountsInv, Settled
<1> SUFFICES Goal
  BY <1>1, <1>2, <1>3, Resettled
<1>4. CASE Resume
  <2>1. CASE pending_user_breakpoint_.set
    <3>1. /\ mode = "prompt" /\ mode' = "resumeOver"
          /\ ResumeOnly(over'.thread) /\ thread_id_to_meta' = thread_id_to_meta
      BY <1>4, <2>1 DEF Resume, Command
    <3>2. suspended' \in [Thread -> Nat]
      BY <1>3, <3>1 DEF ResumeOnly, Less
    <3>3. ASSUME NEW t \in Thread, Counts
          PROVE  suspended'[t] = IF t \in thread_id_to_meta \ {over'.thread} THEN 1 ELSE 0
      BY <1>3, <3>1, <3>3 DEF ResumeOnly, Less, Counts, Halted
    <3> QED
      BY <3>1, <3>2, <3>3 DEF Counts, OverMain, Halted, Out
  <2>2. CASE ~pending_user_breakpoint_.set
    <3>1. mode = "prompt" /\ mode' = "resume" /\ suspended' = Resumed(Thread)
      BY <1>4, <2>2 DEF Resume, Command, ResumeProcess
    <3> QED
      BY <1>3, <3>1, Counting DEF Counts, OverMain, Halted, Out
  <2> QED
    BY <2>1, <2>2
<1>5. CASE ResumeStops
  <2>1. mode = "resume" /\ mode' = "prompt" /\ suspended' = Suspended(Thread)
    BY <1>5 DEF ResumeStops, Takes, SuspendProcess
  <2> QED
    BY <1>3, <2>1, Counting DEF Counts, OverMain, Halted, Out
<1>6. CASE ResumePasses
  <2>1. /\ mode = "resume" /\ mode' = "resumeOver" /\ over'.thread = Event.thread
        /\ suspended' = Suspended(thread_id_to_meta \ {Event.thread})
        /\ thread_id_to_meta' = thread_id_to_meta \cup {Event.thread}
    BY <1>6 DEF ResumePasses, Takes, SuspendAllThreadsExceptCurrent, OpenThread, Over
  <2>2. thread_id_to_meta' \ {over'.thread} = thread_id_to_meta \ {Event.thread}
    BY <2>1
  <2> QED
    BY <1>3, <2>1, <2>2, Counting DEF Counts, OverMain, Halted, Out
<1>7. CASE ResumeThrows
  <2>1. mode' = "aborted" /\ suspended' = suspended
    BY <1>7 DEF ResumeThrows
  <2> QED
    BY <1>3, <2>1 DEF Counts, OverMain, Halted, Out
<1>8. CASE ResumeLowers
  <2>1. mode = "resumeOver" /\ mode' = "resume" /\ suspended' = Resumed(thread_id_to_meta)
    BY <1>8 DEF ResumeLowers, Takes, ResumeAllThreads
  <2> QED
    BY <1>3, <2>1, Counting DEF Counts, OverMain, Halted, Out
<1> QED
  BY <1>4, <1>5, <1>6, <1>7, <1>8

\* run_step_mode.
LEMMA StepSteps ==
  ASSUME CountsInv,
         \/ StepSource \/ StepLowers \/ StepBegins \/ StepAgain
         \/ StepStopsAtUser \/ StepPassesUser \/ StepArrives \/ StepBreaksOff \/ StepEnds
  PROVE  CountsInv'
<1> USE DEF loop, history, counters, debuggee
<1> DEFINE Goal == /\ suspended' \in [Thread -> Nat]
                   /\ ~interrupted /\ ~interrupted' /\ Counts /\ OverMain
                         => Counts' /\ OverMain'
<1>1. /\ Keeps \/ TakesOne
      /\ OpenThread \/ UNCHANGED thread_id_to_meta
      /\ queued = <<>> => UNCHANGED thread_id_to_meta
      /\ UNCHANGED suspended_thread_ids
      /\ \/ UNCHANGED interrupted
         \/ interrupted' = (interrupted \/ Event.thread # Main)
         \/ interrupted' = TRUE
      /\ mode \in Halted \cup {"step", "stepOver"}
  BY DEF StepSource, Command, StepLowers, StepBegins, StepAgain, StepStopsAtUser,
         StepPassesUser, StepArrives, StepBreaksOff, StepEnds, StepHit, Takes,
         ContinueDebugEvent, Keeps, TakesOne, Halted
<1>2. thread_id_to_meta' \subseteq Thread /\ suspended_thread_ids' = {}
  BY <1>1, OpenThreads DEF CountsInv, Settled, Out, Halted
<1>3. /\ suspended \in [Thread -> Nat] /\ interrupted \in BOOLEAN
      /\ thread_id_to_meta \subseteq Thread
  BY DEF CountsInv, Settled
<1>4. interrupted' \in BOOLEAN /\ (interrupted => interrupted')
  <2>1. CASE UNCHANGED interrupted \/ interrupted' = TRUE
    BY <1>3, <2>1
  <2>2. CASE interrupted' = (interrupted \/ Event.thread # Main)
    BY <2>2, Interrupting
  <2> QED
    BY <1>1, <2>1, <2>2
<1> SUFFICES Goal
  BY <1>1, <1>2, <1>3, <1>4, Resettled
<1> USE MainThread
<1>5. CASE StepSource
  <2>1. CASE mode' = "stepOver"
    <3>1. /\ mode = "prompt" /\ suspended' = Resumed({Main})
          /\ over'.thread = Main /\ over'.waiter = Main /\ over'.then = "stepBegin"
      BY <1>5, <2>1 DEF StepSource, Command, Over
    <3> QED
      BY <1>3, <2>1, <3>1, Counting DEF Counts, OverMain, Halted, Out
  <2>2. CASE mode' # "stepOver"
    <3>1. mode = "prompt" /\ mode' = "stepBegin" /\ suspended' = suspended
      BY <1>5, <2>2 DEF StepSource, Command
    <3> QED
      BY <1>3, <3>1 DEF Counts, OverMain, Halted, Out
  <2> QED
    BY <2>1, <2>2
<1>6. CASE StepLowers
  <2>1. /\ mode = "stepOver" /\ mode' = over.then /\ over' = over
        /\ suspended' = Suspended({over.thread})
    BY <1>6 DEF StepLowers, Takes, SuspendThreadId
  <2>2. ASSUME Counts, OverMain
        PROVE  /\ mode' \in {"stepBegin", "stepAgain"} /\ over'.waiter = Main
               /\ \A t \in Thread : suspended'[t] = 1
    BY <1>3, <2>1, <2>2, Counting DEF Counts, OverMain
  <2> QED
    BY <1>3, <2>1, <2>2, Counting DEF Counts, OverMain, Halted, Out
<1>7. CASE StepBegins
  <2>1. mode = "stepBegin" /\ mode' = "step" /\ suspended' = Resumed({Main})
    BY <1>7 DEF StepBegins
  <2> QED
    BY <1>3, <2>1, Counting DEF Counts, OverMain, Halted, Out
<1>8. CASE StepAgain
  <2>1. mode = "stepAgain" /\ mode' = "step" /\ suspended' = Resumed({over.waiter})
    BY <1>8 DEF StepAgain
  <2> QED
    BY <1>3, <2>1, Counting DEF Counts, OverMain, Halted, Out
<1>9. CASE StepStopsAtUser \/ StepArrives
  <2>1. /\ mode = "step" /\ mode' \in {"stepEnd", "branchEnd"}
        /\ suspended' = Suspended({Event.thread})
        /\ interrupted' = (interrupted \/ Event.thread # Main)
    BY <1>9 DEF StepStopsAtUser, StepArrives, AfterStep, StepHit, Takes, SuspendThreadId
  <2>2. ~interrupted' => Event.thread = Main
    BY <2>1, Interrupting
  <2> QED
    BY <1>3, <2>1, <2>2, Counting DEF Counts, OverMain, Halted, Out
<1>10. CASE StepPassesUser
  <2>1. /\ mode = "step" /\ mode' = "stepOver"
        /\ suspended' = [Suspended({Event.thread}) EXCEPT ![Main] = Less(@)]
        /\ over'.thread = Main /\ over'.waiter = Event.thread /\ over'.then = "stepAgain"
        /\ interrupted' = (interrupted \/ Event.thread # Main)
    BY <1>10 DEF StepPassesUser, StepHit, Takes, Over
  <2>2. ~interrupted' => Event.thread = Main
    BY <2>1, Interrupting
  <2>3. suspended' \in [Thread -> Nat]
    BY <1>3, <2>1, Counting DEF Less
  <2>4. ASSUME Counts, ~interrupted', NEW t \in Thread
        PROVE  suspended'[t] = IF t = Main THEN 0 ELSE 1
    BY <1>3, <2>1, <2>2, <2>4, Counting DEF Counts, Less
  <2> QED
    BY <2>1, <2>2, <2>3, <2>4 DEF Counts, OverMain, Halted, Out
<1>11. CASE StepBreaksOff
  BY <1>3, <1>11 DEF StepBreaksOff
<1>12. CASE StepEnds
  <2>1. /\ mode \in {"stepEnd", "branchEnd"} /\ mode' \in {"instructionBegin", "prompt"}
        /\ suspended' = suspended
    BY <1>12 DEF StepEnds
  <2> QED
    BY <1>3, <2>1 DEF Counts, OverMain, Halted, Out
<1> QED
  BY <1>5, <1>6, <1>7, <1>8, <1>9, <1>10, <1>11, <1>12

\* step_instruction, and the ends of step_out_from and run_to_address.
LEMMA InstructionSteps ==
  ASSUME CountsInv, StepInstruction \/ InstructionStops \/ StepOut \/ OutEnds
  PROVE  CountsInv'
<1> USE DEF loop, history, counters
<1> DEFINE Goal == /\ suspended' \in [Thread -> Nat]
                   /\ ~interrupted /\ Counts /\ OverMain => Counts' /\ OverMain'
<1>1. /\ Keeps \/ TakesOne
      /\ UNCHANGED <<thread_id_to_meta, interrupted>>
      /\ mode \in Halted \cup {"instruction"} => UNCHANGED suspended_thread_ids
      /\ mode \notin Halted \cup {"instruction"} => suspended_thread_ids' = {}
  BY DEF StepInstruction, Command, InstructionStops, StepOut, OutEnds, Takes,
         ContinueDebugEvent, Keeps, TakesOne, Halted
<1>2. suspended_thread_ids' = {}
  BY <1>1 DEF CountsInv, Settled, Out, Halted
<1>3. /\ suspended \in [Thread -> Nat] /\ interrupted \in BOOLEAN
      /\ thread_id_to_meta \subseteq Thread
  BY DEF CountsInv, Settled
<1> SUFFICES Goal
  BY <1>1, <1>2, <1>3, Resettled
<1>4. CASE StepInstruction \/ StepOut
  <2>1. /\ mode \in Halted /\ mode' \in {"instruction", "out"}
        /\ suspended' = Resumed(Thread)
    BY <1>4 DEF StepInstruction, StepOut, Command, ResumeProcess, Halted
  <2> QED
    BY <1>2, <1>3, <2>1, Counting DEF Counts, OverMain, Halted, Out
<1>5. CASE InstructionStops
  <2>1. mode = "instruction" /\ mode' = "prompt" /\ suspended' = Suspended(Thread)
    BY <1>5 DEF InstructionStops, Takes, SuspendProcess
  <2> QED
    BY <1>3, <2>1, Counting DEF Counts, OverMain, Halted, Out
<1>6. CASE OutEnds
  <2>1. /\ mode = "outReached" /\ mode' = "prompt"
        /\ suspended' = [t \in Thread |->
               IF t \in suspended_thread_ids THEN suspended[t] ELSE suspended[t] + 1]
    BY <1>6 DEF OutEnds
  <2> QED
    BY <1>3, <2>1 DEF Counts, OverMain, Halted, Out
<1> QED
  BY <1>4, <1>5, <1>6

\* Passes through the loop of run_to_address that stop a thread.  The event that
\* is taken was the thread's only one, so a thread that is set aside was not
\* suspended yet.
LEMMA OutSteps ==
  ASSUME CountsInv, OutReaches \/ OutSuspends
  PROVE  CountsInv'
<1> USE DEF loop, history, counters
<1>1. /\ TakesOne /\ OpenThread /\ mode = "out" /\ mode' \in Out
      /\ UNCHANGED <<over, interrupted>>
      /\ \/ UNCHANGED <<suspended, suspended_thread_ids>>
         \/ /\ suspended' = Suspended({Event.thread})
            /\ suspended_thread_ids' = suspended_thread_ids \cup {Event.thread}
  BY DEF OutReaches, OutSuspends, Takes, ContinueDebugEvent, TakesOne, SuspendThreadId, Out
<1>2. thread_id_to_meta' \subseteq Thread
  BY <1>1, OpenThreads DEF TakesOne
<1>3. /\ QueueOK'
      /\ \A t : InQueue(t)' => InQueue(t)
      /\ \A t : t = Event.thread => ~InQueue(t)'
  BY <1>1, TakeQueue DEF CountsInv
<1>4. InQueue(Event.thread)
  <2>1. Len(queued) \in Nat /\ Len(queued) >= 1 /\ queued[1] = Event
    BY <1>1 DEF CountsInv, QueueOK, TakesOne, Event
  <2> QED
    BY <2>1 DEF InQueue
<1>5. suspended \in [Thread -> Nat] /\ suspended' \in [Thread -> Nat]
  BY <1>1, Counting DEF CountsInv, Settled
<1>6. ASSUME ~interrupted
      PROVE  Counts' /\ OverMain' /\ SetAside'
  <2>1. Counts /\ SetAside
    BY <1>6 DEF CountsInv, Settled
  <2>2. Event.thread \notin suspended_thread_ids
    BY <1>4, <2>1 DEF SetAside
  <2>3. Counts'
    BY <1>1, <1>5, <2>1, <2>2, Counting DEF Counts, Halted, Out
  <2>4. OverMain'
    BY <1>1 DEF OverMain, Out
  <2>5. ASSUME NEW t \in suspended_thread_ids', InQueue(t)'
        PROVE  FALSE
    BY <1>1, <1>3, <2>1, <2>5 DEF SetAside
  <2>6. SetAside'
    BY <2>5 DEF SetAside
  <2> QED
    BY <2>3, <2>4, <2>6
<1>7. interrupted' = interrupted /\ interrupted \in BOOLEAN
  BY <1>1 DEF CountsInv, Settled
<1>8. Settled'
  BY <1>1, <1>2, <1>5, <1>6, <1>7 DEF Settled
<1> QED
  BY <1>3, <1>8 DEF CountsInv

THEOREM CountsInvHolds == Spec => []CountsInv
<1>1. CountsInv /\ [Next]_vars => CountsInv'
  <2> SUFFICES ASSUME CountsInv, [Next]_vars PROVE CountsInv'
    OBVIOUS
  <2> QED
    BY OutsideSteps, IgnoringSteps, ResumeSteps, StepSteps, InstructionSteps, OutSteps
       DEF Next
<1> QED
  BY InitCounts, <1>1, PTL DEF Spec

----------------------------------------------------------------------------
(* The theorems.                                                           *)

\* Suspend counts nest, whatever commands are given and whichever of any number
\* of threads stop meanwhile: at the prompt every thread is suspended exactly
\* once, and while the program runs freely none is (resume_command.cpp:23-148,
\* step_command.cpp:99-404).
THEOREM CountsBalance == Spec => []SuspendCountsBalance
<1>1. CountsInv => SuspendCountsBalance
  BY DEF CountsInv, Settled, Counts, Halted, SuspendCountsBalance
<1> QED
  BY <1>1, CountsInvHolds, PTL

\* No thread the debugger has opened runs while another is stepped over a lifted
\* breakpoint: none can slip past it (resume_command.cpp:30-36, 80-90).
THEOREM NobodySlipsPast == Spec => []FrozenWhileLifted
<1>1. ASSUME CountsInv, ~interrupted, mode \in {"resumeOver", "stepOver"},
             NEW t \in thread_id_to_meta \ {over.thread}
      PROVE  suspended[t] > 0
  <2>1. t \in Thread /\ Counts /\ OverMain
    BY <1>1 DEF CountsInv, Settled
  <2> QED
    BY <1>1, <2>1 DEF Counts, OverMain
<1>2. CountsInv => FrozenWhileLifted
  BY <1>1 DEF FrozenWhileLifted
<1> QED
  BY <1>2, CountsInvHolds, PTL
----------------------------------------------------------------------------
(* The breakpoints.                                                        *)

\* Where the step under way holds breakpoints, and the user's breakpoint that is
\* lifted.
Stepping ==
    \/ mode \in {"step", "stepAgain", "stepEnd", "branchEnd"}
    \/ mode = "stepOver" /\ over.then = "stepAgain"
Placed == IF Stepping THEN potential_stops ELSE IF mode \in Out THEN {ReturnSite} ELSE {}
Lifted == IF mode \in {"resumeOver", "stepOver"} THEN {over.address} \cap UserAddress ELSE {}

Places ==
    /\ at \in [Thread -> Address]
    /\ potential_stops \subseteq Address
    /\ mode = "stepOver" => over.then \in {"stepBegin", "stepAgain"}

\* What stays armed when the user's breakpoints and those of steps are gone.
Fixed == EntryPoints \cup asked_twice

\* A breakpoint placed over the user's saves an int3, and puts it back.
TablesOK ==
    /\ UserAddress \subseteq Address
    /\ asked_twice \subseteq Address
    /\ \A u \in UserAddress : /\ TrueAddress[u] = u
                              /\ user_breakpoints[u] = IF u \in Fixed THEN int3 ELSE Code
    /\ permanent = EntryPoints
    /\ Tracked = EntryPoints \cup Placed
    /\ \A a \in Placed \ EntryPoints :
          /\ Holds(Main, a)
          /\ address_to_bp[a].count = 1
          /\ address_to_bp[a].saved =
                IF a \in UserAddress \cup asked_twice THEN int3 ELSE Code

Bytes(armed) ==
    /\ byte \in [Address -> Byte]
    /\ \A a \in Address : byte[a] = int3 <=> a \in armed

BytesOK == Bytes(Fixed \cup ((UserAddress \cup Placed) \ Lifted))

ArmsInv == Places /\ TablesOK /\ BytesOK

LEMMA InitArms == Init => ArmsInv
<1> SUFFICES ASSUME Init PROVE ArmsInv
  OBVIOUS
<1>1. Places
  BY DEF Init, Places
<1>2. Placed = {} /\ Lifted = {} /\ UserAddress = {}
  BY DEF Init, Placed, Lifted, Stepping, Out, UserAddress
<1>3. TablesOK
  BY <1>2 DEF Fixed, Init, TablesOK, Tracked
<1>4. BytesOK
  BY <1>2 DEF Fixed, Init, BytesOK, Bytes, Byte, Code, int3
<1> QED
  BY <1>1, <1>3, <1>4 DEF ArmsInv

\* A step that changes neither the breakpoints nor where they are.
LEMMA SameArms ==
  ASSUME ArmsInv, UNCHANGED <<breakpointVars, asked_twice>>, Placed' = Placed,
         Lifted' = Lifted, Places'
  PROVE  ArmsInv'
<1> USE DEF breakpointVars, tables
<1>1. UserAddress' = UserAddress /\ Tracked' = Tracked
  BY DEF UserAddress, Tracked
<1>2. TablesOK'
  BY <1>1 DEF Fixed, ArmsInv, TablesOK, Holds, Holders
<1>3. BytesOK'
  BY <1>1 DEF Fixed, ArmsInv, BytesOK, Bytes
<1> QED
  BY <1>2, <1>3 DEF ArmsInv

\* Lifting a breakpoint and putting it back change one byte.
LEMMA Lifting ==
  ASSUME ArmsInv, NEW a, Lift(a), Lifted = {}, Lifted' = {a} \cap UserAddress,
         UNCHANGED asked_twice, Placed' = Placed, Places'
  PROVE  ArmsInv'
<1> USE DEF breakpointVars, tables
<1>1. UNCHANGED tables /\ UserAddress' = UserAddress /\ Tracked' = Tracked
  BY DEF Lift, DisableUserBreakpoint, UserAddress, Tracked
<1>2. TablesOK'
  BY <1>1 DEF Fixed, ArmsInv, TablesOK, Holds, Holders
<1>3. CASE a \in UserAddress
  <2>1. /\ a \in Address /\ Lifted' = {a}
        /\ byte' = [byte EXCEPT ![a] = IF a \in Fixed THEN int3 ELSE Code]
    BY <1>3 DEF Fixed, ArmsInv, TablesOK, Lift, DisableUserBreakpoint
  <2>2. BytesOK'
    BY <1>1, <2>1, CommandsAssumption DEF Fixed, ArmsInv, BytesOK, Bytes, Byte, Code, int3
  <2> QED
    BY <1>2, <2>2 DEF ArmsInv
<1>4. CASE a \notin UserAddress
  <2>1. byte' = byte /\ Lifted' = {}
    BY <1>4 DEF Lift
  <2>2. BytesOK'
    BY <1>1, <2>1 DEF Fixed, ArmsInv, BytesOK, Bytes
  <2> QED
    BY <1>2, <2>2 DEF ArmsInv
<1> QED
  BY <1>3, <1>4

LEMMA Lowering ==
  ASSUME ArmsInv, NEW a, Lower(a), Lifted = {a} \cap UserAddress, Lifted' = {},
         UNCHANGED asked_twice, Placed' = Placed, Places'
  PROVE  ArmsInv'
<1> USE DEF breakpointVars, tables
<1>1. UNCHANGED tables /\ UserAddress' = UserAddress /\ Tracked' = Tracked
  BY DEF Lower, EnableUserBreakpoint, UserAddress, Tracked
<1>2. TablesOK'
  BY <1>1 DEF Fixed, ArmsInv, TablesOK, Holds, Holders
<1>3. CASE a \in UserAddress
  <2>1. /\ a \in Address /\ Lifted = {a} /\ byte' = [byte EXCEPT ![a] = int3]
    BY <1>3 DEF Fixed, ArmsInv, TablesOK, Lower, EnableUserBreakpoint
  <2>2. BytesOK'
    BY <1>1, <1>3, <2>1 DEF Fixed, ArmsInv, BytesOK, Bytes, Byte
  <2> QED
    BY <1>2, <2>2 DEF ArmsInv
<1>4. CASE a \notin UserAddress
  <2>1. byte' = byte /\ Lifted = {}
    BY <1>4 DEF Lower
  <2>2. BytesOK'
    BY <1>1, <2>1 DEF Fixed, ArmsInv, BytesOK, Bytes
  <2> QED
    BY <1>2, <2>2 DEF ArmsInv
<1> QED
  BY <1>3, <1>4
\* Breakpoints are placed for Main while none is and nothing is lifted.
LEMMA Placing ==
  ASSUME ArmsInv, NEW S \in SUBSET Address, NEW kind, CreateHeldBreakpoints(S, Main, kind),
         Placed = {}, Lifted = {}, Placed' = S, Lifted' = {}, Places',
         UNCHANGED asked_twice
  PROVE  ArmsInv'
<1> USE DEF CreateHeldBreakpoints
<1>1. /\ UNCHANGED <<permanent, user_breakpoints>> /\ UserAddress' = UserAddress
      /\ Tracked = EntryPoints /\ Tracked' = EntryPoints \cup S
  BY DEF UserAddress, ArmsInv, TablesOK, Tracked
<1>2. ASSUME NEW a \in S \ EntryPoints
      PROVE  /\ Holds(Main, a)'
             /\ address_to_bp'[a].count = 1
             /\ address_to_bp'[a].saved =
                   IF a \in UserAddress \cup asked_twice THEN int3 ELSE Code
  <2>1. address_to_bp'[a] = Written(a, kind, <<Main>>)
    BY <1>1, <1>2
  <2>2. Holds(Main, a)'
    <3> HIDE DEF CreateHeldBreakpoints
    <3>1. /\ address_to_bp'[a].holders = <<Main>> /\ a \in Tracked'
          /\ 1 \in 1..Len(<<Main>>) /\ <<Main>>[1] = Main
      BY <1>1, <2>1 DEF Written
    <3> QED
      BY <3>1 DEF Holds, Holders
  <2>3. byte[a] = IF a \in UserAddress \cup asked_twice THEN int3 ELSE Code
    BY <1>2 DEF Fixed, ArmsInv, BytesOK, Bytes, Byte
  <2> QED
    BY <2>1, <2>2, <2>3 DEF Written
<1>3. TablesOK'
  <2> HIDE DEF CreateHeldBreakpoints
  <2>1. Fixed' = Fixed
    BY DEF Fixed
  <2>2. \A u \in UserAddress' : /\ TrueAddress[u] = u
                                /\ user_breakpoints'[u] = IF u \in Fixed' THEN int3 ELSE Code
    BY <1>1, <2>1 DEF ArmsInv, TablesOK
  <2>3. \A a \in Placed' \ EntryPoints :
           /\ Holds(Main, a)'
           /\ address_to_bp'[a].count = 1
           /\ address_to_bp'[a].saved =
                 IF a \in UserAddress' \cup asked_twice' THEN int3 ELSE Code
    BY <1>1, <1>2
  <2>4. /\ UserAddress' \subseteq Address /\ asked_twice' \subseteq Address
        /\ permanent' = EntryPoints /\ Tracked' = EntryPoints \cup Placed'
    BY <1>1 DEF ArmsInv, TablesOK
  <2> QED
    BY <2>2, <2>3, <2>4 DEF TablesOK
<1>4. BytesOK'
  BY <1>1 DEF Fixed, ArmsInv, BytesOK, Bytes, Armed, Byte
<1> QED
  BY <1>3, <1>4 DEF ArmsInv

\* What was placed is removed, and the permanent breakpoints among it stay.
LEMMA Removing ==
  ASSUME ArmsInv, RemoveBreakpoints(Placed, Main), Placed \subseteq Address,
         Lifted = {}, Placed' = {}, Lifted' = {}, Places', UNCHANGED asked_twice
  PROVE  ArmsInv'
<1> DEFINE released == {a \in Placed : RemovableBy(Main, a)}
           last     == {a \in released : address_to_bp[a].count = 1}
           users    == {TrueAddress[a] : a \in Placed \ (Tracked \cup permanent)} \cap UserAddress
<1>1. /\ byte' = [a \in Address |->
             IF a \in released THEN address_to_bp[a].saved
             ELSE IF a \in users THEN user_breakpoints[a] ELSE byte[a]]
      /\ address_to_bp' = [a \in Tracked \ last |->
             IF a \in released
             THEN [address_to_bp[a] EXCEPT !.holders = EraseFirst(@, Main), !.count = @ - 1]
             ELSE address_to_bp[a]]
      /\ user_breakpoints' = Without(user_breakpoints, users)
      /\ UNCHANGED permanent
  BY DEF RemoveBreakpoints
<1>2. released = Placed \ EntryPoints /\ last = Placed \ EntryPoints /\ users = {}
  BY DEF Fixed, ArmsInv, TablesOK, RemovableBy
<1> HIDE DEF released, last, users
<1>3. UserAddress' = UserAddress /\ \A u \in UserAddress : user_breakpoints'[u] = user_breakpoints[u]
  BY <1>1, <1>2 DEF UserAddress, Without
<1>4. Tracked' = EntryPoints
  BY <1>1, <1>2 DEF Fixed, ArmsInv, TablesOK, Tracked
<1>5. TablesOK'
  BY <1>1, <1>3, <1>4 DEF Fixed, ArmsInv, TablesOK
<1>6. ASSUME NEW a \in Address
      PROVE  byte'[a] \in Byte /\ (byte'[a] = int3 <=> a \in Fixed \cup UserAddress)
  <2>1. CASE a \in Placed \ EntryPoints
    BY <1>1, <1>2, <2>1 DEF Fixed, ArmsInv, TablesOK, Byte, Code, int3
  <2>2. CASE a \notin Placed \ EntryPoints
    <3>1. byte'[a] = byte[a]
      BY <1>1, <1>2, <2>2
    <3> QED
      BY <2>2, <3>1 DEF Fixed, ArmsInv, BytesOK, Bytes
  <2> QED
    BY <2>1, <2>2
<1>7. BytesOK'
  BY <1>1, <1>3, <1>6 DEF Fixed, BytesOK, Bytes
<1> QED
  BY <1>5, <1>7 DEF ArmsInv

\* The prompt's breakpoint commands.
LEMMA UserSteps ==
  ASSUME ArmsInv, NEW a \in Address, Placed = {}, Lifted = {}, Placed' = {}, Lifted' = {}, Places',
         \/ /\ CreateUserBreakpoint(a)
            /\ asked_twice' = asked_twice \cup ({TrueAddress[a]} \cap UserAddress)
         \/ RemoveUserBreakpoint(a) /\ UNCHANGED asked_twice
  PROVE  ArmsInv'
<1> DEFINE u == TrueAddress[a]
<1>1. u \in Address /\ TrueAddress[u] = u
  BY AddressAssumption
<1>2. CASE CreateUserBreakpoint(a) /\ asked_twice' = asked_twice \cup ({u} \cap UserAddress)
  <2>1. /\ byte' = Armed({u})
        /\ user_breakpoints' = [b \in UserAddress \cup {u} |->
               IF b = u THEN byte[b] ELSE user_breakpoints[b]]
        /\ asked_twice' = asked_twice \cup ({u} \cap UserAddress)
        /\ UNCHANGED <<address_to_bp, permanent>>
    BY <1>2 DEF CreateUserBreakpoint
  <2> HIDE DEF u
  <2>2. UserAddress' = UserAddress \cup {u} /\ Tracked' = Tracked
    BY <2>1 DEF UserAddress, Tracked
  <2>3. byte[u] = IF u \in Fixed' THEN int3 ELSE Code
    BY <1>1, <2>1 DEF Fixed, ArmsInv, BytesOK, Bytes, Byte
  <2>4. TablesOK'
    BY <1>1, <1>2, <2>1, <2>2, <2>3 DEF Fixed, ArmsInv, TablesOK
  <2>5. BytesOK'
    BY <1>1, <2>1, <2>2 DEF Fixed, ArmsInv, BytesOK, Bytes, Armed, Byte
  <2> QED
    BY <2>4, <2>5 DEF ArmsInv
<1>3. CASE RemoveUserBreakpoint(a) /\ UNCHANGED asked_twice
  <2>1. /\ u \in UserAddress
        /\ byte' = [byte EXCEPT ![u] = user_breakpoints[u]]
        /\ user_breakpoints' = Without(user_breakpoints, {u})
        /\ UNCHANGED <<address_to_bp, permanent, asked_twice>>
    BY <1>3 DEF RemoveUserBreakpoint
  <2> HIDE DEF u
  <2>2. /\ UserAddress' = UserAddress \ {u} /\ Tracked' = Tracked
        /\ \A b \in UserAddress' : user_breakpoints'[b] = user_breakpoints[b]
    BY <2>1 DEF UserAddress, Tracked, Without
  <2>3. TablesOK'
    BY <2>1, <2>2 DEF Fixed, ArmsInv, TablesOK
  <2>4. user_breakpoints[u] = IF u \in Fixed THEN int3 ELSE Code
    BY <2>1 DEF Fixed, ArmsInv, TablesOK
  <2>5. BytesOK'
    BY <1>1, <2>1, <2>2, <2>4 DEF Fixed, ArmsInv, BytesOK, Bytes, Byte, Code, int3
  <2> QED
    BY <2>3, <2>5 DEF ArmsInv
<1> QED
  BY <1>2, <1>3

----------------------------------------------------------------------------
(* The steps.                                                              *)

\* The moves of a thread stay in the program.
LEMMA ThreadsMove ==
  ASSUME ArmsInv, NEW t, NEW a \in Flow[at[t]], at' = [at EXCEPT ![t] = a]
  PROVE  at' \in [Thread -> Address]
<1>1. CASE t \in Thread
  BY <1>1, CommandsAssumption DEF ArmsInv, Places
<1>2. CASE t \notin Thread
  BY <1>2 DEF ArmsInv, Places
<1> QED
  BY <1>1, <1>2

LEMMA NothingPlaced ==
  ASSUME mode = "prompt"
  PROVE  Placed = {} /\ Lifted = {}
BY DEF Placed, Stepping, Out, Lifted

LEMMA DebuggeeArms ==
  ASSUME ArmsInv,
         \/ \E t \in Thread : Execute(t) \/ OtherEvent(t)
         \/ UNCHANGED vars
  PROVE  ArmsInv'
<1> USE DEF loop, history, counters, debuggee
<1>1. at' \in [Thread -> Address]
  BY ThreadsMove DEF ArmsInv, Places, Execute, OtherEvent, vars
<1>2. UNCHANGED <<breakpointVars, mode, over, potential_stops, asked_twice>>
  BY DEF Execute, OtherEvent, vars
<1>3. Placed' = Placed /\ Lifted' = Lifted /\ Places'
  BY <1>1, <1>2
  DEF ArmsInv, Places, Placed, Stepping, Lifted, UserAddress, breakpointVars, tables
<1> QED
  BY <1>2, <1>3, SameArms
\* The bytes stay as they are, and so does everything a breakpoint depends on:
\* commands, and passes through the loops, that lift and place nothing.
LEMMA PassingArms ==
  ASSUME ArmsInv,
         \/ ResumePermanent \/ ResumeStops \/ ResumeIgnores \/ ResumeThrows
         \/ ResumeOverIgnores \/ StepOverIgnores \/ StepAgain \/ StepStopsAtUser \/ StepArrives
         \/ StepIgnores \/ StepBreaksOff \/ StepInstruction \/ InstructionStops
         \/ InstructionIgnores \/ OutReaches \/ OutSuspends \/ OutIgnores
  PROVE  ArmsInv'
<1> USE DEF loop, history, counters, debuggee, Takes, Ignore, StepHit, Command
<1>1. UNCHANGED breakpointVars /\ UNCHANGED <<potential_stops, asked_twice>>
  BY DEF ResumePermanent, ResumeStops, ResumeIgnores, ResumeThrows, ResumeOverIgnores,
         StepOverIgnores, StepAgain, StepStopsAtUser, StepArrives, StepIgnores, StepBreaksOff,
         StepInstruction, InstructionStops, InstructionIgnores, OutReaches, OutSuspends, OutIgnores
<1>2. at' \in [Thread -> Address]
  <2>1. CASE ResumePermanent
    BY <2>1, ThreadsMove DEF ResumePermanent
  <2>2. CASE ~ResumePermanent
    BY <2>2 DEF ArmsInv, Places, ResumeStops, ResumeIgnores, ResumeThrows, ResumeOverIgnores,
         StepOverIgnores, StepAgain, StepStopsAtUser, StepArrives, StepIgnores, StepBreaksOff,
         StepInstruction, InstructionStops, InstructionIgnores, OutReaches, OutSuspends, OutIgnores
  <2> QED
    BY <2>1, <2>2
<1>3. \/ UNCHANGED <<mode, over>>
      \/ /\ mode \in {"prompt", "resume", "instruction", "instructionBegin"}
         /\ mode' \in {"prompt", "aborted", "instruction"}
      \/ mode \in {"step", "stepAgain"} /\ mode' \in {"step", "stepEnd", "branchEnd"}
      \/ mode \in Out /\ mode' \in Out
  BY DEF ResumePermanent, ResumeStops, ResumeIgnores, ResumeThrows, ResumeOverIgnores,
         StepOverIgnores, StepAgain, StepStopsAtUser, StepArrives, StepIgnores, StepBreaksOff,
         StepInstruction, InstructionStops, InstructionIgnores, OutReaches, OutSuspends, OutIgnores,
         AfterStep, Out
<1>4. Placed' = Placed /\ Lifted' = Lifted /\ (mode' = "stepOver" => UNCHANGED <<mode, over>>)
  BY <1>1, <1>3 DEF Placed, Stepping, Out, Lifted, UserAddress, breakpointVars, tables
<1>5. Places'
  BY <1>1, <1>2, <1>4 DEF ArmsInv, Places
<1> QED
  BY <1>1, <1>4, <1>5, SameArms

LEMMA UserCommandArms ==
  ASSUME ArmsInv, NEW a \in UserSites,
         AddUserBreakpoint(a) \/ AddConditionalBreakpoint(a) \/ DropUserBreakpoint(a)
  PROVE  ArmsInv'
<1> USE DEF AddUserBreakpoint, AddConditionalBreakpoint, DropUserBreakpoint, Command, loop, history,
            debuggee
<1>1. a \in Address
  BY CommandsAssumption
<1>2. mode = "prompt" /\ mode' = "prompt" /\ UNCHANGED <<at, potential_stops, over>>
  OBVIOUS
<1>3. Placed = {} /\ Placed' = {} /\ Lifted = {} /\ Lifted' = {} /\ Places'
  BY <1>2 DEF Placed, Stepping, Out, Lifted, ArmsInv, Places
<1>4. CASE UNCHANGED <<breakpointVars, asked_twice>>
  BY <1>3, <1>4, SameArms
<1>5. CASE \/ /\ CreateUserBreakpoint(a)
              /\ asked_twice' = asked_twice \cup ({TrueAddress[a]} \cap UserAddress)
           \/ RemoveUserBreakpoint(a) /\ UNCHANGED asked_twice
  BY <1>1, <1>3, <1>5, UserSteps
<1> QED
  BY <1>4, <1>5

LEMMA LiftingArms ==
  ASSUME ArmsInv, Resume \/ ResumePasses \/ StepSource \/ StepPassesUser
  PROVE  ArmsInv'
<1> USE DEF Takes, StepHit, Command, loop, history, debuggee
<1>0. UNCHANGED asked_twice
  BY DEF Resume, ResumePasses, StepSource, StepPassesUser
<1>1. at' \in [Thread -> Address] /\ potential_stops' \subseteq Address
  BY MainThread, CommandsAssumption
  DEF ArmsInv, Places, Resume, ResumePasses, StepSource, StepPassesUser
<1>2. CASE Resume
  <2>1. CASE pending_user_breakpoint_.set
    <3>1. /\ Lift(over'.address) /\ mode = "prompt" /\ mode' = "resumeOver"
          /\ UserAddress' = UserAddress
      BY <1>2, <2>1 DEF Resume, Lift, DisableUserBreakpoint, breakpointVars, tables, UserAddress
    <3>2. Placed = {} /\ Placed' = {} /\ Lifted = {} /\ Lifted' = {over'.address} \cap UserAddress
      BY <3>1 DEF Placed, Stepping, Out, Lifted
    <3> QED
      BY <1>1, <3>1, <3>2, <1>0, Lifting DEF Places
  <2>2. CASE ~pending_user_breakpoint_.set
    <3>1. UNCHANGED breakpointVars /\ mode = "prompt" /\ mode' = "resume"
      BY <1>2, <2>2 DEF Resume
    <3> QED
      BY <1>1, <3>1, <1>0, SameArms DEF Places, Placed, Stepping, Out, Lifted
  <2> QED
    BY <2>1, <2>2
<1>3. CASE ResumePasses
  <2>1. /\ Lift(over'.address) /\ mode = "resume" /\ mode' = "resumeOver"
        /\ UserAddress' = UserAddress
    BY <1>3 DEF ResumePasses, Over, Lift, DisableUserBreakpoint, breakpointVars, tables,
                UserAddress
  <2>2. Placed = {} /\ Placed' = {} /\ Lifted = {} /\ Lifted' = {over'.address} \cap UserAddress
    BY <2>1 DEF Placed, Stepping, Out, Lifted
  <2> QED
    BY <1>1, <2>1, <2>2, <1>0, Lifting DEF Places
<1>4. CASE StepSource
  <2>1. CASE GetBreakpointType(at[Main], Main) = "User"
    <3>1. /\ Lift(over'.address) /\ mode = "prompt" /\ mode' = "stepOver"
          /\ over'.then = "stepBegin" /\ UserAddress' = UserAddress
      BY <1>4, <2>1 DEF StepSource, Over, Lift, DisableUserBreakpoint, breakpointVars, tables,
                        UserAddress
    <3>2. Placed = {} /\ Placed' = {} /\ Lifted = {} /\ Lifted' = {over'.address} \cap UserAddress
      BY <3>1 DEF Placed, Stepping, Out, Lifted
    <3> QED
      BY <1>1, <3>1, <3>2, <1>0, Lifting DEF Places
  <2>2. CASE GetBreakpointType(at[Main], Main) # "User"
    <3>1. UNCHANGED breakpointVars /\ mode = "prompt" /\ mode' = "stepBegin"
      BY <1>4, <2>2 DEF StepSource
    <3> QED
      BY <1>1, <3>1, <1>0, SameArms DEF Places, Placed, Stepping, Out, Lifted
  <2> QED
    BY <2>1, <2>2
<1>5. CASE StepPassesUser
  <2>1. /\ Lift(over'.address) /\ mode = "step" /\ mode' = "stepOver"
        /\ over'.then = "stepAgain" /\ UserAddress' = UserAddress
        /\ UNCHANGED potential_stops
    BY <1>5 DEF StepPassesUser, Over, Lift, DisableUserBreakpoint, breakpointVars, tables,
                UserAddress
  <2>2. Placed' = Placed /\ Lifted = {} /\ Lifted' = {over'.address} \cap UserAddress
    BY <2>1 DEF Placed, Stepping, Out, Lifted
  <2> QED
    BY <1>1, <2>1, <2>2, <1>0, Lifting DEF Places
<1> QED
  BY <1>2, <1>3, <1>4, <1>5

LEMMA LoweringArms ==
  ASSUME ArmsInv, ResumeLowers \/ StepLowers
  PROVE  ArmsInv'
<1> USE DEF Takes, loop, history
<1>1. /\ Lower(over.address) /\ UNCHANGED <<at, potential_stops, asked_twice>>
      /\ \/ mode = "resumeOver" /\ mode' = "resume"
         \/ mode = "stepOver" /\ mode' = over.then /\ over' = over
  BY DEF ResumeLowers, StepLowers
<1>2. mode = "stepOver" => over.then \in {"stepBegin", "stepAgain"}
  BY DEF ArmsInv, Places
<1>3. /\ Placed' = Placed /\ Lifted = {over.address} \cap UserAddress /\ Lifted' = {}
      /\ Places'
  BY <1>1, <1>2 DEF ArmsInv, Places, Placed, Stepping, Out, Lifted
<1> QED
  BY <1>1, <1>3, Lowering

LEMMA PlacingArms ==
  ASSUME ArmsInv, StepBegins \/ StepOut
  PROVE  ArmsInv'
<1> USE DEF Command, loop, history
<1>1. CASE StepBegins
  <2>1. /\ CreateHeldBreakpoints(potential_stops, Main, "Step")
        /\ mode = "stepBegin" /\ mode' = "step" /\ UNCHANGED <<at, potential_stops, asked_twice>>
    BY <1>1 DEF StepBegins
  <2>2. Placed = {} /\ Placed' = potential_stops /\ Lifted = {} /\ Lifted' = {} /\ Places'
    BY <2>1 DEF ArmsInv, Places, Placed, Stepping, Out, Lifted
  <2>3. potential_stops \in SUBSET Address
    BY DEF ArmsInv, Places
  <2> QED
    BY <2>1, <2>2, <2>3, Placing
<1>2. CASE StepOut
  <2>1. /\ CreateHeldBreakpoints({ReturnSite}, Main, "Return")
        /\ mode = "prompt" /\ mode' = "out" /\ UNCHANGED <<at, potential_stops, asked_twice>>
    BY <1>2 DEF StepOut
  <2>2. Placed = {} /\ Placed' = {ReturnSite} /\ Lifted = {} /\ Lifted' = {} /\ Places'
    BY <2>1 DEF ArmsInv, Places, Placed, Stepping, Out, Lifted
  <2> QED
    BY <2>1, <2>2, CommandsAssumption, Placing
<1> QED
  BY <1>1, <1>2

LEMMA RemovingArms ==
  ASSUME ArmsInv, StepEnds \/ OutEnds
  PROVE  ArmsInv'
<1> USE DEF loop, history, debuggee
<1>1. /\ RemoveBreakpoints(Placed, Main) /\ UNCHANGED <<at, asked_twice>>
      /\ mode \in {"stepEnd", "branchEnd", "outReached"} /\ mode' \in {"instructionBegin", "prompt"}
      /\ potential_stops' \subseteq Address
  BY DEF StepEnds, OutEnds, Placed, Stepping, Out, ArmsInv, Places
<1>2. Placed \subseteq Address /\ Lifted = {} /\ Placed' = {} /\ Lifted' = {} /\ Places'
  BY <1>1, CommandsAssumption DEF ArmsInv, Places, Placed, Stepping, Out, Lifted
<1> QED
  BY <1>1, <1>2, Removing

\* At the prompt the user's breakpoints and the intercepted functions are armed
\* and, but for the addresses at which he asked for a breakpoint twice, nothing
\* else is, whatever commands were given before, whichever threads stopped during
\* them and however they ended: also when a step's or a return's breakpoint lies
\* on the user's or on an intercepted function, and when the user sets one of his
\* there (breakpoint_manager.cpp:21-265, resume_command.cpp:23-148,
\* step_command.cpp:99-404).
THEOREM PromptIsClean == Spec => []PromptLeavesBreakpoints
<1>1. ArmsInv /\ [Next]_vars => ArmsInv'
  <2> SUFFICES ASSUME ArmsInv, [Next]_vars PROVE ArmsInv'
    OBVIOUS
  <2> QED
    BY DebuggeeArms, PassingArms, UserCommandArms, LiftingArms, LoweringArms, PlacingArms,
       RemovingArms
    DEF Next
<1>2. ArmsInv => PromptLeavesBreakpoints
  BY NothingPlaced DEF Fixed, ArmsInv, BytesOK, Bytes, PromptLeavesBreakpoints
<1> QED
  BY InitArms, <1>1, <1>2, PTL DEF Spec
=============================================================================
