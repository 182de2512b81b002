-------------------------- MODULE Instrumentation --------------------------
(***************************************************************************)
(* Branch counting: the C++ plugin moves the first instructions of each    *)
(* basic block into a stub that increments a per-thread counter, and puts  *)
(* a jump to the stub in their place.  Then a thread runs the patched      *)
(* code, is stepped over lines, and asks for the predecessors of the       *)
(* instruction it is stopped at (branch_instrumentation.cpp, utils.cpp,    *)
(* predecessor_analysis.cpp, cpp_breakpoint_plugin.cpp).                   *)
(*                                                                         *)
(* code_ is a sequence of instructions, one slot each; slot i is at true   *)
(* address Region + i.  Groups of instructions of the prologue that touch  *)
(* neither stack nor counter are one slot.                                 *)
(***************************************************************************)
EXTENDS ControlFlow, SequencesExt

CONSTANTS Programs,
          MaxDepth,     \* bound on nested calls
          MaxCount,     \* bound on the branch counter
          MaxSteps,     \* bound on steps over lines
          MaxMisses,    \* how many relocations may fail
          Region,       \* region_base_: a true address beyond all others
          Targets,      \* the branch targets tried; TargetSentinel is none
          Breakpoints   \* the sets of breakpoints tried, by original addresses

TargetSentinel == MaxCount + 1

ASSUME InstrumentationAssumption ==
    /\ MaxDepth \in Nat /\ MaxCount \in Nat /\ MaxSteps \in Nat /\ MaxMisses \in Nat
    /\ Region \in Nat
    /\ Targets \subseteq Nat
    /\ \A S \in Breakpoints : S \subseteq Nat

\* A branch stays in its function or goes to the start of one.
Leads(p, a, t) ==
    /\ t \in DOMAIN p.code
    /\ \A fn \in FunctionsContaining(p, t) : t = fn.start \/ fn \in FunctionsContaining(p, a)

\* Where a thread starts, and where its indirect branches go.
Entries(p) == {p.entry} \cup p.taken

\* What a compiler makes: functions apart from each other, each a row of
\* instructions that ends in a jump or a return.
ASSUME ProgramsAssumption ==
    \A p \in Programs :
        /\ p = [code |-> p.code, functions |-> p.functions, line |-> p.line,
                entry |-> p.entry, taken |-> p.taken]
        /\ DOMAIN p.code \subseteq 1..(Region - 1)
        /\ \A a \in DOMAIN p.code :
              /\ p.code[a].category \in {"OTHER", "COND_BR", "UNCOND_BR", "CALL", "RET"}
              /\ p.code[a].length \in Nat \ {0}
              /\ EndOf(p, a) < Region
              /\ \A c \in DOMAIN p.code : a < c => EndOf(p, a) <= c
              /\ p.code[a].target # Indirect => Leads(p, a, p.code[a].target)
              /\ p.code[a].category = "COND_BR" => p.code[a].target # Indirect
              /\ \E fn \in p.functions :
                    /\ fn.start <= a
                    /\ \/ EndOf(p, a) < fn.end /\ EndOf(p, a) \in DOMAIN p.code
                       \/ EndOf(p, a) = fn.end /\ p.code[a].category \in {"UNCOND_BR", "RET"}
        /\ \A fn \in p.functions : fn.start \in DOMAIN p.code /\ fn.end \in Nat /\ fn.start < fn.end
        /\ \A fn, gn \in p.functions : fn # gn => fn.end <= gn.start \/ gn.end <= fn.start
        /\ \A t \in Entries(p) : /\ t \in DOMAIN p.code
                                 /\ \A fn \in FunctionsContaining(p, t) : t \in Leaders(p, fn)

(* The plugin. *)
VARIABLES program,
          todo,                              \* blocks not yet instrumented
          ready,                             \* add_branch_instrumentation has returned
          analysis,                          \* g_analysis: the functions analysed
          code_,
          patches_,                          \* the blocks with a jump to be written
          instruction_remap_,
          instruction_address_to_original_,
          prologue_rsp_fix_instructions,
          leaders,                           \* g_instrumented_leaders
          misses

(* The thread. *)
VARIABLES pc,        \* a true address, Exited, or a place no instruction starts
          stack,     \* words pushed: return addresses and SavedRegister
          counter,   \* the two words of thread-local storage
          target

(* The debugger, and what the thread has done. *)
VARIABLES step,      \* the step over a line that is under way
          steps,
          prev,      \* the instruction of the program executed last
          visited,   \* <<address, counter, depth>> of those executed before it
          line       \* the start of a line executed last, and its count

plugin == <<program, todo, ready, analysis, code_, patches_, instruction_remap_,
            instruction_address_to_original_, prologue_rsp_fix_instructions,
            leaders, misses>>
thread == <<pc, stack, counter, target>>
debugger == <<step, steps>>
history == <<prev, visited, line>>
vars == <<plugin, thread, debugger, history>>

Exited == 0
Nowhere == -1
SavedRegister == 0
Running == ready
\* What the plugin knows of the program.
Analysed == [program EXCEPT !.functions = analysis]
NoStep == [under_way |-> FALSE]
NoPrev == [address |-> Exited, counter |-> 0, direct |-> FALSE]

\* The members of a set of numbers, the smallest first.
InOrder(S) == [k \in 1..Cardinality(S) |->
                  CHOOSE x \in S : Cardinality({y \in S : y <= x}) = k]

\* The frames of the program on a stack: its words but those of a prologue.
ReturnAddresses(s) ==
    LET words == InOrder({i \in DOMAIN s : s[i] # SavedRegister})
    IN  [k \in DOMAIN words |-> s[words[k]]]
Depth == Len(ReturnAddresses(stack))

----------------------------------------------------------------------------
(* The stub. *)

Prologue == <<"push rax", "save flags", "count", "push rcx", "compare",
              "int3", "pop rcx", "restore flags", "pop rax">>

\* Mutant: the entry of the pop of rcx is that of the next instruction.
PushedWordsOffByOne == <<0, 1, 1, 1, 2, 2, 1, 1, 1>>

\* tls_instruction_offsets_: the words on the stack when each is reached.
PushedWords == <<0, 1, 1, 1, 2, 2, 2, 1, 1>>

Slot(op, a) == [op |-> op, address |-> a]

Stub(p, b) ==
    [i \in 1..Len(Prologue) |-> Slot(Prologue[i], b.start)]
    \o [i \in 1..Cardinality(Displaced(p, b)) |->
            Slot("displaced", InOrder(Displaced(p, b))[i])]
    \o <<Slot("jump back", PatchEnd(p, b))>>

\* f, with the values of g where g has one.
Override(f, g) == [x \in DOMAIN f \cup DOMAIN g |-> IF x \in DOMAIN g THEN g[x] ELSE f[x]]

\* Where the k-th slot of a stub added to code_ is.
NewAddress(k) == Region + Len(code_) + k

InStub(t) == Region < t /\ t <= Region + Len(code_)
SlotAt(t) == code_[t - Region]

get_true_instruction_address(a) == Translate(instruction_remap_, a)

get_original_instruction_address(t) == Translate(instruction_address_to_original_, t)

----------------------------------------------------------------------------
(* Instrumenting. *)

Init ==
    /\ program \in Programs
    /\ todo = AllBlocks(program)
    /\ ready = FALSE
    /\ analysis = {}
    /\ code_ = <<>>
    /\ patches_ = {}
    /\ instruction_remap_ = << >>
    /\ instruction_address_to_original_ = << >>
    /\ prologue_rsp_fix_instructions = << >>
    /\ leaders = {}
    /\ misses = 0
    /\ pc = program.entry
    /\ stack = <<>>
    /\ counter = 0
    /\ target \in Targets
    /\ step = NoStep /\ steps = 0
    /\ prev = NoPrev /\ visited = {} /\ line = Candidate(Exited, 0)

NextBlock == CHOOSE b \in todo : \A c \in todo : b.start <= c.start

\* The block gets its stub; the patch is written when all are done.
InstrumentBlock ==
    /\ todo # {}
    /\ LET b == NextBlock
           stub == Stub(program, b)
           moved == {i \in 1..Len(stub) : stub[i].op = "displaced"}
           last == Len(stub)
       IN  /\ CanInstrument(program, b)
           /\ code_' = code_ \o stub
           /\ patches_' = patches_ \cup {b}
           /\ instruction_remap_' =
                Override(instruction_remap_,
                    [a \in {stub[i].address : i \in moved} |->
                        NewAddress(CHOOSE i \in moved : stub[i].address = a)])
           /\ instruction_address_to_original_' =
                Override(instruction_address_to_original_,
                    [t \in {NewAddress(i) : i \in 1..last} |-> stub[t - NewAddress(0)].address])
           /\ prologue_rsp_fix_instructions' =
                Override(prologue_rsp_fix_instructions,
                    [t \in {NewAddress(i) : i \in 2..Len(Prologue)} |->
                        PushedWords[t - NewAddress(0)]])
           /\ leaders' = leaders \cup {b.start}
    /\ todo' = todo \ {NextBlock}
    /\ UNCHANGED <<program, ready, analysis, misses, thread, debugger, history>>

\* Mutant: a block that got no stub is listed as instrumented.
SkipBlockListed ==
    /\ todo # {}
    /\ ~CanInstrument(program, NextBlock)
    /\ leaders' = leaders \cup {NextBlock.start}
    /\ todo' = todo \ {NextBlock}
    /\ UNCHANGED <<program, ready, analysis, code_, patches_, instruction_remap_,
                   instruction_address_to_original_, prologue_rsp_fix_instructions,
                   misses, thread, debugger, history>>

\* The block is too small, begins with a branch, or its stub cannot be
\* reached: what was emitted is taken back.
SkipBlock ==
    /\ todo # {}
    /\ \/ ~CanInstrument(program, NextBlock) /\ UNCHANGED misses
       \/ /\ CanInstrument(program, NextBlock)
          /\ misses < MaxMisses
          /\ misses' = misses + 1
    /\ todo' = todo \ {NextBlock}
    /\ UNCHANGED <<program, ready, analysis, code_, patches_, instruction_remap_,
                   instruction_address_to_original_, prologue_rsp_fix_instructions,
                   leaders, thread, debugger, history>>

Untouched == <<program, code_, patches_, instruction_remap_,
               instruction_address_to_original_, prologue_rsp_fix_instructions,
               leaders, misses, thread, debugger, history>>

\* The analysis is kept and the patches are written.
Commit ==
    /\ ~ready /\ todo = {}
    /\ ready' = TRUE
    /\ analysis' = program.functions
    /\ UNCHANGED <<todo, Untouched>>

\* A slot of thread-local storage is out of reach of the stubs, or no memory
\* near the module is free: nothing is instrumented, nor analysed.
GiveUp ==
    /\ ~ready /\ todo = AllBlocks(program)
    /\ ready' = TRUE
    /\ todo' = {}
    /\ UNCHANGED <<analysis, Untouched>>

----------------------------------------------------------------------------
(* The thread runs the patched code. *)

Detoured(t) == \E b \in patches_ : b.start = t
\* The bytes of an instruction under a patch are gone.
Overwritten(a) == \E b \in patches_ : a \in Displaced(program, b)

\* A thread stopped by an int3 of the step goes nowhere.
Stopped == step.under_way /\ pc \in step.stops
MayRun == Running /\ pc # Exited /\ ~Stopped

\* The jump that a patch starts with.  The stub is the one the patch names.
Detour ==
    /\ MayRun /\ Detoured(pc)
    /\ pc' = Region + (CHOOSE i \in 1..Len(code_) :
                         code_[i] = Slot(Head(Prologue), pc))
    /\ UNCHANGED <<plugin, stack, counter, target, debugger, history>>

\* One step of the prologue.
RunPrologue ==
    /\ MayRun /\ InStub(pc)
    /\ LET op == SlotAt(pc).op
       IN  /\ op \in Range(Prologue)
           /\ op = "count" => counter < MaxCount
           /\ counter' = IF op = "count" THEN counter + 1 ELSE counter
           /\ stack' = CASE op \in {"push rax", "push rcx"} -> Append(stack, SavedRegister)
                         [] op \in {"pop rax", "pop rcx"}   -> Front(stack)
                         [] OTHER                           -> stack
           /\ pc' = IF op = "compare" /\ counter < target THEN pc + 2 ELSE pc + 1
    /\ UNCHANGED <<plugin, target, debugger, history>>

JumpBack ==
    /\ MayRun /\ InStub(pc) /\ SlotAt(pc).op = "jump back"
    /\ pc' = SlotAt(pc).address
    /\ UNCHANGED <<plugin, stack, counter, target, debugger, history>>

\* The instruction of the program at pc, moved or not.
Executes(a) ==
    \/ pc = a /\ a \in DOMAIN program.code /\ ~Overwritten(a)
    \/ InStub(pc) /\ SlotAt(pc) = Slot("displaced", a)

StartsLine(a) == \E r \in LineRanges(program, a) : r.start = a

\* A relative target is wrong once the instruction that names it has moved.
Execute(a) ==
    LET i == program.code[a]
        next == IF InStub(pc) THEN pc + 1 ELSE EndOf(program, a)
        named == IF i.target = Indirect THEN program.taken
                 ELSE IF InStub(pc) THEN {Nowhere} ELSE {i.target}
        returns == i.category = "RET" /\ stack # <<>>
        called == i.category = "CALL"
    IN  /\ MayRun /\ Executes(a)
        /\ CASE i.category = "OTHER"     -> pc' = next
             [] i.category = "COND_BR"   -> pc' \in named \cup {next}
             [] i.category \in {"UNCOND_BR", "CALL"} -> pc' \in named
             [] i.category = "RET"       -> pc' = IF returns THEN Last(stack) ELSE Exited
        /\ stack' = IF called THEN Append(stack, next)
                    ELSE IF returns THEN Front(stack) ELSE stack
        /\ Len(stack') <= MaxDepth
        /\ prev' = [address |-> pc, counter |-> counter,
                    direct |-> i.category # "RET" /\ (i.category = "OTHER" \/ i.target # Indirect)]
        /\ visited' = visited \cup {<<pc, counter, Depth>>}
        /\ line' = IF StartsLine(a) THEN Candidate(pc, counter) ELSE line
        /\ UNCHANGED <<plugin, counter, target, debugger>>

----------------------------------------------------------------------------
(* Stepping over a line. *)

\* The plugin's breakpoints for a step from where the thread is stopped.
step_stops(mode) ==
    {get_true_instruction_address(b.address) :
        b \in get_breakpoints_for_step(Analysed, get_original_instruction_address(pc), mode)}

\* step_source, from wherever the thread is stopped.
BeginStep(mode) ==
    LET o == get_original_instruction_address(pc)
        ranges == LineRanges(program, o)
    IN  /\ Running /\ pc # Exited /\ ~step.under_way
        /\ steps < MaxSteps
        /\ ranges # {}
        /\ step' = [under_way |-> TRUE,
                    ranges    |-> ranges,
                    stops     |-> step_stops(mode),
                    depth     |-> Depth]
        /\ steps' = steps + 1
        /\ UNCHANGED <<plugin, thread, history>>

\* The single step that follows a stop at a branch is an Execute like others.
EndStep ==
    /\ Stopped
    /\ step' = NoStep
    /\ UNCHANGED <<plugin, thread, steps, history>>

Next ==
    \/ InstrumentBlock
    \/ SkipBlock
    \/ Commit
    \/ GiveUp
    \/ Detour
    \/ RunPrologue
    \/ JumpBack
    \/ \E a \in DOMAIN program.code : Execute(a)
    \/ \E mode \in {"Line", "Into"} : BeginStep(mode)
    \/ EndStep

Spec == Init /\ [][Next]_vars

----------------------------------------------------------------------------
(* get_return_address and get_all_return_addresses: fix_thread_ctx drops   *)
(* what the prologue has pushed, and the unwinder then finds the frames of *)
(* the program.                                                            *)
address_rsp_fix_words(t) ==
    IF t \in DOMAIN prologue_rsp_fix_instructions
    THEN prologue_rsp_fix_instructions[t] ELSE 0

get_all_return_addresses ==
    SubSeq(stack, 1, Len(stack) - address_rsp_fix_words(pc))

get_predecessors_of_address(breakpoints, t, c, mode) ==
    LET o == get_original_instruction_address(t)
    IN  CASE mode = "Instruction" ->
               get_instruction_predecessors_of_address(Analysed, leaders,
                   instruction_remap_, breakpoints, o, c)
          [] mode = "Line" ->
               get_line_predecessors_of_address(Analysed, leaders,
                   instruction_remap_, breakpoints, o, c)
          [] mode = "Into" ->
               get_into_predecessors_of_address(Analysed, leaders,
                   instruction_remap_, instruction_address_to_original_, breakpoints, o, c)

\* With these breakpoints in the code.  The counter is read from the thread's
\* local storage.
get_address_predecesors(breakpoints, mode) ==
    get_predecessors_of_address(breakpoints, pc, counter, mode)

----------------------------------------------------------------------------
(* Properties. *)

\* A thread is always at an instruction: of the program, of a stub, or at the
\* jump that starts a patch.  No direct jump, call or return leads into the
\* middle of a patch, although patches cover several instructions.
NeverInsideAPatch ==
    \/ pc = Exited
    \/ InStub(pc)
    \/ pc \in DOMAIN program.code /\ (Overwritten(pc) => Detoured(pc))

\* The instrumented thread runs the program, and nothing but the program:
\* translated back with get_original_instruction_address, what it does is what
\* it would have done without stubs.
Original == INSTANCE Program WITH
    pc <- get_original_instruction_address(pc),
    stack <- ReturnAddresses(stack)
ImplementsProgram == Original!Spec

\* Wherever the thread is stopped, in a stub too, the stack walk finds its
\* callers' return addresses and nothing else.
StackWalkFindsCallers ==
    get_all_return_addresses = ReturnAddresses(stack)

\* Branch counts order a thread's past: if every block could be instrumented,
\* no instruction is ever executed twice with the same count in frames equally
\* deep.  (The returns of a recursion may execute one again and again in frames
\* less and less deep, and enter no block.)
MomentsAreUnique ==
    (\A b \in AllBlocks(program) : b.start \in leaders) =>
        \A a \in DOMAIN program.code :
            pc = get_true_instruction_address(a) /\ Executes(a)
                => <<pc, counter, Depth>> \notin visited

\* The instruction that led here, if by a direct transfer, is among the
\* predecessors of this one with the count it was executed at.  For this the
\* block must be instrumented if a branch led here, and otherwise no breakpoint
\* may be set on an instruction of several bytes earlier in the function: with
\* one the code is decoded out of step and the predecessor is not found, as the
\* TODO at step_command.cpp:20 fears.
Source == get_original_instruction_address(prev.address)
WalkedHere(a, breakpoints) ==
    /\ a = EndOf(program, Source) /\ program.code[Source].category \in {"OTHER", "COND_BR"}
    /\ \A fn \in FunctionsContaining(program, a) : InStep(program, fn, breakpoints, a)
JumpedHere(a) ==
    /\ a \in leaders
    /\ program.code[Source].category # "OTHER" /\ a = program.code[Source].target
LedHere(a, breakpoints) ==
    prev.direct /\ Executes(a) /\ (JumpedHere(a) \/ WalkedHere(a, breakpoints))
PredecessorsComplete ==
    \A a \in DOMAIN program.code : \A breakpoints \in Breakpoints :
        analysis # {} /\ LedHere(a, breakpoints) =>
            Candidate(prev.address, prev.counter)
                \in get_address_predecesors(breakpoints, "Instruction")

\* The same for the start of a line and the line that led to it.  The count is
\* that of the instruction that led here if no other block of this line is
\* instrumented.  (A line that calls functions was begun with a smaller count,
\* which nothing looks for.)
OnlyLeader(a) ==
    \A r \in LineRanges(program, a) :
        a \in Within(program, r) => leaders \cap Within(program, r) \subseteq {a}
LinePredecessorsComplete ==
    \A a \in DOMAIN program.code : \A breakpoints \in Breakpoints :
        analysis # {} /\ LedHere(a, breakpoints) /\ StartsLine(a) =>
            \A r \in LineRanges(program, Source) :
                \E c \in get_address_predecesors(breakpoints, "Line") :
                    /\ c.true_address = get_true_instruction_address(r.start)
                    /\ OnlyLeader(a) => c.branch_counter = prev.counter

\* A reverse step into goes back to the line that ran last, in the function
\* called last when the line before made calls.  For this the line before runs
\* straight through from its start, it lies at lower addresses of the same
\* function, its calls are calls by name, and each function called is left by no
\* jump and by one return, on a line that runs straight through too.  The count
\* is the one that line was begun with if no other block of this one is
\* instrumented.
Straight(r) ==
    /\ \A b \in AllBranches(program) :
        /\ b.address \in Within(program, r) /\ b.next_address # r.end => b.kind = "Call"
        /\ b.target \notin Within(program, r) \ {r.start}
    /\ \A s \in LineRanges(program, r.start) : s = r
CallsFrom(r) == {b \in AllBranches(program) : b.kind = "Call" /\ b.address \in Within(program, r)}
StaysInside(fn) ==
    \A b \in Branches(program, fn) :
        /\ b.kind # "IndirectJump"
        /\ b.kind \in {"Conditional", "UnconditionalJmp"} => fn.start <= b.target /\ b.target < fn.end
ReturnsStraight(fn) ==
    /\ StaysInside(fn)
    /\ \E b \in Branches(program, fn) :
          /\ {c \in Branches(program, fn) : c.kind = "Return"} = {b}
          /\ LineRanges(program, b.address) # {}
          /\ \A r \in LineRanges(program, b.address) : Straight(r) /\ CallsFrom(r) = {}
IntoPredecessorsComplete ==
    \A a \in DOMAIN program.code : \A breakpoints \in Breakpoints :
        analysis # {} /\ LedHere(a, breakpoints) /\ StartsLine(a)
            /\ program.code[Source].category # "CALL"
            /\ FunctionsContaining(program, Source) = FunctionsContaining(program, a)
            /\ (\A r \in LineRanges(program, Source) : Straight(r) /\ r.end <= a)
            /\ (\A r \in LineRanges(program, Source) : \A b \in CallsFrom(r) :
                   \A fn \in FunctionsContaining(program, b.target) : ReturnsStraight(fn))
            /\ LineRanges(program, Source) # {}
            => \E c \in get_address_predecesors(breakpoints, "Into") :
                 /\ c.true_address = line.true_address
                 /\ OnlyLeader(a) => c.branch_counter = line.branch_counter

\* While a line is stepped, its frame executes no instruction of another line,
\* and does not return, before the step has stopped.  (Without an analysis a
\* step has no breakpoints and runs away.  A line of several functions, as the
\* instances of a template have, gets breakpoints for the branches of one of
\* them alone.)
InOneFunction(ranges) ==
    \E fn \in program.functions : \A r \in ranges : fn.start <= r.start /\ r.end <= fn.end
StepStaysOnLine ==
    step.under_way /\ ~Stopped /\ analysis # {} /\ InOneFunction(step.ranges) =>
        /\ Depth >= step.depth
        /\ Depth = step.depth =>
             \A a \in DOMAIN program.code :
                Executes(a) => address_in_line_ranges(step.ranges, a)
============================================================================
