---------------------------- MODULE ControlFlow ----------------------------
(***************************************************************************)
(* The C++ plugin's analysis of a program's code: branches, basic blocks,  *)
(* line ranges, the breakpoints of a step and the predecessors of an       *)
(* instruction (branch_instrumentation.cpp, predecessor_analysis.cpp,      *)
(* pdb.cpp, cpp_breakpoint_plugin.cpp).                                    *)
(*                                                                         *)
(* Addresses are those of the program as it was built ("original"); the    *)
(* operators that need to know where instrumentation has moved an          *)
(* instruction to, or which blocks it reached, take the plugin's maps and  *)
(* sets as parameters.                                                     *)
(***************************************************************************)
EXTENDS Integers, Sequences, FiniteSets

\* What a linear decode of the bytes finds for an instruction that ends at an
\* address, once it is out of step with the instructions.  Its arguments are
\* those of fallthrough_predecessor.  (An address in the middle of an instruction
\* has no line here; no property speaks of what is found out of step.)
CONSTANT Misdecoded(_, _, _)

Indirect == 0
NoLine == 0
PatchSize == 5          \* an E9 jump

SmallestOf(S) == CHOOSE x \in S : \A y \in S : x <= y
EndOf(p, a) == a + p.code[a].length

----------------------------------------------------------------------------
(* analyze_module and discover_blocks. *)

BranchKind(i) ==
    CASE i.category = "COND_BR"   -> "Conditional"
      [] i.category = "UNCOND_BR" -> IF i.target = Indirect THEN "IndirectJump"
                                                            ELSE "UnconditionalJmp"
      [] i.category = "CALL"      -> IF i.target = Indirect THEN "IndirectCall" ELSE "Call"
      [] i.category = "RET"       -> "Return"

\* The instructions of the half-open range r.
Within(p, r) == {a \in DOMAIN p.code : r.start <= a /\ a < r.end}

Branches(p, fn) ==
    {[address      |-> a,
      next_address |-> EndOf(p, a),
      target       |-> p.code[a].target,
      kind         |-> BranchKind(p.code[a])] :
        a \in {b \in Within(p, fn) : p.code[b].category # "OTHER"}}

\* Mutant: the targets of jumps start no block.
LeadersAfterJumps(p, fn) ==
    {fn.start}
    \cup {b.next_address : b \in {c \in Branches(p, fn) :
                                     c.next_address < fn.end /\ c.kind # "Call"}}

\* Calls and returns do not end a block.
Leaders(p, fn) ==
    LET splits == {b \in Branches(p, fn) :
                      b.kind \in {"Conditional", "UnconditionalJmp", "IndirectJump"}}
    IN  {fn.start}
        \cup {b.next_address : b \in {c \in splits : c.next_address < fn.end}}
        \cup {b.target : b \in {c \in Branches(p, fn) :
                                   fn.start <= c.target /\ c.target < fn.end}}

Blocks(p, fn) ==
    {[start |-> l, end |-> SmallestOf({m \in Leaders(p, fn) \cup {fn.end} : m > l})] :
        l \in Leaders(p, fn)}

AllBlocks(p) == UNION {Blocks(p, fn) : fn \in p.functions}

\* Whole instructions from the block's start, until a jump fits.
PatchEnds(p, b) == {e \in {EndOf(p, a) : a \in Within(p, b)} : e - b.start >= PatchSize}
PatchEnd(p, b) == SmallestOf(PatchEnds(p, b))
Displaced(p, b) == {a \in Within(p, b) : a < PatchEnd(p, b)}

\* Mutant: only calls are kept in their place, jumps are moved as well.
CanInstrumentJumps(p, b) ==
    /\ PatchEnds(p, b) # {}
    /\ \A a \in Displaced(p, b) : p.code[a].category # "CALL"

\* A block is left alone if it is too small, or a branch would have to move.
CanInstrument(p, b) ==
    /\ PatchEnds(p, b) # {}
    /\ \A a \in Displaced(p, b) : p.code[a].category = "OTHER"

----------------------------------------------------------------------------
(* get_line_ranges_from_address: all code of the line of o, contiguous     *)
(* entries merged.                                                         *)
SameLine(p, o) == {a \in DOMAIN p.code : p.line[a] = p.line[o]}

LineRanges(p, o) ==
    IF o \notin DOMAIN p.code \/ p.line[o] = NoLine THEN {}
    ELSE LET starts == {a \in SameLine(p, o) : \A b \in SameLine(p, o) : EndOf(p, b) # a}
             ends   == {EndOf(p, a) : a \in SameLine(p, o)} \ SameLine(p, o)
         IN  {[start |-> s, end |-> SmallestOf({e \in ends : e > s})] : s \in starts}

address_in_line_ranges(ranges, a) == \E r \in ranges : r.start <= a /\ a < r.end

FunctionsContaining(p, a) == {fn \in p.functions : fn.start <= a /\ a < fn.end}

----------------------------------------------------------------------------
(* get_breakpoints_for_step. *)

StepBreakpoint(a, kind) == [address |-> a, kind |-> kind]

\* Mutant: a range that ends in any branch is taken for one that is not walked
\* off.
FallthroughExitsNone(p, ranges, branches) ==
    {StepBreakpoint(r.end, "Line") :
        r \in {s \in ranges : \A b \in branches : b.next_address # s.end}}

\* Control walks off the bottom of a range.
FallthroughExits(p, ranges, branches) ==
    {StepBreakpoint(r.end, "Line") :
        r \in {s \in ranges :
                 \A b \in branches :
                    b.next_address = s.end =>
                        b.kind \notin {"UnconditionalJmp", "IndirectJump", "Return"}}}

\* Control leaves from the middle of a range.
Transfers(ranges, branches, mode) ==
    LET inside == {b \in branches : address_in_line_ranges(ranges, b.address)}
    IN  {StepBreakpoint(b.target, "Line") :
            b \in {c \in inside : /\ c.kind \in {"Conditional", "UnconditionalJmp"}
                                  /\ ~address_in_line_ranges(ranges, c.target)}}
        \cup {StepBreakpoint(b.address, "Call") :
            b \in {c \in inside : c.kind \in {"Call", "IndirectCall"} /\ mode = "Into"}}
        \cup {StepBreakpoint(b.address, b.kind) :
            b \in {c \in inside : c.kind \in {"IndirectJump", "Return"}}}

\* An address gets one breakpoint, of the kind found first; which one does not
\* matter where the thread stops.
get_breakpoints_for_step(p, o, mode) ==
    LET ranges == LineRanges(p, o)
    IN  UNION {FallthroughExits(p, ranges, Branches(p, fn))
                \cup Transfers(ranges, Branches(p, fn), mode) :
                    fn \in FunctionsContaining(p, o)}

----------------------------------------------------------------------------
(* Predecessors.  leaders are the instrumented leaders, remap is           *)
(* instruction_remap_, original is instruction_address_to_original_, c is  *)
(* the branch counter at the stop.                                         *)

\* get_true_instruction_address and get_original_instruction_address: an
\* address that is not in the map stands for itself.
Translate(map, a) == IF a \in DOMAIN map THEN map[a] ELSE a

AllBranches(p) == UNION {Branches(p, fn) : fn \in p.functions}

\* Mutant: only the function's own jumps are looked at, not calls.
branch_sources_jumping(p, o) ==
    {b.address : b \in {c \in AllBranches(p) : c.target = o /\ c.kind # "Call"}}

branch_sources_targeting(p, o) ==
    {b.address : b \in {c \in AllBranches(p) : c.target = o}}

\* The bytes are read from the debuggee as they are: breakpoints are the
\* instructions with an int3 in their place, by their original addresses.  An
\* int3 is decoded as an instruction of one byte, and what is left of a longer
\* instruction as others.
InStep(p, fn, breakpoints, o) ==
    \A a \in breakpoints \cap Within(p, [start |-> fn.start, end |-> o]) : p.code[a].length = 1

\* Mutant: a conditional jump that is not taken is forgotten.
fallthrough_predecessor_plain(p, breakpoints, o) ==
    {a \in UNION {Within(p, fn) : fn \in {f \in FunctionsContaining(p, o) : f.start # o}} :
        EndOf(p, a) = o /\ p.code[a].category = "OTHER"}

\* The instruction that ends at o and goes on into it, as an int3 does, if o
\* does not start its function.
fallthrough_predecessor(p, breakpoints, o) ==
    UNION {IF InStep(p, fn, breakpoints, o)
           THEN {a \in Within(p, fn) :
                   /\ EndOf(p, a) = o
                   /\ p.code[a].category \in {"OTHER", "COND_BR"} \/ a \in breakpoints}
           ELSE Misdecoded(p, breakpoints, o) :
                fn \in {f \in FunctionsContaining(p, o) : f.start # o}}

Candidate(true, counter) == [true_address |-> true, branch_counter |-> counter]

\* A source is never translated: no branch is ever moved.
get_instruction_predecessors_of_address(p, leaders, remap, breakpoints, o, c) ==
    LET counter == IF o \in leaders THEN c - 1 ELSE c
    IN  (IF o \in leaders
         THEN {Candidate(a, counter) : a \in branch_sources_targeting(p, o)}
         ELSE {})
        \cup {Candidate(Translate(remap, a), counter) :
                 a \in fallthrough_predecessor(p, breakpoints, o)}

RangeStarts(p, remap, sources, counter) ==
    {Candidate(Translate(remap, r.start), counter) :
        r \in UNION {LineRanges(p, a) : a \in sources}}

\* The loop over the leaders of the range sets line_start to the leader, and
\* sets it to the start of the range again after the loop.
get_line_predecessors_of_address(p, leaders, remap, breakpoints, o, c) ==
    LET ranges     == {r \in LineRanges(p, o) : r.start <= o /\ o < r.end}
        is_leader  == \E r \in ranges : \E l \in leaders : r.start <= l /\ l < r.end
        counter    == IF is_leader THEN c - 1 ELSE c
    IN  UNION {(IF is_leader
                THEN RangeStarts(p, remap, branch_sources_targeting(p, r.start), counter)
                ELSE {})
               \cup RangeStarts(p, remap, fallthrough_predecessor(p, breakpoints, r.start), counter) :
                    r \in ranges}

\* Where the thread was last in a function it has returned from: the start of
\* the line of the function's last return.
ReturnLine(p, fn) ==
    LET returns == {b.address : b \in {c \in Branches(p, fn) :
                       c.kind = "Return" /\ p.line[c.address] # NoLine}}
    IN  {r.start : r \in {s \in UNION {LineRanges(p, a) : a \in returns} :
            \E a \in returns : /\ \A b \in returns : b <= a
                               /\ s.start <= a /\ a < s.end}}

\* Mutant: sorted the other way round.
FirstCall(calls) == CHOOSE b \in calls : \A d \in calls : b.address <= d.address
LastCall(calls) == CHOOSE b \in calls : \A d \in calls : d.address <= b.address

\* The predecessors by line, each replaced by the return line of the last
\* analysed function called from it by name at a smaller address than o.
get_into_predecessors_of_address(p, leaders, remap, original, breakpoints, o, c) ==
    LET own == UNION {Branches(p, fn) : fn \in FunctionsContaining(p, o)}
        returns(b) == UNION {ReturnLine(p, fn) : fn \in FunctionsContaining(p, b.target)}
        calls(k) == {b \in own :
            /\ b.kind = "Call" /\ b.address < o
            /\ address_in_line_ranges(LineRanges(p, Translate(original, k.true_address)),
                                      b.address)
            /\ returns(b) # {}}
        lines == get_line_predecessors_of_address(p, leaders, remap, breakpoints, o, c)
    IN  {k \in lines : calls(k) = {}}
        \cup UNION {{Candidate(Translate(remap, a), k.branch_counter) :
                        a \in returns(LastCall(calls(k)))} :
                            k \in {j \in lines : calls(j) # {}}}
============================================================================
