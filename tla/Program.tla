------------------------------ MODULE Program ------------------------------
(***************************************************************************)
(* One thread of the debuggee running its code as the compiler left it,    *)
(* without instrumentation: what Instrumentation must not change.          *)
(*                                                                         *)
(* A program is a record:                                                  *)
(*   code       the instruction at each address: its category (Zydis's),   *)
(*              its length and its target, Indirect if the instruction     *)
(*              does not name one                                          *)
(*   functions  the functions of the symbol file, [start, end)             *)
(*   line       the source line of each instruction, NoLine if it has none *)
(*   entry      where the thread starts                                    *)
(*   taken      where its indirect jumps and calls go                      *)
(***************************************************************************)
EXTENDS Integers, Sequences

CONSTANTS Programs,   \* the programs tried
          MaxDepth    \* bound on nested calls

VARIABLES program,
          pc,         \* the address of the next instruction; Exited at the end
          stack       \* return addresses, innermost last

Exited == 0
Indirect == 0
NoLine == 0
Category == {"OTHER", "COND_BR", "UNCOND_BR", "CALL", "RET"}

InstructionEnd(p, a) == a + p.code[a].length

\* Where the instruction at a may go, when the stack is s.
Destinations(p, a, s) ==
    LET i == p.code[a]
        named == IF i.target = Indirect THEN p.taken ELSE {i.target}
    IN  CASE i.category = "OTHER"     -> {InstructionEnd(p, a)}
          [] i.category = "COND_BR"   -> named \cup {InstructionEnd(p, a)}
          [] i.category = "UNCOND_BR" -> named
          [] i.category = "CALL"      -> named
          [] i.category = "RET"       -> {IF s = <<>> THEN Exited ELSE s[Len(s)]}

\* The stack after the instruction at a, whose next instruction is at next.
StackAfter(p, a, s, next) ==
    CASE p.code[a].category = "CALL" -> Append(s, next)
      [] p.code[a].category = "RET" /\ s # <<>> -> SubSeq(s, 1, Len(s) - 1)
      [] OTHER -> s

Init ==
    /\ program \in Programs
    /\ pc = program.entry
    /\ stack = <<>>

Execute ==
    /\ pc # Exited
    /\ pc' \in Destinations(program, pc, stack)
    /\ stack' = StackAfter(program, pc, stack, InstructionEnd(program, pc))
    /\ Len(stack') <= MaxDepth
    /\ UNCHANGED program

Spec == Init /\ [][Execute]_<<program, pc, stack>>
============================================================================
