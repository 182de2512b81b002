------------------------- MODULE MCInstrumentation -------------------------
(* All programs of three instructions, and some larger ones.               *)
EXTENDS Instrumentation

I(category, length, to) == [category |-> category, length |-> length, target |-> to]
Other(n) == I("OTHER", n, 0)
Jcc(to) == I("COND_BR", 2, to)
Jmp(to) == I("UNCOND_BR", 2, to)
Call(to) == I("CALL", 5, to)
Ret == I("RET", 1, 0)

\* Lay out a function from its instructions, whose targets are positions in
\* it, or addresses of other functions from Base on.
Base == 100
AddressIn(start, body, k) ==
    start + FoldSeq(LAMBDA i, n : i.length + n, 0, SubSeq(body, 1, k - 1))
Laid(start, body) ==
    LET at == [k \in 1..Len(body) |-> AddressIn(start, body, k)]
        place(i) == [i EXCEPT !.target = IF @ \in 1..Len(body) THEN at[@] ELSE @]
    IN  [a \in Range(at) |-> place(body[CHOOSE k \in 1..Len(body) : at[k] = a])]
EndOfBody(start, body) == AddressIn(start, body, Len(body) + 1)
LineOf(start, body, lines) ==
    [a \in DOMAIN Laid(start, body) |->
        lines[CHOOSE k \in 1..Len(body) : AddressIn(start, body, k) = a]]

\* A function at 1 that may call one at Base.
Made(body, lines, callee, taken) ==
    [code      |-> Laid(1, body) @@ Laid(Base, callee),
     functions |-> {[start |-> 1, end |-> EndOfBody(1, body)],
                    [start |-> Base, end |-> EndOfBody(Base, callee)]},
     line      |-> LineOf(1, body, lines)
                   @@ LineOf(Base, callee, [k \in 1..Len(callee) |-> IF k < Len(callee) THEN 8 ELSE 9]),
     entry     |-> 1,
     taken     |-> taken]

Leaf == <<Other(5), Ret>>

First == {Other(2), Other(5), Jcc(1), Jcc(2), Jcc(3), Jmp(2), Jmp(3), Call(Base), Ret}
Final == {Ret, Jmp(1), Jmp(2)}
AllThree ==
    {Made(<<i, j, k>>, ls, Leaf, {}) :
        i \in First, j \in First, k \in Final,
        ls \in {<<1, 1, 2>>, <<1, 2, 1>>, <<1, 2, 2>>, <<1, 2, 3>>}}

\* A loop with a diamond in it, instructions large enough to be patched.
Loop == Made(<<Other(5), Other(3), Other(3), Jcc(7), Other(5), Jmp(2), Other(4), Ret>>,
             <<1, 2, 2, 2, 3, 3, 4, 4>>, Leaf, {})
\* A loop that begins in the middle of a line.
Inner == Made(<<Other(5), Other(2), Other(5), Jcc(3), Ret>>, <<1, 2, 2, 2, 3>>, Leaf, {})
\* A switch: an indirect jump to two cases, and an indirect call.
Switch == Made(<<Other(6), I("UNCOND_BR", 3, 0), Other(5), Jmp(6), Other(7), Other(5), Ret>>,
               <<1, 1, 2, 2, 3, 4, 4>>, Leaf, {12 - 2, 17})
\* A chain of calls in one line, twice around.
Calls == Made(<<Other(5), Call(Base), Call(Base), Other(3), Jcc(1), Other(5), Ret>>,
              <<1, 1, 1, 2, 2, 3, 3>>, Leaf, {})
\* A function that calls itself from the line it is stepped on.
Recursive ==
    Made(<<Other(5), Call(Base), Other(5), Ret>>, <<1, 2, 3, 3>>,
         <<Other(5), Jcc(4), Call(Base), Other(5), Ret>>, {})

\* A line that calls two functions, each on a line of its own.
TwoCallees ==
    LET p == Made(<<Other(5), Call(Base), Call(200), Other(5), Other(5), Ret>>, <<1, 1, 1, 1, 2, 2>>, Leaf, {})
    IN  [p EXCEPT !.code = @ @@ Laid(200, Leaf),
                  !.functions = @ \cup {[start |-> 200, end |-> EndOfBody(200, Leaf)]},
                  !.line = [a \in DOMAIN @ |-> IF a >= Base THEN 8 ELSE @[a]]
                           @@ LineOf(200, Leaf, <<9, 9>>)]

\* A function that calls itself or another through a pointer, and goes on.
Virtual == Made(<<Other(5), I("CALL", 3, 0), Other(5), Ret>>, <<1, 2, 3, 3>>, Leaf, {1, Base})

\* Two functions of one line, the first of which ends in a jump to the second.
Instances ==
    LET p == Made(<<Call(Base), Ret>>, <<1, 2>>, <<Other(5), Jmp(200)>>, {})
    IN  [p EXCEPT !.code = @ @@ Laid(200, Leaf),
                  !.functions = @ \cup {[start |-> 200, end |-> EndOfBody(200, Leaf)]},
                  !.line = [a \in DOMAIN @ |-> IF a >= Base THEN 8 ELSE @[a]]
                           @@ LineOf(200, Leaf, <<8, 8>>)]

\* A callee that may jump to another function instead of returning itself, and a
\* line that ends in such a jump.
With(p, body, lines) ==
    [p EXCEPT !.code = @ @@ Laid(200, body),
              !.functions = @ \cup {[start |-> 200, end |-> EndOfBody(200, body)]},
              !.line = @ @@ LineOf(200, body, lines)]
TailCall == With(Made(<<Other(5), Call(Base), Other(5), Other(5), Ret>>, <<1, 1, 1, 2, 2>>, <<Other(5), Jcc(200), Ret>>, {}),
                 Leaf, <<6, 6>>)
JumpsAway == With(Made(<<Other(5), Call(Base), Jmp(200)>>, <<1, 1, 1>>, Leaf, {}), Leaf, <<6, 6>>)

\* No breakpoint, one on an instruction of one byte or of several at the start
\* or the end of what is decoded, and one in another function.
SomeBreakpoints == {{}, {1}, {3}, {6}, {Base}, {Base + 5}}
\* Out of step, a byte in the middle of an instruction is taken for one.
OutOfStep(p, breakpoints, o) == {o - 1}

SomePrograms == AllThree \cup {Loop, Inner, Switch, Calls, Recursive, TwoCallees, Virtual, Instances,
                            TailCall, JumpsAway}
============================================================================
