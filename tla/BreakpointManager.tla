------------------------- MODULE BreakpointManager -------------------------
(***************************************************************************)
(* src/managers/breakpoint_manager.cpp: the int3 bytes the debugger writes *)
(* into the debuggee, and the tables that say why each of them is there.   *)
(* This module has the state and the operations; BreakpointSession and     *)
(* Recording have the callers.                                             *)
(*                                                                         *)
(* Of a byte of code only one thing matters: is it the program's own byte  *)
(* or int3?  Writes to the debuggee are assumed to succeed.                *)
(***************************************************************************)
EXTENDS Naturals, Sequences

CONSTANTS Address,      \* the code addresses of interest
          Thread,       \* thread ids of the debuggee
          TrueAddress   \* get_true_address: where an instruction lives after
                        \* a plugin has moved it

ASSUME AddressAssumption ==
    /\ TrueAddress \in [Address -> Address]
    /\ \A a \in Address : TrueAddress[TrueAddress[a]] = TrueAddress[a]

VARIABLES byte,              \* what the debuggee's memory holds
          address_to_bp,     \* breakpoints held by threads, and the permanent
          permanent,         \* domain of permanent_bp_to_trampoline
          user_breakpoints   \* true address |-> saved byte

tables == <<address_to_bp, permanent, user_breakpoints>>
breakpointVars == <<byte, tables>>

Code == "code"
int3 == "int3"
Byte == {Code, int3}
Kind == {"Permanent", "Return", "ShellCode", "Reverse", "Step"}

Tracked == DOMAIN address_to_bp
UserAddress == DOMAIN user_breakpoints

\* Mutant: the first holder is overlooked.
LaterHolders(a) == {address_to_bp[a].holders[i] : i \in 2..Len(address_to_bp[a].holders)}

Holders(a) == {address_to_bp[a].holders[i] : i \in 1..Len(address_to_bp[a].holders)}
Holds(t, a) == a \in Tracked /\ t \in Holders(a)

Without(f, S) == [x \in DOMAIN f \ S |-> f[x]]

\* Mutant: the hold is not erased.
EraseNone(s, t) == s

\* A vector after erase(find(t)): the first t goes.
EraseFirst(s, t) ==
    LET i == CHOOSE i \in 1..Len(s) : s[i] = t /\ \A j \in 1..(i - 1) : s[j] # t
    IN  SubSeq(s, 1, i - 1) \o SubSeq(s, i + 1, Len(s))

----------------------------------------------------------------------------
(* Creating.  The loops that place a breakpoint at each of several         *)
(* addresses run while the debuggee is suspended, so the operations take a *)
(* set of addresses.                                                       *)

\* Mutant: int3 is written before the byte is read.
WrittenBeforeRead(a, kind, holders) ==
    [saved |-> int3, kind |-> kind, count |-> 1, holders |-> holders]

\* WriteBreakpoint
Written(a, kind, holders) ==
    [saved |-> byte[a], kind |-> kind, count |-> 1, holders |-> holders]

Armed(S) == [a \in Address |-> IF a \in S THEN int3 ELSE byte[a]]

\* CreateReturnBreakpoint, create_step_breakpoint
CreateHeldBreakpoints(S, t, kind) ==
    /\ byte' = Armed(S \ Tracked)
    /\ address_to_bp' = [a \in Tracked \cup S |->
           IF a \notin S THEN address_to_bp[a]
           ELSE IF a \notin Tracked THEN Written(a, kind, <<t>>)
           ELSE [address_to_bp[a] EXCEPT !.holders = Append(@, t), !.count = @ + 1]]
    /\ UNCHANGED <<permanent, user_breakpoints>>

\* Mutant: a reverse breakpoint is counted like the others.
CreateCountedReverseBreakpoints(S, t) ==
    CreateHeldBreakpoints({TrueAddress[a] : a \in S}, t, "Reverse")

\* create_reverse_breakpoint writes even where a breakpoint is tracked.
CreateReverseBreakpoints(S, t) ==
    LET T == {TrueAddress[a] : a \in S}
    IN  /\ byte' = Armed(T)
        /\ address_to_bp' = [a \in Tracked \cup T |->
               IF a \in T THEN Written(a, "Reverse", <<t>>) ELSE address_to_bp[a]]
        /\ UNCHANGED <<permanent, user_breakpoints>>

CreatePermanentBreakpoints(S) ==
    /\ byte' = Armed(S)
    /\ address_to_bp' = [a \in Tracked \cup S |->
           IF a \in S THEN Written(a, "Permanent", <<>>) ELSE address_to_bp[a]]
    /\ permanent' = permanent \cup S
    /\ UNCHANGED user_breakpoints

CreateUserBreakpoint(a) ==
    LET true_address == TrueAddress[a]
    IN  /\ byte' = Armed({true_address})
        /\ user_breakpoints' = [b \in UserAddress \cup {true_address} |->
               IF b = true_address THEN byte[b] ELSE user_breakpoints[b]]
        /\ UNCHANGED <<address_to_bp, permanent>>

----------------------------------------------------------------------------
(* Removing.                                                               *)

RemovableBy(t, a) == a \notin permanent /\ Holds(t, a)

\* RemoveBreakpoint for each address of S.  An address nobody tracks falls
\* through to the user's breakpoint there.
RemoveBreakpoints(S, t) ==
    LET released == {a \in S : RemovableBy(t, a)}
        last     == {a \in released : address_to_bp[a].count = 1}
        users    == {TrueAddress[a] : a \in S \ (Tracked \cup permanent)} \cap UserAddress
    IN  /\ byte' = [a \in Address |->
               IF a \in released THEN address_to_bp[a].saved
               ELSE IF a \in users THEN user_breakpoints[a] ELSE byte[a]]
        /\ address_to_bp' = [a \in Tracked \ last |->
               IF a \in released
               THEN [address_to_bp[a] EXCEPT !.holders = EraseFirst(@, t),
                                             !.count = @ - 1]
               ELSE address_to_bp[a]]
        /\ user_breakpoints' = Without(user_breakpoints, users)
        /\ UNCHANGED permanent

\* Mutant: the trampolines are not erased with the breakpoints.
RemoveAllButTrampolines ==
    /\ byte' = [a \in Address |->
           IF a \in permanent THEN address_to_bp[a].saved ELSE byte[a]]
    /\ address_to_bp' = Without(address_to_bp, permanent)
    /\ UNCHANGED <<permanent, user_breakpoints>>

RemoveAllPermanentBreakpoints ==
    /\ byte' = [a \in Address |->
           IF a \in permanent THEN address_to_bp[a].saved ELSE byte[a]]
    /\ address_to_bp' = Without(address_to_bp, permanent)
    /\ permanent' = {}
    /\ UNCHANGED user_breakpoints

RemoveUserBreakpoint(a) ==
    LET true_address == TrueAddress[a]
    IN  /\ true_address \in UserAddress
        /\ byte' = [byte EXCEPT ![true_address] = user_breakpoints[true_address]]
        /\ user_breakpoints' = Without(user_breakpoints, {true_address})
        /\ UNCHANGED <<address_to_bp, permanent>>

----------------------------------------------------------------------------
(* Lifting a breakpoint to step over it, and putting it back.  The tables  *)
(* stay as they are.                                                       *)

DisableUserBreakpoint(a) ==
    /\ TrueAddress[a] \in UserAddress
    /\ byte' = [byte EXCEPT ![TrueAddress[a]] = user_breakpoints[TrueAddress[a]]]
    /\ UNCHANGED tables

EnableUserBreakpoint(a) ==
    /\ TrueAddress[a] \in UserAddress
    /\ byte' = [byte EXCEPT ![TrueAddress[a]] = int3]
    /\ UNCHANGED tables

DisableBreakpoint(a) ==
    /\ TrueAddress[a] \in Tracked
    /\ byte' = [byte EXCEPT ![TrueAddress[a]] = address_to_bp[TrueAddress[a]].saved]
    /\ UNCHANGED tables

EnableBreakpoint(a) ==
    /\ TrueAddress[a] \in Tracked
    /\ byte' = [byte EXCEPT ![TrueAddress[a]] = int3]
    /\ UNCHANGED tables

----------------------------------------------------------------------------
(* GetBreakpointType: why did thread t stop at a?                          *)

NoBreakpoint == "nullopt"

GetBreakpointType(a, t) ==
    IF a \in UserAddress THEN "User"
    ELSE IF a \in permanent THEN "Permanent"
    ELSE IF a \notin Tracked THEN NoBreakpoint
    ELSE IF address_to_bp[a].kind = "ShellCode" THEN "ShellCode"
    ELSE IF t \notin Holders(a) THEN "SpinLock"
    ELSE address_to_bp[a].kind

----------------------------------------------------------------------------
BreakpointInit ==
    /\ byte = [a \in Address |-> Code]
    /\ address_to_bp = [a \in {} |-> 0]
    /\ permanent = {}
    /\ user_breakpoints = [a \in {} |-> Code]

Breakpoint == [saved : Byte, kind : Kind, count : Nat, holders : Seq(Thread)]

BreakpointTypeOK ==
    /\ byte \in [Address -> Byte]
    /\ Tracked \subseteq Address
    /\ \A a \in Tracked : address_to_bp[a] \in Breakpoint
    /\ permanent \subseteq Tracked
    /\ UserAddress \subseteq Address
    /\ \A a \in UserAddress : user_breakpoints[a] \in Byte
=============================================================================
