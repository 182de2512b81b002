---------------------- MODULE BreakpointSessionProofs ----------------------
(***************************************************************************)
(* Theorems about BreakpointSession, for any number of threads, addresses, *)
(* snapshots, nested calls and time restores.                              *)
(*                                                                         *)
(* TypesAndCounts is the invariant the others rest on.  It is inductive:   *)
(* the lemmas about the manager, which come first, carry it over every     *)
(* operation, whoever calls it and in whatever order.  The last two parts, *)
(* about the first run and about steps, add what the saved bytes are, and  *)
(* suppose that addresses with different uses are different (SitesApart,   *)
(* ShellCodeApart).                                                        *)
(***************************************************************************)
EXTENDS BreakpointSession, SequenceTheorems, WellFoundedInduction, TLAPS

Held == {"Return", "Step", "Reverse"}

\* Every hold is counted; the kinds that threads hold count nothing else.  A
\* permanent breakpoint counts one more than its holders.
BreakpointOK(bp) ==
    /\ bp \in Breakpoint
    /\ Len(bp.holders) <= bp.count
    /\ bp.kind \in Held => bp.count = Len(bp.holders) /\ bp.count > 0

ManagerOK ==
    /\ BreakpointTypeOK
    /\ \A a \in Tracked : BreakpointOK(address_to_bp[a])

----------------------------------------------------------------------------
\* A set of natural numbers has a least member.
LEMMA LeastMember ==
  ASSUME NEW T \in SUBSET Nat, T # {}
  PROVE  \E i \in T : \A j \in T : i <= j
<1>1. PICK i \in T : \A j \in T : <<j, i>> \notin OpToRel(<, Nat)
  BY NatLessThanWellFounded, WFMin
<1>2. \A j \in T : ~(j < i)
  BY <1>1 DEF OpToRel
<1> QED
  BY <1>2

\* erase(find(t)): t goes from place k, and the elements after it move up.
Erased(s, e, t, k) ==
    /\ s[k] = t
    /\ Len(e) = Len(s) - 1
    /\ \A i \in 1..(k - 1) : e[i] = s[i]
    /\ \A i \in k..(Len(s) - 1) : e[i] = s[i + 1]

LEMMA EraseFirstElements ==
  ASSUME NEW S, NEW s \in Seq(S), NEW t, NEW found \in 1..Len(s), s[found] = t
  PROVE  /\ EraseFirst(s, t) \in Seq(S)
         /\ \E k \in 1..Len(s) : Erased(s, EraseFirst(s, t), t, k)
<1> DEFINE First(i) == s[i] = t /\ \A j \in 1..(i - 1) : s[j] # t
           k == CHOOSE i \in 1..Len(s) : First(i)
<1>1. \E n \in 1..Len(s) : First(n)
  <2> DEFINE T == {j \in 1..Len(s) : s[j] = t}
  <2>1. T \in SUBSET Nat /\ T # {}
    OBVIOUS
  <2> HIDE DEF T
  <2>2. PICK n \in T : \A j \in T : n <= j
    BY <2>1, LeastMember
  <2>3. n \in 1..Len(s) /\ s[n] = t
    BY <2>2 DEF T
  <2>4. ASSUME NEW j \in 1..(n - 1) PROVE s[j] # t
    BY <2>2, <2>3 DEF T
  <2> QED
    BY <2>3, <2>4
<1>2. k \in 1..Len(s) /\ s[k] = t
  BY <1>1
<1> HIDE DEF k
<1> DEFINE u == SubSeq(s, 1, k - 1)
           v == SubSeq(s, k + 1, Len(s))
<1>3. /\ u \in Seq(S) /\ Len(u) = k - 1 /\ Len(s) \in Nat
      /\ \A i \in 1..(k - 1) : u[i] = s[i]
  BY <1>2, SubSeqProperties
<1>4. /\ v \in Seq(S) /\ Len(v) = Len(s) - k
      /\ \A i \in 1..(Len(s) - k) : v[i] = s[k + i]
  <2>1. v \in Seq(S) /\ Len(v) = Len(s) - k
    BY <1>2, SubSeqProperties
  <2>2. \A i \in 1..(Len(s) - k) : v[i] = s[k + i]
    BY <1>2
  <2> QED
    BY <2>1, <2>2
<1>5. EraseFirst(s, t) = u \o v
  BY DEF EraseFirst, k
<1> HIDE DEF u, v
<1> DEFINE e == EraseFirst(s, t)
<1>6. /\ e \in Seq(S) /\ Len(e) = Len(u) + Len(v)
      /\ \A i \in 1..(Len(u) + Len(v)) :
            e[i] = IF i <= Len(u) THEN u[i] ELSE v[i - Len(u)]
  <2>1. /\ u \o v \in Seq(S) /\ Len(u \o v) = Len(u) + Len(v)
        /\ \A i \in 1..(Len(u) + Len(v)) :
              (u \o v)[i] = IF i <= Len(u) THEN u[i] ELSE v[i - Len(u)]
    BY <1>3, <1>4, ConcatProperties
  <2> QED
    BY <1>5, <2>1
<1> HIDE DEF e
<1>7. Len(e) = Len(s) - 1
  BY <1>2, <1>3, <1>4, <1>6
<1>8. ASSUME NEW i \in 1..(k - 1) PROVE e[i] = s[i]
  <2>1. i \in 1..(Len(u) + Len(v)) /\ i <= Len(u)
    BY <1>2, <1>3, <1>4
  <2>2. e[i] = u[i]
    BY <1>6, <2>1
  <2> QED
    BY <1>3, <2>2
<1>9. ASSUME NEW i \in k..(Len(s) - 1) PROVE e[i] = s[i + 1]
  <2>1. /\ i \in 1..(Len(u) + Len(v)) /\ ~(i <= Len(u))
        /\ i - Len(u) = i - (k - 1) /\ i - (k - 1) \in 1..(Len(s) - k)
    BY <1>2, <1>3, <1>4
  <2>2. e[i] = v[i - (k - 1)]
    BY <1>6, <2>1
  <2>3. v[i - (k - 1)] = s[k + (i - (k - 1))]
    BY <1>4, <2>1
  <2>4. k + (i - (k - 1)) = i + 1
    BY <1>2
  <2> QED
    BY <2>2, <2>3, <2>4
<1> QED
  BY <1>2, <1>6, <1>7, <1>8, <1>9 DEF e, Erased

LEMMA EraseFirstShortens ==
  ASSUME NEW S, NEW s \in Seq(S), NEW t, NEW k \in 1..Len(s), s[k] = t
  PROVE  /\ EraseFirst(s, t) \in Seq(S)
         /\ Len(EraseFirst(s, t)) = Len(s) - 1
BY EraseFirstElements DEF Erased

----------------------------------------------------------------------------
(* Creating.                                                               *)

\* A breakpoint WriteBreakpoint has just written for a thread.
LEMMA WrittenOK ==
  ASSUME BreakpointTypeOK, NEW a \in Address, NEW t \in Thread, NEW kind \in Kind
  PROVE  BreakpointOK(Written(a, kind, <<t>>))
<1>1. byte[a] \in Byte /\ <<t>> \in Seq(Thread) /\ Len(<<t>>) = 1
  BY DEF BreakpointTypeOK
<1> QED
  BY <1>1 DEF Written, BreakpointOK, Breakpoint

\* One more thread holds a breakpoint.
LEMMA HeldOnceMoreOK ==
  ASSUME NEW bp, BreakpointOK(bp), NEW t \in Thread
  PROVE  BreakpointOK([bp EXCEPT !.holders = Append(@, t), !.count = @ + 1])
<1>1. /\ bp.holders \in Seq(Thread) /\ bp.count \in Nat
      /\ Len(bp.holders) \in Nat /\ bp \in Breakpoint
  BY DEF BreakpointOK, Breakpoint
<1>2. /\ Append(bp.holders, t) \in Seq(Thread)
      /\ Len(Append(bp.holders, t)) = Len(bp.holders) + 1
  BY <1>1, AppendProperties
<1>3. bp.count + 1 \in Nat /\ bp.count + 1 > 0
  BY <1>1
<1> DEFINE new == [bp EXCEPT !.holders = Append(@, t), !.count = @ + 1]
<1>4. /\ new.holders = Append(bp.holders, t) /\ new.count = bp.count + 1
      /\ new.kind = bp.kind /\ new \in Breakpoint
  BY <1>1, <1>2, <1>3 DEF Breakpoint
<1> HIDE DEF new
<1>5. BreakpointOK(new)
  BY <1>1, <1>2, <1>3, <1>4 DEF BreakpointOK
<1> QED
  BY <1>5 DEF new

\* One thread fewer holds a breakpoint.
LEMMA HeldOnceLessOK ==
  ASSUME NEW bp, BreakpointOK(bp), bp.count # 1,
         NEW k \in 1..Len(bp.holders), NEW t, bp.holders[k] = t
  PROVE  BreakpointOK([bp EXCEPT !.holders = EraseFirst(@, t), !.count = @ - 1])
<1>1. /\ bp.holders \in Seq(Thread) /\ bp.count \in Nat
      /\ Len(bp.holders) \in Nat /\ bp \in Breakpoint
  BY DEF BreakpointOK, Breakpoint
<1>2. /\ EraseFirst(bp.holders, t) \in Seq(Thread)
      /\ Len(EraseFirst(bp.holders, t)) = Len(bp.holders) - 1
  BY <1>1, EraseFirstShortens
<1>3. bp.count - 1 \in Nat /\ bp.count > 1
  BY <1>1 DEF BreakpointOK
<1> DEFINE new == [bp EXCEPT !.holders = EraseFirst(@, t), !.count = @ - 1]
<1>4. /\ new.holders = EraseFirst(bp.holders, t) /\ new.count = bp.count - 1
      /\ new.kind = bp.kind /\ new \in Breakpoint
  BY <1>1, <1>2, <1>3 DEF Breakpoint
<1> HIDE DEF new
<1>5. BreakpointOK(new)
  BY <1>1, <1>2, <1>3, <1>4 DEF BreakpointOK
<1> QED
  BY <1>5 DEF new

LEMMA ArmedOK ==
  ASSUME BreakpointTypeOK, NEW S
  PROVE  Armed(S) \in [Address -> Byte]
BY DEF Armed, BreakpointTypeOK, Byte

LEMMA CreateHeldBreakpointsOK ==
  ASSUME ManagerOK, NEW S \in SUBSET Address, NEW t \in Thread, NEW kind \in Kind,
         CreateHeldBreakpoints(S, t, kind)
  PROVE  ManagerOK'
<1> USE DEF CreateHeldBreakpoints
<1>1. byte' \in [Address -> Byte]
  BY ArmedOK DEF ManagerOK
<1>2. Tracked' = Tracked \cup S
  BY DEF Tracked
<1>3. ASSUME NEW a \in Tracked'
      PROVE  BreakpointOK(address_to_bp'[a])
  <2>1. CASE a \notin S
    BY <2>1, <1>2, <1>3 DEF ManagerOK, BreakpointTypeOK
  <2>2. CASE a \in S \ Tracked
    BY <2>2, <1>2, <1>3, WrittenOK DEF ManagerOK
  <2>3. CASE a \in S \cap Tracked
    BY <2>3, <1>2, HeldOnceMoreOK DEF ManagerOK
  <2> QED
    BY <2>1, <2>2, <2>3, <1>2
<1> QED
  BY <1>1, <1>2, <1>3 DEF ManagerOK, BreakpointTypeOK, BreakpointOK, UserAddress

LEMMA CreateReverseBreakpointsOK ==
  ASSUME ManagerOK, NEW S \in SUBSET Address, NEW t \in Thread,
         CreateReverseBreakpoints(S, t)
  PROVE  ManagerOK'
<1> DEFINE T == {TrueAddress[a] : a \in S}
<1>1. T \subseteq Address
  BY AddressAssumption
<1>2. /\ byte' = Armed(T)
      /\ address_to_bp' = [a \in Tracked \cup T |->
             IF a \in T THEN Written(a, "Reverse", <<t>>) ELSE address_to_bp[a]]
      /\ UNCHANGED <<permanent, user_breakpoints>>
  BY DEF CreateReverseBreakpoints
<1> HIDE DEF T
<1>3. byte' \in [Address -> Byte]
  BY <1>2, ArmedOK DEF ManagerOK
<1>4. Tracked' = Tracked \cup T
  BY <1>2 DEF Tracked
<1>5. ASSUME NEW a \in Tracked'
      PROVE  BreakpointOK(address_to_bp'[a])
  <2>1. CASE a \in T
    <3>1. address_to_bp'[a] = Written(a, "Reverse", <<t>>)
      BY <2>1, <1>2
    <3> QED
      BY <2>1, <3>1, <1>1, WrittenOK DEF ManagerOK, Kind
  <2>2. CASE a \notin T
    BY <2>2, <1>2, <1>4, <1>5
    DEF ManagerOK, BreakpointTypeOK
  <2> QED
    BY <2>1, <2>2
<1> QED
  BY <1>1, <1>2, <1>3, <1>4, <1>5
  DEF ManagerOK, BreakpointTypeOK, BreakpointOK, UserAddress

LEMMA CreatePermanentBreakpointsOK ==
  ASSUME ManagerOK, NEW S \in SUBSET Address, CreatePermanentBreakpoints(S)
  PROVE  ManagerOK'
<1> USE DEF CreatePermanentBreakpoints
<1>1. byte' \in [Address -> Byte]
  BY ArmedOK DEF ManagerOK
<1>2. Tracked' = Tracked \cup S
  BY DEF Tracked
<1>3. ASSUME NEW a \in Tracked'
      PROVE  BreakpointOK(address_to_bp'[a])
  <2>1. CASE a \in S
    <3>1. byte[a] \in Byte /\ <<>> \in Seq(Thread) /\ Len(<<>>) = 0
      BY <2>1 DEF ManagerOK, BreakpointTypeOK
    <3>2. address_to_bp'[a] = Written(a, "Permanent", <<>>)
      BY <2>1, <1>2
    <3> HIDE DEF CreatePermanentBreakpoints
    <3> QED
      BY <3>1, <3>2 DEF BreakpointOK, Breakpoint, Written, Held, Kind
  <2>2. CASE a \notin S
    BY <2>2, <1>2, <1>3 DEF ManagerOK, BreakpointTypeOK
  <2> QED
    BY <2>1, <2>2
<1> QED
  BY <1>1, <1>2, <1>3 DEF ManagerOK, BreakpointTypeOK, BreakpointOK, UserAddress

LEMMA CreateUserBreakpointOK ==
  ASSUME ManagerOK, NEW a \in Address, CreateUserBreakpoint(a)
  PROVE  ManagerOK'
<1> DEFINE u == TrueAddress[a]
<1>1. u \in Address
  BY AddressAssumption
<1>2. /\ byte' = Armed({u})
      /\ user_breakpoints' = [b \in UserAddress \cup {u} |->
             IF b = u THEN byte[b] ELSE user_breakpoints[b]]
      /\ UNCHANGED <<address_to_bp, permanent>>
  BY DEF CreateUserBreakpoint
<1> HIDE DEF u
<1>3. byte' \in [Address -> Byte]
  BY <1>2, ArmedOK DEF ManagerOK
<1>4. UserAddress' = UserAddress \cup {u}
  BY <1>2 DEF UserAddress
<1>5. \A b \in UserAddress' : user_breakpoints'[b] \in Byte
  BY <1>1, <1>2, <1>4 DEF ManagerOK, BreakpointTypeOK
<1> QED
  BY <1>1, <1>2, <1>3, <1>4, <1>5
  DEF ManagerOK, BreakpointTypeOK, Tracked

----------------------------------------------------------------------------
(* Removing.                                                               *)

LEMMA RemoveBreakpointsOK ==
  ASSUME ManagerOK, NEW S \in SUBSET Address, NEW t \in Thread, RemoveBreakpoints(S, t)
  PROVE  ManagerOK'
<1> DEFINE released == {a \in S : RemovableBy(t, a)}
           last     == {a \in released : address_to_bp[a].count = 1}
           users    == {TrueAddress[a] : a \in S \ (Tracked \cup permanent)} \cap UserAddress
<1>1. byte' = [a \in Address |->
          IF a \in released THEN address_to_bp[a].saved
          ELSE IF a \in users THEN user_breakpoints[a] ELSE byte[a]]
  BY DEF RemoveBreakpoints
<1>2. address_to_bp' = [a \in Tracked \ last |->
          IF a \in released
          THEN [address_to_bp[a] EXCEPT !.holders = EraseFirst(@, t), !.count = @ - 1]
          ELSE address_to_bp[a]]
  BY DEF RemoveBreakpoints
<1>3. user_breakpoints' = Without(user_breakpoints, users) /\ permanent' = permanent
  BY DEF RemoveBreakpoints
<1>4. released \subseteq Tracked \ permanent /\ users \subseteq UserAddress
  BY DEF RemovableBy, Holds
<1>5. \A a \in released : t \in Holders(a)
  BY DEF RemovableBy, Holds
<1>6. last = {a \in released : address_to_bp[a].count = 1}
  OBVIOUS
<1> HIDE DEF released, last, users
<1>7. byte' \in [Address -> Byte]
  BY <1>1, <1>4 DEF ManagerOK, BreakpointTypeOK, Breakpoint
<1>8. Tracked' = Tracked \ last
  BY <1>2 DEF Tracked
<1>9. ASSUME NEW a \in Tracked'
      PROVE  BreakpointOK(address_to_bp'[a])
  <2>1. CASE a \notin released
    BY <2>1, <1>2, <1>8, <1>9
    DEF ManagerOK, BreakpointTypeOK
  <2>2. CASE a \in released
    <3>1. a \in Tracked /\ address_to_bp[a].count # 1
      BY <2>2, <1>4, <1>6, <1>8, <1>9
    <3>2. PICK k \in 1..Len(address_to_bp[a].holders) : address_to_bp[a].holders[k] = t
      BY <2>2, <1>5 DEF Holders
    <3>3. address_to_bp'[a] =
              [address_to_bp[a] EXCEPT !.holders = EraseFirst(@, t), !.count = @ - 1]
      BY <2>2, <1>2, <1>8, <1>9
    <3>4. BreakpointOK(address_to_bp[a])
      BY <3>1 DEF ManagerOK
    <3>5. BreakpointOK([address_to_bp[a] EXCEPT !.holders = EraseFirst(@, t),
                                                !.count = @ - 1])
      BY <3>1, <3>2, <3>4, HeldOnceLessOK
    <3> QED
      BY <3>3, <3>5
  <2> QED
    BY <2>1, <2>2
<1>10. UserAddress' \subseteq UserAddress
       /\ \A a \in UserAddress' : user_breakpoints'[a] = user_breakpoints[a]
  BY <1>3 DEF UserAddress, Without
<1>11. permanent' \subseteq Tracked'
  BY <1>3, <1>4, <1>6, <1>8 DEF ManagerOK, BreakpointTypeOK
<1> QED
  BY <1>7, <1>8, <1>9, <1>10, <1>11 DEF ManagerOK, BreakpointTypeOK, BreakpointOK

LEMMA RemoveAllPermanentBreakpointsOK ==
  ASSUME ManagerOK, RemoveAllPermanentBreakpoints
  PROVE  ManagerOK'
<1> USE DEF RemoveAllPermanentBreakpoints
<1>1. byte' \in [Address -> Byte]
  BY DEF ManagerOK, BreakpointTypeOK, Breakpoint
<1>2. Tracked' = Tracked \ permanent
      /\ \A a \in Tracked' : address_to_bp'[a] = address_to_bp[a]
  BY DEF Tracked, Without
<1> QED
  BY <1>1, <1>2
  DEF ManagerOK, BreakpointTypeOK, UserAddress

LEMMA RemoveUserBreakpointOK ==
  ASSUME ManagerOK, NEW a \in Address, RemoveUserBreakpoint(a)
  PROVE  ManagerOK'
<1> DEFINE u == TrueAddress[a]
<1>1. /\ u \in UserAddress
      /\ byte' = [byte EXCEPT ![u] = user_breakpoints[u]]
      /\ user_breakpoints' = Without(user_breakpoints, {u})
      /\ UNCHANGED <<address_to_bp, permanent>>
  BY DEF RemoveUserBreakpoint
<1> HIDE DEF u
<1>2. byte' \in [Address -> Byte]
  BY <1>1 DEF ManagerOK, BreakpointTypeOK
<1>3. UserAddress' \subseteq UserAddress
      /\ \A b \in UserAddress' : user_breakpoints'[b] = user_breakpoints[b]
  BY <1>1 DEF UserAddress, Without
<1> QED
  BY <1>1, <1>2, <1>3
  DEF ManagerOK, BreakpointTypeOK, Tracked

----------------------------------------------------------------------------
(* Lifting and lowering write one byte and leave the tables alone.         *)

LEMMA OneByteOK ==
  ASSUME ManagerOK, NEW a \in Address, NEW b \in Byte,
         byte' = [byte EXCEPT ![a] = b], UNCHANGED tables
  PROVE  ManagerOK'
BY DEF ManagerOK, BreakpointTypeOK, tables, Tracked,
       UserAddress

LEMMA LiftOK ==
  ASSUME ManagerOK, NEW a \in Address,
         \/ DisableUserBreakpoint(a) \/ EnableUserBreakpoint(a)
         \/ DisableBreakpoint(a) \/ EnableBreakpoint(a)
  PROVE  ManagerOK' /\ UNCHANGED tables
<1>1. TrueAddress[a] \in Address
  BY AddressAssumption
<1>2. int3 \in Byte
  BY DEF Byte
<1>3. TrueAddress[a] \in UserAddress => user_breakpoints[TrueAddress[a]] \in Byte
  BY DEF ManagerOK, BreakpointTypeOK
<1>4. TrueAddress[a] \in Tracked => address_to_bp[TrueAddress[a]].saved \in Byte
  BY DEF ManagerOK, BreakpointTypeOK, Breakpoint
<1>5. \E b \in Byte : byte' = [byte EXCEPT ![TrueAddress[a]] = b]
  BY <1>2, <1>3, <1>4
  DEF DisableUserBreakpoint, EnableUserBreakpoint, DisableBreakpoint, EnableBreakpoint
<1>6. UNCHANGED tables
  BY DEF DisableUserBreakpoint, EnableUserBreakpoint, DisableBreakpoint, EnableBreakpoint
<1> QED
  BY <1>1, <1>5, <1>6, OneByteOK

----------------------------------------------------------------------------
(* The sessions.                                                           *)

TypesAndCounts == TypeOK /\ ManagerOK

LEMMA IdleType == Idle \in Job
<1>1. (CHOOSE t \in Thread : TRUE) \in Thread
  BY SessionAssumption
<1> QED
  BY <1>1, SessionAssumption DEF Idle, Job, Byte

LEMMA InitTypesAndCounts == Init => TypesAndCounts
<1> SUFFICES ASSUME Init PROVE TypesAndCounts
  OBVIOUS
<1>1. BreakpointTypeOK /\ ManagerOK
  BY DEF Init, BreakpointInit, BreakpointTypeOK, ManagerOK, Byte, Code, Tracked, UserAddress
<1>2. <<>> \in Seq(Address) /\ <<>> \in Seq(SnapshotOf)
  OBVIOUS
<1>3. SessionTypeOK
  BY <1>2, IdleType, SessionAssumption DEF Init, SessionTypeOK, Phase, Stacks
<1> QED
  BY <1>1, <1>3 DEF TypesAndCounts, TypeOK

LEMMA UnchangedManagerOK ==
  ASSUME ManagerOK, UNCHANGED breakpointVars
  PROVE  ManagerOK'
BY DEF ManagerOK, BreakpointTypeOK, breakpointVars, tables, Tracked, UserAddress

\* The shell code's breakpoint joins the tables, and the bytes become those of
\* the snapshot.
LEMMA RestoreToOK ==
  ASSUME ManagerOK, NEW snapshot \in SnapshotOf, RestoreTo(snapshot)
  PROVE  ManagerOK'
<1>1. byte' \in [Address -> Byte]
  BY DEF RestoreTo, SnapshotOf
<1>2. Tracked' = Tracked \cup {ShellCode}
  BY DEF RestoreTo, TrackShellCodeBreakpoint, Tracked
<1>3. ASSUME NEW a \in Tracked'
      PROVE  BreakpointOK(address_to_bp'[a])
  <2>1. CASE a = ShellCode
    <3>1. address_to_bp'[a] =
              [saved |-> Code, kind |-> "ShellCode", count |-> 0, holders |-> <<>>]
      BY <2>1, <1>2, <1>3 DEF RestoreTo, TrackShellCodeBreakpoint, Tracked
    <3> QED
      BY <3>1 DEF BreakpointOK, Breakpoint, Byte, Kind, Held
  <2>2. CASE a # ShellCode
    BY <2>2, <1>2, <1>3 DEF RestoreTo, TrackShellCodeBreakpoint, ManagerOK
  <2> QED
    BY <2>1, <2>2
<1>4. permanent' = permanent /\ user_breakpoints' = user_breakpoints
  BY DEF RestoreTo
<1> QED
  BY <1>1, <1>2, <1>3, <1>4, SessionAssumption
  DEF ManagerOK, BreakpointTypeOK, BreakpointOK, UserAddress

\* Every step keeps the types, and the counts with the holders.
LEMMA StepTypesAndCounts == TypesAndCounts /\ [Next]_vars => TypesAndCounts'
<1> SUFFICES ASSUME TypesAndCounts, [Next]_vars
             PROVE  ManagerOK' /\ SessionTypeOK'
  BY DEF TypesAndCounts, TypeOK, ManagerOK
<1> USE DEF TypesAndCounts
<1>0. /\ ManagerOK /\ SessionTypeOK
      /\ \A a \in Address : TrueAddress[a] \in Address
  BY AddressAssumption DEF TypeOK
<1>1. ASSUME ReachEntryPoint PROVE ManagerOK' /\ SessionTypeOK'
  <2>1. ManagerOK'
    BY <1>0, <1>1, SessionAssumption, CreatePermanentBreakpointsOK DEF ReachEntryPoint
  <2>2. [memory |-> byte', stacks |-> calls] \in SnapshotOf
    BY <2>1, <1>0 DEF ManagerOK, BreakpointTypeOK, SnapshotOf, SessionTypeOK
  <2> QED
    BY <2>1, <2>2, <1>0, <1>1 DEF ReachEntryPoint, SessionTypeOK, Phase
<1>2. ASSUME NEW t \in Thread, NEW a \in ReturnSites[t], EnterCall(t, a)
      PROVE  ManagerOK' /\ SessionTypeOK'
  <2>1. a \in Address
    BY SessionAssumption
  <2>2. ManagerOK'
    BY <1>0, <1>2, <2>1, CreateHeldBreakpointsOK DEF EnterCall, Kind
  <2>3. calls' \in Stacks
    <3>1. calls[t] \in Seq(Address)
      BY <1>0 DEF SessionTypeOK, Stacks
    <3>2. Append(calls[t], a) \in Seq(Address)
      BY <2>1, <3>1, AppendProperties
    <3> QED
      BY <3>2, <1>0, <1>2 DEF EnterCall, SessionTypeOK, Stacks
  <2> QED
    BY <2>2, <2>3, <1>0, <1>2 DEF EnterCall, SessionTypeOK
<1>3. ASSUME NEW t \in Thread, LeaveCall(t) PROVE ManagerOK' /\ SessionTypeOK'
  <2>1. calls[t] \in Seq(Address) /\ calls[t] # <<>>
    BY <1>0, <1>3 DEF LeaveCall, SessionTypeOK, Stacks
  <2>2. /\ Innermost(t) \in Address
        /\ SubSeq(calls[t], 1, Len(calls[t]) - 1) \in Seq(Address)
    BY <2>1, SubSeqProperties, EmptySeq DEF Innermost
  <2>3. ManagerOK'
    BY <1>0, <1>3, <2>2, RemoveBreakpointsOK, UnchangedManagerOK DEF LeaveCall
  <2>4. calls' \in Stacks
    BY <2>2, <1>0, <1>3 DEF LeaveCall, SessionTypeOK, Stacks
  <2> QED
    BY <2>3, <2>4, <1>0, <1>3 DEF LeaveCall, SessionTypeOK
<1>4. ASSUME TakeSnapshot PROVE ManagerOK' /\ SessionTypeOK'
  <2>1. ManagerOK'
    BY <1>0, <1>4, UnchangedManagerOK DEF TakeSnapshot
  <2>2. [memory |-> byte, stacks |-> calls] \in SnapshotOf
    BY <1>0 DEF ManagerOK, BreakpointTypeOK, SnapshotOf, SessionTypeOK
  <2>3. snapshots' \in Seq(SnapshotOf)
    BY <2>2, <1>0, <1>4, AppendProperties DEF TakeSnapshot, SessionTypeOK
  <2> QED
    BY <2>1, <2>3, <1>0, <1>4 DEF TakeSnapshot, SessionTypeOK
<1>5. ASSUME StopRunning PROVE ManagerOK' /\ SessionTypeOK'
  BY <1>0, <1>5, UnchangedManagerOK DEF StopRunning, SessionTypeOK, Phase
<1>6. ASSUME NEW i \in 1..Len(snapshots), TimeRestore(i)
      PROVE  ManagerOK' /\ SessionTypeOK'
  <2>1. snapshots[i] \in SnapshotOf
    BY <1>0 DEF SessionTypeOK
  <2>2. ManagerOK'
    BY <1>0, <1>6, <2>1, RestoreToOK DEF TimeRestore
  <2>3. calls' \in Stacks /\ restores' \in 0..MaxRestores /\ snapshots' = snapshots
    BY <1>0, <1>6, <2>1, SessionAssumption
    DEF TimeRestore, RestoreTo, SnapshotOf, SessionTypeOK
  <2> QED
    BY <2>2, <2>3, <1>0, <1>6 DEF TimeRestore, SessionTypeOK, Phase
<1>7. ASSUME NEW a \in UserSites, AddUserBreakpoint(a)
      PROVE  ManagerOK' /\ SessionTypeOK'
  <2>1. ManagerOK'
    BY <1>0, <1>7, SessionAssumption, CreateUserBreakpointOK DEF AddUserBreakpoint
  <2> QED
    BY <2>1, <1>0, <1>7 DEF AddUserBreakpoint, SessionTypeOK
<1>8. ASSUME NEW a \in UserSites, DropUserBreakpoint(a)
      PROVE  ManagerOK' /\ SessionTypeOK'
  <2>1. ManagerOK'
    BY <1>0, <1>8, SessionAssumption, RemoveUserBreakpointOK DEF DropUserBreakpoint
  <2> QED
    BY <2>1, <1>0, <1>8 DEF DropUserBreakpoint, SessionTypeOK
<1>9. ASSUME NEW a \in UserSites, LiftUserBreakpoint(a)
      PROVE  ManagerOK' /\ SessionTypeOK'
  <2>1. ManagerOK'
    BY <1>0, <1>9, SessionAssumption, LiftOK DEF LiftUserBreakpoint
  <2>2. [Idle EXCEPT !.addresses = {a}] \in Job
    BY IdleType, SessionAssumption DEF Job
  <2> QED
    BY <2>1, <2>2, <1>0, <1>9 DEF LiftUserBreakpoint, SessionTypeOK, Phase
<1>10. ASSUME LowerUserBreakpoint PROVE ManagerOK' /\ SessionTypeOK'
  <2>1. PICK a \in job.addresses : EnableUserBreakpoint(a)
    BY <1>10 DEF LowerUserBreakpoint
  <2>2. ManagerOK'
    BY <1>0, <2>1, LiftOK DEF SessionTypeOK, Job
  <2> QED
    BY <2>2, <1>0, <1>10, IdleType DEF LowerUserBreakpoint, SessionTypeOK, Phase
<1>11. ASSUME NEW t \in Thread, NEW S \in SUBSET Address, NEW kind \in Kind,
              BeginStep(t, S, kind)
       PROVE  ManagerOK' /\ SessionTypeOK'
  <2>1. ManagerOK'
    BY <1>0, <1>11, CreateHeldBreakpointsOK DEF BeginStep
  <2>2. [Idle EXCEPT !.thread = t, !.addresses = S, !.memory = byte] \in Job
    BY <1>0, IdleType DEF Job, ManagerOK, BreakpointTypeOK
  <2> QED
    BY <2>1, <2>2, <1>0, <1>11 DEF BeginStep, SessionTypeOK, Phase
<1>12. ASSUME EndStep PROVE ManagerOK' /\ SessionTypeOK'
  <2>1. ManagerOK'
    BY <1>0, <1>12, RemoveBreakpointsOK DEF EndStep, SessionTypeOK, Job
  <2> QED
    BY <2>1, <1>0, <1>12, IdleType DEF EndStep, SessionTypeOK, Phase
<1>13. ASSUME NEW t \in Thread, NEW S \in Predecessors, NEW twice \in SUBSET S,
              NEW a \in UserSites, BeginReverse(t, S, twice, TrueAddress[a])
       PROVE  ManagerOK' /\ SessionTypeOK'
  <2>1. /\ {TrueAddress[b] : b \in S} \subseteq Address /\ TrueAddress[a] \in Address
        /\ {TrueAddress[b] : b \in twice} \subseteq Address
    BY <1>0, SessionAssumption
  <2>2. [Idle EXCEPT !.thread = t, !.stop = TrueAddress[a],
                     !.addresses = {TrueAddress[b] : b \in S},
                     !.twice = {TrueAddress[b] : b \in twice}] \in Job
    BY <2>1, IdleType DEF Job
  <2> QED
    BY <2>2, <1>0, <1>13, UnchangedManagerOK DEF BeginReverse, SessionTypeOK, Phase
<1>14. ASSUME PlacePredecessors \/ PlaceDuplicates \/ PlaceCatch
       PROVE  ManagerOK' /\ SessionTypeOK'
  <2>1. job.addresses \in SUBSET Address /\ {job.stop} \in SUBSET Address
        /\ job.twice \in SUBSET Address /\ job.thread \in Thread
    BY <1>0 DEF SessionTypeOK, Job
  <2>2. ManagerOK'
    BY <1>0, <1>14, <2>1, CreateReverseBreakpointsOK
    DEF PlacePredecessors, PlaceDuplicates, PlaceCatch
  <2> QED
    BY <2>2, <1>0, <1>14
    DEF PlacePredecessors, PlaceDuplicates, PlaceCatch, SessionTypeOK, Phase
<1>15. ASSUME NEW a \in Address, BeginStepOver(a) PROVE ManagerOK' /\ SessionTypeOK'
  <2>1. ManagerOK'
    BY <1>0, <1>15, LiftOK DEF BeginStepOver
  <2>2. job' \in Job
    BY <1>0, <1>15 DEF BeginStepOver, SessionTypeOK, Job
  <2> QED
    BY <2>1, <2>2, <1>0, <1>15 DEF BeginStepOver, SessionTypeOK, Phase
<1>20. ASSUME EndStepOver PROVE ManagerOK' /\ SessionTypeOK'
  <2>0. job.over \in Address
    BY <1>0 DEF SessionTypeOK, Job
  <2>1. ManagerOK'
    BY <1>0, <1>20, <2>0, LiftOK DEF EndStepOver
  <2>2. job' \in Job
    BY <1>0, <1>20, SessionAssumption DEF EndStepOver, SessionTypeOK, Job
  <2> QED
    BY <2>1, <2>2, <1>0, <1>20 DEF EndStepOver, SessionTypeOK, Phase
<1>16. ASSUME RemovePredecessors \/ RemoveDuplicates \/ RemoveCatch \/ RetryReverse
       PROVE  ManagerOK' /\ SessionTypeOK'
  <2>1. job.addresses \in SUBSET Address /\ {job.stop} \in SUBSET Address
        /\ job.twice \in SUBSET Address /\ job.thread \in Thread
    BY <1>0 DEF SessionTypeOK, Job
  <2>2. ManagerOK'
    BY <1>0, <1>16, <2>1, RemoveBreakpointsOK
    DEF RemovePredecessors, RemoveDuplicates, RemoveCatch, RetryReverse
  <2> QED
    BY <2>2, <1>0, <1>16, IdleType
    DEF RemovePredecessors, RemoveDuplicates, RemoveCatch, RetryReverse, SessionTypeOK, Phase
<1>17. ASSUME Detach PROVE ManagerOK' /\ SessionTypeOK'
  <2>1. ManagerOK'
    BY <1>0, <1>17, RemoveAllPermanentBreakpointsOK DEF Detach
  <2> QED
    BY <2>1, <1>0, <1>17 DEF Detach, SessionTypeOK, Phase
<1>18. ASSUME UNCHANGED vars PROVE ManagerOK' /\ SessionTypeOK'
  BY <1>0, <1>18, UnchangedManagerOK DEF vars, SessionTypeOK
<1>19. ASSUME NEW t \in Thread,
              \/ \E S \in StepSets : BeginStep(t, S, "Step")
              \/ \E a \in UserSites : BeginStep(t, {a}, "Return")
       PROVE  ManagerOK' /\ SessionTypeOK'
  BY <1>19, <1>11, SessionAssumption DEF Kind
<1> QED
  BY <1>1, <1>2, <1>3, <1>4, <1>5, <1>6, <1>7, <1>8, <1>9, <1>10, <1>12, <1>13,
     <1>14, <1>15, <1>16, <1>17, <1>18, <1>19, <1>20 DEF Next

\* The variables have their types, always (module BreakpointSession).
THEOREM TypeCorrect == Spec => []TypeOK
<1>1. Spec => []TypesAndCounts
  BY InitTypesAndCounts, StepTypesAndCounts, PTL DEF Spec
<1>2. TypesAndCounts => TypeOK
  BY DEF TypesAndCounts
<1> QED
  BY <1>1, <1>2, PTL

\* The count of a breakpoint that threads hold is the number of holds, however
\* many threads share it and whatever restores, steps and retried reverse
\* replays do in between (breakpoint_manager.cpp:36-94).
THEOREM CountsAreRight == Spec => []CountMatchesHolders
<1>1. Spec => []TypesAndCounts
  BY InitTypesAndCounts, StepTypesAndCounts, PTL DEF Spec
<1>2. TypesAndCounts => CountMatchesHolders
  BY DEF TypesAndCounts, ManagerOK, BreakpointOK, CountMatchesHolders, Held
<1> QED
  BY <1>1, <1>2, PTL

----------------------------------------------------------------------------
(* The entry points and the reverse breakpoints.                           *)

Reversal == {"restoring", "restored", "placing", "placed", "reversing", "stepOver",
             "leaving", "left"}

\* While a reverse step is under way its addresses are where the instructions
\* really are, and none of them is an intercepted function.
JobOK ==
    /\ phase \in Reversal => /\ \A a \in job.addresses \cup {job.stop} :
                                 TrueAddress[a] = a /\ a \notin EntryPoints
                           /\ job.twice \subseteq job.addresses
    /\ phase = "stepOver" => job.over \in job.addresses \cup {job.stop}

\* EntryPointsStayArmed is not inductive: a restore keeps it because every
\* snapshot was taken with the entry points armed, and removals keep it because
\* no user breakpoint is on one of them.
InterceptionOK ==
    /\ permanent \subseteq EntryPoints
    /\ UserAddress \cap EntryPoints = {}
    /\ \A i \in 1..Len(snapshots) : \A a \in EntryPoints : snapshots[i].memory[a] = int3
    /\ phase \notin {"starting", "detached"} =>
          permanent = EntryPoints /\ \A a \in EntryPoints : byte[a] = int3

\* Where reverse breakpoints may be.
ReversePlaces ==
    CASE phase \in {"restoring", "restored", "placing", "placed"} -> job.addresses
      [] phase \in {"reversing", "stepOver"} -> job.addresses \cup {job.stop}
      [] phase \in {"leaving", "left"} -> {job.stop}
      [] OTHER -> {}

\* Each is held once, by the thread that reverses, so that one removal by that
\* thread takes it out of the table, even if another breakpoint was there
\* before and even if an earlier try has left it behind.
ReverseOK ==
    \A a \in Tracked : address_to_bp[a].kind = "Reverse" =>
        /\ a \in ReversePlaces
        /\ address_to_bp[a].count = 1
        /\ address_to_bp[a].holders = <<job.thread>>

LEMMA JobStep == TypesAndCounts /\ JobOK /\ [Next]_vars => JobOK'
<1> SUFFICES ASSUME TypesAndCounts, JobOK, [Next]_vars
             PROVE  JobOK'
  OBVIOUS
<1>1. ASSUME NEW t \in Thread, NEW S \in Predecessors, NEW twice \in SUBSET S,
             NEW a \in UserSites, BeginReverse(t, S, twice, TrueAddress[a])
      PROVE  JobOK'
  <2>1. /\ job' = [Idle EXCEPT !.thread = t, !.stop = TrueAddress[a],
                               !.addresses = {TrueAddress[b] : b \in S},
                               !.twice = {TrueAddress[b] : b \in twice}]
        /\ phase' = "restoring"
    BY <1>1 DEF BeginReverse
  <2>2. /\ job'.stop = TrueAddress[a] /\ job'.addresses = {TrueAddress[b] : b \in S}
        /\ job'.twice = {TrueAddress[b] : b \in twice}
    BY <2>1, IdleType DEF Job
  <2> QED
    BY <2>1, <2>2, AddressAssumption, SessionAssumption, SitesAssumption DEF JobOK
<1>2. ASSUME UNCHANGED job, phase' \in Reversal => phase \in Reversal, phase' # "stepOver"
      PROVE  JobOK'
  BY <1>2 DEF JobOK
<1>3. ASSUME phase' \notin Reversal PROVE JobOK'
  BY <1>3 DEF JobOK, Reversal
<1>4. ASSUME \/ ReachEntryPoint \/ TakeSnapshot \/ StopRunning \/ Detach
             \/ LowerUserBreakpoint \/ EndStep \/ RemoveCatch
             \/ \E t \in Thread : LeaveCall(t) \/ \E a \in ReturnSites[t] : EnterCall(t, a)
             \/ \E a \in UserSites : \/ AddUserBreakpoint(a) \/ DropUserBreakpoint(a)
                                     \/ LiftUserBreakpoint(a)
             \/ \E t, S, kind : BeginStep(t, S, kind)
      PROVE  phase' \notin Reversal
  BY <1>4
  DEF ReachEntryPoint, TakeSnapshot, StopRunning, Detach, LowerUserBreakpoint, EndStep,
      RemoveCatch, LeaveCall, EnterCall, AddUserBreakpoint, DropUserBreakpoint,
      LiftUserBreakpoint, BeginStep, Reversal
<1>5. ASSUME \/ \E i \in 1..Len(snapshots) : TimeRestore(i)
             \/ PlacePredecessors \/ PlaceDuplicates \/ PlaceCatch
             \/ RemovePredecessors \/ RemoveDuplicates \/ RetryReverse
      PROVE  /\ UNCHANGED job /\ (phase' \in Reversal => phase \in Reversal)
             /\ phase' # "stepOver"
  BY <1>5
  DEF TimeRestore, PlacePredecessors, PlaceDuplicates, PlaceCatch, RemovePredecessors,
      RemoveDuplicates, RetryReverse, Reversal
<1>6. ASSUME NEW a \in Address, BeginStepOver(a) PROVE JobOK'
  <2>1. /\ phase = "reversing" /\ phase' = "stepOver" /\ a \in job.addresses \cup {job.stop}
        /\ job' = [job EXCEPT !.over = a]
    BY <1>6 DEF BeginStepOver
  <2>2. /\ job'.over = a /\ job'.addresses = job.addresses /\ job'.stop = job.stop
        /\ job'.twice = job.twice
    BY <2>1 DEF TypesAndCounts, TypeOK, SessionTypeOK, Job
  <2> QED
    BY <2>1, <2>2 DEF JobOK, Reversal
<1>7. ASSUME EndStepOver PROVE JobOK'
  <2>1. phase = "stepOver" /\ phase' = "reversing" /\ job' = [job EXCEPT !.over = ShellCode]
    BY <1>7 DEF EndStepOver
  <2>2. job'.addresses = job.addresses /\ job'.stop = job.stop /\ job'.twice = job.twice
    BY <2>1 DEF TypesAndCounts, TypeOK, SessionTypeOK, Job
  <2> QED
    BY <2>1, <2>2 DEF JobOK, Reversal
<1>8. ASSUME UNCHANGED vars PROVE JobOK'
  BY <1>8 DEF vars, JobOK
<1> QED
  BY <1>1, <1>2, <1>3, <1>4, <1>5, <1>6, <1>7, <1>8 DEF Next

\* Removing breakpoints leaves the permanent ones alone.
LEMMA RemovalSparesPermanent ==
  ASSUME ManagerOK, NEW S, NEW t, RemoveBreakpoints(S, t)
  PROVE  /\ permanent' = permanent /\ UserAddress' \subseteq UserAddress
         /\ \A a \in permanent \ UserAddress : byte'[a] = byte[a]
<1>1. permanent \subseteq Address
  BY DEF ManagerOK, BreakpointTypeOK
<1>2. \A a \in permanent \ UserAddress : byte'[a] = byte[a]
  BY <1>1 DEF RemoveBreakpoints, RemovableBy
<1> QED
  BY <1>2 DEF RemoveBreakpoints, UserAddress, Without

\* Creating breakpoints leaves an int3 an int3.
LEMMA CreationKeepsInt3 ==
  ASSUME NEW S, NEW t, NEW kind,
         CreateHeldBreakpoints(S, t, kind) \/ CreateReverseBreakpoints(S, t)
  PROVE  /\ permanent' = permanent /\ UserAddress' = UserAddress
         /\ \A a \in Address : byte[a] = int3 => byte'[a] = int3
<1>1. \A a \in Address : byte[a] = int3 => byte'[a] = int3
  BY DEF CreateHeldBreakpoints, CreateReverseBreakpoints, Armed
<1> QED
  BY <1>1 DEF CreateHeldBreakpoints, CreateReverseBreakpoints, UserAddress

\* Nothing an entry point's interception rests on is touched.
Spared ==
    /\ permanent' = permanent
    /\ UserAddress' \cap EntryPoints = {}
    /\ \A a \in EntryPoints : byte[a] = int3 => byte'[a] = int3

LEMMA InterceptionStep ==
  TypesAndCounts /\ JobOK /\ InterceptionOK /\ [Next]_vars => InterceptionOK'
<1> SUFFICES ASSUME TypesAndCounts, JobOK, InterceptionOK, [Next]_vars
             PROVE  InterceptionOK'
  OBVIOUS
<1>a. /\ ManagerOK /\ SessionTypeOK /\ EntryPoints \subseteq Address
      /\ byte \in [Address -> Byte]
  BY SessionAssumption DEF TypesAndCounts, TypeOK, BreakpointTypeOK
<1>b. \A a \in EntryPoints : phase \notin {"starting", "detached"} =>
          a \in permanent \ UserAddress
  BY DEF InterceptionOK
<1>c. ASSUME Spared, snapshots' = snapshots,
             phase \notin {"starting", "detached"}
      PROVE  InterceptionOK'
  BY <1>c DEF Spared, InterceptionOK
<1>1. ASSUME ReachEntryPoint PROVE InterceptionOK'
  <2>1. /\ permanent' = EntryPoints /\ UserAddress' = UserAddress
        /\ \A a \in EntryPoints : byte'[a] = int3
    BY <1>1, <1>a DEF ReachEntryPoint, CreatePermanentBreakpoints, Armed, InterceptionOK,
                      UserAddress
  <2>2. snapshots' = <<[memory |-> byte', stacks |-> calls]>>
    BY <1>1 DEF ReachEntryPoint
  <2> QED
    BY <2>1, <2>2 DEF InterceptionOK
<1>2. ASSUME NEW t \in Thread, NEW a \in ReturnSites[t], EnterCall(t, a)
      PROVE  InterceptionOK'
  <2>1. Spared
    BY <1>2, <1>a, CreationKeepsInt3 DEF EnterCall, Spared, InterceptionOK
  <2> QED
    BY <1>2, <1>c, <2>1 DEF EnterCall
<1>3. ASSUME NEW t \in Thread, LeaveCall(t) PROVE InterceptionOK'
  <2>1. CASE RemoveBreakpoints({Innermost(t)}, t)
    <3>1. Spared
      BY <1>3, <1>a, <1>b, <2>1, RemovalSparesPermanent DEF LeaveCall, Spared, InterceptionOK
    <3> QED
      BY <1>3, <1>c, <3>1 DEF LeaveCall
  <2>2. CASE UNCHANGED breakpointVars
    BY <1>3, <2>2, <1>c DEF LeaveCall, Spared, InterceptionOK, breakpointVars, tables, UserAddress
  <2> QED
    BY <1>3, <2>1, <2>2 DEF LeaveCall
<1>4. ASSUME TakeSnapshot PROVE InterceptionOK'
  <2>1. /\ UNCHANGED <<byte, permanent, user_breakpoints, phase>> /\ phase = "running"
        /\ snapshots' = Append(snapshots, [memory |-> byte, stacks |-> calls])
    BY <1>4 DEF TakeSnapshot, breakpointVars, tables
  <2>2. \A i \in 1..Len(snapshots') : \A a \in EntryPoints : snapshots'[i].memory[a] = int3
    BY <2>1, <1>a, AppendProperties DEF InterceptionOK, SessionTypeOK
  <2> QED
    BY <2>1, <2>2 DEF InterceptionOK, UserAddress
<1>5. ASSUME StopRunning PROVE InterceptionOK'
  BY <1>5, <1>c DEF StopRunning, Spared, InterceptionOK, breakpointVars, tables, UserAddress
<1>6. ASSUME NEW i \in 1..Len(snapshots), TimeRestore(i) PROVE InterceptionOK'
  <2>1. Spared /\ snapshots' = snapshots
    BY <1>6 DEF TimeRestore, RestoreTo, Spared, InterceptionOK, UserAddress
  <2> QED
    BY <1>6, <2>1, <1>c DEF TimeRestore
<1>7. ASSUME NEW a \in UserSites, AddUserBreakpoint(a) PROVE InterceptionOK'
  <2>1. TrueAddress[a] \notin EntryPoints
    BY SitesAssumption
  <2>2. Spared
    BY <1>7, <1>a, <2>1
    DEF AddUserBreakpoint, CreateUserBreakpoint, Armed, Spared, InterceptionOK, UserAddress
  <2> QED
    BY <1>7, <1>c, <2>2 DEF AddUserBreakpoint
<1>8. ASSUME NEW a \in UserSites, \/ DropUserBreakpoint(a) \/ LiftUserBreakpoint(a)
      PROVE  InterceptionOK'
  <2>1. TrueAddress[a] \notin EntryPoints
    BY SitesAssumption
  <2>2. Spared
    BY <1>8, <1>a, <2>1
    DEF DropUserBreakpoint, LiftUserBreakpoint, RemoveUserBreakpoint, DisableUserBreakpoint,
        Without, Spared, InterceptionOK, UserAddress, tables
  <2> QED
    BY <1>8, <1>c, <2>2 DEF DropUserBreakpoint, LiftUserBreakpoint
<1>9. ASSUME LowerUserBreakpoint PROVE InterceptionOK'
  <2>1. Spared
    BY <1>9, <1>a
    DEF LowerUserBreakpoint, EnableUserBreakpoint, Spared, InterceptionOK, UserAddress, tables
  <2> QED
    BY <1>9, <1>c, <2>1 DEF LowerUserBreakpoint
<1>10. ASSUME NEW t \in Thread, NEW S, NEW kind, BeginStep(t, S, kind) PROVE InterceptionOK'
  <2>1. Spared
    BY <1>10, <1>a, CreationKeepsInt3 DEF BeginStep, Spared, InterceptionOK
  <2> QED
    BY <1>10, <1>c, <2>1 DEF BeginStep
<1>11. ASSUME \/ EndStep \/ RemovePredecessors \/ RemoveDuplicates \/ RemoveCatch
              \/ RetryReverse
       PROVE  InterceptionOK'
  <2>1. \/ RemoveBreakpoints(job.addresses, job.thread)
        \/ RemoveBreakpoints(job.twice, job.thread)
        \/ RemoveBreakpoints({job.stop}, job.thread)
    BY <1>11 DEF EndStep, RemovePredecessors, RemoveDuplicates, RemoveCatch, RetryReverse
  <2>2. phase \notin {"starting", "detached"} /\ snapshots' = snapshots
    BY <1>11 DEF EndStep, RemovePredecessors, RemoveDuplicates, RemoveCatch, RetryReverse
  <2>3. Spared
    BY <1>a, <1>b, <2>1, <2>2, RemovalSparesPermanent DEF Spared, InterceptionOK
  <2> QED
    BY <1>c, <2>2, <2>3
<1>12. ASSUME NEW t \in Thread, NEW S, NEW twice, NEW stop, BeginReverse(t, S, twice, stop)
       PROVE  InterceptionOK'
  BY <1>12, <1>c DEF BeginReverse, Spared, InterceptionOK, breakpointVars, tables, UserAddress
<1>13. ASSUME PlacePredecessors \/ PlaceDuplicates \/ PlaceCatch PROVE InterceptionOK'
  <2>1. \E S : CreateReverseBreakpoints(S, job.thread)
    BY <1>13 DEF PlacePredecessors, PlaceDuplicates, PlaceCatch
  <2>2. Spared
    BY <1>a, <2>1, CreationKeepsInt3 DEF Spared, InterceptionOK
  <2> QED
    BY <1>13, <1>c, <2>2 DEF PlacePredecessors, PlaceDuplicates, PlaceCatch
<1>14. ASSUME NEW a \in Address, BeginStepOver(a) PROVE InterceptionOK'
  <2>1. TrueAddress[a] \notin EntryPoints
    BY <1>14 DEF BeginStepOver, JobOK, Reversal
  <2>2. Spared
    BY <1>14, <1>a, <2>1
    DEF BeginStepOver, DisableBreakpoint, Spared, InterceptionOK, UserAddress, tables
  <2> QED
    BY <1>14, <1>c, <2>2 DEF BeginStepOver
<1>17. ASSUME EndStepOver PROVE InterceptionOK'
  <2>1. TrueAddress[job.over] \notin EntryPoints
    BY <1>17 DEF EndStepOver, JobOK, Reversal
  <2>2. Spared
    BY <1>17, <1>a, <2>1
    DEF EndStepOver, EnableBreakpoint, Spared, InterceptionOK, UserAddress, tables
  <2> QED
    BY <1>17, <1>c, <2>2 DEF EndStepOver
<1>15. ASSUME Detach PROVE InterceptionOK'
  BY <1>15 DEF Detach, RemoveAllPermanentBreakpoints, InterceptionOK, UserAddress
<1>16. ASSUME UNCHANGED vars PROVE InterceptionOK'
  BY <1>16 DEF vars, breakpointVars, tables, InterceptionOK, UserAddress
<1> QED
  BY <1>1, <1>2, <1>3, <1>4, <1>5, <1>6, <1>7, <1>8, <1>9, <1>10, <1>11, <1>12, <1>13,
     <1>14, <1>15, <1>16, <1>17 DEF Next

NoReverse == \A a \in Tracked : address_to_bp[a].kind # "Reverse"

LEMMA HoldsAddNoReverse ==
  ASSUME ManagerOK, NEW S, NEW t, NEW kind, kind # "Reverse",
         CreateHeldBreakpoints(S, t, kind), NoReverse
  PROVE  NoReverse'
<1>1. Tracked' = Tracked \cup S
  BY DEF CreateHeldBreakpoints, Tracked
<1>2. ASSUME NEW a \in Tracked' PROVE address_to_bp'[a].kind # "Reverse"
  <2>1. CASE a \notin S
    BY <1>1, <1>2, <2>1 DEF CreateHeldBreakpoints, NoReverse
  <2>2. CASE a \in S \ Tracked
    BY <1>1, <1>2, <2>2 DEF CreateHeldBreakpoints, Written
  <2>3. CASE a \in S \cap Tracked
    <3>1. address_to_bp[a] \in Breakpoint
      BY <2>3 DEF ManagerOK, BreakpointOK
    <3>2. address_to_bp'[a] =
              [address_to_bp[a] EXCEPT !.holders = Append(@, t), !.count = @ + 1]
      BY <1>1, <2>3 DEF CreateHeldBreakpoints
    <3> QED
      BY <2>3, <3>1, <3>2 DEF NoReverse, Breakpoint
  <2> QED
    BY <1>1, <1>2, <2>1, <2>2, <2>3
<1> QED
  BY <1>2 DEF NoReverse

\* A removal adds no entry, changes none that it is not asked for, and takes
\* out those its thread alone holds.
LEMMA RemovalTakesOut ==
  ASSUME ManagerOK, NEW S, NEW t, RemoveBreakpoints(S, t)
  PROVE  /\ Tracked' \subseteq Tracked
         /\ \A a \in Tracked' : /\ address_to_bp'[a].kind = address_to_bp[a].kind
                                /\ a \notin S => address_to_bp'[a] = address_to_bp[a]
         /\ \A a \in S \ permanent :
               a \in Tracked /\ address_to_bp[a].count = 1
                 /\ address_to_bp[a].holders = <<t>> => a \notin Tracked'
<1> DEFINE released == {a \in S : RemovableBy(t, a)}
           last     == {a \in released : address_to_bp[a].count = 1}
<1>1. address_to_bp' = [a \in Tracked \ last |->
          IF a \in released
          THEN [address_to_bp[a] EXCEPT !.holders = EraseFirst(@, t), !.count = @ - 1]
          ELSE address_to_bp[a]]
  BY DEF RemoveBreakpoints
<1>2. Tracked' = Tracked \ last
  BY <1>1 DEF Tracked
<1>3. ASSUME NEW a \in Tracked'
      PROVE  /\ address_to_bp'[a].kind = address_to_bp[a].kind
             /\ a \notin S => address_to_bp'[a] = address_to_bp[a]
  <2>1. a \in Tracked \ last /\ address_to_bp[a] \in Breakpoint
    BY <1>2, <1>3 DEF ManagerOK, BreakpointOK
  <2>2. CASE a \in released
    <3>1. address_to_bp'[a] =
              [address_to_bp[a] EXCEPT !.holders = EraseFirst(@, t), !.count = @ - 1]
      BY <1>1, <2>1, <2>2
    <3> QED
      BY <2>1, <2>2, <3>1 DEF Breakpoint
  <2>3. CASE a \notin released
    BY <1>1, <2>1, <2>3
  <2> QED
    BY <2>2, <2>3
<1>4. ASSUME NEW a \in S \ permanent, a \in Tracked, address_to_bp[a].count = 1,
             address_to_bp[a].holders = <<t>>
      PROVE  a \in last
  <2>1. Len(<<t>>) = 1 /\ <<t>>[1] = t /\ 1 \in 1..1
    OBVIOUS
  <2>2. t \in Holders(a)
    BY <1>4, <2>1 DEF Holders
  <2> QED
    BY <1>4, <2>2 DEF RemovableBy, Holds
<1> QED
  BY <1>2, <1>3, <1>4

LEMMA ReverseStep ==
  TypesAndCounts /\ JobOK /\ InterceptionOK /\ ReverseOK /\ [Next]_vars => ReverseOK'
<1> SUFFICES ASSUME TypesAndCounts, JobOK, InterceptionOK, ReverseOK, [Next]_vars
             PROVE  ReverseOK'
  OBVIOUS
<1>a. ManagerOK
  BY DEF TypesAndCounts
<1>b. phase \notin Reversal => NoReverse
  BY DEF ReverseOK, ReversePlaces, Reversal, NoReverse
<1>c. NoReverse' => ReverseOK'
  BY DEF NoReverse, ReverseOK
<1>d. phase \in Reversal => permanent \cap (job.addresses \cup {job.stop}) = {}
  BY DEF JobOK, InterceptionOK
<1>1. ASSUME ReachEntryPoint PROVE ReverseOK'
  <2>1. NoReverse
    BY <1>1, <1>b DEF ReachEntryPoint, Reversal
  <2>2. NoReverse'
    BY <1>1, <2>1 DEF ReachEntryPoint, CreatePermanentBreakpoints, Written, NoReverse, Tracked
  <2> QED
    BY <2>2, <1>c
<1>2. ASSUME \/ \E t, a : EnterCall(t, a)
             \/ \E t, S : \E kind \in {"Step", "Return"} : BeginStep(t, S, kind)
      PROVE  ReverseOK'
  <2>1. NoReverse
    BY <1>2, <1>b DEF EnterCall, BeginStep, Reversal
  <2>2. \E t, S : \E kind \in {"Step", "Return"} : CreateHeldBreakpoints(S, t, kind)
    BY <1>2 DEF EnterCall, BeginStep
  <2>3. NoReverse'
    BY <1>a, <2>1, <2>2, HoldsAddNoReverse
  <2> QED
    BY <2>3, <1>c
<1>3. ASSUME \/ \E t \in Thread : LeaveCall(t)
             \/ EndStep
      PROVE  ReverseOK'
  <2>1. NoReverse
    BY <1>3, <1>b DEF LeaveCall, EndStep, Reversal
  <2>2. UNCHANGED breakpointVars \/ \E S, t : RemoveBreakpoints(S, t)
    BY <1>3 DEF LeaveCall, EndStep
  <2>3. NoReverse'
    BY <1>a, <2>1, <2>2, RemovalTakesOut DEF NoReverse, breakpointVars, tables, Tracked
  <2> QED
    BY <2>3, <1>c
<1>4. ASSUME \/ TakeSnapshot \/ StopRunning \/ LowerUserBreakpoint
             \/ \E a \in UserSites : \/ AddUserBreakpoint(a) \/ DropUserBreakpoint(a)
                                     \/ LiftUserBreakpoint(a)
             \/ \E t, S, twice, stop : BeginReverse(t, S, twice, stop)
      PROVE  ReverseOK'
  <2>1. NoReverse
    BY <1>4, <1>b
    DEF TakeSnapshot, StopRunning, LowerUserBreakpoint, AddUserBreakpoint,
        DropUserBreakpoint, LiftUserBreakpoint, BeginReverse, Reversal
  <2>2. UNCHANGED address_to_bp
    BY <1>4
    DEF TakeSnapshot, StopRunning, LowerUserBreakpoint, AddUserBreakpoint,
        DropUserBreakpoint, LiftUserBreakpoint, BeginReverse, CreateUserBreakpoint,
        RemoveUserBreakpoint, DisableUserBreakpoint, EnableUserBreakpoint,
        breakpointVars, tables
  <2> QED
    BY <2>1, <2>2, <1>c DEF NoReverse, Tracked
<1>5. ASSUME Detach PROVE ReverseOK'
  <2>1. NoReverse
    BY <1>5, <1>b DEF Detach, Reversal
  <2> QED
    BY <1>5, <2>1, <1>c DEF Detach, RemoveAllPermanentBreakpoints, Without, NoReverse, Tracked
<1>6. ASSUME NEW i \in 1..Len(snapshots), TimeRestore(i) PROVE ReverseOK'
  <2>1. /\ Tracked' = Tracked \cup {ShellCode}
        /\ address_to_bp'[ShellCode].kind = "ShellCode"
        /\ \A a \in Tracked \ {ShellCode} : address_to_bp'[a] = address_to_bp[a]
    BY <1>6 DEF TimeRestore, RestoreTo, TrackShellCodeBreakpoint, Tracked
  <2>2. CASE phase = "restoring"
    <3>1. phase' = "restored" /\ job' = job
      BY <1>6, <2>2 DEF TimeRestore
    <3>2. ReversePlaces' = ReversePlaces
      BY <2>2, <3>1 DEF ReversePlaces
    <3> QED
      BY <2>1, <3>1, <3>2 DEF ReverseOK
  <2>3. CASE phase # "restoring"
    <3>1. NoReverse
      BY <1>6, <1>b, <2>3 DEF TimeRestore, Reversal
    <3> QED
      BY <2>1, <3>1, <1>c DEF NoReverse
  <2> QED
    BY <2>2, <2>3
<1>7. ASSUME NEW T, phase \in Reversal, job' = job,
             address_to_bp' = [a \in Tracked \cup T |->
                 IF a \in T THEN Written(a, "Reverse", <<job.thread>>) ELSE address_to_bp[a]],
             ReversePlaces \subseteq ReversePlaces', T \subseteq ReversePlaces'
      PROVE  ReverseOK'
  <2>1. Tracked' = Tracked \cup T
    BY <1>7 DEF Tracked
  <2>2. ASSUME NEW a \in Tracked', address_to_bp'[a].kind = "Reverse"
        PROVE  /\ a \in ReversePlaces'
               /\ address_to_bp'[a].count = 1
               /\ address_to_bp'[a].holders = <<job'.thread>>
    <3>1. CASE a \in T
      BY <1>7, <2>1, <2>2, <3>1 DEF Written
    <3>2. CASE a \notin T
      BY <1>7, <2>1, <2>2, <3>2 DEF ReverseOK
    <3> QED
      BY <3>1, <3>2
  <2> QED
    BY <2>2 DEF ReverseOK
<1>8. ASSUME PlacePredecessors PROVE ReverseOK'
  <2>1. phase = "restored" /\ phase' = "placing" /\ job' = job
    BY <1>8 DEF PlacePredecessors
  <2>2. {TrueAddress[a] : a \in job.addresses} = job.addresses
    BY <2>1 DEF JobOK, Reversal
  <2>3. ReversePlaces = job.addresses /\ ReversePlaces' = job.addresses
    BY <2>1 DEF ReversePlaces
  <2>4. address_to_bp' = [a \in Tracked \cup job.addresses |->
            IF a \in job.addresses THEN Written(a, "Reverse", <<job.thread>>)
            ELSE address_to_bp[a]]
    BY <1>8, <2>2 DEF PlacePredecessors, CreateReverseBreakpoints
  <2> QED
    BY <2>1, <2>3, <2>4, <1>7 DEF Reversal
<1>20. ASSUME PlaceDuplicates PROVE ReverseOK'
  <2>1. phase = "placing" /\ phase' = "placed" /\ job' = job
    BY <1>20 DEF PlaceDuplicates
  <2>2. {TrueAddress[a] : a \in job.twice} = job.twice /\ job.twice \subseteq job.addresses
    BY <2>1 DEF JobOK, Reversal
  <2>3. ReversePlaces = job.addresses /\ ReversePlaces' = job.addresses
    BY <2>1 DEF ReversePlaces
  <2>4. address_to_bp' = [a \in Tracked \cup job.twice |->
            IF a \in job.twice THEN Written(a, "Reverse", <<job.thread>>)
            ELSE address_to_bp[a]]
    BY <1>20, <2>2 DEF PlaceDuplicates, CreateReverseBreakpoints
  <2> QED
    BY <2>1, <2>2, <2>3, <2>4, <1>7 DEF Reversal
<1>9. ASSUME PlaceCatch PROVE ReverseOK'
  <2>1. phase = "placed" /\ phase' = "reversing" /\ job' = job
    BY <1>9 DEF PlaceCatch
  <2>2. {TrueAddress[a] : a \in {job.stop}} = {job.stop}
    BY <2>1 DEF JobOK, Reversal
  <2>3. ReversePlaces = job.addresses /\ ReversePlaces' = job.addresses \cup {job.stop}
    BY <2>1 DEF ReversePlaces
  <2>4. address_to_bp' = [a \in Tracked \cup {job.stop} |->
            IF a \in {job.stop} THEN Written(a, "Reverse", <<job.thread>>)
            ELSE address_to_bp[a]]
    BY <1>9, <2>2 DEF PlaceCatch, CreateReverseBreakpoints
  <2>5. /\ phase \in Reversal
        /\ ReversePlaces \subseteq ReversePlaces' /\ {job.stop} \subseteq ReversePlaces'
    BY <2>1, <2>3 DEF Reversal
  <2> QED
    BY <2>1, <2>4, <2>5, <1>7
<1>10. ASSUME EndStepOver \/ \E a \in Address : BeginStepOver(a) PROVE ReverseOK'
  <2>1. /\ UNCHANGED address_to_bp
        /\ phase \in {"reversing", "stepOver"} /\ phase' \in {"reversing", "stepOver"}
        /\ \E a : job' = [job EXCEPT !.over = a]
    BY <1>10 DEF BeginStepOver, EndStepOver, DisableBreakpoint, EnableBreakpoint, tables
  <2>2. /\ job'.addresses = job.addresses /\ job'.stop = job.stop
        /\ job'.thread = job.thread
    BY <2>1 DEF TypesAndCounts, TypeOK, SessionTypeOK, Job
  <2> QED
    BY <2>1, <2>2 DEF ReverseOK, ReversePlaces, Tracked
<1>11. ASSUME NEW S \in SUBSET (job.addresses \cup {job.stop}), phase \in Reversal,
              RemoveBreakpoints(S, job.thread)
       PROVE  /\ Tracked' \subseteq Tracked
              /\ \A a \in Tracked' : address_to_bp'[a].kind = "Reverse" =>
                    /\ a \notin S /\ a \in ReversePlaces
                    /\ address_to_bp'[a].count = 1
                    /\ address_to_bp'[a].holders = <<job.thread>>
  BY <1>11, <1>a, <1>d, RemovalTakesOut DEF ReverseOK
<1>12. ASSUME RemovePredecessors PROVE ReverseOK'
  <2>1. /\ phase = "reversing" /\ phase' = "leaving" /\ job' = job
        /\ RemoveBreakpoints(job.addresses, job.thread)
    BY <1>12 DEF RemovePredecessors
  <2>2. ReversePlaces \ job.addresses \subseteq ReversePlaces'
    BY <2>1 DEF ReversePlaces
  <2>3. phase \in Reversal /\ job.addresses \in SUBSET (job.addresses \cup {job.stop})
    BY <2>1 DEF Reversal
  <2> QED
    BY <2>1, <2>2, <2>3, <1>11 DEF ReverseOK
<1>21. ASSUME RemoveDuplicates PROVE ReverseOK'
  <2>1. /\ phase = "leaving" /\ phase' = "left" /\ job' = job
        /\ RemoveBreakpoints(job.twice, job.thread)
    BY <1>21 DEF RemoveDuplicates
  <2>2. ReversePlaces' = ReversePlaces
    BY <2>1 DEF ReversePlaces
  <2>3. phase \in Reversal /\ job.twice \in SUBSET (job.addresses \cup {job.stop})
    BY <2>1 DEF Reversal, JobOK
  <2> QED
    BY <2>1, <2>2, <2>3, <1>11 DEF ReverseOK
<1>13. ASSUME RemoveCatch PROVE ReverseOK'
  <2>1. phase = "left" /\ RemoveBreakpoints({job.stop}, job.thread)
    BY <1>13 DEF RemoveCatch
  <2>2. ReversePlaces = {job.stop}
    BY <2>1 DEF ReversePlaces
  <2>3. phase \in Reversal /\ {job.stop} \in SUBSET (job.addresses \cup {job.stop})
    BY <2>1 DEF Reversal
  <2>4. NoReverse'
    BY <2>1, <2>2, <2>3, <1>11 DEF NoReverse
  <2> QED
    BY <2>4, <1>c
<1>14. ASSUME RetryReverse PROVE ReverseOK'
  <2>1. /\ phase = "reversing" /\ phase' = "restoring" /\ job' = job
        /\ RemoveBreakpoints({job.stop}, job.thread)
    BY <1>14 DEF RetryReverse
  <2>2. ReversePlaces \ {job.stop} \subseteq ReversePlaces'
    BY <2>1 DEF ReversePlaces
  <2>3. phase \in Reversal /\ {job.stop} \in SUBSET (job.addresses \cup {job.stop})
    BY <2>1 DEF Reversal
  <2> QED
    BY <2>1, <2>2, <2>3, <1>11 DEF ReverseOK
<1>15. ASSUME UNCHANGED vars PROVE ReverseOK'
  BY <1>15 DEF vars, breakpointVars, tables, ReverseOK, ReversePlaces, Tracked
<1> QED
  BY <1>1, <1>2, <1>3, <1>4, <1>5, <1>6, <1>8, <1>9, <1>10, <1>12, <1>13, <1>14, <1>15,
     <1>20, <1>21
  DEF Next

----------------------------------------------------------------------------
SessionInvariant == TypesAndCounts /\ JobOK /\ InterceptionOK /\ ReverseOK

LEMMA SessionInvariantHolds == Spec => []SessionInvariant
<1>1. Init => JobOK /\ InterceptionOK /\ ReverseOK
  BY DEF Init, BreakpointInit, JobOK, InterceptionOK, ReverseOK, Reversal, Tracked, UserAddress
<1>2. Init => SessionInvariant
  BY <1>1, InitTypesAndCounts DEF SessionInvariant
<1>3. SessionInvariant /\ [Next]_vars => SessionInvariant'
  BY StepTypesAndCounts, JobStep, InterceptionStep, ReverseStep DEF SessionInvariant
<1> QED
  BY <1>2, <1>3, PTL DEF Spec

\* From the entry point of the debuggee until the user detaches, every
\* intercepted function has its int3 and every thread that stops there is
\* recognised, through any number of time restores (record_phase.cpp:136-151,
\* time_restore_phase.cpp:217-231).
THEOREM InterceptionSurvives == Spec => []EntryPointsStayArmed
<1>1. SessionInvariant => EntryPointsStayArmed
  BY DEF SessionInvariant, InterceptionOK, EntryPointsStayArmed, GetBreakpointType
<1> QED
  BY <1>1, SessionInvariantHolds, PTL

\* A reverse step that has come back to the prompt has taken all its
\* breakpoints out of the table, though a missed try removes only the catch
\* (reverse_replay_phase.cpp:47-61, 86-112, 161-172).
THEOREM ReverseCleansUp == Spec => []ReverseLeavesNothingHeld
<1>1. SessionInvariant => ReverseLeavesNothingHeld
  BY DEF SessionInvariant, ReverseOK, ReversePlaces, ReverseLeavesNothingHeld
<1> QED
  BY <1>1, SessionInvariantHolds, PTL

----------------------------------------------------------------------------
(* Until the first time restore: every int3 is known, and a thread whose   *)
(* return address is its own is caught there.                              *)

Sites == UNION {ReturnSites[t] : t \in Thread}
UserTrue == {TrueAddress[a] : a \in UserSites}

\* The calls of ntdll's intercepted functions are made by other system code:
\* they return neither to an intercepted function's first byte nor to a line of
\* the program, where the user sets breakpoints and steps.
SitesApart == Sites \cap (EntryPoints \cup UserSites \cup UserTrue \cup UNION StepSets) = {}

\* What the two theorems below suppose of the constants.
Apart == SitesApart /\ ~Recursion /\ ~AskTwice

OwnSite(t, a) == a \in ReturnSites[t] /\ \A u \in Thread \ {t} : a \notin ReturnSites[u]
Pending(t) == {calls[t][i] : i \in 1..Len(calls[t])}

\* Held by t, once.
HeldBy(t, a) ==
    /\ a \in Tracked
    /\ address_to_bp[a].count = 1 /\ address_to_bp[a].holders = <<t>>

\* Which addresses are in the tables.
PlacesOK ==
    /\ UserAddress \subseteq UserTrue
    /\ Tracked \subseteq EntryPoints \cup Sites \cup IF phase = "stepping" THEN job.addresses ELSE {}
    /\ phase = "starting" =>
          Tracked = {} /\ UserAddress = {} /\ \A a \in Address : byte[a] = Code
    /\ phase = "stepping" =>
          /\ job.addresses \cap Sites = {}
          /\ \A a \in job.addresses : a \in Tracked /\ (a \notin EntryPoints => HeldBy(job.thread, a))
    /\ phase \in {"starting", "running", "prompt", "stepping", "lifted", "restoring", "detached"}

\* NoStrayInt3 is not inductive: when an entry goes, the byte it saved is put
\* back, so that byte must be the program's own unless another entry is there.
BytesOK ==
    /\ \A a \in Address : byte[a] = int3 => a \in Tracked \cup UserAddress
    /\ \A a \in UserAddress : user_breakpoints[a] = Code
    /\ \A a \in Tracked \ UserAddress : address_to_bp[a].saved = Code

\* A return address of one thread is tracked exactly while a call of it is
\* pending.
CallsOK ==
    /\ \A t \in Thread : Pending(t) \subseteq ReturnSites[t]
    /\ \A t \in Thread : \A i, j \in 1..Len(calls[t]) : calls[t][i] = calls[t][j] => i = j
    /\ \A t \in Thread : \A a \in ReturnSites[t] : OwnSite(t, a) =>
          IF a \in Pending(t)
          THEN HeldBy(t, a) /\ byte[a] = int3 /\ address_to_bp[a].kind = "Return"
          ELSE a \notin Tracked

FirstRun == PlacesOK /\ BytesOK /\ CallsOK
FirstRunInv == restores = 0 => FirstRun

LEMMA ApartSites ==
  ASSUME Apart
  PROVE  /\ Sites \subseteq Address /\ \A t \in Thread : ReturnSites[t] \subseteq Sites
         /\ Sites \cap EntryPoints = {} /\ Sites \cap UserSites = {} /\ Sites \cap UserTrue = {}
         /\ \A S \in StepSets : S \cap Sites = {}
         /\ UserTrue \subseteq Address /\ UserTrue \cap EntryPoints = {}
BY SessionAssumption, AddressAssumption, SitesAssumption DEF Apart, SitesApart, Sites, UserTrue

LEMMA InitFirstRun == Init => FirstRunInv
<1> SUFFICES ASSUME Init PROVE FirstRun
  BY DEF FirstRunInv
<1>1. Tracked = {} /\ UserAddress = {} /\ \A a \in Address : byte[a] = Code
  BY DEF Init, BreakpointInit, Tracked, UserAddress
<1>2. PlacesOK /\ BytesOK
  BY <1>1 DEF Init, PlacesOK, BytesOK, Code, int3
<1>3. \A t \in Thread : Len(calls[t]) = 0 /\ 1..Len(calls[t]) = {}
  BY DEF Init
<1>4. CallsOK
  BY <1>1, <1>3 DEF CallsOK, Pending
<1> QED
  BY <1>2, <1>4 DEF FirstRun

\* Nothing changes at the return sites and in the calls.
LEMMA CallsStay ==
  ASSUME Apart, CallsOK, calls' = calls,
         \A a \in Sites : /\ a \in Tracked' <=> a \in Tracked
                          /\ a \in Tracked => address_to_bp'[a] = address_to_bp[a]
                          /\ byte'[a] = byte[a]
  PROVE  CallsOK'
<1>1. \A t \in Thread : ReturnSites[t] \subseteq Sites
  BY DEF Sites
<1>2. \A t : Pending(t)' = Pending(t)
  BY DEF Pending
<1>3. ASSUME NEW t \in Thread, NEW a \in ReturnSites[t], OwnSite(t, a)
      PROVE  IF a \in Pending(t)
             THEN HeldBy(t, a)' /\ byte'[a] = int3 /\ address_to_bp'[a].kind = "Return"
             ELSE a \notin Tracked'
  <2>1. a \in Sites
    BY <1>1
  <2> QED
    BY <1>3, <2>1 DEF CallsOK, HeldBy
<1>4. /\ \A t \in Thread : Pending(t)' \subseteq ReturnSites[t]
      /\ \A t \in Thread : \A i, j \in 1..Len(calls'[t]) : calls'[t][i] = calls'[t][j] => i = j
  BY <1>2 DEF CallsOK
<1> QED
  BY <1>2, <1>3, <1>4 DEF CallsOK, OwnSite

\* What the first run's steps find.
LEMMA FirstRunFacts ==
  ASSUME Apart, SessionInvariant, FirstRun
  PROVE  /\ ManagerOK /\ SessionTypeOK /\ byte \in [Address -> Byte] /\ Tracked \subseteq Address
         /\ UserAddress \subseteq Address /\ \A a \in Tracked : address_to_bp[a] \in Breakpoint
         /\ UserAddress \cap EntryPoints = {} /\ UserAddress \cap Sites = {}
         /\ permanent \subseteq EntryPoints
         /\ phase \notin {"starting", "detached"} => permanent = EntryPoints
         /\ \A a \in Address : a \notin Tracked \cup UserAddress => byte[a] = Code
         /\ \A a \in Sites : a \in Address
<1>1. ManagerOK /\ SessionTypeOK /\ InterceptionOK
  BY DEF SessionInvariant, TypesAndCounts, TypeOK
<1>2. /\ byte \in [Address -> Byte] /\ Tracked \subseteq Address /\ permanent \subseteq EntryPoints
      /\ UserAddress \subseteq Address /\ \A a \in Tracked : address_to_bp[a] \in Breakpoint
      /\ UserAddress \cap EntryPoints = {}
      /\ phase \notin {"starting", "detached"} => permanent = EntryPoints
  BY <1>1 DEF ManagerOK, BreakpointTypeOK, BreakpointOK, InterceptionOK
<1>3. UserAddress \cap Sites = {} /\ \A a \in Sites : a \in Address
  BY ApartSites DEF FirstRun, PlacesOK
<1>4. \A a \in Address : a \notin Tracked \cup UserAddress => byte[a] = Code
  BY <1>2 DEF FirstRun, BytesOK, Byte
<1> QED
  BY <1>1, <1>2, <1>3, <1>4

LEMMA WrittenIs ==
  \A a, kind, holders : LET bp == Written(a, kind, holders)
                        IN  bp.saved = byte[a] /\ bp.count = 1 /\ bp.holders = holders
BY DEF Written

LEMMA ReachFirstRun ==
  ASSUME Apart, SessionInvariant, FirstRun, ReachEntryPoint
  PROVE  FirstRun'
<1>1. /\ Tracked = {} /\ UserAddress = {} /\ \A a \in Address : byte[a] = Code
      /\ phase' = "running" /\ calls' = calls
  BY DEF ReachEntryPoint, FirstRun, PlacesOK
<1>2. /\ byte' = Armed(EntryPoints) /\ user_breakpoints' = user_breakpoints
      /\ Tracked' = EntryPoints
      /\ \A a \in EntryPoints : address_to_bp'[a] = Written(a, "Permanent", <<>>)
  BY <1>1 DEF ReachEntryPoint, CreatePermanentBreakpoints, Tracked
<1>3. EntryPoints \subseteq Address
  BY SessionAssumption
<1>4. PlacesOK'
  BY <1>1, <1>2 DEF PlacesOK, UserAddress
<1>5. BytesOK'
  <2>1. \A a \in Address : byte'[a] = int3 => a \in EntryPoints
    BY <1>1, <1>2 DEF Armed, Code, int3
  <2>2. ASSUME NEW a \in EntryPoints PROVE address_to_bp'[a].saved = Code
    <3>1. address_to_bp'[a].saved = byte[a]
      BY <1>2, WrittenIs
    <3> QED
      BY <1>1, <1>3, <3>1
  <2> QED
    BY <1>1, <1>2, <2>1, <2>2 DEF BytesOK, UserAddress
<1>6. CallsOK'
  <2>1. \A a \in Sites : a \in Address /\ a \notin EntryPoints
    BY ApartSites
  <2>2. \A a \in Sites : byte'[a] = byte[a]
    BY <1>2, <2>1 DEF Armed, FirstRun, SessionInvariant, TypesAndCounts, ManagerOK, BreakpointTypeOK
  <2> QED
    BY <1>1, <1>2, <2>1, <2>2, CallsStay DEF FirstRun
<1> QED
  BY <1>4, <1>5, <1>6 DEF FirstRun

LEMMA EnterFirstRun ==
  ASSUME Apart, SessionInvariant, FirstRun, NEW t \in Thread, NEW a \in ReturnSites[t],
         EnterCall(t, a)
  PROVE  FirstRun'
<1>0. a \in Sites /\ a \in Address /\ a \notin UserAddress
  BY ApartSites, FirstRunFacts
<1>1. /\ phase = "running" /\ phase' = "running" /\ user_breakpoints' = user_breakpoints
      /\ CreateHeldBreakpoints({a}, t, "Return")
      /\ calls' = [calls EXCEPT ![t] = Append(@, a)]
      /\ \A i \in 1..Len(calls[t]) : calls[t][i] # a
  BY DEF EnterCall, CreateHeldBreakpoints, Apart
<1>2. /\ byte' = Armed({a} \ Tracked) /\ Tracked' = Tracked \cup {a}
      /\ \A b \in Tracked : b # a => address_to_bp'[b] = address_to_bp[b]
      /\ a \notin Tracked => address_to_bp'[a] = Written(a, "Return", <<t>>)
      /\ a \in Tracked => address_to_bp'[a] =
             [address_to_bp[a] EXCEPT !.holders = Append(@, t), !.count = @ + 1]
  BY <1>1 DEF CreateHeldBreakpoints, Tracked
<1>3. PlacesOK'
  BY <1>0, <1>1, <1>2 DEF FirstRun, PlacesOK, UserAddress
<1>4. BytesOK'
  <2>1. ASSUME NEW b \in Tracked' \ UserAddress
        PROVE  address_to_bp'[b].saved = Code
    <3>1. CASE b # a
      BY <1>2, <2>1, <3>1 DEF FirstRun, BytesOK
    <3>2. CASE b = a /\ a \notin Tracked
      BY <1>0, <1>2, <3>2, FirstRunFacts DEF Written
    <3>3. CASE b = a /\ a \in Tracked
      <4>1. address_to_bp[a] \in Breakpoint /\ address_to_bp[a].saved = Code
        BY <1>0, <3>3, FirstRunFacts DEF FirstRun, BytesOK
      <4> QED
        BY <1>2, <3>3, <4>1 DEF Breakpoint
    <3> QED
      BY <3>1, <3>2, <3>3
  <2>2. \A b \in Address : byte'[b] = int3 => b \in Tracked' \cup UserAddress
    BY <1>2 DEF Armed, FirstRun, BytesOK
  <2> QED
    BY <1>1, <2>1, <2>2 DEF FirstRun, BytesOK, UserAddress
<1>5. CallsOK'
  <2>0. calls[t] \in Seq(Address) /\ calls \in Stacks
    BY FirstRunFacts DEF SessionTypeOK, Stacks
  <2>1. /\ calls'[t] = Append(calls[t], a) /\ Len(calls'[t]) = Len(calls[t]) + 1
        /\ Len(calls[t]) \in Nat /\ calls'[t][Len(calls[t]) + 1] = a
        /\ \A i \in 1..Len(calls[t]) : calls'[t][i] = calls[t][i]
        /\ \A u \in Thread : u # t => calls'[u] = calls[u]
    BY <1>0, <1>1, <2>0, AppendProperties DEF Stacks
  <2>2. \A i \in 1..Len(calls'[t]) : i \in 1..Len(calls[t]) \/ i = Len(calls[t]) + 1
    BY <2>1
  <2>3. Pending(t)' = Pending(t) \cup {a} /\ a \notin Pending(t)
    BY <1>1, <2>1, <2>2 DEF Pending
  <2>4. \A u \in Thread : u # t => Pending(u)' = Pending(u)
    BY <2>1 DEF Pending
  <2>5. \A u \in Thread : Pending(u)' \subseteq ReturnSites[u]
    BY <2>3, <2>4 DEF FirstRun, CallsOK
  <2>6. \A u \in Thread : \A i, j \in 1..Len(calls'[u]) : calls'[u][i] = calls'[u][j] => i = j
    BY <1>1, <2>1, <2>2 DEF FirstRun, CallsOK
  <2>7. ASSUME NEW u \in Thread, NEW b \in ReturnSites[u], OwnSite(u, b)
        PROVE  IF b \in Pending(u)'
               THEN HeldBy(u, b)' /\ byte'[b] = int3 /\ address_to_bp'[b].kind = "Return"
               ELSE b \notin Tracked'
    <3>0. b \in Address
      BY SessionAssumption
    <3>1. CASE b # a
      <4>1. b \in Pending(u)' <=> b \in Pending(u)
        BY <2>3, <2>4, <3>1
      <4>2. byte'[b] = byte[b] /\ (b \in Tracked' <=> b \in Tracked)
        BY <1>2, <3>0, <3>1 DEF Armed
      <4> QED
        BY <1>2, <2>7, <3>1, <4>1, <4>2 DEF FirstRun, CallsOK, HeldBy
    <3>2. CASE b = a
      <4>1. u = t
        BY <2>7, <3>2 DEF OwnSite
      <4>2. a \notin Tracked
        BY <2>3, <2>7, <3>2, <4>1 DEF FirstRun, CallsOK
      <4>3. byte'[a] = int3 /\ address_to_bp'[a] = Written(a, "Return", <<t>>) /\ a \in Tracked'
        BY <1>0, <1>2, <4>2 DEF Armed
      <4> QED
        BY <2>3, <3>2, <4>1, <4>3 DEF HeldBy, Written
    <3> QED
      BY <3>1, <3>2
  <2>8. \A u, b : OwnSite(u, b)' <=> OwnSite(u, b)
    BY DEF OwnSite
  <2> QED
    BY <2>5, <2>6, <2>7, <2>8 DEF CallsOK
<1> QED
  BY <1>3, <1>4, <1>5 DEF FirstRun

LEMMA FrontOf ==
  ASSUME NEW s \in Seq(Address), Len(s) > 0
  PROVE  LET front == SubSeq(s, 1, Len(s) - 1)
         IN  Len(front) = Len(s) - 1 /\ \A i \in 1..Len(front) : front[i] = s[i]
<1>1. Len(s) \in Nat /\ \A i \in 1..(Len(s) - 1) : s[i] \in Address
  OBVIOUS
<1> DEFINE n == Len(s) - 1
<1>2. n \in Nat /\ \A i \in 1..n : s[i] \in Address
  BY <1>1
<1> HIDE DEF n
<1>3. /\ Len(SubSeq(s, 1, n)) = IF 1 <= n THEN n - 1 + 1 ELSE 0
      /\ \A i \in 1..(n - 1 + 1) : SubSeq(s, 1, n)[i] = s[1 + i - 1]
  BY <1>2, SubSeqProperties
<1>4. n - 1 + 1 = n /\ (~(1 <= n) => n = 0) /\ \A i \in 1..n : 1 + i - 1 = i
  BY <1>2
<1>5. Len(SubSeq(s, 1, n)) = n /\ \A i \in 1..n : SubSeq(s, 1, n)[i] = s[i]
  BY <1>3, <1>4
<1> QED
  BY <1>5 DEF n

LEMMA LeaveFirstRun ==
  ASSUME Apart, SessionInvariant, FirstRun, NEW t \in Thread, LeaveCall(t)
  PROVE  FirstRun'
<1> DEFINE a == Innermost(t)
<1>0. /\ calls[t] \in Seq(Address) /\ calls[t] # <<>> /\ Len(calls[t]) \in Nat /\ Len(calls[t]) > 0
      /\ calls \in Stacks
  BY FirstRunFacts, EmptySeq DEF LeaveCall, SessionTypeOK, Stacks
<1>1. /\ phase = "running" /\ phase' = "running"
      /\ calls' = [calls EXCEPT ![t] = SubSeq(@, 1, Len(@) - 1)]
  BY DEF LeaveCall
<1>2. /\ Len(calls'[t]) = Len(calls[t]) - 1
      /\ \A i \in 1..Len(calls'[t]) : calls'[t][i] = calls[t][i]
      /\ \A u \in Thread : u # t => calls'[u] = calls[u]
  <2>1. calls'[t] = SubSeq(calls[t], 1, Len(calls[t]) - 1)
    BY <1>0, <1>1 DEF Stacks
  <2> QED
    BY <1>0, <1>1, <2>1, FrontOf DEF Stacks
<1>3. a \in Pending(t) /\ a \in ReturnSites[t] /\ a \in Address /\ a \in Sites /\ a \notin UserAddress
  <2>1. Len(calls[t]) \in 1..Len(calls[t])
    BY <1>0
  <2>2. a \in Pending(t)
    BY <2>1 DEF Innermost, Pending
  <2> QED
    BY <2>2, ApartSites, FirstRunFacts DEF FirstRun, CallsOK
<1>4. Pending(t)' = Pending(t) \ {a}
  <2>1. ASSUME NEW i \in 1..Len(calls[t]) PROVE calls[t][i] = a <=> i = Len(calls[t])
    BY <1>0 DEF Innermost, FirstRun, CallsOK
  <2>2. \A i \in 1..Len(calls[t]) : i = Len(calls[t]) \/ i \in 1..Len(calls'[t])
    BY <1>0, <1>2
  <2>3. \A i \in 1..Len(calls'[t]) : i \in 1..Len(calls[t]) /\ i # Len(calls[t])
    BY <1>0, <1>2
  <2>4. Pending(t)' = {calls'[t][i] : i \in 1..Len(calls'[t])}
    BY DEF Pending
  <2>5. \A x \in Pending(t)' : x \in Pending(t) \ {a}
    BY <1>2, <2>1, <2>3, <2>4 DEF Pending
  <2>6. \A x \in Pending(t) \ {a} : x \in Pending(t)'
    BY <1>2, <2>1, <2>2, <2>4 DEF Pending
  <2> QED
    BY <2>5, <2>6
<1>5. \A u \in Thread : u # t => Pending(u)' = Pending(u)
  BY <1>2 DEF Pending
<1>6. /\ \A u \in Thread : Pending(u)' \subseteq ReturnSites[u]
      /\ \A u \in Thread : \A i, j \in 1..Len(calls'[u]) : calls'[u][i] = calls'[u][j] => i = j
  <2>1. \A i \in 1..Len(calls'[t]) : i \in 1..Len(calls[t])
    BY <1>0, <1>2
  <2>2. \A u \in Thread : Pending(u)' \subseteq ReturnSites[u]
    BY <1>4, <1>5 DEF FirstRun, CallsOK
  <2>3. ASSUME NEW u \in Thread, NEW i \in 1..Len(calls'[u]), NEW j \in 1..Len(calls'[u]),
               calls'[u][i] = calls'[u][j]
        PROVE  i = j
    <3>1. CASE u = t
      BY <1>2, <2>1, <2>3, <3>1 DEF FirstRun, CallsOK
    <3>2. CASE u # t
      BY <1>2, <2>3, <3>2 DEF FirstRun, CallsOK
    <3> QED
      BY <3>1, <3>2
  <2> QED
    BY <2>2, <2>3
<1>7. \A u, b : OwnSite(u, b)' <=> OwnSite(u, b)
  BY DEF OwnSite
<1> HIDE DEF a
<1>8. CASE /\ byte[a] = Code /\ UNCHANGED breakpointVars
  <2>1. PlacesOK' /\ BytesOK'
    BY <1>1, <1>8 DEF FirstRun, PlacesOK, BytesOK, Tracked, UserAddress, breakpointVars, tables, HeldBy
  <2>2. ~OwnSite(t, a)
    BY <1>3, <1>8 DEF FirstRun, CallsOK, Code, int3
  <2>3. \A u \in Thread : OwnSite(u, a) => u = t
    BY <1>3 DEF OwnSite
  <2>4. ASSUME NEW u \in Thread, NEW b \in ReturnSites[u], OwnSite(u, b)
        PROVE  IF b \in Pending(u)'
               THEN HeldBy(u, b)' /\ byte'[b] = int3 /\ address_to_bp'[b].kind = "Return"
               ELSE b \notin Tracked'
    <3>1. b # a
      BY <2>2, <2>3, <2>4
    <3>2. b \in Pending(u)' <=> b \in Pending(u)
      BY <1>4, <1>5, <3>1
    <3> QED
      BY <1>8, <2>4, <3>2 DEF FirstRun, CallsOK, HeldBy, breakpointVars, tables, Tracked
  <2> QED
    BY <1>6, <1>7, <2>1, <2>4 DEF FirstRun, CallsOK
<1>9. CASE /\ byte[a] = int3 /\ GetBreakpointType(a, t) = "Return"
           /\ RemoveBreakpoints({a}, t)
  <2>1. a \notin permanent /\ a \in Tracked /\ t \in Holders(a)
    BY <1>3, <1>9 DEF GetBreakpointType, NoBreakpoint
  <2>2. /\ {b \in {a} : RemovableBy(t, b)} = {a}
        /\ {TrueAddress[b] : b \in {a} \ (Tracked \cup permanent)} \cap UserAddress = {}
    BY <2>1 DEF RemovableBy, Holds
  <2> DEFINE last == {b \in {a} : address_to_bp[b].count = 1}
  <2>3. /\ byte' = [b \in Address |-> IF b = a THEN address_to_bp[a].saved ELSE byte[b]]
        /\ UserAddress' = UserAddress /\ \A b \in UserAddress : user_breakpoints'[b] = user_breakpoints[b]
        /\ Tracked' = Tracked \ last
        /\ \A b \in Tracked : b # a => address_to_bp'[b] = address_to_bp[b]
        /\ a \in Tracked' => address_to_bp'[a] =
               [address_to_bp[a] EXCEPT !.holders = EraseFirst(@, t), !.count = @ - 1]
    <3>1. address_to_bp' = [b \in Tracked \ last |->
              IF b \in {a} THEN [address_to_bp[b] EXCEPT !.holders = EraseFirst(@, t), !.count = @ - 1]
              ELSE address_to_bp[b]]
      BY <1>9, <2>2 DEF RemoveBreakpoints
    <3>2. byte' = [b \in Address |-> IF b \in {a} THEN address_to_bp[b].saved ELSE byte[b]]
      BY <1>9, <2>2 DEF RemoveBreakpoints
    <3>3. user_breakpoints' = [b \in UserAddress |-> user_breakpoints[b]]
      BY <1>9, <2>2 DEF RemoveBreakpoints, Without, UserAddress
    <3>4. Tracked' = Tracked \ last
      BY <3>1 DEF Tracked
    <3> QED
      BY <3>1, <3>2, <3>3, <3>4 DEF UserAddress
  <2>4. address_to_bp[a].saved = Code /\ address_to_bp[a] \in Breakpoint
    BY <1>3, <2>1, FirstRunFacts DEF FirstRun, BytesOK
  <2>5. PlacesOK'
    BY <1>1, <2>3 DEF FirstRun, PlacesOK, UserAddress
  <2>6. BytesOK'
    <3>1. ASSUME NEW b \in Tracked' \ UserAddress PROVE address_to_bp'[b].saved = Code
      <4>1. CASE b = a
        BY <2>3, <2>4, <4>1 DEF Breakpoint
      <4>2. CASE b # a
        BY <2>3, <3>1, <4>2 DEF FirstRun, BytesOK
      <4> QED
        BY <4>1, <4>2
    <3> QED
      BY <2>3, <2>4, <3>1 DEF FirstRun, BytesOK, UserAddress, Code, int3
  <2>7. ASSUME NEW u \in Thread, NEW b \in ReturnSites[u], OwnSite(u, b)
        PROVE  IF b \in Pending(u)'
               THEN HeldBy(u, b)' /\ byte'[b] = int3 /\ address_to_bp'[b].kind = "Return"
               ELSE b \notin Tracked'
    <3>0. b \in Address
      BY SessionAssumption
    <3>1. CASE b # a
      <4>1. b \in Pending(u)' <=> b \in Pending(u)
        BY <1>4, <1>5, <3>1
      <4> QED
        BY <2>3, <2>7, <3>0, <3>1, <4>1 DEF FirstRun, CallsOK, HeldBy
    <3>2. CASE b = a
      <4>1. u = t
        BY <1>3, <2>7, <3>2 DEF OwnSite
      <4>2. address_to_bp[a].count = 1
        BY <1>3, <2>7, <3>2, <4>1 DEF FirstRun, CallsOK, HeldBy
      <4> QED
        BY <1>4, <2>3, <3>2, <4>1, <4>2
    <3> QED
      BY <3>1, <3>2
  <2> QED
    BY <1>6, <1>7, <2>5, <2>6, <2>7 DEF FirstRun, CallsOK
<1> QED
  BY <1>8, <1>9 DEF LeaveCall, a

\* One byte changes, at an address of the user; the tables of threads' breakpoints
\* stay.
LEMMA UserFirstRun ==
  ASSUME Apart, SessionInvariant, FirstRun, phase = "prompt" \/ phase = "lifted",
         phase' \in {"prompt", "lifted"}, UNCHANGED <<address_to_bp, calls>>,
         NEW b \in UserTrue, NEW x \in Byte, byte' = [byte EXCEPT ![b] = x],
         UserAddress \ {b} \subseteq UserAddress', UserAddress' \subseteq UserAddress \cup {b},
         x = int3 => b \in UserAddress',
         \A a \in UserAddress' : user_breakpoints'[a] = Code
  PROVE  FirstRun'
<1>1. b \in Address /\ b \notin Sites /\ b \notin EntryPoints /\ Tracked' = Tracked
  BY ApartSites DEF Tracked
<1>2. Tracked \subseteq EntryPoints \cup Sites /\ b \notin Tracked /\ byte \in [Address -> Byte]
  BY <1>1, FirstRunFacts DEF FirstRun, PlacesOK
<1>3. PlacesOK'
  BY <1>1, <1>2 DEF FirstRun, PlacesOK
<1>4. BytesOK'
  <2>1. \A a \in Address : byte'[a] = int3 => a \in Tracked' \cup UserAddress'
    BY <1>1, <1>2 DEF FirstRun, BytesOK
  <2>2. \A a \in Tracked' \ UserAddress' : address_to_bp'[a].saved = Code
    BY <1>1, <1>2 DEF FirstRun, BytesOK
  <2> QED
    BY <2>1, <2>2 DEF BytesOK
<1>5. CallsOK'
  <2>1. \A a \in Sites : byte'[a] = byte[a]
    BY <1>1, <1>2, ApartSites
  <2> QED
    BY <1>1, <2>1, CallsStay DEF FirstRun
<1> QED
  BY <1>3, <1>4, <1>5 DEF FirstRun

LEMMA AddFirstRun ==
  ASSUME Apart, SessionInvariant, FirstRun, NEW a \in UserSites, AddUserBreakpoint(a)
  PROVE  FirstRun'
<1> DEFINE b == TrueAddress[a]
<1>1. /\ phase = "prompt" /\ phase' = "prompt" /\ b \in UserTrue /\ b \notin UserAddress
      /\ UNCHANGED <<address_to_bp, calls>> /\ byte' = Armed({b})
      /\ user_breakpoints' = [c \in UserAddress \cup {b} |->
             IF c = b THEN byte[c] ELSE user_breakpoints[c]]
  BY DEF AddUserBreakpoint, CreateUserBreakpoint, Apart, UserTrue
<1> HIDE DEF b
<1>2. /\ b \in Address /\ b \notin Tracked /\ byte \in [Address -> Byte] /\ byte[b] = Code
  BY <1>1, ApartSites, FirstRunFacts DEF FirstRun, PlacesOK
<1>3. byte' = [byte EXCEPT ![b] = int3] /\ int3 \in Byte
  BY <1>1, <1>2 DEF Armed, Byte
<1>4. UserAddress' = UserAddress \cup {b} /\ \A c \in UserAddress' : user_breakpoints'[c] = Code
  BY <1>1, <1>2 DEF UserAddress, FirstRun, BytesOK
<1> QED
  BY <1>1, <1>3, <1>4, UserFirstRun

LEMMA DropFirstRun ==
  ASSUME Apart, SessionInvariant, FirstRun, NEW a \in UserSites, DropUserBreakpoint(a)
  PROVE  FirstRun'
<1> DEFINE b == TrueAddress[a]
<1>1. /\ phase = "prompt" /\ phase' = "prompt" /\ b \in UserTrue /\ b \in UserAddress
      /\ UNCHANGED <<address_to_bp, calls>> /\ byte' = [byte EXCEPT ![b] = user_breakpoints[b]]
      /\ user_breakpoints' = Without(user_breakpoints, {b})
  BY DEF DropUserBreakpoint, RemoveUserBreakpoint, UserTrue
<1> HIDE DEF b
<1>2. user_breakpoints[b] = Code /\ Code \in Byte /\ Code # int3
  BY <1>1 DEF FirstRun, BytesOK, Byte, Code, int3
<1>3. UserAddress' = UserAddress \ {b} /\ \A c \in UserAddress' : user_breakpoints'[c] = Code
  BY <1>1 DEF UserAddress, Without, FirstRun, BytesOK
<1> QED
  BY <1>1, <1>2, <1>3, UserFirstRun

LEMMA LiftFirstRun ==
  ASSUME Apart, SessionInvariant, FirstRun, NEW a \in UserSites, LiftUserBreakpoint(a)
  PROVE  FirstRun'
<1> DEFINE b == TrueAddress[a]
<1>1. /\ phase = "prompt" /\ phase' = "lifted" /\ b \in UserTrue /\ b \in UserAddress
      /\ UNCHANGED <<address_to_bp, calls>> /\ byte' = [byte EXCEPT ![b] = user_breakpoints[b]]
      /\ user_breakpoints' = user_breakpoints
  BY DEF LiftUserBreakpoint, DisableUserBreakpoint, UserTrue, tables
<1> HIDE DEF b
<1>2. user_breakpoints[b] = Code /\ Code \in Byte /\ Code # int3
  BY <1>1 DEF FirstRun, BytesOK, Byte, Code, int3
<1>3. UserAddress' = UserAddress /\ \A c \in UserAddress' : user_breakpoints'[c] = Code
  BY <1>1 DEF UserAddress, FirstRun, BytesOK
<1> QED
  BY <1>1, <1>2, <1>3, UserFirstRun

LEMMA LowerFirstRun ==
  ASSUME Apart, SessionInvariant, FirstRun, LowerUserBreakpoint
  PROVE  FirstRun'
<1>1. PICK a \in job.addresses : EnableUserBreakpoint(a)
  BY DEF LowerUserBreakpoint
<1> DEFINE b == TrueAddress[a]
<1>2. /\ phase = "lifted" /\ phase' = "prompt" /\ b \in UserAddress
      /\ UNCHANGED <<address_to_bp, calls>> /\ byte' = [byte EXCEPT ![b] = int3]
      /\ user_breakpoints' = user_breakpoints
  BY <1>1 DEF LowerUserBreakpoint, EnableUserBreakpoint, tables
<1> HIDE DEF b
<1>3. b \in UserTrue /\ int3 \in Byte
  BY <1>2 DEF FirstRun, PlacesOK, Byte
<1>4. UserAddress' = UserAddress /\ \A c \in UserAddress' : user_breakpoints'[c] = Code
  BY <1>2 DEF UserAddress, FirstRun, BytesOK
<1> QED
  BY <1>2, <1>3, <1>4, UserFirstRun

LEMMA BeginStepFirstRun ==
  ASSUME Apart, SessionInvariant, FirstRun, NEW t \in Thread, NEW S \in SUBSET Address,
         S \cap Sites = {}, NEW kind, BeginStep(t, S, kind)
  PROVE  FirstRun'
<1>1. /\ phase = "prompt" /\ phase' = "stepping" /\ calls' = calls
      /\ user_breakpoints' = user_breakpoints
      /\ CreateHeldBreakpoints(S, t, kind)
      /\ job' = [Idle EXCEPT !.thread = t, !.addresses = S, !.memory = byte]
  BY DEF BeginStep, CreateHeldBreakpoints
<1>2. job'.thread = t /\ job'.addresses = S
  BY <1>1, IdleType DEF Job
<1>3. /\ byte' = Armed(S \ Tracked) /\ Tracked' = Tracked \cup S /\ UserAddress' = UserAddress
      /\ \A b \in Tracked : b \notin S => address_to_bp'[b] = address_to_bp[b]
      /\ \A b \in S : b \notin Tracked => address_to_bp'[b] = Written(b, kind, <<t>>)
      /\ \A b \in S : b \in Tracked => address_to_bp'[b] =
             [address_to_bp[b] EXCEPT !.holders = Append(@, t), !.count = @ + 1]
  BY <1>1 DEF CreateHeldBreakpoints, Tracked, UserAddress
<1>4. /\ Tracked \subseteq EntryPoints \cup Sites /\ byte \in [Address -> Byte]
      /\ \A a \in Address : a \notin Tracked \cup UserAddress => byte[a] = Code
      /\ \A a \in Tracked : address_to_bp[a] \in Breakpoint
  BY <1>1, FirstRunFacts DEF FirstRun, PlacesOK
<1>5. PlacesOK'
  <2>1. ASSUME NEW b \in S, b \notin EntryPoints
        PROVE  b \in Tracked' /\ address_to_bp'[b].count = 1 /\ address_to_bp'[b].holders = <<t>>
    <3>1. b \notin Tracked
      BY <1>4, <2>1
    <3> QED
      <4>1. b \in Tracked' /\ address_to_bp'[b] = Written(b, kind, <<t>>)
        BY <1>3, <3>1
      <4>2. Written(b, kind, <<t>>).count = 1 /\ Written(b, kind, <<t>>).holders = <<t>>
        BY WrittenIs
      <4> QED
        BY <4>1, <4>2
  <2>2. \A b \in S : b \in Tracked' /\ (b \notin EntryPoints => HeldBy(job.thread, b)')
    BY <1>2, <1>3, <2>1 DEF HeldBy
  <2>3. UserAddress' \subseteq UserTrue /\ Tracked' \subseteq EntryPoints \cup Sites \cup S
    BY <1>3, <1>4 DEF FirstRun, PlacesOK
  <2> QED
    BY <1>1, <1>2, <2>2, <2>3 DEF PlacesOK
<1>6. BytesOK'
  <2>1. \A a \in Address : byte'[a] = int3 => a \in Tracked' \cup UserAddress'
    BY <1>3 DEF Armed, FirstRun, BytesOK
  <2>2. ASSUME NEW b \in Tracked' \ UserAddress PROVE address_to_bp'[b].saved = Code
    <3>1. CASE b \notin S
      BY <1>3, <2>2, <3>1 DEF FirstRun, BytesOK
    <3>2. CASE b \in S /\ b \notin Tracked
      <4>1. b \in Address /\ byte[b] = Code
        BY <1>4, <2>2, <3>2
      <4> QED
        <5>1. address_to_bp'[b] = Written(b, kind, <<t>>)
          BY <1>3, <3>2
        <5>2. Written(b, kind, <<t>>).saved = byte[b]
          BY WrittenIs
        <5> QED
          BY <4>1, <5>1, <5>2
    <3>3. CASE b \in S /\ b \in Tracked
      <4>1. address_to_bp[b] \in Breakpoint /\ address_to_bp[b].saved = Code
        BY <1>4, <2>2, <3>3 DEF FirstRun, BytesOK
      <4> QED
        BY <1>3, <3>3, <4>1 DEF Breakpoint
    <3> QED
      BY <3>1, <3>2, <3>3
  <2> QED
    BY <1>1, <1>3, <2>1, <2>2 DEF FirstRun, BytesOK
<1>7. CallsOK'
  <2>1. \A a \in Sites : a \in Address /\ a \notin S
    BY ApartSites
  <2>2. \A a \in Sites : byte'[a] = byte[a]
    BY <1>3, <1>4, <2>1 DEF Armed
  <2> QED
    BY <1>1, <1>3, <2>1, <2>2, CallsStay DEF FirstRun
<1> QED
  BY <1>5, <1>6, <1>7 DEF FirstRun

LEMMA EndStepFirstRun ==
  ASSUME Apart, SessionInvariant, FirstRun, EndStep
  PROVE  FirstRun'
<1> DEFINE S == job.addresses
           t == job.thread
<1>1. /\ phase = "stepping" /\ phase' = "prompt" /\ calls' = calls /\ RemoveBreakpoints(S, t)
      /\ permanent = EntryPoints
  BY FirstRunFacts DEF EndStep
<1>2. /\ S \cap Sites = {} /\ S \subseteq Tracked
      /\ \A a \in S \ EntryPoints : HeldBy(t, a)
  BY <1>1 DEF FirstRun, PlacesOK
<1> HIDE DEF S, t
<1> DEFINE gone == S \ EntryPoints
<1>3. {a \in S : RemovableBy(t, a)} = gone
  <2>1. ASSUME NEW a \in gone PROVE t \in Holders(a)
    <3>1. address_to_bp[a].holders = <<t>>
      BY <1>2, <2>1 DEF HeldBy
    <3>2. Len(<<t>>) = 1 /\ <<t>>[1] = t /\ 1 \in 1..1
      OBVIOUS
    <3> QED
      BY <3>1, <3>2 DEF Holders
  <2> QED
    BY <1>1, <1>2, <2>1 DEF RemovableBy, Holds
<1>4. {a \in gone : address_to_bp[a].count = 1} = gone
  BY <1>2 DEF HeldBy
<1>5. {TrueAddress[a] : a \in S \ (Tracked \cup permanent)} \cap UserAddress = {}
  BY <1>2
<1> HIDE DEF gone
<1>6. /\ byte' = [a \in Address |-> IF a \in gone THEN address_to_bp[a].saved ELSE byte[a]]
      /\ Tracked' = Tracked \ gone
      /\ \A a \in Tracked' : address_to_bp'[a] = address_to_bp[a]
      /\ UserAddress' = UserAddress /\ \A a \in UserAddress : user_breakpoints'[a] = user_breakpoints[a]
  <2>1. address_to_bp' = [a \in Tracked \ gone |->
            IF a \in gone THEN [address_to_bp[a] EXCEPT !.holders = EraseFirst(@, t), !.count = @ - 1]
            ELSE address_to_bp[a]]
    BY <1>1, <1>3, <1>4 DEF RemoveBreakpoints
  <2>2. byte' = [a \in Address |-> IF a \in gone THEN address_to_bp[a].saved ELSE byte[a]]
    BY <1>1, <1>3, <1>5 DEF RemoveBreakpoints
  <2>3. user_breakpoints' = [a \in UserAddress |-> user_breakpoints[a]]
    BY <1>1, <1>5 DEF RemoveBreakpoints, Without, UserAddress
  <2> QED
    BY <2>1, <2>2, <2>3 DEF Tracked, UserAddress
<1>7. gone \cap Sites = {} /\ gone \subseteq Tracked /\ Tracked \subseteq EntryPoints \cup Sites \cup S
  BY <1>1, <1>2 DEF gone, FirstRun, PlacesOK, S
<1>8. PlacesOK'
  BY <1>1, <1>6, <1>7 DEF FirstRun, PlacesOK, gone
<1>9. BytesOK'
  <2>1. \A a \in gone : a \notin UserAddress => address_to_bp[a].saved = Code
    BY <1>7 DEF FirstRun, BytesOK
  <2>2. \A a \in Address : byte'[a] = int3 => a \in Tracked' \cup UserAddress'
    BY <1>6, <2>1 DEF FirstRun, BytesOK, Code, int3
  <2> QED
    BY <1>6, <2>2 DEF FirstRun, BytesOK
<1>10. CallsOK'
  <2>1. \A a \in Sites : a \in Address /\ a \notin gone
    BY <1>7, ApartSites
  <2>2. \A a \in Sites : byte'[a] = byte[a]
    BY <1>6, <2>1
  <2> QED
    BY <1>1, <1>6, <2>1, <2>2, CallsStay DEF FirstRun
<1> QED
  BY <1>8, <1>9, <1>10 DEF FirstRun

LEMMA DetachFirstRun ==
  ASSUME Apart, SessionInvariant, FirstRun, Detach
  PROVE  FirstRun'
<1>1. /\ phase = "prompt" /\ phase' = "detached" /\ calls' = calls /\ user_breakpoints' = user_breakpoints
      /\ permanent = EntryPoints
      /\ byte' = [a \in Address |-> IF a \in permanent THEN address_to_bp[a].saved ELSE byte[a]]
      /\ Tracked' = Tracked \ permanent
      /\ \A a \in Tracked' : address_to_bp'[a] = address_to_bp[a]
  BY FirstRunFacts DEF Detach, RemoveAllPermanentBreakpoints, Without, Tracked
<1>2. permanent \subseteq Tracked /\ permanent \cap UserAddress = {} /\ permanent \cap Sites = {}
  BY <1>1, FirstRunFacts, ApartSites DEF ManagerOK, BreakpointTypeOK
<1>3. PlacesOK'
  BY <1>1 DEF FirstRun, PlacesOK, UserAddress
<1>4. BytesOK'
  <2>1. \A a \in permanent : address_to_bp[a].saved = Code
    BY <1>2 DEF FirstRun, BytesOK
  <2>2. \A a \in Address : byte'[a] = int3 => a \in Tracked' \cup UserAddress'
    BY <1>1, <2>1 DEF FirstRun, BytesOK, Code, int3, UserAddress
  <2> QED
    BY <1>1, <2>2 DEF FirstRun, BytesOK, UserAddress
<1>5. CallsOK'
  <2>1. \A a \in Sites : a \in Address /\ a \notin permanent
    BY <1>2, ApartSites
  <2>2. \A a \in Sites : byte'[a] = byte[a]
    BY <1>1, <2>1
  <2> QED
    BY <1>1, <2>1, <2>2, CallsStay DEF FirstRun
<1> QED
  BY <1>3, <1>4, <1>5 DEF FirstRun

\* The tables, the bytes and the calls stay.
LEMMA QuietFirstRun ==
  ASSUME Apart, FirstRun, UNCHANGED <<breakpointVars, calls>>,
         \/ UNCHANGED <<phase, job>>
         \/ phase \in {"running", "prompt"} /\ phase' \in {"prompt", "restoring"}
  PROVE  FirstRun'
<1>1. Tracked' = Tracked /\ UserAddress' = UserAddress /\ UNCHANGED <<byte, address_to_bp, calls>>
  BY DEF breakpointVars, tables, Tracked, UserAddress
<1>2. PlacesOK'
  <2>1. CASE UNCHANGED <<phase, job>>
    BY <1>1, <2>1 DEF FirstRun, PlacesOK, HeldBy
  <2>2. CASE phase \in {"running", "prompt"} /\ phase' \in {"prompt", "restoring"}
    BY <1>1, <2>2 DEF FirstRun, PlacesOK
  <2> QED
    BY <2>1, <2>2
<1>3. BytesOK'
  BY <1>1 DEF FirstRun, BytesOK, breakpointVars, tables
<1>4. CallsOK'
  BY <1>1, CallsStay DEF FirstRun
<1> QED
  BY <1>2, <1>3, <1>4 DEF FirstRun

LEMMA StepFirstRun ==
  ASSUME Apart
  PROVE  SessionInvariant /\ FirstRunInv /\ [Next]_vars => FirstRunInv'
<1> SUFFICES ASSUME SessionInvariant, FirstRunInv, [Next]_vars, restores' = 0
             PROVE  FirstRun'
  BY DEF FirstRunInv
<1>1. restores \in Nat
  BY SessionAssumption DEF SessionInvariant, TypesAndCounts, TypeOK, SessionTypeOK
<1>2. ASSUME NEW i \in 1..Len(snapshots), TimeRestore(i) PROVE FALSE
  <2>1. restores' = restores + 1
    BY <1>2 DEF TimeRestore, RestoreTo
  <2> QED
    BY <1>1, <2>1
<1>3. restores = 0
  BY <1>2
  DEF Next, ReachEntryPoint, EnterCall, LeaveCall, TakeSnapshot, StopRunning, AddUserBreakpoint,
      DropUserBreakpoint, LiftUserBreakpoint, LowerUserBreakpoint, BeginStep, EndStep, BeginReverse,
      PlacePredecessors, PlaceDuplicates, PlaceCatch, BeginStepOver, EndStepOver,
      RemovePredecessors, RemoveDuplicates, RemoveCatch, RetryReverse, Detach, vars
<1>4. FirstRun
  BY <1>3 DEF FirstRunInv
<1>5. ASSUME \/ PlacePredecessors \/ PlaceDuplicates \/ PlaceCatch
             \/ RemovePredecessors \/ RemoveDuplicates \/ RemoveCatch \/ RetryReverse
             \/ EndStepOver \/ \E a \in Address : BeginStepOver(a)
      PROVE  FALSE
  BY <1>4, <1>5
  DEF FirstRun, PlacesOK, PlacePredecessors, PlaceDuplicates, PlaceCatch, RemovePredecessors,
      RemoveDuplicates, RemoveCatch, RetryReverse, BeginStepOver, EndStepOver
<1>6. ASSUME NEW t \in Thread, NEW S \in StepSets, BeginStep(t, S, "Step") PROVE FirstRun'
  BY <1>4, <1>6, ApartSites, BeginStepFirstRun, SessionAssumption
<1>7. ASSUME NEW t \in Thread, NEW a \in UserSites, BeginStep(t, {a}, "Return") PROVE FirstRun'
  BY <1>4, <1>7, ApartSites, BeginStepFirstRun, SessionAssumption
<1>8. ASSUME \/ TakeSnapshot \/ StopRunning \/ UNCHANGED vars
             \/ \E t, S, twice, stop : BeginReverse(t, S, twice, stop)
      PROVE  FirstRun'
  BY <1>4, <1>8, QuietFirstRun DEF TakeSnapshot, StopRunning, vars, BeginReverse
<1> QED
  BY <1>2, <1>4, <1>5, <1>6, <1>7, <1>8, ReachFirstRun, EnterFirstRun, LeaveFirstRun, AddFirstRun,
     DropFirstRun, LiftFirstRun, LowerFirstRun, EndStepFirstRun, DetachFirstRun DEF Next

LEMMA FirstRunHolds ==
  ASSUME Apart
  PROVE  Spec => []FirstRunInv
<1>1. Init => FirstRunInv
  BY InitFirstRun
<1>2. SessionInvariant /\ FirstRunInv /\ [Next]_vars => FirstRunInv'
  BY StepFirstRun
<1>3. Spec => []SessionInvariant
  BY SessionInvariantHolds
<1> QED
  BY <1>1, <1>2, <1>3, PTL DEF Spec

\* Until the first time restore every int3 in the debuggee has an entry that knows
\* the byte it covers, however many threads share return addresses, and whichever
\* of the user's breakpoints steps land on (breakpoint_manager.cpp:70-94, 253-266).
\* It needs the return addresses apart from the user's lines, and a user who asks
\* for a breakpoint once: the second request saves the first one's int3.
THEOREM EveryInt3IsKnown ==
  ASSUME SitesApart, ~Recursion, ~AskTwice
  PROVE  Spec => []NoStrayInt3
<1>0. Spec => []FirstRunInv
  BY FirstRunHolds DEF Apart
<1>1. FirstRunInv => NoStrayInt3
  BY DEF FirstRunInv, FirstRun, BytesOK, NoStrayInt3
<1> QED
  BY <1>0, <1>1, PTL

\* Until the first time restore a thread with a return address of its own is caught
\* there when its call returns, for any number of threads and of nested calls
\* (event_log.cpp:44-55, 59-70).  It needs, besides, that a thread has no two calls
\* pending that return to one address: the first of them to return takes the int3
\* with it.
THEOREM CallsAreCaught ==
  ASSUME SitesApart, ~Recursion, ~AskTwice
  PROVE  Spec => []OpenCallsAreCaught
<1> Apart
  BY DEF Apart
<1>0. Spec => []FirstRunInv
  BY FirstRunHolds
<1>1. ASSUME SessionInvariant, FirstRunInv PROVE OpenCallsAreCaught
  <2> SUFFICES ASSUME restores = 0, NEW t \in Thread, NEW i \in 1..Len(calls[t]),
                      \A u \in Thread \ {t} : calls[t][i] \notin ReturnSites[u]
               PROVE  /\ byte[calls[t][i]] = int3
                      /\ GetBreakpointType(calls[t][i], t) = "Return"
    BY DEF OpenCallsAreCaught
  <2> DEFINE a == calls[t][i]
  <2>1. FirstRun
    BY <1>1 DEF FirstRunInv
  <2>2. a \in Pending(t)
    BY DEF Pending
  <2>3. a \in ReturnSites[t] /\ OwnSite(t, a)
    BY <2>1, <2>2 DEF FirstRun, CallsOK, OwnSite
  <2> HIDE DEF a
  <2>4. HeldBy(t, a) /\ byte[a] = int3 /\ address_to_bp[a].kind = "Return"
    BY <2>1, <2>2, <2>3 DEF FirstRun, CallsOK
  <2>5. a \notin UserAddress /\ a \notin permanent
    BY <1>1, <2>1, <2>3, ApartSites, FirstRunFacts
  <2>6. t \in Holders(a)
    <3>1. Len(<<t>>) = 1 /\ <<t>>[1] = t /\ 1 \in 1..1
      OBVIOUS
    <3> QED
      BY <2>4, <3>1 DEF HeldBy, Holders
  <2>7. GetBreakpointType(a, t) = "Return"
    BY <2>4, <2>5, <2>6 DEF GetBreakpointType, HeldBy
  <2> QED
    BY <2>4, <2>7 DEF a
<1> QED
  BY <1>0, <1>1, SessionInvariantHolds, PTL

----------------------------------------------------------------------------
(* Steps, in any run.                                                      *)

\* The debugger's own shell code is in memory of its own.
ShellCodeApart == ShellCode \notin UserSites \cup UNION StepSets

\* An entry is permanent, at a return address, the shell code's, of the reverse
\* step under way or of the step under way.
KnownPlaces == EntryPoints \cup Sites \cup {ShellCode}
EntriesOK ==
    \A a \in Tracked : \/ a \in KnownPlaces \/ address_to_bp[a].kind = "Reverse"
                       \/ phase = "stepping" /\ a \in job.addresses

\* While a thread steps, its addresses outside the intercepted functions have an
\* entry that it alone holds and that has saved the byte the step found, and no other
\* byte is written.
StepOK ==
    phase = "stepping" =>
        /\ job.addresses \subseteq Tracked
        /\ \A a \in job.addresses \ EntryPoints :
              HeldBy(job.thread, a) /\ address_to_bp[a].saved = job.memory[a]
        /\ \A a \in Address : a \notin job.addresses \/ a \in EntryPoints => byte[a] = job.memory[a]

\* StepLeavesNoTrace is about the step's last transition; what leads to it is that
\* no breakpoint the step finds in its place is shared with it.
StepInv == EntriesOK /\ StepOK

LEMMA CreateHeldIs ==
  ASSUME ManagerOK, NEW S \in SUBSET Address, NEW t \in Thread, NEW kind,
         CreateHeldBreakpoints(S, t, kind)
  PROVE  /\ byte' = Armed(S \ Tracked) /\ Tracked' = Tracked \cup S
         /\ \A b \in Tracked : address_to_bp'[b].kind = address_to_bp[b].kind
         /\ \A b \in S : b \notin Tracked => address_to_bp'[b] = Written(b, kind, <<t>>)
<1>1. address_to_bp' = [a \in Tracked \cup S |->
           IF a \notin S THEN address_to_bp[a]
           ELSE IF a \notin Tracked THEN Written(a, kind, <<t>>)
           ELSE [address_to_bp[a] EXCEPT !.holders = Append(@, t), !.count = @ + 1]]
  BY DEF CreateHeldBreakpoints
<1>2. ASSUME NEW b \in Tracked PROVE address_to_bp'[b].kind = address_to_bp[b].kind
  <2>1. address_to_bp[b] \in Breakpoint
    BY DEF ManagerOK, BreakpointOK
  <2>2. CASE b \in S
    <3>1. address_to_bp'[b] =
              [address_to_bp[b] EXCEPT !.holders = Append(@, t), !.count = @ + 1]
      BY <1>1, <2>2
    <3> QED
      BY <2>1, <3>1 DEF Breakpoint
  <2>3. CASE b \notin S
    BY <1>1, <2>3
  <2> QED
    BY <2>2, <2>3
<1> QED
  BY <1>1, <1>2 DEF CreateHeldBreakpoints, Tracked

LEMMA BeginStepInv ==
  ASSUME SitesApart, ShellCodeApart, SessionInvariant, StepInv,
         NEW t \in Thread, NEW S \in SUBSET Address, S \subseteq UserSites \cup UNION StepSets,
         NEW kind, BeginStep(t, S, kind)
  PROVE  StepInv'
<1>1. /\ ManagerOK /\ byte \in [Address -> Byte] /\ phase = "prompt" /\ phase' = "stepping"
      /\ CreateHeldBreakpoints(S, t, kind)
      /\ job' = [Idle EXCEPT !.thread = t, !.addresses = S, !.memory = byte]
  BY DEF BeginStep, SessionInvariant, TypesAndCounts, ManagerOK, BreakpointTypeOK
<1>2. job'.thread = t /\ job'.addresses = S /\ job'.memory = byte
  BY <1>1, IdleType DEF Job
<1>3. /\ byte' = Armed(S \ Tracked) /\ Tracked' = Tracked \cup S
      /\ \A b \in Tracked : address_to_bp'[b].kind = address_to_bp[b].kind
      /\ \A b \in S : b \notin Tracked => address_to_bp'[b] = Written(b, kind, <<t>>)
  BY <1>1, CreateHeldIs
<1>4. Tracked \subseteq KnownPlaces
  BY <1>1 DEF SessionInvariant, ReverseOK, ReversePlaces, StepInv, EntriesOK
<1>5. S \cap Sites = {} /\ ShellCode \notin S
  BY DEF SitesApart, ShellCodeApart
<1>6. EntriesOK'
  BY <1>1, <1>2, <1>3, <1>4 DEF EntriesOK
<1>7. ASSUME NEW a \in S \ EntryPoints
      PROVE  HeldBy(t, a)' /\ address_to_bp'[a].saved = byte[a]
  <2>1. a \notin Tracked
    BY <1>4, <1>5, <1>7 DEF KnownPlaces
  <2>2. a \in Tracked' /\ address_to_bp'[a] = Written(a, kind, <<t>>)
    BY <1>3, <1>7, <2>1
  <2>3. /\ Written(a, kind, <<t>>).count = 1 /\ Written(a, kind, <<t>>).holders = <<t>>
        /\ Written(a, kind, <<t>>).saved = byte[a]
    BY WrittenIs
  <2> QED
    BY <2>2, <2>3 DEF HeldBy
<1>8. ASSUME NEW a \in Address, a \notin S \/ a \in EntryPoints
      PROVE  byte'[a] = byte[a]
  <2>1. a \in EntryPoints => a \in Tracked
    BY <1>1 DEF SessionInvariant, InterceptionOK, ManagerOK, BreakpointTypeOK
  <2> QED
    BY <1>1, <1>3, <1>8, <2>1 DEF Armed
<1>9. StepOK'
  BY <1>2, <1>3, <1>7, <1>8 DEF StepOK, HeldBy
<1> QED
  BY <1>6, <1>9 DEF StepInv

\* The step takes its breakpoints out and puts back what they covered.
LEMMA EndStepTrace ==
  ASSUME SessionInvariant, StepInv, EndStep
  PROVE  byte' = job.memory
<1> DEFINE S == job.addresses
           t == job.thread
           gone == S \ EntryPoints
<1>1. /\ phase = "stepping" /\ RemoveBreakpoints(S, t) /\ permanent = EntryPoints
      /\ S \subseteq Tracked /\ S \subseteq Address
      /\ job.memory \in [Address -> Byte]
  BY DEF EndStep, SessionInvariant, InterceptionOK, StepInv, StepOK, TypesAndCounts, TypeOK,
         SessionTypeOK, Job
<1>2. \A a \in gone : HeldBy(t, a) /\ address_to_bp[a].saved = job.memory[a]
  BY <1>1 DEF StepInv, StepOK
<1>3. \A a \in Address : a \notin S \/ a \in EntryPoints => byte[a] = job.memory[a]
  BY <1>1 DEF StepInv, StepOK
<1> HIDE DEF S, t
<1>4. {a \in S : RemovableBy(t, a)} = gone
  <2>1. ASSUME NEW a \in gone PROVE t \in Holders(a)
    <3>1. address_to_bp[a].holders = <<t>>
      BY <1>2, <2>1 DEF HeldBy
    <3>2. Len(<<t>>) = 1 /\ <<t>>[1] = t /\ 1 \in 1..1
      OBVIOUS
    <3> QED
      BY <3>1, <3>2 DEF Holders
  <2> QED
    BY <1>1, <2>1 DEF RemovableBy, Holds
<1>5. {TrueAddress[a] : a \in S \ (Tracked \cup permanent)} \cap UserAddress = {}
  BY <1>1
<1>6. byte' = [a \in Address |-> IF a \in gone THEN address_to_bp[a].saved ELSE byte[a]]
  <2> HIDE DEF gone
  <2> QED
    BY <1>1, <1>4, <1>5 DEF RemoveBreakpoints
<1>7. \A a \in Address : byte'[a] = job.memory[a]
  BY <1>2, <1>3, <1>6
<1> QED
  BY <1>1, <1>6, <1>7

\* No entry of a kind the table does not have outside a step is added.
LEMMA RestStepInv ==
  ASSUME StepInv, phase' # "stepping",
         \A a \in Tracked' : \/ a \in KnownPlaces \/ address_to_bp'[a].kind = "Reverse"
                             \/ a \in Tracked /\ phase # "stepping"
                                /\ address_to_bp'[a].kind = address_to_bp[a].kind
  PROVE  StepInv'
BY DEF StepInv, EntriesOK, StepOK

LEMMA NextStepInv ==
  ASSUME SitesApart, ShellCodeApart
  PROVE  SessionInvariant /\ StepInv /\ [Next]_vars => StepInv'
<1> SUFFICES ASSUME SessionInvariant, StepInv, [Next]_vars
             PROVE  StepInv'
  OBVIOUS
<1>a. ManagerOK /\ SessionTypeOK /\ job \in Job
  BY DEF SessionInvariant, TypesAndCounts, TypeOK, SessionTypeOK
<1>1. ASSUME ReachEntryPoint PROVE StepInv'
  <2>1. /\ phase # "stepping" /\ phase' # "stepping" /\ Tracked' = Tracked \cup EntryPoints
        /\ \A a \in Tracked \ EntryPoints : address_to_bp'[a] = address_to_bp[a]
    BY <1>1 DEF ReachEntryPoint, CreatePermanentBreakpoints, Tracked
  <2> QED
    BY <2>1, RestStepInv DEF KnownPlaces
<1>2. ASSUME NEW t \in Thread, NEW a \in ReturnSites[t], EnterCall(t, a) PROVE StepInv'
  <2>1. a \in Sites /\ {a} \in SUBSET Address
    BY SessionAssumption DEF Sites
  <2>2. phase = "running" /\ phase' = "running" /\ CreateHeldBreakpoints({a}, t, "Return")
    BY <1>2 DEF EnterCall
  <2>3. Tracked' = Tracked \cup {a} /\ \A b \in Tracked : address_to_bp'[b].kind = address_to_bp[b].kind
    BY <1>a, <2>1, <2>2, CreateHeldIs
  <2> QED
    BY <2>1, <2>2, <2>3, RestStepInv DEF KnownPlaces
<1>3. ASSUME \/ \E t \in Thread : LeaveCall(t)
             \/ RemovePredecessors \/ RemoveDuplicates \/ RemoveCatch \/ RetryReverse
      PROVE  StepInv'
  <2>1. phase # "stepping" /\ phase' # "stepping"
    BY <1>3 DEF LeaveCall, RemovePredecessors, RemoveDuplicates, RemoveCatch, RetryReverse
  <2>2. UNCHANGED breakpointVars \/ \E S, t : RemoveBreakpoints(S, t)
    BY <1>3 DEF LeaveCall, RemovePredecessors, RemoveDuplicates, RemoveCatch, RetryReverse
  <2>3. Tracked' \subseteq Tracked /\ \A a \in Tracked' : address_to_bp'[a].kind = address_to_bp[a].kind
    BY <1>a, <2>2, RemovalTakesOut DEF breakpointVars, tables, Tracked
  <2> QED
    BY <2>1, <2>3, RestStepInv
<1>4. ASSUME \/ TakeSnapshot \/ StopRunning \/ LowerUserBreakpoint
             \/ \E a \in UserSites : \/ AddUserBreakpoint(a) \/ DropUserBreakpoint(a)
                                     \/ LiftUserBreakpoint(a)
             \/ \E t, S, twice, stop : BeginReverse(t, S, twice, stop)
             \/ EndStepOver \/ \E a \in Address : BeginStepOver(a)
      PROVE  StepInv'
  <2>1. phase # "stepping" /\ phase' # "stepping" /\ UNCHANGED address_to_bp
    BY <1>4
    DEF TakeSnapshot, StopRunning, LowerUserBreakpoint, AddUserBreakpoint, DropUserBreakpoint,
        LiftUserBreakpoint, BeginReverse, CreateUserBreakpoint, RemoveUserBreakpoint,
        DisableUserBreakpoint, EnableUserBreakpoint, BeginStepOver, EndStepOver, DisableBreakpoint,
        EnableBreakpoint, breakpointVars, tables
  <2> QED
    BY <2>1, RestStepInv DEF Tracked
<1>5. ASSUME Detach PROVE StepInv'
  <2>1. /\ phase # "stepping" /\ phase' # "stepping" /\ Tracked' \subseteq Tracked
        /\ \A a \in Tracked' : address_to_bp'[a] = address_to_bp[a]
    BY <1>5 DEF Detach, RemoveAllPermanentBreakpoints, Without, Tracked
  <2> QED
    BY <2>1, RestStepInv
<1>6. ASSUME NEW i \in 1..Len(snapshots), TimeRestore(i) PROVE StepInv'
  <2>1. phase # "stepping" /\ phase' # "stepping" /\ Tracked' = Tracked \cup {ShellCode}
    BY <1>6 DEF TimeRestore, RestoreTo, TrackShellCodeBreakpoint, Tracked
  <2>2. \A a \in Tracked \ {ShellCode} : address_to_bp'[a] = address_to_bp[a]
    BY <1>6 DEF TimeRestore, RestoreTo, TrackShellCodeBreakpoint, Tracked
  <2> QED
    BY <2>1, <2>2, RestStepInv DEF KnownPlaces
<1>7. ASSUME PlacePredecessors \/ PlaceDuplicates \/ PlaceCatch PROVE StepInv'
  <2>1. /\ phase # "stepping" /\ phase' # "stepping"
        /\ \E S : CreateReverseBreakpoints(S, job.thread)
    BY <1>7 DEF PlacePredecessors, PlaceDuplicates, PlaceCatch
  <2>2. PICK T : address_to_bp' = [a \in Tracked \cup T |->
            IF a \in T THEN Written(a, "Reverse", <<job.thread>>) ELSE address_to_bp[a]]
    BY <2>1 DEF CreateReverseBreakpoints
  <2>3. \A a : Written(a, "Reverse", <<job.thread>>).kind = "Reverse"
    BY DEF Written
  <2>4. Tracked' = Tracked \cup T
    BY <2>2 DEF Tracked
  <2>5. \A a \in Tracked' : address_to_bp'[a].kind = "Reverse" \/
                             (a \in Tracked /\ address_to_bp'[a].kind = address_to_bp[a].kind)
    BY <2>2, <2>3, <2>4
  <2> QED
    BY <2>1, <2>5, RestStepInv
<1>8. ASSUME NEW t \in Thread, NEW S \in StepSets, BeginStep(t, S, "Step") PROVE StepInv'
  <2>1. S \in SUBSET Address /\ S \subseteq UserSites \cup UNION StepSets
    BY SessionAssumption
  <2> QED
    BY <1>8, <2>1, BeginStepInv
<1>9. ASSUME NEW t \in Thread, NEW a \in UserSites, BeginStep(t, {a}, "Return") PROVE StepInv'
  <2>1. {a} \in SUBSET Address /\ {a} \subseteq UserSites \cup UNION StepSets
    BY SessionAssumption
  <2> QED
    BY <1>9, <2>1, BeginStepInv
<1>10. ASSUME EndStep PROVE StepInv'
  <2>1. /\ phase = "stepping" /\ phase' # "stepping" /\ RemoveBreakpoints(job.addresses, job.thread)
        /\ permanent = EntryPoints
    BY <1>10 DEF EndStep, SessionInvariant, InterceptionOK
  <2>2. /\ Tracked' \subseteq Tracked
        /\ \A a \in Tracked' : address_to_bp'[a].kind = address_to_bp[a].kind
        /\ \A a \in job.addresses \ EntryPoints : a \notin Tracked'
    BY <1>a, <2>1, RemovalTakesOut DEF StepInv, StepOK, HeldBy
  <2>3. \A a \in Tracked' : a \in KnownPlaces \/ address_to_bp'[a].kind = "Reverse"
    BY <2>2 DEF StepInv, EntriesOK, KnownPlaces
  <2> QED
    BY <2>1, <2>3, RestStepInv
<1>11. ASSUME UNCHANGED vars PROVE StepInv'
  BY <1>11 DEF vars, breakpointVars, tables, StepInv, EntriesOK, StepOK, Tracked, HeldBy
<1> QED
  BY <1>1, <1>2, <1>3, <1>4, <1>5, <1>6, <1>7, <1>8, <1>9, <1>10, <1>11 DEF Next

\* A step leaves the debuggee's code, the user's breakpoints and the interception
\* included, byte for byte as it found it, in any run, however many threads there
\* are and whichever breakpoints it lands on (step_command.cpp:266-374).
THEOREM StepsLeaveNoTrace ==
  ASSUME SitesApart, ShellCodeApart
  PROVE  Spec => StepLeavesNoTrace
<1>1. Init => StepInv
  BY DEF Init, BreakpointInit, StepInv, EntriesOK, StepOK, Tracked
<1>2. SessionInvariant /\ StepInv /\ [Next]_vars => StepInv'
  BY NextStepInv
<1>3. SessionInvariant /\ StepInv /\ [Next]_vars =>
          [phase = "stepping" /\ phase' = "prompt" => byte' = job.memory]_vars
  <2>1. ASSUME phase = "stepping", phase' = "prompt", Next PROVE EndStep
    BY <2>1
    DEF Next, ReachEntryPoint, EnterCall, LeaveCall, TakeSnapshot, StopRunning, TimeRestore,
        AddUserBreakpoint, DropUserBreakpoint, LiftUserBreakpoint, LowerUserBreakpoint, BeginStep,
        BeginReverse, PlacePredecessors, PlaceDuplicates, PlaceCatch, BeginStepOver, EndStepOver,
        RemovePredecessors, RemoveDuplicates, RemoveCatch, RetryReverse, Detach
  <2> QED
    BY <2>1, EndStepTrace
<1> QED
  BY <1>1, <1>2, <1>3, SessionInvariantHolds, PTL DEF Spec, StepLeavesNoTrace
=============================================================================
