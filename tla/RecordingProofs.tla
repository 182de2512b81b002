-------------------------- MODULE RecordingProofs --------------------------
(***************************************************************************)
(* What holds of every recording, for any threads, return addresses and    *)
(* numbers of events.                                                      *)
(***************************************************************************)
EXTENDS Recording, SequenceTheorems, WellFoundedInduction, FiniteSetTheorems, TLAPS

Held == {"Return", "Step", "Reverse"}

\* Every hold is counted; the kinds that threads hold count nothing else.  A
\* permanent breakpoint counts one more than its holders.
BreakpointOK(bp) ==
    /\ bp \in Breakpoint
    /\ Len(bp.holders) <= bp.count
    /\ bp.kind \in Held => bp.count = Len(bp.holders) /\ bp.count > 0

ManagerOK ==
    /\ BreakpointTypeOK
    /\ \A a \in Tracked : BreakpointOK(address_to_bp[a])

----------------------------------------------------------------------------
\* A set of natural numbers has a least member.
LEMMA LeastMember ==
  ASSUME NEW T \in SUBSET Nat, T # {}
  PROVE  \E i \in T : \A j \in T : i <= j
<1>1. PICK i \in T : \A j \in T : <<j, i>> \notin OpToRel(<, Nat)
  BY NatLessThanWellFounded, WFMin
<1>2. \A j \in T : ~(j < i)
  BY <1>1 DEF OpToRel
<1> QED
  BY <1>2

\* erase(find(t)): t goes from place k, and the elements after it move up.
Erased(s, e, t, k) ==
    /\ s[k] = t
    /\ Len(e) = Len(s) - 1
    /\ \A i \in 1..(k - 1) : e[i] = s[i]
    /\ \A i \in k..(Len(s) - 1) : e[i] = s[i + 1]

LEMMA EraseFirstElements ==
  ASSUME NEW S, NEW s \in Seq(S), NEW t, NEW found \in 1..Len(s), s[found] = t
  PROVE  /\ EraseFirst(s, t) \in Seq(S)
         /\ \E k \in 1..Len(s) : Erased(s, EraseFirst(s, t), t, k)
<1> DEFINE First(i) == s[i] = t /\ \A j \in 1..(i - 1) : s[j] # t
           k == CHOOSE i \in 1..Len(s) : First(i)
<1>1. \E n \in 1..Len(s) : First(n)
  <2> DEFINE T == {j \in 1..Len(s) : s[j] = t}
  <2>1. T \in SUBSET Nat /\ T # {}
    OBVIOUS
  <2> HIDE DEF T
  <2>2. PICK n \in T : \A j \in T : n <= j
    BY <2>1, LeastMember
  <2>3. n \in 1..Len(s) /\ s[n] = t
    BY <2>2 DEF T
  <2>4. ASSUME NEW j \in 1..(n - 1) PROVE s[j] # t
    BY <2>2, <2>3 DEF T
  <2> QED
    BY <2>3, <2>4
<1>2. k \in 1..Len(s) /\ s[k] = t
  BY <1>1
<1> HIDE DEF k
<1> DEFINE u == SubSeq(s, 1, k - 1)
           v == SubSeq(s, k + 1, Len(s))
<1>3. /\ u \in Seq(S) /\ Len(u) = k - 1 /\ Len(s) \in Nat
      /\ \A i \in 1..(k - 1) : u[i] = s[i]
  BY <1>2, SubSeqProperties
<1>4. /\ v \in Seq(S) /\ Len(v) = Len(s) - k
      /\ \A i \in 1..(Len(s) - k) : v[i] = s[k + i]
  <2>1. v \in Seq(S) /\ Len(v) = Len(s) - k
    BY <1>2, SubSeqProperties
  <2>2. \A i \in 1..(Len(s) - k) : v[i] = s[k + i]
    BY <1>2
  <2> QED
    BY <2>1, <2>2
<1>5. EraseFirst(s, t) = u \o v
  BY DEF EraseFirst, k
<1> HIDE DEF u, v
<1> DEFINE e == EraseFirst(s, t)
<1>6. /\ e \in Seq(S) /\ Len(e) = Len(u) + Len(v)
      /\ \A i \in 1..(Len(u) + Len(v)) :
            e[i] = IF i <= Len(u) THEN u[i] ELSE v[i - Len(u)]
  <2>1. /\ u \o v \in Seq(S) /\ Len(u \o v) = Len(u) + Len(v)
        /\ \A i \in 1..(Len(u) + Len(v)) :
              (u \o v)[i] = IF i <= Len(u) THEN u[i] ELSE v[i - Len(u)]
    BY <1>3, <1>4, ConcatProperties
  <2> QED
    BY <1>5, <2>1
<1> HIDE DEF e
<1>7. Len(e) = Len(s) - 1
  BY <1>2, <1>3, <1>4, <1>6
<1>8. ASSUME NEW i \in 1..(k - 1) PROVE e[i] = s[i]
  <2>1. i \in 1..(Len(u) + Len(v)) /\ i <= Len(u)
    BY <1>2, <1>3, <1>4
  <2>2. e[i] = u[i]
    BY <1>6, <2>1
  <2> QED
    BY <1>3, <2>2
<1>9. ASSUME NEW i \in k..(Len(s) - 1) PROVE e[i] = s[i + 1]
  <2>1. /\ i \in 1..(Len(u) + Len(v)) /\ ~(i <= Len(u))
        /\ i - Len(u) = i - (k - 1) /\ i - (k - 1) \in 1..(Len(s) - k)
    BY <1>2, <1>3, <1>4
  <2>2. e[i] = v[i - (k - 1)]
    BY <1>6, <2>1
  <2>3. v[i - (k - 1)] = s[k + (i - (k - 1))]
    BY <1>4, <2>1
  <2>4. k + (i - (k - 1)) = i + 1
    BY <1>2
  <2> QED
    BY <2>2, <2>3, <2>4
<1> QED
  BY <1>2, <1>6, <1>7, <1>8, <1>9 DEF e, Erased

LEMMA EraseFirstShortens ==
  ASSUME NEW S, NEW s \in Seq(S), NEW t, NEW k \in 1..Len(s), s[k] = t
  PROVE  /\ EraseFirst(s, t) \in Seq(S)
         /\ Len(EraseFirst(s, t)) = Len(s) - 1
BY EraseFirstElements DEF Erased

----------------------------------------------------------------------------
(* Creating.                                                               *)

\* A breakpoint WriteBreakpoint has just written for a thread.
LEMMA WrittenOK ==
  ASSUME BreakpointTypeOK, NEW a \in Address, NEW t \in Thread, NEW kind \in Kind
  PROVE  BreakpointOK(Written(a, kind, <<t>>))
<1>1. byte[a] \in Byte /\ <<t>> \in Seq(Thread) /\ Len(<<t>>) = 1
  BY DEF BreakpointTypeOK
<1> QED
  BY <1>1 DEF Written, BreakpointOK, Breakpoint

\* One more thread holds a breakpoint.
LEMMA HeldOnceMoreOK ==
  ASSUME NEW bp, BreakpointOK(bp), NEW t \in Thread
  PROVE  BreakpointOK([bp EXCEPT !.holders = Append(@, t), !.count = @ + 1])
<1>1. /\ bp.holders \in Seq(Thread) /\ bp.count \in Nat
      /\ Len(bp.holders) \in Nat /\ bp \in Breakpoint
  BY DEF BreakpointOK, Breakpoint
<1>2. /\ Append(bp.holders, t) \in Seq(Thread)
      /\ Len(Append(bp.holders, t)) = Len(bp.holders) + 1
  BY <1>1, AppendProperties
<1>3. bp.count + 1 \in Nat /\ bp.count + 1 > 0
  BY <1>1
<1> DEFINE new == [bp EXCEPT !.holders = Append(@, t), !.count = @ + 1]
<1>4. /\ new.holders = Append(bp.holders, t) /\ new.count = bp.count + 1
      /\ new.kind = bp.kind /\ new \in Breakpoint
  BY <1>1, <1>2, <1>3 DEF Breakpoint
<1> HIDE DEF new
<1>5. BreakpointOK(new)
  BY <1>1, <1>2, <1>3, <1>4 DEF BreakpointOK
<1> QED
  BY <1>5 DEF new

\* One thread fewer holds a breakpoint.
LEMMA HeldOnceLessOK ==
  ASSUME NEW bp, BreakpointOK(bp), bp.count # 1,
         NEW k \in 1..Len(bp.holders), NEW t, bp.holders[k] = t
  PROVE  BreakpointOK([bp EXCEPT !.holders = EraseFirst(@, t), !.count = @ - 1])
<1>1. /\ bp.holders \in Seq(Thread) /\ bp.count \in Nat
      /\ Len(bp.holders) \in Nat /\ bp \in Breakpoint
  BY DEF BreakpointOK, Breakpoint
<1>2. /\ EraseFirst(bp.holders, t) \in Seq(Thread)
      /\ Len(EraseFirst(bp.holders, t)) = Len(bp.holders) - 1
  BY <1>1, EraseFirstShortens
<1>3. bp.count - 1 \in Nat /\ bp.count > 1
  BY <1>1 DEF BreakpointOK
<1> DEFINE new == [bp EXCEPT !.holders = EraseFirst(@, t), !.count = @ - 1]
<1>4. /\ new.holders = EraseFirst(bp.holders, t) /\ new.count = bp.count - 1
      /\ new.kind = bp.kind /\ new \in Breakpoint
  BY <1>1, <1>2, <1>3 DEF Breakpoint
<1> HIDE DEF new
<1>5. BreakpointOK(new)
  BY <1>1, <1>2, <1>3, <1>4 DEF BreakpointOK
<1> QED
  BY <1>5 DEF new

LEMMA ArmedOK ==
  ASSUME BreakpointTypeOK, NEW S
  PROVE  Armed(S) \in [Address -> Byte]
BY DEF Armed, BreakpointTypeOK, Byte

LEMMA CreateHeldBreakpointsOK ==
  ASSUME ManagerOK, NEW S \in SUBSET Address, NEW t \in Thread, NEW kind \in Kind,
         CreateHeldBreakpoints(S, t, kind)
  PROVE  ManagerOK'
<1> USE DEF CreateHeldBreakpoints
<1>1. byte' \in [Address -> Byte]
  BY ArmedOK DEF ManagerOK
<1>2. Tracked' = Tracked \cup S
  BY DEF Tracked
<1>3. ASSUME NEW a \in Tracked'
      PROVE  BreakpointOK(address_to_bp'[a])
  <2>1. CASE a \notin S
    BY <2>1, <1>2, <1>3 DEF ManagerOK, BreakpointTypeOK
  <2>2. CASE a \in S \ Tracked
    BY <2>2, <1>2, <1>3, WrittenOK DEF ManagerOK
  <2>3. CASE a \in S \cap Tracked
    BY <2>3, <1>2, HeldOnceMoreOK DEF ManagerOK
  <2> QED
    BY <2>1, <2>2, <2>3, <1>2
<1> QED
  BY <1>1, <1>2, <1>3 DEF ManagerOK, BreakpointTypeOK, BreakpointOK, UserAddress

----------------------------------------------------------------------------
(* Removing.                                                               *)

LEMMA RemoveBreakpointsOK ==
  ASSUME ManagerOK, NEW S \in SUBSET Address, NEW t \in Thread, RemoveBreakpoints(S, t)
  PROVE  ManagerOK'
<1> DEFINE released == {a \in S : RemovableBy(t, a)}
           last     == {a \in released : address_to_bp[a].count = 1}
           users    == {TrueAddress[a] : a \in S \ (Tracked \cup permanent)} \cap UserAddress
<1>1. byte' = [a \in Address |->
          IF a \in released THEN address_to_bp[a].saved
          ELSE IF a \in users THEN user_breakpoints[a] ELSE byte[a]]
  BY DEF RemoveBreakpoints
<1>2. address_to_bp' = [a \in Tracked \ last |->
          IF a \in released
          THEN [address_to_bp[a] EXCEPT !.holders = EraseFirst(@, t), !.count = @ - 1]
          ELSE address_to_bp[a]]
  BY DEF RemoveBreakpoints
<1>3. user_breakpoints' = Without(user_breakpoints, users) /\ permanent' = permanent
  BY DEF RemoveBreakpoints
<1>4. released \subseteq Tracked \ permanent /\ users \subseteq UserAddress
  BY DEF RemovableBy, Holds
<1>5. \A a \in released : t \in Holders(a)
  BY DEF RemovableBy, Holds
<1>6. last = {a \in released : address_to_bp[a].count = 1}
  OBVIOUS
<1> HIDE DEF released, last, users
<1>7. byte' \in [Address -> Byte]
  BY <1>1, <1>4 DEF ManagerOK, BreakpointTypeOK, Breakpoint
<1>8. Tracked' = Tracked \ last
  BY <1>2 DEF Tracked
<1>9. ASSUME NEW a \in Tracked'
      PROVE  BreakpointOK(address_to_bp'[a])
  <2>1. CASE a \notin released
    BY <2>1, <1>2, <1>8, <1>9
    DEF ManagerOK, BreakpointTypeOK
  <2>2. CASE a \in released
    <3>1. a \in Tracked /\ address_to_bp[a].count # 1
      BY <2>2, <1>4, <1>6, <1>8, <1>9
    <3>2. PICK k \in 1..Len(address_to_bp[a].holders) : address_to_bp[a].holders[k] = t
      BY <2>2, <1>5 DEF Holders
    <3>3. address_to_bp'[a] =
              [address_to_bp[a] EXCEPT !.holders = EraseFirst(@, t), !.count = @ - 1]
      BY <2>2, <1>2, <1>8, <1>9
    <3>4. BreakpointOK(address_to_bp[a])
      BY <3>1 DEF ManagerOK
    <3>5. BreakpointOK([address_to_bp[a] EXCEPT !.holders = EraseFirst(@, t),
                                                !.count = @ - 1])
      BY <3>1, <3>2, <3>4, HeldOnceLessOK
    <3> QED
      BY <3>3, <3>5
  <2> QED
    BY <2>1, <2>2
<1>10. UserAddress' \subseteq UserAddress
       /\ \A a \in UserAddress' : user_breakpoints'[a] = user_breakpoints[a]
  BY <1>3 DEF UserAddress, Without
<1>11. permanent' \subseteq Tracked'
  BY <1>3, <1>4, <1>6, <1>8 DEF ManagerOK, BreakpointTypeOK
<1> QED
  BY <1>7, <1>8, <1>9, <1>10, <1>11 DEF ManagerOK, BreakpointTypeOK, BreakpointOK

----------------------------------------------------------------------------
(* The recordings.                                                         *)

CallFrame == [function : EntryPoints, site : Address, target : Thread, open : BOOLEAN]

\* The tables during the recording: the entry points are permanent and nobody
\* holds them; every other breakpoint is at a return address, over the
\* program's own byte; where an int3 is there is a breakpoint.  (Where there is
\* a breakpoint there need not be an int3: two threads that return to one
\* address share one, and the first to return takes the int3 away.)
TablesOK ==
    /\ ManagerOK
    /\ UserAddress = {}
    /\ permanent = EntryPoints
    /\ EntryPoints \subseteq Tracked
    /\ \A a \in EntryPoints : address_to_bp[a].holders = <<>>
    /\ \A a \in Tracked \ EntryPoints : /\ a \in AllSites
                                        /\ address_to_bp[a].kind = "Return"
                                        /\ address_to_bp[a].saved = Code
    /\ \A a \in Address : byte[a] = int3 => a \in Tracked

\* Where a thread is among its calls.  A call is made from the program's code
\* or from inside LdrLoadDll, and the debugger has seen the calls around it.
CallsOK ==
    \A t \in Thread :
        /\ frames[t] = <<>> <=> at[t] = "code"
        /\ stopped[t] => at[t] \in {"entry", "return"}
        /\ \A i \in 1..Len(frames[t]) : frames[t][i].site \in ReturnSites[t]
        /\ \A i \in 1..(Len(frames[t]) - 1) : /\ frames[t][i].open
                                              /\ frames[t][i].function = LoadDll
        /\ at[t] = "entry" => ~Top(frames[t]).open
        /\ at[t] = "body" => Top(frames[t]).open

\* Every global sequence handed out is that of one event, of the log or
\* pending, and of no other.
EventsOK ==
    /\ \A i \in 1..Len(event_log) : event_log[i].global_seq < global_sequence
    /\ \A t \in Thread : \A i \in 1..Len(pending_thread_events[t]) :
          /\ pending_thread_events[t][i].global_seq < global_sequence
          /\ \A j \in 1..Len(event_log) :
                event_log[j].global_seq # pending_thread_events[t][i].global_seq
          /\ \A u \in Thread : \A j \in 1..Len(pending_thread_events[u]) :
                pending_thread_events[t][i].global_seq = pending_thread_events[u][j].global_seq
                    => t = u /\ i = j
    /\ \A g \in 0..(global_sequence - 1) :
          \/ \E i \in 1..Len(event_log) : event_log[i].global_seq = g
          \/ \E t \in Thread : \E i \in 1..Len(pending_thread_events[t]) :
                pending_thread_events[t][i].global_seq = g

Basics == TypeOK /\ TablesOK /\ CallsOK /\ EventsOK /\ LogSorted

----------------------------------------------------------------------------
(* The stacks of calls.                                                    *)

LEMMA FramesTyped ==
  ASSUME TypeOK, NEW t \in Thread
  PROVE  /\ frames[t] \in Seq(CallFrame) /\ Len(frames[t]) \in Nat
         /\ \A i \in 1..Len(frames[t]) :
               /\ frames[t][i] \in CallFrame
               /\ frames[t][i].function \in EntryPoints
               /\ frames[t][i].site \in Address
               /\ frames[t][i].target \in Thread
               /\ frames[t][i].open \in BOOLEAN
<1>1. frames[t] \in Seq(CallFrame)
  BY DEF TypeOK, CallFrame
<1>2. \A i \in 1..Len(frames[t]) : frames[t][i] \in CallFrame
  BY <1>1, ElementOfSeq
<1> QED
  BY <1>1, <1>2 DEF CallFrame

\* The innermost call of a thread that is in one.
LEMMA TopTyped ==
  ASSUME TypeOK, CallsOK, NEW t \in Thread, at[t] # "code"
  PROVE  /\ Len(frames[t]) \in Nat /\ Len(frames[t]) >= 1
         /\ Top(frames[t]) = frames[t][Len(frames[t])]
         /\ Top(frames[t]) \in CallFrame
         /\ Top(frames[t]).function \in EntryPoints
         /\ Top(frames[t]).site \in Address
         /\ Top(frames[t]).site \in ReturnSites[t]
         /\ Top(frames[t]).target \in Thread
<1>1. frames[t] # <<>>
  BY DEF CallsOK
<1>2. Len(frames[t]) \in Nat /\ Len(frames[t]) >= 1
  BY <1>1, FramesTyped, EmptySeq
<1> QED
  BY <1>2, FramesTyped DEF Top, CallsOK

\* Opening or closing the innermost call changes nothing else about the calls.
LEMMA OpenTopShape ==
  ASSUME TypeOK, CallsOK, NEW t \in Thread, at[t] # "code", NEW open \in BOOLEAN,
         frames' = OpenTop(t, open)
  PROVE  /\ frames' \in [Thread -> Seq(CallFrame)]
         /\ \A u \in Thread \ {t} : frames'[u] = frames[u]
         /\ Len(frames'[t]) = Len(frames[t])
         /\ \A i \in 1..(Len(frames[t]) - 1) : frames'[t][i] = frames[t][i]
         /\ \A i \in 1..Len(frames[t]) :
               /\ frames'[t][i].function = frames[t][i].function
               /\ frames'[t][i].site = frames[t][i].site
               /\ frames'[t][i].target = frames[t][i].target
         /\ frames'[t][Len(frames[t])].open = open
<1> DEFINE n == Len(frames[t])
           top == [frames[t][n] EXCEPT !.open = open]
<1>1. /\ n \in Nat /\ n >= 1 /\ n \in 1..n
      /\ frames[t] \in Seq(CallFrame)
      /\ frames[t][n] \in CallFrame
  BY TopTyped, FramesTyped
<1>2. /\ top \in CallFrame
      /\ top.function = frames[t][n].function /\ top.site = frames[t][n].site
      /\ top.target = frames[t][n].target /\ top.open = open
  BY <1>1 DEF CallFrame
<1>3. /\ frames \in [Thread -> Seq(CallFrame)]
      /\ frames' = [frames EXCEPT ![t] = [@ EXCEPT ![n] = top]]
  BY DEF TypeOK, CallFrame, OpenTop
<1> HIDE DEF top
<1>4. /\ [frames[t] EXCEPT ![n] = top] \in Seq(CallFrame)
      /\ Len([frames[t] EXCEPT ![n] = top]) = n
      /\ \A i \in 1..n : [frames[t] EXCEPT ![n] = top][i] =
                            IF i = n THEN top ELSE frames[t][i]
  BY <1>1, <1>2, ExceptSeq
<1> DEFINE new == [frames[t] EXCEPT ![n] = top]
<1>5. /\ frames' = [frames EXCEPT ![t] = new]
      /\ frames'[t] = new
  BY <1>3
<1> HIDE DEF new
<1>6. /\ new \in Seq(CallFrame) /\ Len(new) = n
      /\ \A i \in 1..n : new[i] = IF i = n THEN top ELSE frames[t][i]
  BY <1>4 DEF new
<1>7. frames' \in [Thread -> Seq(CallFrame)]
  BY <1>3, <1>5, <1>6
<1>8. \A u \in Thread \ {t} : frames'[u] = frames[u]
  BY <1>3, <1>5
<1>9. \A i \in 1..(n - 1) : frames'[t][i] = frames[t][i]
  BY <1>1, <1>5, <1>6
<1>10. \A i \in 1..n :
          /\ frames'[t][i].function = frames[t][i].function
          /\ frames'[t][i].site = frames[t][i].site
          /\ frames'[t][i].target = frames[t][i].target
  BY <1>2, <1>5, <1>6
<1>11. frames'[t][n].open = open
  BY <1>1, <1>2, <1>5, <1>6
<1> QED
  BY <1>5, <1>6, <1>7, <1>8, <1>9, <1>10, <1>11

LEMMA PushProperties ==
  ASSUME NEW S, NEW s \in Seq(S), NEW e \in S
  PROVE  /\ Append(s, e) \in Seq(S)
         /\ Len(Append(s, e)) = Len(s) + 1 /\ Len(s) \in Nat
         /\ \A i \in 1..Len(s) : Append(s, e)[i] = s[i]
         /\ Append(s, e)[Len(s) + 1] = e
         /\ Top(Append(s, e)) = e
         /\ Append(s, e) # <<>>
<1>1. /\ Append(s, e) \in Seq(S)
      /\ Len(Append(s, e)) = Len(s) + 1 /\ Len(s) \in Nat
      /\ \A i \in 1..Len(s) : Append(s, e)[i] = s[i]
      /\ Append(s, e)[Len(s) + 1] = e
  BY AppendProperties
<1>2. Append(s, e) # <<>>
  BY <1>1, EmptySeq
<1> QED
  BY <1>1, <1>2 DEF Top

LEMMA PrefixProperties ==
  ASSUME NEW S, NEW s \in Seq(S), NEW n \in Nat, n <= Len(s)
  PROVE  /\ SubSeq(s, 1, n) \in Seq(S)
         /\ Len(SubSeq(s, 1, n)) = n
         /\ \A i \in 1..n : SubSeq(s, 1, n)[i] = s[i]
<1>1. SubSeq(s, 1, n) \in Seq(S)
  BY SubSeqProperties
<1>2. Len(SubSeq(s, 1, n)) = n
  BY SubSeqProperties
<1> QED
  BY <1>1, <1>2

LEMMA PopProperties ==
  ASSUME NEW S, NEW s \in Seq(S), s # <<>>
  PROVE  /\ Len(s) \in Nat /\ Len(s) >= 1
         /\ Pop(s) \in Seq(S)
         /\ Len(Pop(s)) = Len(s) - 1
         /\ \A i \in 1..(Len(s) - 1) : Pop(s)[i] = s[i]
         /\ Top(s) = s[Len(s)] /\ Top(s) \in S
         /\ Pop(s) = <<>> <=> Len(s) = 1
<1>1. Len(s) \in Nat /\ Len(s) >= 1
  BY EmptySeq
<1>2. /\ Pop(s) \in Seq(S)
      /\ Len(Pop(s)) = Len(s) - 1
      /\ \A i \in 1..(Len(s) - 1) : Pop(s)[i] = s[i]
  <2> DEFINE n == Len(s) - 1
  <2>1. n \in Nat /\ n <= Len(s)
    BY <1>1
  <2> HIDE DEF n
  <2> QED
    BY <2>1, PrefixProperties DEF Pop, n
<1>3. Top(s) = s[Len(s)] /\ Top(s) \in S
  BY <1>1, ElementOfSeq DEF Top
<1>4. Pop(s) = <<>> <=> Len(s) = 1
  BY <1>1, <1>2, EmptySeq
<1> QED
  BY <1>1, <1>2, <1>3, <1>4

----------------------------------------------------------------------------
(* The tables.                                                             *)

\* The vector of holders of an address, empty where there is no breakpoint.
HoldersOf(a) == IF a \in Tracked THEN address_to_bp[a].holders ELSE <<>>

LEMMA HoldersTyped ==
  ASSUME TablesOK, NEW a
  PROVE  /\ HoldersOf(a) \in Seq(Thread) /\ Len(HoldersOf(a)) \in Nat
         /\ \A i \in 1..Len(HoldersOf(a)) : HoldersOf(a)[i] \in Thread
<1>1. HoldersOf(a) \in Seq(Thread)
  BY DEF HoldersOf, TablesOK, ManagerOK, BreakpointOK, Breakpoint
<1> QED
  BY <1>1, ElementOfSeq

\* One thread more holds the breakpoint at a return address.
LEMMA CreateShape ==
  ASSUME TablesOK, NEW r \in AllSites, r \in Address, NEW t \in Thread,
         EntryPoints \cap AllSites = {},
         CreateHeldBreakpoints({r}, t, "Return")
  PROVE  /\ TablesOK'
         /\ Tracked' = Tracked \cup {r}
         /\ HoldersOf(r)' = Append(HoldersOf(r), t)
         /\ \A a : a # r => HoldersOf(a)' = HoldersOf(a)
         /\ byte' = IF r \in Tracked THEN byte ELSE [byte EXCEPT ![r] = int3]
<1> DEFINE S == {r}
<1>1. /\ byte' = Armed(S \ Tracked)
      /\ address_to_bp' = [a \in Tracked \cup S |->
             IF a \notin S THEN address_to_bp[a]
             ELSE IF a \notin Tracked THEN Written(a, "Return", <<t>>)
             ELSE [address_to_bp[a] EXCEPT !.holders = Append(@, t), !.count = @ + 1]]
      /\ UNCHANGED <<permanent, user_breakpoints>>
  BY DEF CreateHeldBreakpoints
<1>2. Tracked' = Tracked \cup {r}
  BY <1>1 DEF Tracked
<1>3. ManagerOK'
  BY CreateHeldBreakpointsOK DEF TablesOK, Kind
<1>4. byte \in [Address -> Byte] /\ \A a \in Tracked : address_to_bp[a] \in Breakpoint
  BY DEF TablesOK, ManagerOK, BreakpointTypeOK
<1>5. \A a \in Tracked : a # r => address_to_bp'[a] = address_to_bp[a]
  BY <1>1
<1>6. ASSUME r \notin Tracked
      PROVE  address_to_bp'[r] = Written(r, "Return", <<t>>) /\ byte[r] = Code
  BY <1>1, <1>4, <1>6 DEF TablesOK, Byte
<1>7. ASSUME r \in Tracked
      PROVE  /\ address_to_bp'[r].holders = Append(address_to_bp[r].holders, t)
             /\ address_to_bp'[r].kind = address_to_bp[r].kind
             /\ address_to_bp'[r].saved = address_to_bp[r].saved
  <2>1. address_to_bp'[r] =
            [address_to_bp[r] EXCEPT !.holders = Append(@, t), !.count = @ + 1]
    BY <1>1, <1>7
  <2> QED
    BY <2>1, <1>4, <1>7 DEF Breakpoint
<1>8. byte' = IF r \in Tracked THEN byte ELSE [byte EXCEPT ![r] = int3]
  BY <1>1, <1>4 DEF Armed
<1>9. /\ r \notin EntryPoints
      /\ address_to_bp'[r].kind = "Return" /\ address_to_bp'[r].saved = Code
  BY <1>6, <1>7 DEF TablesOK, Written
<1>10. HoldersOf(r)' = Append(HoldersOf(r), t)
  <2>1. CASE r \in Tracked
    BY <2>1, <1>2, <1>7 DEF HoldersOf
  <2>2. CASE r \notin Tracked
    <3>1. Append(<<>>, t) = <<t>>
      OBVIOUS
    <3> QED
      BY <2>2, <3>1, <1>2, <1>6 DEF HoldersOf, Written
  <2> QED
    BY <2>1, <2>2
<1>11. \A a : a # r => HoldersOf(a)' = HoldersOf(a)
  BY <1>2, <1>5 DEF HoldersOf
<1>12. TablesOK'
  <2>1. UserAddress' = {} /\ permanent' = EntryPoints /\ EntryPoints \subseteq Tracked'
    BY <1>1, <1>2 DEF TablesOK, UserAddress
  <2>2. \A a \in EntryPoints : address_to_bp'[a].holders = <<>>
    BY <1>5, <1>9 DEF TablesOK
  <2>3. \A a \in Tracked' \ EntryPoints :
           /\ a \in AllSites
           /\ address_to_bp'[a].kind = "Return"
           /\ address_to_bp'[a].saved = Code
    BY <1>2, <1>5, <1>9 DEF TablesOK
  <2>4. \A a \in Address : byte'[a] = int3 => a \in Tracked'
    BY <1>2, <1>4, <1>8 DEF TablesOK
  <2> QED
    BY <1>3, <2>1, <2>2, <2>3, <2>4 DEF TablesOK
<1> QED
  BY <1>2, <1>8, <1>10, <1>11, <1>12

\* One hold of a thread on the breakpoint at a return address goes.
LEMMA RemoveShape ==
  ASSUME TablesOK, NEW r \in Tracked \ EntryPoints, NEW t \in Thread, t \in Holders(r),
         RemoveBreakpoints({r}, t)
  PROVE  /\ TablesOK'
         /\ r \notin Tracked' => Tracked' = Tracked \ {r}
         /\ r \in Tracked' => Tracked' = Tracked
         /\ HoldersOf(r)' = EraseFirst(HoldersOf(r), t)
         /\ \A a : a # r => HoldersOf(a)' = HoldersOf(a)
         /\ byte' = [byte EXCEPT ![r] = Code]
<1> DEFINE S == {r}
           released == {a \in S : RemovableBy(t, a)}
           last     == {a \in released : address_to_bp[a].count = 1}
           users    == {TrueAddress[a] : a \in S \ (Tracked \cup permanent)} \cap UserAddress
<1>1. released = {r} /\ users = {}
  BY DEF TablesOK, RemovableBy, Holds
<1>2. /\ byte' = [a \in Address |->
             IF a \in released THEN address_to_bp[a].saved
             ELSE IF a \in users THEN user_breakpoints[a] ELSE byte[a]]
      /\ address_to_bp' = [a \in Tracked \ last |->
             IF a \in released
             THEN [address_to_bp[a] EXCEPT !.holders = EraseFirst(@, t), !.count = @ - 1]
             ELSE address_to_bp[a]]
      /\ user_breakpoints' = Without(user_breakpoints, users)
      /\ UNCHANGED permanent
  BY DEF RemoveBreakpoints
<1>3. last = IF address_to_bp[r].count = 1 THEN {r} ELSE {}
  BY <1>1
<1> HIDE DEF released, last, users
<1>4. /\ byte \in [Address -> Byte] /\ Tracked \subseteq Address
      /\ BreakpointOK(address_to_bp[r]) /\ address_to_bp[r] \in Breakpoint
      /\ address_to_bp[r].saved = Code /\ address_to_bp[r].kind = "Return"
  BY DEF TablesOK, ManagerOK, BreakpointTypeOK
<1>5. byte' = [byte EXCEPT ![r] = Code]
  BY <1>1, <1>2, <1>4
<1>6. /\ Tracked' = Tracked \ last
      /\ \A a \in Tracked' : a # r => address_to_bp'[a] = address_to_bp[a]
  BY <1>1, <1>2 DEF Tracked
<1>7. ASSUME r \in Tracked'
      PROVE  /\ address_to_bp'[r].holders = EraseFirst(address_to_bp[r].holders, t)
             /\ address_to_bp'[r].kind = address_to_bp[r].kind
             /\ address_to_bp'[r].saved = address_to_bp[r].saved
  <2>1. address_to_bp'[r] =
            [address_to_bp[r] EXCEPT !.holders = EraseFirst(@, t), !.count = @ - 1]
    BY <1>1, <1>2, <1>6, <1>7
  <2> QED
    BY <2>1, <1>4 DEF Breakpoint
<1>8. HoldersOf(r)' = EraseFirst(HoldersOf(r), t)
  <2>1. CASE r \in Tracked'
    BY <2>1, <1>7 DEF HoldersOf
  <2>2. CASE r \notin Tracked'
    <3>1. Len(address_to_bp[r].holders) = 1
      BY <2>2, <1>3, <1>4, <1>6 DEF BreakpointOK, Held
    <3>2. PICK k \in 1..1 : address_to_bp[r].holders[k] = t
      BY <3>1 DEF Holders
    <3>3. /\ EraseFirst(address_to_bp[r].holders, t) \in Seq(Thread)
          /\ Len(EraseFirst(address_to_bp[r].holders, t)) = 0
      BY <1>4, <3>1, <3>2, EraseFirstShortens DEF Breakpoint
    <3> QED
      BY <2>2, <3>3, EmptySeq DEF HoldersOf
  <2> QED
    BY <2>1, <2>2
<1>9. \A a : a # r => HoldersOf(a)' = HoldersOf(a)
  BY <1>3, <1>6 DEF HoldersOf
<1>10. TablesOK'
  <2>1. ManagerOK'
    <3>1. {r} \in SUBSET Address
      BY <1>4
    <3> QED
      BY <3>1, RemoveBreakpointsOK DEF TablesOK
  <2>2. UserAddress' = {} /\ permanent' = EntryPoints /\ EntryPoints \subseteq Tracked'
    BY <1>2, <1>3, <1>6 DEF TablesOK, UserAddress, Without
  <2>3. \A a \in EntryPoints : address_to_bp'[a].holders = <<>>
    BY <1>6, <2>2 DEF TablesOK
  <2>4. \A a \in Tracked' \ EntryPoints :
           /\ a \in AllSites
           /\ address_to_bp'[a].kind = "Return"
           /\ address_to_bp'[a].saved = Code
    BY <1>4, <1>6, <1>7 DEF TablesOK
  <2>5. \A a \in Address : byte'[a] = int3 => a \in Tracked'
    BY <1>3, <1>4, <1>5, <1>6 DEF TablesOK, int3, Code
  <2> QED
    BY <2>1, <2>2, <2>3, <2>4, <2>5 DEF TablesOK
<1> QED
  BY <1>3, <1>5, <1>6, <1>8, <1>9, <1>10

----------------------------------------------------------------------------
(* Events.                                                                 *)

LEMMA PendingTyped ==
  ASSUME TypeOK, NEW t \in Thread
  PROVE  /\ pending_thread_events[t] \in Seq(Event) /\ Len(pending_thread_events[t]) \in Nat
         /\ \A i \in 1..Len(pending_thread_events[t]) :
               /\ pending_thread_events[t][i] \in Event
               /\ pending_thread_events[t][i].global_seq \in Nat
               /\ pending_thread_events[t][i].function \in EntryPoints
               /\ pending_thread_events[t][i].target \in Thread
<1>1. pending_thread_events[t] \in Seq(Event)
  BY DEF TypeOK
<1>2. \A i \in 1..Len(pending_thread_events[t]) : pending_thread_events[t][i] \in Event
  BY <1>1, ElementOfSeq
<1> QED
  BY SMTT(20), <1>1, <1>2 DEF Event

LEMMA LogTyped ==
  ASSUME TypeOK
  PROVE  /\ event_log \in Seq(Event) /\ Len(event_log) \in Nat
         /\ \A i \in 1..Len(event_log) :
               event_log[i] \in Event /\ event_log[i].global_seq \in Nat
<1>1. event_log \in Seq(Event)
  BY DEF TypeOK
<1>2. \A i \in 1..Len(event_log) : event_log[i] \in Event
  BY <1>1, ElementOfSeq
<1> QED
  BY <1>1, <1>2 DEF Event

\* The place upper_bound finds in a log that is sorted.
LEMMA UpperBound ==
  ASSUME TypeOK, LogSorted, NEW g \in Nat
  PROVE  \E n \in 0..Len(event_log) : \A i \in 1..Len(event_log) :
             event_log[i].global_seq <= g <=> i <= n
<1> DEFINE T == {n \in 0..Len(event_log) :
                    n = 0 \/ event_log[n].global_seq <= g}
<1>1. /\ T \in SUBSET Nat /\ T # {} /\ Len(event_log) \in Nat
      /\ \A n \in T : n <= Len(event_log)
  <2>1. Len(event_log) \in Nat
    BY LogTyped
  <2>2. 0 \in T
    BY <2>1
  <2> QED
    BY <2>1, <2>2
<1>2. \E n \in T : \A j \in T : j <= n
  <2> DEFINE D == {k \in Nat : \E n \in T : k = Len(event_log) - n}
  <2>1. D \in SUBSET Nat /\ D # {}
    <3>1. PICK n \in T : TRUE
      BY <1>1
    <3>2. Len(event_log) - n \in Nat
      BY <1>1, <3>1
    <3> QED
      BY <3>1, <3>2
  <2> HIDE DEF D
  <2>2. PICK k \in D : \A d \in D : k <= d
    BY <2>1, LeastMember
  <2>3. PICK n \in T : k = Len(event_log) - n
    BY <2>2 DEF D
  <2> HIDE DEF T
  <2>4. ASSUME NEW j \in T PROVE j <= n
    <3>1. Len(event_log) - j \in D
      BY <1>1 DEF D
    <3> QED
      BY <1>1, <2>2, <2>3, <3>1
  <2> QED
    BY <2>3, <2>4
<1>3. PICK n \in T : \A j \in T : j <= n
  BY <1>2
<1>4. ASSUME NEW i \in 1..Len(event_log)
      PROVE  event_log[i].global_seq <= g <=> i <= n
  <2>1. /\ event_log[i].global_seq \in Nat
        /\ n # 0 => n \in 1..Len(event_log) /\ event_log[n].global_seq \in Nat
    BY LogTyped, <1>1
  <2>2. event_log[i].global_seq <= g => i <= n
    BY <1>1, <1>3
  <2>3. i <= n => event_log[i].global_seq <= g
    BY <1>1, <2>1 DEF LogSorted
  <2> QED
    BY <2>2, <2>3
<1> QED
  BY <1>3, <1>4

\* An event is inserted after those that began before it.
LEMMA AddEventShape ==
  ASSUME TypeOK, LogSorted, NEW e \in Event, AddEvent(e)
  PROVE  \E n \in 0..Len(event_log) :
           /\ event_log' \in Seq(Event)
           /\ Len(event_log') = Len(event_log) + 1
           /\ \A i \in 1..n : /\ event_log'[i] = event_log[i]
                              /\ event_log[i].global_seq <= e.global_seq
           /\ event_log'[n + 1] = e
           /\ \A i \in (n + 1)..Len(event_log) :
                 /\ event_log'[i + 1] = event_log[i]
                 /\ ~(event_log[i].global_seq <= e.global_seq)
<1> DEFINE P(n) == \A i \in 1..Len(event_log) :
                      event_log[i].global_seq <= e.global_seq <=> i <= n
           n == CHOOSE n \in 0..Len(event_log) : P(n)
<1>1. e.global_seq \in Nat
  BY DEF Event
<1>2. n \in 0..Len(event_log) /\ P(n)
  <2>1. \E k \in 0..Len(event_log) : P(k)
    BY <1>1, UpperBound
  <2> QED
    BY <2>1
<1>3. event_log' = SubSeq(event_log, 1, n) \o <<e>> \o SubSeq(event_log, n + 1, Len(event_log))
  BY DEF AddEvent
<1> HIDE DEF n
<1>4. event_log \in Seq(Event) /\ Len(event_log) \in Nat /\ n \in Nat
  BY LogTyped, <1>2
<1> DEFINE before == SubSeq(event_log, 1, n)
           after == SubSeq(event_log, n + 1, Len(event_log))
<1>5. /\ before \in Seq(Event) /\ Len(before) = n
      /\ \A i \in 1..n : before[i] = event_log[i]
  BY <1>2, <1>4, PrefixProperties
<1>6. /\ after \in Seq(Event) /\ Len(after) = Len(event_log) - n
  BY <1>2, <1>4, SubSeqProperties
<1>7. \A i \in (n + 1)..Len(event_log) : after[i - n] = event_log[i]
  BY <1>2, <1>4
<1> HIDE DEF before, after
<1>8. /\ <<e>> \in Seq(Event) /\ Len(<<e>>) = 1 /\ <<e>>[1] = e
  OBVIOUS
<1> DEFINE one == <<e>>
           left == before \o one
<1>9. one \in Seq(Event) /\ Len(one) = 1 /\ one[1] = e
  BY <1>8
<1> HIDE DEF one
<1>10. /\ left \in Seq(Event) /\ Len(left) = n + 1
       /\ \A i \in 1..n : left[i] = event_log[i]
       /\ left[n + 1] = e
  <2>1. /\ left \in Seq(Event) /\ Len(left) = Len(before) + Len(one)
        /\ \A j \in 1..(Len(before) + Len(one)) :
              left[j] = IF j <= Len(before) THEN before[j] ELSE one[j - Len(before)]
    BY <1>5, <1>9, ConcatProperties
  <2> HIDE DEF left
  <2>2. Len(left) = n + 1
    BY <2>1, <1>4, <1>5, <1>9
  <2>3. ASSUME NEW i \in 1..n PROVE left[i] = event_log[i]
    <3>1. i \in 1..(Len(before) + Len(one)) /\ i <= Len(before)
      BY <1>4, <1>5, <1>9
    <3>2. left[i] = before[i]
      BY <2>1, <3>1
    <3> QED
      BY <1>5, <3>2
  <2>4. left[n + 1] = e
    <3>1. /\ n + 1 \in 1..(Len(before) + Len(one)) /\ ~(n + 1 <= Len(before))
          /\ (n + 1) - Len(before) = 1
      BY <1>4, <1>5, <1>9
    <3>2. left[n + 1] = one[(n + 1) - Len(before)]
      BY <2>1, <3>1
    <3> QED
      BY <1>9, <3>1, <3>2
  <2> QED
    BY <2>1, <2>2, <2>3, <2>4
<1>11. event_log' = left \o after
  BY <1>3 DEF before, after, one
<1> HIDE DEF left
<1>12. /\ event_log' \in Seq(Event) /\ Len(event_log') = Len(event_log) + 1
       /\ \A i \in 1..(n + 1) : event_log'[i] = left[i]
  BY <1>4, <1>6, <1>10, <1>11, ConcatProperties
<1>13. \A i \in (n + 1)..Len(event_log) : event_log'[i + 1] = after[i - n]
  <2>1. \A j \in 1..(Len(left) + Len(after)) :
           event_log'[j] = IF j <= Len(left) THEN left[j] ELSE after[j - Len(left)]
    BY <1>6, <1>10, <1>11, ConcatProperties
  <2> QED
    BY <2>1, <1>2, <1>4, <1>6, <1>10
<1>14. \A i \in 1..n : event_log'[i] = event_log[i] /\ event_log[i].global_seq <= e.global_seq
  BY <1>2, <1>4, <1>10, <1>12
<1>15. event_log'[n + 1] = e
  BY <1>4, <1>10, <1>12
<1>16. \A i \in (n + 1)..Len(event_log) :
          /\ event_log'[i + 1] = event_log[i]
          /\ ~(event_log[i].global_seq <= e.global_seq)
  BY <1>2, <1>4, <1>7, <1>13
<1> QED
  BY <1>2, <1>12, <1>14, <1>15, <1>16

----------------------------------------------------------------------------
(* The steps.                                                              *)

\* Everything but the stops of the threads and the phase.
recorded == <<breakpointVars, status, at, frames, events, threads>>

\* The debugger has one of four reasons for a stop; which one the place of the
\* thread and its holds decide.
LEMMA HandleCases ==
  ASSUME Basics, NEW t \in Thread, HandleBreakpoint(t)
  PROVE  /\ phase = "recording" /\ stopped[t]
         /\ stopped' = [stopped EXCEPT ![t] = FALSE]
         /\ at[t] \in {"entry", "return"}
         /\ \/ at[t] = "entry" /\ OnBreakpointEnter(t)
            \/ /\ at[t] = "return"
               /\ Rip(t) \in Tracked \ EntryPoints /\ t \in Holders(Rip(t))
               /\ OnBreakpointReturn(t)
            \/ /\ at[t] = "return" /\ t \notin Holders(Rip(t))
               /\ UNCHANGED <<recorded, phase>>
            \/ /\ at[t] = "return" /\ Rip(t) \notin Tracked
               /\ phase' = "aborted" /\ UNCHANGED recorded
<1>1. /\ phase = "recording" /\ stopped[t]
      /\ stopped' = [stopped EXCEPT ![t] = FALSE]
      /\ \/ GetBreakpointType(Rip(t), t) = "Permanent" /\ OnBreakpointEnter(t)
         \/ GetBreakpointType(Rip(t), t) = "Return" /\ OnBreakpointReturn(t)
         \/ /\ GetBreakpointType(Rip(t), t) = "SpinLock"
            /\ UNCHANGED <<recorded, phase>>
         \/ /\ GetBreakpointType(Rip(t), t) = NoBreakpoint
            /\ phase' = "aborted" /\ UNCHANGED recorded
  BY DEF HandleBreakpoint, Resume, recorded
<1>2. at[t] \in {"entry", "return"}
  BY <1>1 DEF Basics, CallsOK
<1>3. CASE at[t] = "entry"
  <2>1. Rip(t) \in EntryPoints
    BY <1>3, TopTyped DEF Basics, Rip
  <2>2. GetBreakpointType(Rip(t), t) = "Permanent"
    BY <2>1 DEF Basics, TablesOK, GetBreakpointType
  <2> QED
    BY <1>1, <1>3, <2>2 DEF NoBreakpoint
<1>4. CASE at[t] = "return"
  <2>1. Rip(t) \in AllSites /\ Rip(t) \notin EntryPoints
    BY <1>4, TopTyped, RecordingAssumption DEF Basics, Rip, AllSites
  <2>2. Rip(t) \in Tracked => address_to_bp[Rip(t)].kind = "Return"
    BY <2>1 DEF Basics, TablesOK
  <2>3. GetBreakpointType(Rip(t), t) =
            IF Rip(t) \notin Tracked THEN NoBreakpoint
            ELSE IF t \notin Holders(Rip(t)) THEN "SpinLock" ELSE "Return"
    BY <2>1, <2>2 DEF Basics, TablesOK, GetBreakpointType
  <2> QED
    BY <1>1, <1>4, <2>1, <2>3 DEF NoBreakpoint
<1> QED
  BY <1>1, <1>2, <1>3, <1>4

\* A call has been seen: its event waits on top of the thread's stack.
LEMMA EnterShape ==
  ASSUME Basics, NEW t \in Thread, at[t] = "entry", OnBreakpointEnter(t)
  PROVE  /\ at' = [at EXCEPT ![t] = "body"]
         /\ frames' = OpenTop(t, TRUE)
         /\ Top(frames[t]).site \in AllSites
         /\ CreateHeldBreakpoints({Top(frames[t]).site}, t, "Return")
         /\ TablesOK'
         /\ \E e \in Event :
               /\ e.global_seq = global_sequence
               /\ e.function = Top(frames[t]).function
               /\ e.target = Top(frames[t]).target
               /\ pending_thread_events' =
                     [pending_thread_events EXCEPT ![t] = Append(pending_thread_events[t], e)]
         /\ global_sequence' = global_sequence + 1
         /\ thread_id_to_sequence' \in [Thread -> Nat]
         /\ UNCHANGED <<status, phase, event_log, threads>>
<1> DEFINE e == NewEvent(t, Top(frames[t]).function, Top(frames[t]).target)
<1>1. /\ at' = [at EXCEPT ![t] = "body"]
      /\ frames' = OpenTop(t, TRUE)
      /\ CreateHeldBreakpoints({Top(frames[t]).site}, t, "Return")
      /\ pending_thread_events' =
            [pending_thread_events EXCEPT ![t] = Append(pending_thread_events[t], e)]
      /\ global_sequence' = global_sequence + 1
      /\ thread_id_to_sequence' = [thread_id_to_sequence EXCEPT ![t] = @ + 1]
      /\ UNCHANGED <<status, phase, event_log, threads>>
  BY DEF OnBreakpointEnter
<1>2. /\ Top(frames[t]).function \in EntryPoints
      /\ Top(frames[t]).target \in Thread
      /\ Top(frames[t]).site \in AllSites /\ Top(frames[t]).site \in Address
  BY TopTyped DEF Basics, AllSites
<1>3. e \in Event /\ e.global_seq = global_sequence
      /\ e.function = Top(frames[t]).function /\ e.target = Top(frames[t]).target
  BY <1>2 DEF NewEvent, Event, run_sequence, Basics, TypeOK
<1>4. thread_id_to_sequence' \in [Thread -> Nat]
  BY <1>1 DEF Basics, TypeOK
<1>5. TablesOK'
  BY <1>1, <1>2, CreateShape, RecordingAssumption DEF Basics
<1> HIDE DEF e
<1> QED
  BY <1>1, <1>2, <1>3, <1>4, <1>5

\* A call has returned: the event on top of the thread's stack is logged.
LEMMA ReturnShape ==
  ASSUME Basics, NEW t \in Thread, at[t] = "return",
         Rip(t) \in Tracked \ EntryPoints, t \in Holders(Rip(t)),
         OnBreakpointReturn(t), pending_thread_events[t] # <<>>
  PROVE  /\ frames' = OpenTop(t, FALSE)
         /\ Rip(t) = Top(frames[t]).site
         /\ RemoveBreakpoints({Rip(t)}, t)
         /\ TablesOK'
         /\ Top(pending_thread_events[t]) \in Event
         /\ FinishEvent(Top(pending_thread_events[t]))
         /\ AddEvent(Top(pending_thread_events[t]))
         /\ pending_thread_events' =
               [pending_thread_events EXCEPT ![t] = Pop(pending_thread_events[t])]
         /\ current_thread_ids' \subseteq Thread
         /\ UNCHANGED <<status, at, phase, global_sequence, thread_id_to_sequence>>
<1>1. /\ FinishEvent(Top(pending_thread_events[t]))
      /\ AddEvent(Top(pending_thread_events[t]))
      /\ pending_thread_events' =
            [pending_thread_events EXCEPT ![t] = Pop(pending_thread_events[t])]
      /\ RemoveBreakpoints({Rip(t)}, t)
      /\ frames' = OpenTop(t, FALSE)
      /\ UNCHANGED <<status, at, phase, global_sequence, thread_id_to_sequence>>
  BY DEF OnBreakpointReturn, PopEvent
<1>2. Top(pending_thread_events[t]) \in Event
  BY PendingTyped, PopProperties DEF Basics
<1>3. Rip(t) = Top(frames[t]).site
  BY DEF Rip
<1>4. TablesOK'
  BY <1>1, RemoveShape DEF Basics
<1>5. current_thread_ids' \subseteq Thread
  <2>1. Top(pending_thread_events[t]).target \in Thread
    BY <1>2 DEF Event
  <2>2. current_thread_ids \subseteq Thread
    BY DEF Basics, TypeOK
  <2> QED
    BY <1>1, <2>1, <2>2 DEF FinishEvent, TrackThread, UntrackThread, threads
<1> QED
  BY <1>1, <1>2, <1>3, <1>4, <1>5

----------------------------------------------------------------------------
(* The basic invariant.                                                    *)

LEMMA InitBasics == Init => Basics
<1> SUFFICES ASSUME Init PROVE Basics
  OBVIOUS
<1> USE DEF Init
<1>1. Tracked = EntryPoints /\ UserAddress = {}
  BY DEF Tracked, UserAddress
<1>2. \A a \in EntryPoints :
         address_to_bp[a] = [saved |-> Code, kind |-> "Permanent", count |-> 1, holders |-> <<>>]
  OBVIOUS
<1>3. \A a \in Tracked : BreakpointOK(address_to_bp[a])
  <2>1. <<>> \in Seq(Thread) /\ Len(<<>>) = 0
    OBVIOUS
  <2> DEFINE bp == [saved |-> Code, kind |-> "Permanent", count |-> 1, holders |-> <<>>]
  <2>2. BreakpointOK(bp)
    BY <2>1 DEF BreakpointOK, Breakpoint, Byte, Kind, Held
  <2> HIDE DEF bp, Init
  <2>3. \A a \in EntryPoints : address_to_bp[a] = bp
    BY <1>2 DEF bp
  <2> QED
    BY <2>2, <2>3, <1>1
<1>4. BreakpointTypeOK
  BY <1>1, <1>3, RecordingAssumption DEF BreakpointTypeOK, BreakpointOK, Byte
<1>5. TablesOK
  BY <1>1, <1>2, <1>3, <1>4 DEF TablesOK, ManagerOK, int3, Code
<1>6. TypeOK
  <2>1. frames \in [Thread -> Seq(CallFrame)] /\ pending_thread_events \in [Thread -> Seq(Event)]
    OBVIOUS
  <2>2. event_log \in Seq(Event)
    OBVIOUS
  <2>3. thread_id_to_sequence \in [Thread -> Nat] /\ global_sequence \in Nat
    OBVIOUS
  <2>4. /\ status \in [Thread -> {"unborn", "reserved", "alive", "dead"}]
        /\ at \in [Thread -> {"code", "entry", "body", "return"}]
        /\ stopped \in [Thread -> BOOLEAN]
        /\ phase \in {"recording", "restoring", "aborted"}
    OBVIOUS
  <2>5. current_thread_ids \subseteq Thread
    BY RecordingAssumption
  <2> QED
    BY <1>4, <2>1, <2>2, <2>3, <2>4, <2>5 DEF TypeOK, CallFrame
<1>7. CallsOK
  BY DEF CallsOK
<1>8. EventsOK
  BY DEF EventsOK
<1>9. LogSorted
  BY DEF LogSorted
<1> QED
  BY <1>5, <1>6, <1>7, <1>8, <1>9 DEF Basics

\* A thread that runs changes neither the tables nor the events.
LEMMA DebuggerUntouched ==
  ASSUME Basics, UNCHANGED <<breakpointVars, events>>
  PROVE  TablesOK' /\ EventsOK' /\ LogSorted'
<1>1. TablesOK'
  BY DEF Basics, TablesOK, ManagerOK, BreakpointTypeOK, BreakpointOK, breakpointVars,
         tables, Tracked, UserAddress
<1>2. EventsOK' /\ LogSorted'
  BY DEF Basics, EventsOK, LogSorted, events
<1> QED
  BY <1>1, <1>2

LEMMA CallBasics ==
  ASSUME Basics, NEW t \in Thread, NEW function \in EntryPoints,
         NEW site \in ReturnSites[t], NEW target \in Targets(t, function),
         Call(t, function, site, target)
  PROVE  /\ Basics'
         /\ target \in Thread
         /\ frames'[t] = Append(frames[t], Frame(function, site, target))
         /\ \A u \in Thread : u # t => frames'[u] = frames[u]
<1> DEFINE new == Frame(function, site, target)
           s == Append(frames[t], new)
<1>1. target \in Thread
  BY RecordingAssumption DEF Targets, EntryPoints
<1>2. new \in CallFrame /\ new.open = FALSE /\ new.site = site
  BY <1>1, RecordingAssumption DEF Frame, CallFrame
<1> HIDE DEF new
<1>3. /\ frames[t] \in Seq(CallFrame) /\ frames \in [Thread -> Seq(CallFrame)]
  BY DEF Basics, TypeOK, CallFrame
<1>4. /\ s \in Seq(CallFrame)
      /\ Len(s) = Len(frames[t]) + 1 /\ Len(frames[t]) \in Nat
      /\ \A i \in 1..Len(frames[t]) : s[i] = frames[t][i]
      /\ s[Len(frames[t]) + 1] = new /\ Top(s) = new /\ s # <<>>
  BY <1>2, <1>3, PushProperties
<1>5. /\ frames' = [frames EXCEPT ![t] = s] /\ at' = [at EXCEPT ![t] = "entry"]
      /\ at[t] = "code" \/ (at[t] = "body" /\ Top(frames[t]).function = LoadDll)
      /\ ~stopped[t]
      /\ UNCHANGED <<breakpointVars, stopped, phase, events, threads>>
      /\ status' \in [Thread -> {"unborn", "reserved", "alive", "dead"}]
  BY <1>1 DEF Call, Runs, new, Basics, TypeOK
<1> HIDE DEF s
<1>6. TypeOK'
  <2>1. frames' \in [Thread -> Seq(CallFrame)]
    BY <1>3, <1>4, <1>5
  <2>2. at' \in [Thread -> {"code", "entry", "body", "return"}]
    BY <1>5 DEF Basics, TypeOK
  <2>3. BreakpointTypeOK'
    BY <1>5, DebuggerUntouched DEF TablesOK, ManagerOK
  <2> QED
    BY <1>5, <2>1, <2>2, <2>3 DEF Basics, TypeOK, CallFrame, events, threads
<1>7. CallsOK'
  <2> SUFFICES ASSUME NEW u \in Thread
               PROVE  /\ frames'[u] = <<>> <=> at'[u] = "code"
                      /\ stopped'[u] => at'[u] \in {"entry", "return"}
                      /\ \A i \in 1..Len(frames'[u]) : frames'[u][i].site \in ReturnSites[u]
                      /\ \A i \in 1..(Len(frames'[u]) - 1) :
                            frames'[u][i].open /\ frames'[u][i].function = LoadDll
                      /\ at'[u] = "entry" => ~Top(frames'[u]).open
                      /\ at'[u] = "body" => Top(frames'[u]).open
    BY DEF CallsOK
  <2>1. CASE u # t
    <3>1. frames'[u] = frames[u] /\ at'[u] = at[u] /\ stopped'[u] = stopped[u]
      BY <2>1, <1>3, <1>5 DEF Basics, TypeOK
    <3> QED
      BY <3>1 DEF Basics, CallsOK
  <2>2. CASE u = t
    <3>1. frames'[u] = s /\ at'[u] = "entry" /\ ~stopped'[u]
      BY <2>2, <1>3, <1>5 DEF Basics, TypeOK
    <3>2. \A i \in 1..Len(s) : i \in 1..Len(frames[t]) \/ i = Len(frames[t]) + 1
      BY <1>4
    <3>3. \A i \in 1..Len(s) : s[i].site \in ReturnSites[t]
      BY <1>2, <1>4, <3>2 DEF Basics, CallsOK
    <3>4. \A i \in 1..Len(frames[t]) : s[i].open /\ s[i].function = LoadDll
      <4>1. CASE at[t] = "code"
        <5>1. Len(frames[t]) = 0
          BY <4>1 DEF Basics, CallsOK
        <5> QED
          BY <5>1
      <4>2. CASE at[t] = "body" /\ Top(frames[t]).function = LoadDll
        <5>1. \A i \in 1..Len(frames[t]) : i \in 1..(Len(frames[t]) - 1) \/ i = Len(frames[t])
          BY <1>4
        <5>2. /\ frames[t][Len(frames[t])].open
              /\ frames[t][Len(frames[t])].function = LoadDll
          BY <4>2 DEF Basics, CallsOK, Top
        <5> QED
          BY <5>1, <5>2, <1>4 DEF Basics, CallsOK
      <4> QED
        BY <4>1, <4>2, <1>5
    <3> QED
      BY <2>2, <3>1, <3>3, <3>4, <1>2, <1>4
  <2> QED
    BY <2>1, <2>2
<1>8. Basics'
  BY <1>5, <1>6, <1>7, DebuggerUntouched DEF Basics
<1> QED
  BY <1>1, <1>3, <1>5, <1>8 DEF s, new

LEMMA StopBasics ==
  ASSUME Basics, NEW t \in Thread, Stop(t)
  PROVE  Basics'
<1>1. /\ at[t] \in {"entry", "return"}
      /\ stopped' = [stopped EXCEPT ![t] = TRUE]
      /\ UNCHANGED <<breakpointVars, status, at, frames, phase, events, threads>>
  BY DEF Stop
<1>2. TypeOK'
  <2>1. BreakpointTypeOK'
    BY <1>1, DebuggerUntouched DEF TablesOK, ManagerOK
  <2> QED
    BY <1>1, <2>1 DEF Basics, TypeOK, events, threads
<1>3. CallsOK'
  BY <1>1 DEF Basics, CallsOK, TypeOK
<1> QED
  BY <1>1, <1>2, <1>3, DebuggerUntouched DEF Basics

LEMMA ReturnBasics ==
  ASSUME Basics, NEW t \in Thread, Return(t)
  PROVE  /\ Basics'
         /\ frames'[t] = Pop(frames[t])
         /\ \A u \in Thread : u # t => frames'[u] = frames[u]
<1> DEFINE s == Pop(frames[t])
<1>1. /\ at[t] = "return" /\ ~stopped[t]
      /\ frames' = [frames EXCEPT ![t] = s]
      /\ at' = [at EXCEPT ![t] = IF Len(frames[t]) = 1 THEN "code" ELSE "body"]
      /\ UNCHANGED <<breakpointVars, status, stopped, phase, events, threads>>
  BY DEF Return, Runs
<1>2. /\ frames[t] \in Seq(CallFrame) /\ frames \in [Thread -> Seq(CallFrame)]
      /\ frames[t] # <<>>
  BY <1>1 DEF Basics, TypeOK, CallFrame, CallsOK
<1>3. /\ Len(frames[t]) \in Nat /\ Len(frames[t]) >= 1
      /\ s \in Seq(CallFrame)
      /\ Len(s) = Len(frames[t]) - 1
      /\ \A i \in 1..(Len(frames[t]) - 1) : s[i] = frames[t][i]
      /\ s = <<>> <=> Len(frames[t]) = 1
  BY <1>2, PopProperties
<1> HIDE DEF s
<1>4. TypeOK'
  <2>1. frames' \in [Thread -> Seq(CallFrame)]
    BY <1>1, <1>2, <1>3
  <2>2. at' \in [Thread -> {"code", "entry", "body", "return"}]
    BY <1>1 DEF Basics, TypeOK
  <2>3. BreakpointTypeOK'
    BY <1>1, DebuggerUntouched DEF TablesOK, ManagerOK
  <2> QED
    BY <1>1, <2>1, <2>2, <2>3 DEF Basics, TypeOK, CallFrame, events, threads
<1>5. CallsOK'
  <2> SUFFICES ASSUME NEW u \in Thread
               PROVE  /\ frames'[u] = <<>> <=> at'[u] = "code"
                      /\ stopped'[u] => at'[u] \in {"entry", "return"}
                      /\ \A i \in 1..Len(frames'[u]) : frames'[u][i].site \in ReturnSites[u]
                      /\ \A i \in 1..(Len(frames'[u]) - 1) :
                            frames'[u][i].open /\ frames'[u][i].function = LoadDll
                      /\ at'[u] = "entry" => ~Top(frames'[u]).open
                      /\ at'[u] = "body" => Top(frames'[u]).open
    BY DEF CallsOK
  <2>1. CASE u # t
    <3>1. frames'[u] = frames[u] /\ at'[u] = at[u] /\ stopped'[u] = stopped[u]
      BY <2>1, <1>1, <1>2 DEF Basics, TypeOK
    <3> QED
      BY <3>1 DEF Basics, CallsOK
  <2>2. CASE u = t
    <3>1. /\ frames'[u] = s /\ ~stopped'[u]
          /\ at'[u] = IF Len(frames[t]) = 1 THEN "code" ELSE "body"
      BY <2>2, <1>1, <1>2 DEF Basics, TypeOK
    <3>2. /\ \A i \in 1..Len(s) : s[i].site \in ReturnSites[t]
          /\ \A i \in 1..Len(s) : s[i].open /\ s[i].function = LoadDll
      BY <1>3 DEF Basics, CallsOK
    <3>3. Len(frames[t]) # 1 => Top(s).open
      BY <1>3, <3>2 DEF Top
    <3> QED
      BY <2>2, <3>1, <3>2, <3>3, <1>3
  <2> QED
    BY <2>1, <2>2
<1>6. Basics'
  BY <1>1, <1>4, <1>5, DebuggerUntouched DEF Basics
<1> QED
  BY <1>1, <1>2, <1>6 DEF s

LEMMA PerformBasics ==
  ASSUME Basics, NEW t \in Thread, Perform(t)
  PROVE  Basics'
<1> DEFINE frame == Top(frames[t])
<1>1. /\ at[t] = "body" /\ ~stopped[t]
      /\ at' = [at EXCEPT ![t] = "return"]
      /\ \/ status' = [status EXCEPT ![frame.target] = "alive"]
         \/ status' = [status EXCEPT ![frame.target] = "dead"]
         \/ status' = status
      /\ \/ stopped' = [stopped EXCEPT ![frame.target] = FALSE]
         \/ stopped' = stopped
      /\ UNCHANGED <<breakpointVars, frames, phase, events, threads>>
  BY TopTyped DEF Perform, Runs, Basics, EntryPoints
<1>2. frame.target \in Thread /\ frames[t] # <<>>
  BY <1>1, TopTyped DEF Basics, CallsOK
<1> HIDE DEF frame
<1>3. TypeOK'
  <2>1. BreakpointTypeOK'
    BY <1>1, DebuggerUntouched DEF TablesOK, ManagerOK
  <2>2. /\ status' \in [Thread -> {"unborn", "reserved", "alive", "dead"}]
        /\ stopped' \in [Thread -> BOOLEAN]
        /\ at' \in [Thread -> {"code", "entry", "body", "return"}]
    BY <1>1 DEF Basics, TypeOK
  <2> QED
    BY <1>1, <2>1, <2>2 DEF Basics, TypeOK, events, threads
<1>4. CallsOK'
  <2>1. \A u \in Thread : stopped'[u] => stopped[u]
    BY <1>1 DEF Basics, TypeOK
  <2>2. \A u \in Thread : at'[u] = IF u = t THEN "return" ELSE at[u]
    BY <1>1 DEF Basics, TypeOK
  <2> QED
    BY <1>1, <1>2, <2>1, <2>2 DEF Basics, CallsOK
<1> QED
  BY <1>1, <1>3, <1>4, DebuggerUntouched DEF Basics

\* Handling a stop leaves the shape of the calls: the innermost is opened at
\* its entry or closed at its return.
LEMMA CallsHandled ==
  ASSUME Basics, NEW t \in Thread, NEW open \in BOOLEAN, frames' = OpenTop(t, open),
         stopped' = [stopped EXCEPT ![t] = FALSE],
         \/ at[t] = "entry" /\ at' = [at EXCEPT ![t] = "body"] /\ open
         \/ at[t] = "return" /\ at' = at
  PROVE  CallsOK' /\ frames' \in [Thread -> Seq(CallFrame)]
<1>1. /\ frames' \in [Thread -> Seq(CallFrame)]
      /\ \A u \in Thread \ {t} : frames'[u] = frames[u]
      /\ Len(frames'[t]) = Len(frames[t])
      /\ \A i \in 1..(Len(frames[t]) - 1) : frames'[t][i] = frames[t][i]
      /\ \A i \in 1..Len(frames[t]) :
            /\ frames'[t][i].function = frames[t][i].function
            /\ frames'[t][i].site = frames[t][i].site
            /\ frames'[t][i].target = frames[t][i].target
      /\ frames'[t][Len(frames[t])].open = open
  BY OpenTopShape DEF Basics
<1>2. /\ Len(frames[t]) \in Nat /\ Len(frames[t]) >= 1
      /\ frames'[t] \in Seq(CallFrame)
  BY <1>1, TopTyped DEF Basics
<1>3. /\ at \in [Thread -> {"code", "entry", "body", "return"}]
      /\ stopped \in [Thread -> BOOLEAN]
  BY DEF Basics, TypeOK
<1>4. CallsOK'
  <2> SUFFICES ASSUME NEW u \in Thread
               PROVE  /\ frames'[u] = <<>> <=> at'[u] = "code"
                      /\ stopped'[u] => at'[u] \in {"entry", "return"}
                      /\ \A i \in 1..Len(frames'[u]) : frames'[u][i].site \in ReturnSites[u]
                      /\ \A i \in 1..(Len(frames'[u]) - 1) :
                            frames'[u][i].open /\ frames'[u][i].function = LoadDll
                      /\ at'[u] = "entry" => ~Top(frames'[u]).open
                      /\ at'[u] = "body" => Top(frames'[u]).open
    BY DEF CallsOK
  <2>1. CASE u # t
    <3>1. frames'[u] = frames[u] /\ at'[u] = at[u] /\ stopped'[u] = stopped[u]
      BY <2>1, <1>1, <1>3
    <3> QED
      BY <3>1 DEF Basics, CallsOK
  <2>2. CASE u = t
    <3>1. /\ ~stopped'[u] /\ at'[u] \in {"body", "return"}
          /\ at'[u] = "body" => open
      BY <2>2, <1>3
    <3>2. frames'[u] # <<>>
      BY <2>2, <1>1, <1>2, EmptySeq
    <3>3. /\ \A i \in 1..Len(frames[t]) : frames'[t][i].site \in ReturnSites[t]
          /\ \A i \in 1..(Len(frames[t]) - 1) :
                frames'[t][i].open /\ frames'[t][i].function = LoadDll
      BY <1>1 DEF Basics, CallsOK
    <3>4. Top(frames'[t]).open = open
      BY <1>1 DEF Top
    <3> QED
      BY <2>2, <3>1, <3>2, <3>3, <3>4, <1>1
  <2> QED
    BY <2>1, <2>2
<1> QED
  BY <1>1, <1>4

LEMMA EnterBasics ==
  ASSUME Basics, NEW t \in Thread, at[t] = "entry", OnBreakpointEnter(t),
         stopped' = [stopped EXCEPT ![t] = FALSE]
  PROVE  Basics'
<1>1. /\ at' = [at EXCEPT ![t] = "body"]
      /\ frames' = OpenTop(t, TRUE)
      /\ TablesOK'
      /\ \E e \in Event :
            /\ e.global_seq = global_sequence
            /\ pending_thread_events' =
                  [pending_thread_events EXCEPT ![t] = Append(pending_thread_events[t], e)]
      /\ global_sequence' = global_sequence + 1
      /\ thread_id_to_sequence' \in [Thread -> Nat]
      /\ UNCHANGED <<status, phase, event_log, threads>>
  BY EnterShape
<1>2. PICK e \in Event :
         /\ e.global_seq = global_sequence
         /\ pending_thread_events' =
               [pending_thread_events EXCEPT ![t] = Append(pending_thread_events[t], e)]
  BY <1>1
<1> DEFINE s == Append(pending_thread_events[t], e)
<1>3. /\ s \in Seq(Event)
      /\ Len(s) = Len(pending_thread_events[t]) + 1
      /\ Len(pending_thread_events[t]) \in Nat
      /\ \A i \in 1..Len(pending_thread_events[t]) : s[i] = pending_thread_events[t][i]
      /\ s[Len(pending_thread_events[t]) + 1] = e
  BY <1>2, PendingTyped, PushProperties DEF Basics
<1>4. /\ pending_thread_events \in [Thread -> Seq(Event)]
      /\ pending_thread_events' = [pending_thread_events EXCEPT ![t] = s]
      /\ global_sequence \in Nat
  BY <1>2 DEF Basics, TypeOK
<1> HIDE DEF s
<1>5. CallsOK' /\ frames' \in [Thread -> Seq(CallFrame)]
  BY <1>1, CallsHandled
<1>6. TypeOK'
  <2>1. BreakpointTypeOK'
    BY <1>1 DEF TablesOK, ManagerOK
  <2>2. pending_thread_events' \in [Thread -> Seq(Event)]
    BY <1>3, <1>4
  <2>3. /\ at' \in [Thread -> {"code", "entry", "body", "return"}]
        /\ stopped' \in [Thread -> BOOLEAN]
        /\ global_sequence' \in Nat
    BY <1>1 DEF Basics, TypeOK
  <2> QED
    BY <1>1, <1>5, <2>1, <2>2, <2>3 DEF Basics, TypeOK, CallFrame, threads
<1>7. EventsOK'
  <2> DEFINE pend == pending_thread_events
  <2>1. \A u \in Thread : pend'[u] = IF u = t THEN s ELSE pend[u]
    BY <1>4
  <2>2. \A i \in 1..Len(s) : i \in 1..Len(pend[t]) \/ i = Len(pend[t]) + 1
    BY <1>3
  \* Every pending event is an old one in its old place, or the new one.
  <2>3. \A u \in Thread : \A i \in 1..Len(pend'[u]) :
           \/ i \in 1..Len(pend[u]) /\ pend'[u][i].global_seq = pend[u][i].global_seq
           \/ /\ u = t /\ i = Len(pend[t]) + 1
              /\ pend'[u][i].global_seq = global_sequence
    BY <1>2, <1>3, <2>1, <2>2
  <2>4. \A i \in 1..Len(event_log') : event_log'[i].global_seq < global_sequence'
    BY <1>1, <1>4, LogTyped DEF Basics, EventsOK
  <2>5. ASSUME NEW u \in Thread, NEW i \in 1..Len(pend'[u])
        PROVE  /\ pend'[u][i].global_seq < global_sequence'
               /\ \A j \in 1..Len(event_log') :
                     event_log'[j].global_seq # pend'[u][i].global_seq
    <3>1. \A j \in 1..Len(event_log) :
             event_log[j].global_seq \in Nat /\ event_log[j].global_seq < global_sequence
      BY LogTyped DEF Basics, EventsOK
    <3>2. \A j \in 1..Len(pend[u]) :
             pend[u][j].global_seq \in Nat /\ pend[u][j].global_seq < global_sequence
      BY PendingTyped DEF Basics, EventsOK
    <3> QED
      BY <1>1, <1>4, <2>3, <2>5, <3>1, <3>2 DEF Basics, EventsOK
  <2>6. ASSUME NEW u \in Thread, NEW i \in 1..Len(pend'[u]),
               NEW v \in Thread, NEW j \in 1..Len(pend'[v]),
               pend'[u][i].global_seq = pend'[v][j].global_seq
        PROVE  u = v /\ i = j
    <3>1. \A w \in Thread : \A k \in 1..Len(pend[w]) :
             pend[w][k].global_seq \in Nat /\ pend[w][k].global_seq < global_sequence
      BY PendingTyped DEF Basics, EventsOK
    <3> QED
      BY <1>4, <2>3, <2>6, <3>1 DEF Basics, EventsOK
  <2>7. ASSUME NEW g \in 0..(global_sequence' - 1)
        PROVE  \/ \E i \in 1..Len(event_log') : event_log'[i].global_seq = g
               \/ \E u \in Thread : \E i \in 1..Len(pend'[u]) : pend'[u][i].global_seq = g
    <3>1. CASE g = global_sequence
      <4>1. /\ Len(pend[t]) + 1 \in 1..Len(pend'[t])
            /\ pend'[t][Len(pend[t]) + 1].global_seq = global_sequence
        BY <1>2, <1>3, <2>1
      <4> QED
        BY <3>1, <4>1
    <3>2. CASE g # global_sequence
      <4>1. g \in 0..(global_sequence - 1)
        BY <1>1, <1>4, <3>2
      <4>2. CASE \E i \in 1..Len(event_log) : event_log[i].global_seq = g
        BY <4>2, <1>1
      <4>3. CASE \E u \in Thread : \E i \in 1..Len(pend[u]) : pend[u][i].global_seq = g
        <5>0. PICK u \in Thread : \E i \in 1..Len(pend[u]) : pend[u][i].global_seq = g
          BY <4>3
        <5>1. PICK i \in 1..Len(pend[u]) : pend[u][i].global_seq = g
          BY <5>0
        <5>2. i \in 1..Len(pend'[u]) /\ pend'[u][i].global_seq = g
          BY <5>1, <1>3, <2>1
        <5> QED
          BY <5>2
      <4> QED
        BY <4>1, <4>2, <4>3 DEF Basics, EventsOK
    <3> QED
      BY <3>1, <3>2
  <2> QED
    BY <2>4, <2>5, <2>6, <2>7 DEF EventsOK
<1>8. LogSorted'
  BY <1>1 DEF Basics, LogSorted
<1> QED
  BY <1>1, <1>5, <1>6, <1>7, <1>8 DEF Basics

\* Logging the event on top of a stack keeps every sequence in one place, and
\* the log in order.
LEMMA EventLogged ==
  ASSUME Basics, NEW t \in Thread, pending_thread_events[t] # <<>>,
         AddEvent(Top(pending_thread_events[t])),
         pending_thread_events' =
            [pending_thread_events EXCEPT ![t] = Pop(pending_thread_events[t])],
         global_sequence' = global_sequence
  PROVE  /\ EventsOK' /\ LogSorted'
         /\ event_log' \in Seq(Event)
         /\ pending_thread_events' \in [Thread -> Seq(Event)]
<1> DEFINE pend == pending_thread_events
           n == Len(pend[t])
           e == pend[t][n]
           s == Pop(pend[t])
           L == Len(event_log)
<1>1. /\ n \in Nat /\ n >= 1
      /\ s \in Seq(Event) /\ Len(s) = n - 1
      /\ \A i \in 1..(n - 1) : s[i] = pend[t][i]
      /\ Top(pend[t]) = e /\ e \in Event
  BY PendingTyped, PopProperties DEF Basics
<1>2. /\ pend \in [Thread -> Seq(Event)] /\ pend' = [pend EXCEPT ![t] = s]
      /\ global_sequence \in Nat
  BY DEF Basics, TypeOK
<1> DEFINE top == Top(pending_thread_events[t])
<1>2a. top \in Event /\ AddEvent(top) /\ TypeOK /\ LogSorted
  BY <1>1 DEF Basics
<1> HIDE DEF top
<1>2b. \E k \in 0..Len(event_log) :
         /\ event_log' \in Seq(Event)
         /\ Len(event_log') = Len(event_log) + 1
         /\ \A i \in 1..k : /\ event_log'[i] = event_log[i]
                            /\ event_log[i].global_seq <= top.global_seq
         /\ event_log'[k + 1] = top
         /\ \A i \in (k + 1)..Len(event_log) :
               /\ event_log'[i + 1] = event_log[i]
               /\ ~(event_log[i].global_seq <= top.global_seq)
  BY <1>2a, AddEventShape
<1>2c. top = e
  BY <1>1 DEF top
<1>3. PICK k \in 0..L :
         /\ event_log' \in Seq(Event)
         /\ Len(event_log') = L + 1
         /\ \A i \in 1..k : /\ event_log'[i] = event_log[i]
                            /\ event_log[i].global_seq <= e.global_seq
         /\ event_log'[k + 1] = e
         /\ \A i \in (k + 1)..L : /\ event_log'[i + 1] = event_log[i]
                                  /\ ~(event_log[i].global_seq <= e.global_seq)
  BY <1>2b, <1>2c
<1> HIDE DEF s
<1>4. L \in Nat /\ k \in Nat /\ k <= L /\ \A i \in 1..L : event_log[i].global_seq \in Nat
  BY LogTyped DEF Basics
<1>5. /\ e.global_seq \in Nat /\ e.global_seq < global_sequence
      /\ \A i \in 1..L : event_log[i].global_seq # e.global_seq
      /\ \A i \in 1..L : event_log[i].global_seq < global_sequence
  BY <1>1, PendingTyped DEF Basics, EventsOK
\* Where an event of the new log comes from.
<1>6. \A i \in 1..(L + 1) :
         \/ /\ i \in 1..k /\ event_log'[i] = event_log[i]
            /\ event_log[i].global_seq < e.global_seq
         \/ i = k + 1 /\ event_log'[i] = e
         \/ /\ i - 1 \in (k + 1)..L /\ event_log'[i] = event_log[i - 1]
            /\ event_log[i - 1].global_seq > e.global_seq
  <2> SUFFICES ASSUME NEW i \in 1..(L + 1)
               PROVE  \/ /\ i \in 1..k /\ event_log'[i] = event_log[i]
                         /\ event_log[i].global_seq < e.global_seq
                      \/ i = k + 1 /\ event_log'[i] = e
                      \/ /\ i - 1 \in (k + 1)..L /\ event_log'[i] = event_log[i - 1]
                         /\ event_log[i - 1].global_seq > e.global_seq
    OBVIOUS
  <2> HIDE DEF e, L
  <2>1. CASE i \in 1..k
    BY <2>1, <1>3, <1>4, <1>5
  <2>2. CASE i = k + 1
    BY <2>2, <1>3
  <2>3. CASE i > k + 1
    <3>1. i - 1 \in (k + 1)..L /\ i - 1 \in 1..L
      BY <2>3, <1>4
    <3>2. event_log'[(i - 1) + 1] = event_log[i - 1]
      BY <3>1, <1>3
    <3>3. event_log[i - 1].global_seq > e.global_seq
      BY <3>1, <1>3, <1>4, <1>5
    <3> QED
      BY <3>1, <3>2, <3>3
  <2> QED
    BY <2>1, <2>2, <2>3, <1>4
<1>7. \A i, j \in 1..L : i < j => event_log[i].global_seq < event_log[j].global_seq
  BY DEF Basics, LogSorted
<1>8. LogSorted'
  <2> SUFFICES ASSUME NEW i \in 1..(L + 1), NEW j \in 1..(L + 1), i < j
               PROVE  event_log'[i].global_seq < event_log'[j].global_seq
    BY <1>3 DEF LogSorted
  <2> HIDE DEF e, L
  <2>1. CASE j <= k
    BY <2>1, <1>4, <1>6, <1>7
  <2>2. CASE j = k + 1
    BY <2>2, <1>4, <1>6
  <2>3. CASE j > k + 1
    <3>1. /\ j - 1 \in (k + 1)..L /\ j - 1 \in 1..L /\ event_log'[j] = event_log[j - 1]
          /\ event_log[j - 1].global_seq > e.global_seq
          /\ event_log[j - 1].global_seq \in Nat
      BY <2>3, <1>4, <1>6
    <3>2. CASE i <= k + 1
      BY <3>1, <3>2, <1>4, <1>5, <1>6
    <3>3. CASE i > k + 1
      <4>1. i - 1 \in 1..L /\ event_log'[i] = event_log[i - 1] /\ i - 1 < j - 1
        BY <3>3, <1>4, <1>6
      <4> QED
        BY <3>1, <4>1, <1>7
    <3> QED
      BY <3>2, <3>3, <1>4
  <2> QED
    BY <2>1, <2>2, <2>3, <1>4
<1>9. \A u \in Thread : pend'[u] = IF u = t THEN s ELSE pend[u]
  BY <1>2
<1>10. \A u \in Thread : \A i \in 1..Len(pend'[u]) :
          /\ i \in 1..Len(pend[u]) /\ pend'[u][i] = pend[u][i]
          /\ ~(u = t /\ i = n)
  BY <1>1, <1>9
<1>11. \A i \in 1..(L + 1) :
          \/ \E j \in 1..L : event_log'[i] = event_log[j]
          \/ event_log'[i] = e
  <2> HIDE DEF e, L
  <2> QED
    BY <1>4, <1>6
<1>12. EventsOK'
  <2>1. \A i \in 1..Len(event_log') : event_log'[i].global_seq < global_sequence'
    <3> HIDE DEF e, L
    <3> QED
      BY <1>3, <1>5, <1>11
  <2>2. ASSUME NEW u \in Thread, NEW i \in 1..Len(pend'[u])
        PROVE  /\ pend'[u][i].global_seq < global_sequence'
               /\ \A j \in 1..Len(event_log') :
                     event_log'[j].global_seq # pend'[u][i].global_seq
    <3>1. /\ i \in 1..Len(pend[u]) /\ pend'[u][i] = pend[u][i]
          /\ ~(u = t /\ i = n)
      BY <1>10
    <3>2. pend[u][i].global_seq # e.global_seq
      <4>1. n \in 1..Len(pend[t])
        BY <1>1
      <4> QED
        BY <3>1, <4>1 DEF Basics, EventsOK
    <3>3. \A j \in 1..L : event_log[j].global_seq # pend[u][i].global_seq
      BY <3>1 DEF Basics, EventsOK
    <3>4. pend[u][i].global_seq < global_sequence
      BY <3>1 DEF Basics, EventsOK
    <3> HIDE DEF e, L
    <3> QED
      BY <1>3, <1>11, <3>1, <3>2, <3>3, <3>4
  <2>3. ASSUME NEW u \in Thread, NEW i \in 1..Len(pend'[u]),
               NEW v \in Thread, NEW j \in 1..Len(pend'[v]),
               pend'[u][i].global_seq = pend'[v][j].global_seq
        PROVE  u = v /\ i = j
    BY <1>10, <2>3 DEF Basics, EventsOK
  <2>4. ASSUME NEW g \in 0..(global_sequence' - 1)
        PROVE  \/ \E i \in 1..Len(event_log') : event_log'[i].global_seq = g
               \/ \E u \in Thread : \E i \in 1..Len(pend'[u]) : pend'[u][i].global_seq = g
    <3>1. CASE \E i \in 1..L : event_log[i].global_seq = g
      <4>1. PICK i \in 1..L : event_log[i].global_seq = g
        BY <3>1
      <4> HIDE DEF L, e
      <4>2. CASE i <= k
        BY <4>1, <4>2, <1>3, <1>4
      <4>3. CASE i > k
        <5>1. i + 1 \in 1..(L + 1) /\ event_log'[i + 1] = event_log[i]
          BY <4>1, <4>3, <1>3, <1>4
        <5> QED
          BY <4>1, <5>1, <1>3
      <4> QED
        BY <4>1, <4>2, <4>3, <1>4
    <3>2. CASE \E u \in Thread : \E i \in 1..Len(pend[u]) : pend[u][i].global_seq = g
      <4>1. PICK u \in Thread : \E i \in 1..Len(pend[u]) : pend[u][i].global_seq = g
        BY <3>2
      <4>2. PICK i \in 1..Len(pend[u]) : pend[u][i].global_seq = g
        BY <4>1
      <4>3. CASE u = t /\ i = n
        <5>1. k + 1 \in 1..Len(event_log') /\ event_log'[k + 1].global_seq = g
          BY <1>3, <1>4, <4>2, <4>3
        <5> QED
          BY <5>1
      <4>4. CASE ~(u = t /\ i = n)
        <5>1. i \in 1..Len(pend'[u]) /\ pend'[u][i] = pend[u][i]
          BY <1>1, <1>9, <4>2, <4>4
        <5> QED
          BY <4>2, <5>1
      <4> QED
        BY <4>3, <4>4
    <3>3. g \in 0..(global_sequence - 1)
      OBVIOUS
    <3> QED
      BY <3>1, <3>2, <3>3 DEF Basics, EventsOK
  <2> QED
    BY <2>1, <2>2, <2>3, <2>4 DEF EventsOK
<1>13. pend' \in [Thread -> Seq(Event)]
  BY <1>1, <1>2
<1> QED
  BY <1>3, <1>8, <1>12, <1>13

LEMMA CompleteBasics ==
  ASSUME Basics, NEW t \in Thread, at[t] = "return",
         Rip(t) \in Tracked \ EntryPoints, t \in Holders(Rip(t)),
         OnBreakpointReturn(t), stopped' = [stopped EXCEPT ![t] = FALSE]
  PROVE  Basics'
<1>1. CASE pending_thread_events[t] = <<>>
  <2>1. UNCHANGED <<breakpointVars, status, at, frames, phase, events, threads>>
    BY <1>1 DEF OnBreakpointReturn
  <2>2. TablesOK' /\ EventsOK' /\ LogSorted'
    BY <2>1, DebuggerUntouched
  <2>3. TypeOK'
    BY <2>1, <2>2 DEF Basics, TypeOK, TablesOK, ManagerOK, events, threads
  <2>4. CallsOK'
    BY <2>1 DEF Basics, CallsOK, TypeOK
  <2> QED
    BY <2>2, <2>3, <2>4 DEF Basics
<1>2. CASE pending_thread_events[t] # <<>>
  <2>1. /\ frames' = OpenTop(t, FALSE)
        /\ TablesOK'
        /\ AddEvent(Top(pending_thread_events[t]))
        /\ pending_thread_events' =
              [pending_thread_events EXCEPT ![t] = Pop(pending_thread_events[t])]
        /\ current_thread_ids' \subseteq Thread
        /\ UNCHANGED <<status, at, phase, global_sequence, thread_id_to_sequence>>
    BY <1>2, ReturnShape
  <2>2. CallsOK' /\ frames' \in [Thread -> Seq(CallFrame)]
    BY <2>1, CallsHandled
  <2>3. /\ EventsOK' /\ LogSorted'
        /\ event_log' \in Seq(Event)
        /\ pending_thread_events' \in [Thread -> Seq(Event)]
    BY <1>2, <2>1, EventLogged
  <2>4. TypeOK'
    <3>1. BreakpointTypeOK' /\ stopped' \in [Thread -> BOOLEAN]
      BY <2>1 DEF TablesOK, ManagerOK, Basics, TypeOK
    <3> QED
      BY <2>1, <2>2, <2>3, <3>1 DEF Basics, TypeOK, CallFrame
  <2> QED
    BY <2>1, <2>2, <2>3, <2>4 DEF Basics
<1> QED
  BY <1>1, <1>2

LEMMA BasicsStep == Basics /\ [Next]_vars => Basics'
<1> SUFFICES ASSUME Basics, [Next]_vars PROVE Basics'
  OBVIOUS
<1>1. ASSUME NEW t \in Thread, NEW function \in EntryPoints, NEW site \in ReturnSites[t],
             NEW target \in Targets(t, function), Call(t, function, site, target)
      PROVE  Basics'
  BY <1>1, CallBasics
<1>2. ASSUME NEW t \in Thread, Stop(t) PROVE Basics'
  BY <1>2, StopBasics
<1>3. ASSUME NEW t \in Thread, Return(t) PROVE Basics'
  BY <1>3, ReturnBasics
<1>4. ASSUME NEW t \in Thread, Perform(t) PROVE Basics'
  BY <1>4, PerformBasics
<1>5. ASSUME NEW t \in Thread, HandleBreakpoint(t) PROVE Basics'
  <2>1. stopped' = [stopped EXCEPT ![t] = FALSE]
    BY <1>5, HandleCases
  <2>2. CASE at[t] = "entry" /\ OnBreakpointEnter(t)
    BY <2>1, <2>2, EnterBasics
  <2>3. CASE /\ at[t] = "return"
             /\ Rip(t) \in Tracked \ EntryPoints /\ t \in Holders(Rip(t))
             /\ OnBreakpointReturn(t)
    BY <2>1, <2>3, CompleteBasics
  <2>4. CASE UNCHANGED recorded /\ phase' \in {phase, "aborted"}
    <3>1. TablesOK' /\ EventsOK' /\ LogSorted'
      BY <2>4, DebuggerUntouched DEF recorded
    <3>2. TypeOK'
      BY <2>1, <2>4, <3>1 DEF recorded, Basics, TypeOK, TablesOK, ManagerOK, events, threads
    <3>3. CallsOK'
      BY <2>1, <2>4 DEF recorded, Basics, CallsOK, TypeOK
    <3> QED
      BY <3>1, <3>2, <3>3 DEF Basics
  <2> QED
    BY <1>5, <2>2, <2>3, <2>4, HandleCases
<1>6. ASSUME Timeout PROVE Basics'
  <2>1. phase' = "restoring" /\ UNCHANGED <<breakpointVars, debuggee, events, threads>>
    BY <1>6 DEF Timeout
  <2>2. TablesOK' /\ EventsOK' /\ LogSorted'
    BY <2>1, DebuggerUntouched
  <2> QED
    BY <2>1, <2>2
    DEF Basics, TypeOK, CallsOK, TablesOK, ManagerOK, debuggee, events, threads
<1>7. ASSUME UNCHANGED vars PROVE Basics'
  <2>1. TablesOK' /\ EventsOK' /\ LogSorted'
    BY <1>7, DebuggerUntouched DEF vars
  <2> QED
    BY <1>7, <2>1
    DEF vars, Basics, TypeOK, CallsOK, TablesOK, ManagerOK, debuggee, events, threads
<1> QED
  BY <1>1, <1>2, <1>3, <1>4, <1>5, <1>6, <1>7 DEF Next

LEMMA BasicsHold == Spec => []Basics
<1> QED
  BY InitBasics, BasicsStep, PTL DEF Spec

\* The recording only ever holds values of the types its variables are
\* declared with (record_phase.cpp:29-160, event_log.cpp:14-70).
THEOREM RecordingTyped == Spec => []TypeOK
<1>1. Basics => TypeOK
  BY DEF Basics
<1> QED
  BY <1>1, BasicsHold, PTL

\* Events are logged in the order in which their calls began, however many
\* threads there are, however their calls nest and in whatever order they
\* return: the bisections of AddEvent and ResetEventReplay are entitled to it
\* (event_log.cpp:24-31, 124-131).
THEOREM LogIsSorted == Spec => []LogSorted
<1>1. Basics => LogSorted
  BY DEF Basics
<1> QED
  BY <1>1, BasicsHold, PTL

\* The places of the events, one by one.
LEMMA PlacesAre ==
  /\ \A i \in 1..Len(event_log) :
        /\ <<"log", i>> \in Places
        /\ SeqAt(<<"log", i>>) = event_log[i].global_seq
  /\ \A t \in Thread : \A i \in 1..Len(pending_thread_events[t]) :
        /\ <<"pending", t, i>> \in Places
        /\ SeqAt(<<"pending", t, i>>) = pending_thread_events[t][i].global_seq
  /\ \A p \in Places :
        \/ \E i \in 1..Len(event_log) : p = <<"log", i>>
        \/ \E t \in Thread : \E i \in 1..Len(pending_thread_events[t]) : p = <<"pending", t, i>>
BY DEF Places, SeqAt

\* Every global sequence handed out belongs to exactly one event, which is in
\* the log or waits for its call to return: an event is never lost and never
\* logged twice (event_log.cpp:44-70, base_event.h:26-42).
THEOREM EveryEventIsLoggedOnce == Spec => []EveryEventOnce
<1>1. Basics => EveryEventOnce
  <2> SUFFICES ASSUME Basics PROVE EveryEventOnce
    OBVIOUS
  <2> DEFINE Given == 0..(global_sequence - 1)
  <2>1. ASSUME NEW p \in Places PROVE SeqAt(p) \in Given
    <3>1. CASE \E i \in 1..Len(event_log) : p = <<"log", i>>
      <4>1. PICK i \in 1..Len(event_log) : p = <<"log", i>>
        BY <3>1
      <4>2. /\ event_log[i].global_seq \in Nat
            /\ event_log[i].global_seq < global_sequence
        BY LogTyped DEF Basics, EventsOK
      <4> QED
        BY <4>1, <4>2, PlacesAre DEF Basics, TypeOK
    <3>2. CASE \E t \in Thread : \E i \in 1..Len(pending_thread_events[t]) : p = <<"pending", t, i>>
      <4>1. PICK t \in Thread : \E i \in 1..Len(pending_thread_events[t]) : p = <<"pending", t, i>>
        BY <3>2
      <4>2. PICK i \in 1..Len(pending_thread_events[t]) : p = <<"pending", t, i>>
        BY <4>1
      <4>3. /\ pending_thread_events[t][i].global_seq \in Nat
            /\ pending_thread_events[t][i].global_seq < global_sequence
        BY PendingTyped DEF Basics, EventsOK
      <4> QED
        BY <4>2, <4>3, PlacesAre DEF Basics, TypeOK
    <3> QED
      BY <3>1, <3>2, PlacesAre
  <2>2. ASSUME NEW g \in Given PROVE \E p \in Places : SeqAt(p) = g
    <3>1. CASE \E i \in 1..Len(event_log) : event_log[i].global_seq = g
      BY <3>1, PlacesAre
    <3>2. CASE \E t \in Thread : \E i \in 1..Len(pending_thread_events[t]) :
                  pending_thread_events[t][i].global_seq = g
      BY <3>2, PlacesAre
    <3> QED
      BY <3>1, <3>2 DEF Basics, EventsOK
  <2>3. ASSUME NEW p \in Places, NEW q \in Places, SeqAt(p) = SeqAt(q) PROVE p = q
    <3>1. ASSUME NEW i \in 1..Len(event_log), NEW j \in 1..Len(event_log),
                 event_log[i].global_seq = event_log[j].global_seq
          PROVE  i = j
      <4>1. event_log[i].global_seq \in Nat /\ event_log[j].global_seq \in Nat
        BY LogTyped DEF Basics
      <4> QED
        BY <3>1, <4>1 DEF Basics, LogSorted
    <3>2. \A t, u \in Thread : \A i \in 1..Len(pending_thread_events[t]),
                                  j \in 1..Len(pending_thread_events[u]) :
             pending_thread_events[t][i].global_seq = pending_thread_events[u][j].global_seq
                => t = u /\ i = j
      BY DEF Basics, EventsOK
    <3>3. \A t \in Thread : \A i \in 1..Len(pending_thread_events[t]), j \in 1..Len(event_log) :
             event_log[j].global_seq # pending_thread_events[t][i].global_seq
      BY DEF Basics, EventsOK
    <3>4. CASE \E i \in 1..Len(event_log) : p = <<"log", i>>
      <4>1. PICK i \in 1..Len(event_log) : p = <<"log", i>>
        BY <3>4
      <4>2. SeqAt(p) = event_log[i].global_seq
        BY <4>1, PlacesAre
      <4>3. \A u \in Thread : \A j \in 1..Len(pending_thread_events[u]) :
               q # <<"pending", u, j>>
        <5> SUFFICES ASSUME NEW u \in Thread, NEW j \in 1..Len(pending_thread_events[u]),
                            q = <<"pending", u, j>>
                     PROVE  FALSE
          OBVIOUS
        <5>1. SeqAt(q) = pending_thread_events[u][j].global_seq
          BY PlacesAre
        <5> QED
          BY <2>3, <3>3, <4>2, <5>1
      <4>4. PICK j \in 1..Len(event_log) : q = <<"log", j>>
        BY <4>3, PlacesAre
      <4>5. SeqAt(q) = event_log[j].global_seq
        BY <4>4, PlacesAre
      <4> QED
        BY <2>3, <3>1, <4>1, <4>2, <4>4, <4>5
    <3>5. CASE \E t \in Thread : \E i \in 1..Len(pending_thread_events[t]) : p = <<"pending", t, i>>
      <4>1. PICK t \in Thread : \E i \in 1..Len(pending_thread_events[t]) : p = <<"pending", t, i>>
        BY <3>5
      <4>2. PICK i \in 1..Len(pending_thread_events[t]) : p = <<"pending", t, i>>
        BY <4>1
      <4>3. SeqAt(p) = pending_thread_events[t][i].global_seq
        BY <4>2, PlacesAre
      <4>4. \A j \in 1..Len(event_log) : q # <<"log", j>>
        <5> SUFFICES ASSUME NEW j \in 1..Len(event_log), q = <<"log", j>> PROVE FALSE
          OBVIOUS
        <5>1. SeqAt(q) = event_log[j].global_seq
          BY PlacesAre
        <5> QED
          BY <2>3, <3>3, <4>3, <5>1
      <4>5. PICK u \in Thread : \E j \in 1..Len(pending_thread_events[u]) : q = <<"pending", u, j>>
        BY <4>4, PlacesAre
      <4>6. PICK j \in 1..Len(pending_thread_events[u]) : q = <<"pending", u, j>>
        BY <4>5
      <4>7. SeqAt(q) = pending_thread_events[u][j].global_seq
        BY <4>6, PlacesAre
      <4> QED
        BY <2>3, <3>2, <4>2, <4>3, <4>6, <4>7
    <3> QED
      BY <3>4, <3>5, PlacesAre
  <2> HIDE DEF Given
  <2>4. {SeqAt(p) : p \in Places} = Given
    BY <2>1, <2>2
  <2> QED
    BY <2>3, <2>4 DEF EveryEventOnce, Given
<1> QED
  BY <1>1, BasicsHold, PTL

----------------------------------------------------------------------------
(* Threads are created and terminated by calls, and tracked by the events  *)
(* of those calls.                                                         *)

Matches(event, frame) == event.function = frame.function /\ event.target = frame.target

\* A termination that is pending has been carried out, unless its call is the
\* one the thread is in.
DeathsOK ==
    \A t \in Thread : \A i \in 1..Len(pending_thread_events[t]) :
        pending_thread_events[t][i].function = TerminateThread =>
            \/ status[pending_thread_events[t][i].target] = "dead"
            \/ /\ i = Len(pending_thread_events[t])
               /\ at[t] = "body"
               /\ Matches(pending_thread_events[t][i], Top(frames[t]))

\* While a thread creates or terminates another, the event of that call is on
\* top of its stack.
BodiesOK ==
    \A t \in Thread : at[t] = "body" /\ Top(frames[t]).function # LoadDll =>
        /\ pending_thread_events[t] # <<>>
        /\ Matches(Top(pending_thread_events[t]), Top(frames[t]))

\* What a call does to its target happens between its entry and its return.
TargetsOK ==
    \A t \in Thread :
        /\ at[t] \in {"entry", "body"} =>
              /\ Top(frames[t]).function = CreateThread =>
                    status[Top(frames[t]).target] = "reserved"
              /\ Top(frames[t]).function = TerminateThread =>
                    status[Top(frames[t]).target] \in {"alive", "dead"}
        /\ at[t] = "return" /\ Top(frames[t]).function = TerminateThread =>
              status[Top(frames[t]).target] = "dead"

\* No two calls create the same thread.
Creates(t) == at[t] \in {"entry", "body"} /\ Top(frames[t]).function = CreateThread

OneCreator ==
    \A t, u \in Thread : Creates(t) /\ Creates(u) /\ t # u =>
        Top(frames[t]).target # Top(frames[u]).target

CallsOfThreadsOK == DeathsOK /\ BodiesOK /\ TargetsOK /\ OneCreator

\* A thread that lives is tracked, or its create event is on somebody's stack.
LiveOrPending ==
    \A u \in Thread : status[u] = "alive" =>
        \/ u \in current_thread_ids
        \/ \E t \in Thread : \E i \in 1..Len(pending_thread_events[t]) :
              /\ pending_thread_events[t][i].function = CreateThread
              /\ pending_thread_events[t][i].target = u

ThreadsOK == Basics /\ CallsOfThreadsOK /\ LiveOrPending

LEMMA InitThreads == Init => ThreadsOK
<1> SUFFICES ASSUME Init PROVE ThreadsOK
  OBVIOUS
<1>1. Basics
  BY InitBasics
<1>2. /\ \A t \in Thread : /\ at[t] = "code"
                           /\ pending_thread_events[t] = <<>>
                           /\ status[t] = "alive" => t \in current_thread_ids
  BY DEF Init
<1>3. CallsOfThreadsOK
  BY <1>2 DEF CallsOfThreadsOK, DeathsOK, BodiesOK, TargetsOK, OneCreator, Creates
<1> QED
  BY <1>1, <1>2, <1>3 DEF ThreadsOK, LiveOrPending

\* What the invariant is about.
threadsState == <<status, at, frames, pending_thread_events, current_thread_ids>>

LEMMA ThreadsUntouched ==
  ASSUME ThreadsOK, Basics', UNCHANGED threadsState
  PROVE  ThreadsOK'
<1>1. CallsOfThreadsOK'
  BY DEF threadsState, ThreadsOK, CallsOfThreadsOK, DeathsOK, BodiesOK, TargetsOK,
         OneCreator, Creates
<1>2. LiveOrPending'
  BY DEF threadsState, ThreadsOK, LiveOrPending
<1> QED
  BY <1>1, <1>2 DEF ThreadsOK

LEMMA CallThreads ==
  ASSUME ThreadsOK, NEW t \in Thread, NEW function \in EntryPoints,
         NEW site \in ReturnSites[t], NEW target \in Targets(t, function),
         Call(t, function, site, target)
  PROVE  ThreadsOK'
<1> DEFINE pend == pending_thread_events
           new == Frame(function, site, target)
<1>1. /\ Basics /\ Basics'
      /\ target \in Thread
      /\ frames'[t] = Append(frames[t], new)
      /\ \A u \in Thread : u # t => frames'[u] = frames[u]
  BY CallBasics DEF ThreadsOK
<1>2. /\ Top(frames'[t]) = new
      /\ new.function = function /\ new.target = target
  <2>1. frames[t] \in Seq(CallFrame) /\ new \in CallFrame
    BY <1>1, RecordingAssumption DEF Basics, TypeOK, CallFrame, Frame
  <2>2. Top(Append(frames[t], new)) = new
    BY <2>1, PushProperties
  <2> QED
    BY <1>1, <2>2 DEF Frame
<1> HIDE DEF new
<1>3. /\ at' = [at EXCEPT ![t] = "entry"]
      /\ at[t] = "code" \/ (at[t] = "body" /\ Top(frames[t]).function = LoadDll)
      /\ status' = IF function = CreateThread
                   THEN [status EXCEPT ![target] = "reserved"] ELSE status
      /\ UNCHANGED <<events, threads>>
  BY DEF Call
<1>4. /\ at \in [Thread -> {"code", "entry", "body", "return"}]
      /\ status \in [Thread -> {"unborn", "reserved", "alive", "dead"}]
  BY <1>1 DEF Basics, TypeOK
<1>5. /\ \A u \in Thread : at'[u] = IF u = t THEN "entry" ELSE at[u]
      /\ UNCHANGED <<pend, current_thread_ids>>
  BY <1>3, <1>4 DEF events, threads
<1>6. /\ function = CreateThread => status[target] = "unborn"
      /\ function = TerminateThread => status[target] \in {"alive", "dead"}
      /\ function = LoadDll => target = t
  BY RecordingAssumption DEF Targets, EntryPoints
\* Only a thread that did not exist changes its status.
<1>7. \A u \in Thread : \/ status'[u] = status[u]
                        \/ /\ status[u] = "unborn" /\ status'[u] = "reserved"
                           /\ u = target /\ function = CreateThread
  BY <1>3, <1>4, <1>6
<1>8. /\ \A u \in Thread : status[u] = "dead" => status'[u] = "dead"
      /\ \A u \in Thread : status[u] = "reserved" => status'[u] = "reserved"
      /\ \A u \in Thread : status[u] \in {"alive", "dead"} => status'[u] = status[u]
      /\ \A u \in Thread : status'[u] = "alive" => status[u] = "alive"
  BY <1>7
<1>9. DeathsOK'
  <2> SUFFICES ASSUME NEW u \in Thread, NEW i \in 1..Len(pend[u]),
                      pend[u][i].function = TerminateThread
               PROVE  \/ status'[pend[u][i].target] = "dead"
                      \/ /\ i = Len(pend[u]) /\ at'[u] = "body"
                         /\ Matches(pend[u][i], Top(frames'[u]))
    BY <1>5 DEF DeathsOK
  <2>1. pend[u][i].target \in Thread
    BY <1>1, PendingTyped DEF Basics
  <2>2. CASE status[pend[u][i].target] = "dead"
    BY <1>8, <2>1, <2>2
  <2>3. CASE /\ i = Len(pend[u]) /\ at[u] = "body"
             /\ Matches(pend[u][i], Top(frames[u]))
    <3>1. u # t
      BY <1>3, <2>3, RecordingAssumption DEF Matches
    <3> QED
      BY <1>1, <1>5, <2>3, <3>1
  <2> QED
    BY <2>2, <2>3 DEF ThreadsOK, CallsOfThreadsOK, DeathsOK
<1>10. BodiesOK'
  BY <1>1, <1>5 DEF ThreadsOK, CallsOfThreadsOK, BodiesOK
<1>11. \A u \in Thread : at[u] # "code" => Top(frames[u]).target \in Thread
  BY <1>1, TopTyped DEF Basics
<1>12. TargetsOK'
  <2> SUFFICES ASSUME NEW u \in Thread
               PROVE  /\ at'[u] \in {"entry", "body"} =>
                            /\ Top(frames'[u]).function = CreateThread =>
                                  status'[Top(frames'[u]).target] = "reserved"
                            /\ Top(frames'[u]).function = TerminateThread =>
                                  status'[Top(frames'[u]).target] \in {"alive", "dead"}
                      /\ at'[u] = "return" /\ Top(frames'[u]).function = TerminateThread =>
                            status'[Top(frames'[u]).target] = "dead"
    BY DEF TargetsOK
  <2>1. CASE u = t
    BY <2>1, <1>1, <1>2, <1>3, <1>4, <1>5, <1>6, RecordingAssumption
  <2>2. CASE u # t
    <3>1. at'[u] = at[u] /\ frames'[u] = frames[u]
      BY <2>2, <1>1, <1>5
    <3> QED
      BY <3>1, <1>8, <1>11 DEF ThreadsOK, CallsOfThreadsOK, TargetsOK
  <2> QED
    BY <2>1, <2>2
<1>13. OneCreator'
  <2> SUFFICES ASSUME NEW u \in Thread, NEW v \in Thread, Creates(u)', Creates(v)', u # v
               PROVE  Top(frames'[u]).target # Top(frames'[v]).target
    BY DEF OneCreator
  <2>1. \A w \in Thread \ {t} : Creates(w)' => /\ Creates(w)
                                               /\ status[Top(frames[w]).target] = "reserved"
                                               /\ frames'[w] = frames[w]
    BY <1>1, <1>5 DEF Creates, ThreadsOK, CallsOfThreadsOK, TargetsOK
  <2>2. Creates(t)' => Top(frames'[t]).target = target /\ status[target] = "unborn"
    BY <1>2, <1>6 DEF Creates
  <2> QED
    BY <2>1, <2>2 DEF ThreadsOK, CallsOfThreadsOK, OneCreator
<1>14. LiveOrPending'
  BY <1>5, <1>8 DEF ThreadsOK, LiveOrPending
<1> QED
  BY <1>1, <1>9, <1>10, <1>12, <1>13, <1>14 DEF ThreadsOK, CallsOfThreadsOK

LEMMA PerformThreads ==
  ASSUME ThreadsOK, NEW t \in Thread, Perform(t)
  PROVE  ThreadsOK'
<1> DEFINE pend == pending_thread_events
           frame == Top(frames[t])
<1>1. Basics /\ Basics'
  BY PerformBasics DEF ThreadsOK
<1>2. /\ at[t] = "body" /\ at' = [at EXCEPT ![t] = "return"]
      /\ status' = CASE frame.function = CreateThread -> [status EXCEPT ![frame.target] = "alive"]
                     [] frame.function = TerminateThread -> [status EXCEPT ![frame.target] = "dead"]
                     [] OTHER -> status
      /\ UNCHANGED <<frames, events, threads>>
  BY DEF Perform
<1>3. /\ at \in [Thread -> {"code", "entry", "body", "return"}]
      /\ status \in [Thread -> {"unborn", "reserved", "alive", "dead"}]
      /\ frame.function \in EntryPoints /\ frame.target \in Thread
      /\ \A u \in Thread : at[u] # "code" => Top(frames[u]).target \in Thread
  BY <1>1, <1>2, TopTyped DEF Basics, TypeOK
<1>4. /\ \A u \in Thread : at'[u] = IF u = t THEN "return" ELSE at[u]
      /\ UNCHANGED <<frames, pend, current_thread_ids>>
  BY <1>2, <1>3 DEF events, threads
<1>5. /\ frame.function = CreateThread => /\ status[frame.target] = "reserved"
                                          /\ status' = [status EXCEPT ![frame.target] = "alive"]
      /\ frame.function = TerminateThread => /\ status[frame.target] \in {"alive", "dead"}
                                             /\ status' = [status EXCEPT ![frame.target] = "dead"]
      /\ frame.function = LoadDll => status' = status
  BY <1>2, RecordingAssumption DEF ThreadsOK, CallsOfThreadsOK, TargetsOK
<1>6. \A u \in Thread :
         \/ status'[u] = status[u]
         \/ /\ status[u] = "reserved" /\ status'[u] = "alive"
            /\ u = frame.target /\ frame.function = CreateThread
         \/ status[u] \in {"alive", "dead"} /\ status'[u] = "dead"
  BY <1>3, <1>5 DEF EntryPoints
<1> HIDE DEF frame
<1>7. /\ \A u \in Thread : status[u] = "dead" => status'[u] = "dead"
      /\ \A u \in Thread : status[u] \in {"alive", "dead"} => status'[u] \in {"alive", "dead"}
  BY <1>6
<1>8. BodiesOK
  BY DEF ThreadsOK, CallsOfThreadsOK
<1>9. DeathsOK'
  <2> SUFFICES ASSUME NEW u \in Thread, NEW i \in 1..Len(pend[u]),
                      pend[u][i].function = TerminateThread
               PROVE  \/ status'[pend[u][i].target] = "dead"
                      \/ /\ i = Len(pend[u]) /\ at'[u] = "body"
                         /\ Matches(pend[u][i], Top(frames[u]))
    BY <1>4 DEF DeathsOK
  <2>1. pend[u][i].target \in Thread
    BY <1>1, PendingTyped DEF Basics
  <2>2. CASE status[pend[u][i].target] = "dead"
    BY <1>7, <2>1, <2>2
  <2>3. CASE i = Len(pend[u]) /\ at[u] = "body" /\ Matches(pend[u][i], Top(frames[u]))
    <3>1. CASE u = t
      <4>1. frame.function = TerminateThread /\ pend[u][i].target = frame.target
        BY <2>3, <3>1 DEF Matches, frame
      <4> QED
        BY <1>3, <1>5, <4>1
    <3>2. CASE u # t
      BY <1>4, <2>3, <3>2
    <3> QED
      BY <3>1, <3>2
  <2> QED
    BY <2>2, <2>3 DEF ThreadsOK, CallsOfThreadsOK, DeathsOK
<1>10. BodiesOK'
  BY <1>4 DEF ThreadsOK, CallsOfThreadsOK, BodiesOK
<1>11. TargetsOK'
  <2> SUFFICES ASSUME NEW u \in Thread
               PROVE  /\ at'[u] \in {"entry", "body"} =>
                            /\ Top(frames[u]).function = CreateThread =>
                                  status'[Top(frames[u]).target] = "reserved"
                            /\ Top(frames[u]).function = TerminateThread =>
                                  status'[Top(frames[u]).target] \in {"alive", "dead"}
                      /\ at'[u] = "return" /\ Top(frames[u]).function = TerminateThread =>
                            status'[Top(frames[u]).target] = "dead"
    BY <1>4 DEF TargetsOK
  <2>1. CASE u = t
    BY <2>1, <1>3, <1>4, <1>5 DEF frame
  <2>2. CASE u # t
    <3>1. at'[u] = at[u]
      BY <2>2, <1>4
    <3>2. ASSUME at[u] \in {"entry", "body"}, Top(frames[u]).function = CreateThread
          PROVE  status'[Top(frames[u]).target] = "reserved"
      <4>1. status[Top(frames[u]).target] = "reserved" /\ Creates(u)
        BY <3>2 DEF ThreadsOK, CallsOfThreadsOK, TargetsOK, Creates
      <4>2. frame.function = CreateThread => Top(frames[u]).target # frame.target
        BY <4>1, <2>2, <1>2 DEF ThreadsOK, CallsOfThreadsOK, OneCreator, Creates, frame
      <4>3. Top(frames[u]).target \in Thread
        BY <1>3, <3>2
      <4> QED
        BY <1>6, <4>1, <4>2, <4>3
    <3> QED
      BY <3>1, <3>2, <1>3, <1>7 DEF ThreadsOK, CallsOfThreadsOK, TargetsOK
  <2> QED
    BY <2>1, <2>2
<1>12. OneCreator'
  BY <1>4 DEF ThreadsOK, CallsOfThreadsOK, OneCreator, Creates
<1>13. LiveOrPending'
  <2> SUFFICES ASSUME NEW u \in Thread, status'[u] = "alive", u \notin current_thread_ids
               PROVE  \E v \in Thread : \E i \in 1..Len(pend[v]) :
                         pend[v][i].function = CreateThread /\ pend[v][i].target = u
    BY <1>4 DEF LiveOrPending
  <2>1. CASE status[u] = "alive"
    BY <2>1 DEF ThreadsOK, LiveOrPending
  <2>2. CASE status[u] # "alive"
    <3>1. frame.function = CreateThread /\ frame.target = u
      BY <2>2, <1>6
    <3>2. pend[t] # <<>> /\ Matches(Top(pend[t]), frame)
      BY <3>1, <1>2, <1>8, RecordingAssumption DEF BodiesOK, frame
    <3>3. /\ Len(pend[t]) \in 1..Len(pend[t])
          /\ Top(pend[t]) = pend[t][Len(pend[t])]
      <4>1. pend[t] \in Seq(Event)
        BY <1>1, PendingTyped DEF Basics
      <4>2. Len(pend[t]) \in Nat /\ Len(pend[t]) >= 1
        BY <3>2, <4>1, PopProperties
      <4> QED
        BY <4>2 DEF Top
    <3>4. pend[t][Len(pend[t])].function = CreateThread /\ pend[t][Len(pend[t])].target = u
      BY <3>1, <3>2, <3>3 DEF Matches
    <3> QED
      BY <3>3, <3>4
  <2> QED
    BY <2>1, <2>2
<1> QED
  BY <1>1, <1>9, <1>10, <1>11, <1>12, <1>13 DEF ThreadsOK, CallsOfThreadsOK

LEMMA ReturnThreads ==
  ASSUME ThreadsOK, NEW t \in Thread, Return(t)
  PROVE  ThreadsOK'
<1> DEFINE pend == pending_thread_events
<1>1. /\ Basics /\ Basics'
      /\ frames'[t] = Pop(frames[t])
      /\ \A u \in Thread : u # t => frames'[u] = frames[u]
  BY ReturnBasics DEF ThreadsOK
<1>2. /\ at[t] = "return"
      /\ at' = [at EXCEPT ![t] = IF Len(frames[t]) = 1 THEN "code" ELSE "body"]
      /\ UNCHANGED <<status, events, threads>>
  BY DEF Return
<1>3. at \in [Thread -> {"code", "entry", "body", "return"}]
  BY <1>1 DEF Basics, TypeOK
<1>4. /\ \A u \in Thread : u # t => at'[u] = at[u]
      /\ at'[t] \in {"code", "body"}
      /\ UNCHANGED <<status, pend, current_thread_ids>>
  BY <1>2, <1>3 DEF events, threads
\* A thread that is in a call still is in LdrLoadDll.
<1>5. at'[t] = "body" => Top(frames'[t]).function = LoadDll
  <2> SUFFICES ASSUME Len(frames[t]) # 1 PROVE Top(frames'[t]).function = LoadDll
    BY <1>2, <1>3
  <2>1. frames[t] \in Seq(CallFrame) /\ frames[t] # <<>>
    BY <1>1, <1>2 DEF Basics, TypeOK, CallFrame, CallsOK
  <2>2. /\ Len(frames[t]) - 1 \in 1..(Len(frames[t]) - 1)
        /\ Top(frames'[t]) = frames[t][Len(frames[t]) - 1]
    BY <1>1, <2>1, PopProperties DEF Top
  <2> QED
    BY <2>2, <1>1 DEF Basics, CallsOK
<1>6. DeathsOK'
  BY <1>1, <1>2, <1>4 DEF ThreadsOK, CallsOfThreadsOK, DeathsOK
<1>7. BodiesOK'
  BY <1>1, <1>4, <1>5 DEF ThreadsOK, CallsOfThreadsOK, BodiesOK
<1>8. TargetsOK'
  BY <1>1, <1>4, <1>5, RecordingAssumption DEF ThreadsOK, CallsOfThreadsOK, TargetsOK
<1>9. OneCreator'
  <2>1. \A u \in Thread : Creates(u)' => u # t /\ Creates(u) /\ frames'[u] = frames[u]
    BY <1>1, <1>4, <1>5, RecordingAssumption DEF Creates
  <2> QED
    BY <2>1 DEF ThreadsOK, CallsOfThreadsOK, OneCreator
<1>10. LiveOrPending'
  BY <1>4 DEF ThreadsOK, LiveOrPending
<1> QED
  BY <1>1, <1>6, <1>7, <1>8, <1>9, <1>10 DEF ThreadsOK, CallsOfThreadsOK

\* The innermost call is the same before and after it is opened or closed.
LEMMA TopKept ==
  ASSUME Basics, NEW t \in Thread, at[t] # "code", NEW open \in BOOLEAN,
         frames' = OpenTop(t, open)
  PROVE  /\ Top(frames'[t]).function = Top(frames[t]).function
         /\ Top(frames'[t]).site = Top(frames[t]).site
         /\ Top(frames'[t]).target = Top(frames[t]).target
         /\ \A u \in Thread : u # t => frames'[u] = frames[u]
<1>1. Len(frames[t]) \in 1..Len(frames[t])
  BY TopTyped DEF Basics
<1>2. /\ Len(frames'[t]) = Len(frames[t])
      /\ \A i \in 1..Len(frames[t]) :
            /\ frames'[t][i].function = frames[t][i].function
            /\ frames'[t][i].site = frames[t][i].site
            /\ frames'[t][i].target = frames[t][i].target
      /\ \A u \in Thread \ {t} : frames'[u] = frames[u]
  BY OpenTopShape DEF Basics
<1> QED
  BY <1>1, <1>2 DEF Top

LEMMA EnterThreads ==
  ASSUME ThreadsOK, Basics', NEW t \in Thread, at[t] = "entry", OnBreakpointEnter(t)
  PROVE  ThreadsOK'
<1> DEFINE pend == pending_thread_events
<1>1. /\ Basics
      /\ at' = [at EXCEPT ![t] = "body"]
      /\ frames' = OpenTop(t, TRUE)
      /\ \E e \in Event :
            /\ e.function = Top(frames[t]).function
            /\ e.target = Top(frames[t]).target
            /\ pend' = [pend EXCEPT ![t] = Append(pend[t], e)]
      /\ UNCHANGED <<status, threads>>
  BY EnterShape DEF ThreadsOK
<1>2. PICK e \in Event :
         /\ e.function = Top(frames[t]).function
         /\ e.target = Top(frames[t]).target
         /\ pend' = [pend EXCEPT ![t] = Append(pend[t], e)]
  BY <1>1
<1>3. /\ Top(frames'[t]).function = Top(frames[t]).function
      /\ Top(frames'[t]).target = Top(frames[t]).target
      /\ \A u \in Thread : u # t => frames'[u] = frames[u]
  BY <1>1, TopKept
<1>4. /\ at \in [Thread -> {"code", "entry", "body", "return"}]
      /\ pend \in [Thread -> Seq(Event)]
  BY <1>1 DEF Basics, TypeOK
<1>5. /\ \A u \in Thread : u # t => at'[u] = at[u] /\ pend'[u] = pend[u]
      /\ at'[t] = "body" /\ pend'[t] = Append(pend[t], e)
      /\ UNCHANGED <<status, current_thread_ids>>
  BY <1>1, <1>2, <1>4 DEF threads
<1>6. /\ Len(pend'[t]) = Len(pend[t]) + 1 /\ Len(pend[t]) \in Nat
      /\ \A i \in 1..Len(pend[t]) : pend'[t][i] = pend[t][i]
      /\ pend'[t][Len(pend[t]) + 1] = e
      /\ Top(pend'[t]) = e /\ pend'[t] # <<>>
  <2>1. pend[t] \in Seq(Event)
    BY <1>4
  <2> QED
    BY <1>5, <2>1, PushProperties
<1>7. Matches(e, Top(frames'[t]))
  BY <1>2, <1>3 DEF Matches
<1>8. DeathsOK'
  <2> SUFFICES ASSUME NEW u \in Thread, NEW i \in 1..Len(pend'[u]),
                      pend'[u][i].function = TerminateThread
               PROVE  \/ status[pend'[u][i].target] = "dead"
                      \/ /\ i = Len(pend'[u]) /\ at'[u] = "body"
                         /\ Matches(pend'[u][i], Top(frames'[u]))
    BY <1>5 DEF DeathsOK
  <2>1. CASE u # t
    BY <2>1, <1>3, <1>5 DEF ThreadsOK, CallsOfThreadsOK, DeathsOK
  <2>2. CASE u = t /\ i \in 1..Len(pend[t])
    BY <2>2, <1>6 DEF ThreadsOK, CallsOfThreadsOK, DeathsOK
  <2>3. CASE u = t /\ i = Len(pend[t]) + 1
    BY <2>3, <1>5, <1>6, <1>7
  <2> QED
    BY <2>1, <2>2, <2>3, <1>6
<1>9. BodiesOK'
  BY <1>3, <1>5, <1>6, <1>7 DEF ThreadsOK, CallsOfThreadsOK, BodiesOK
<1>10. TargetsOK'
  BY <1>3, <1>5 DEF ThreadsOK, CallsOfThreadsOK, TargetsOK
<1>11. OneCreator'
  <2>1. \A u \in Thread : /\ Creates(u)' => Creates(u)
                          /\ Creates(u)' => Top(frames'[u]).target = Top(frames[u]).target
    BY <1>3, <1>5 DEF Creates
  <2> QED
    BY <2>1 DEF ThreadsOK, CallsOfThreadsOK, OneCreator
<1>12. LiveOrPending'
  <2> SUFFICES ASSUME NEW u \in Thread, status[u] = "alive", u \notin current_thread_ids
               PROVE  \E v \in Thread : \E i \in 1..Len(pend'[v]) :
                         pend'[v][i].function = CreateThread /\ pend'[v][i].target = u
    BY <1>5 DEF LiveOrPending
  <2>1. PICK v \in Thread : \E i \in 1..Len(pend[v]) :
                pend[v][i].function = CreateThread /\ pend[v][i].target = u
    BY DEF ThreadsOK, LiveOrPending
  <2>2. \A i \in 1..Len(pend[v]) : i \in 1..Len(pend'[v]) /\ pend'[v][i] = pend[v][i]
    BY <1>5, <1>6
  <2> QED
    BY <2>1, <2>2
<1> QED
  BY <1>8, <1>9, <1>10, <1>11, <1>12 DEF ThreadsOK, CallsOfThreadsOK

LEMMA CompleteThreads ==
  ASSUME ThreadsOK, Basics', NEW t \in Thread, at[t] = "return",
         Rip(t) \in Tracked \ EntryPoints, t \in Holders(Rip(t)),
         OnBreakpointReturn(t), pending_thread_events[t] # <<>>
  PROVE  ThreadsOK'
<1> DEFINE pend == pending_thread_events
           n == Len(pend[t])
           e == pend[t][n]
<1>1. /\ Basics
      /\ frames' = OpenTop(t, FALSE)
      /\ FinishEvent(Top(pend[t]))
      /\ pend' = [pend EXCEPT ![t] = Pop(pend[t])]
      /\ UNCHANGED <<status, at>>
  BY ReturnShape DEF ThreadsOK
<1>2. /\ Top(frames'[t]).function = Top(frames[t]).function
      /\ Top(frames'[t]).target = Top(frames[t]).target
      /\ \A u \in Thread : u # t => frames'[u] = frames[u]
  BY <1>1, TopKept
<1>3. pend \in [Thread -> Seq(Event)] /\ pend[t] \in Seq(Event)
  BY <1>1 DEF Basics, TypeOK
<1>4. /\ n \in Nat /\ n >= 1
      /\ Len(Pop(pend[t])) = n - 1
      /\ \A i \in 1..(n - 1) : Pop(pend[t])[i] = pend[t][i]
      /\ Top(pend[t]) = e /\ e \in Event
  BY <1>3, PopProperties
<1>5. /\ \A u \in Thread : u # t => pend'[u] = pend[u]
      /\ Len(pend'[t]) = n - 1
      /\ \A i \in 1..(n - 1) : pend'[t][i] = pend[t][i]
  BY <1>1, <1>3, <1>4
<1>6. \/ /\ e.function = CreateThread
         /\ current_thread_ids' = current_thread_ids \cup {e.target}
      \/ /\ e.function = TerminateThread /\ status[e.target] = "dead"
         /\ current_thread_ids' = current_thread_ids \ {e.target}
      \/ e.function = LoadDll /\ current_thread_ids' = current_thread_ids
  <2>1. e.function = TerminateThread => status[e.target] = "dead"
    BY <1>4 DEF ThreadsOK, CallsOfThreadsOK, DeathsOK
  <2> HIDE DEF e
  <2> QED
    BY <1>1, <1>4, <2>1 DEF FinishEvent, TrackThread, UntrackThread, threads
\* What is left pending was pending before, in its place.
<1>7. \A u \in Thread : \A i \in 1..Len(pend'[u]) :
         /\ i \in 1..Len(pend[u]) /\ pend'[u][i] = pend[u][i]
         /\ ~(u = t /\ i = n)
  BY <1>4, <1>5
<1>8. DeathsOK'
  <2> SUFFICES ASSUME NEW u \in Thread, NEW i \in 1..Len(pend'[u]),
                      pend'[u][i].function = TerminateThread
               PROVE  \/ status[pend'[u][i].target] = "dead"
                      \/ /\ i = Len(pend'[u]) /\ at[u] = "body"
                         /\ Matches(pend'[u][i], Top(frames'[u]))
    BY <1>1 DEF DeathsOK
  <2>1. CASE u # t
    BY <2>1, <1>2, <1>5 DEF ThreadsOK, CallsOfThreadsOK, DeathsOK
  <2>2. CASE u = t
    BY <2>2, <1>7 DEF ThreadsOK, CallsOfThreadsOK, DeathsOK
  <2> QED
    BY <2>1, <2>2
<1>9. BodiesOK'
  BY <1>1, <1>2, <1>5 DEF ThreadsOK, CallsOfThreadsOK, BodiesOK
<1>10. TargetsOK'
  <2>1. TargetsOK
    BY DEF ThreadsOK, CallsOfThreadsOK
  <2>2. \A u \in Thread : /\ Top(frames'[u]).function = Top(frames[u]).function
                         /\ Top(frames'[u]).target = Top(frames[u]).target
    BY <1>2
  <2> QED
    BY <1>1, <2>1, <2>2 DEF TargetsOK
<1>11. OneCreator'
  <2>1. \A u \in Thread : /\ Creates(u)' => Creates(u)
                          /\ Creates(u)' => Top(frames'[u]).target = Top(frames[u]).target
    BY <1>1, <1>2 DEF Creates
  <2> QED
    BY <2>1 DEF ThreadsOK, CallsOfThreadsOK, OneCreator
<1>12. LiveOrPending'
  <2> SUFFICES ASSUME NEW u \in Thread, status[u] = "alive", u \notin current_thread_ids'
               PROVE  \E v \in Thread : \E i \in 1..Len(pend'[v]) :
                         pend'[v][i].function = CreateThread /\ pend'[v][i].target = u
    BY <1>1 DEF LiveOrPending
  <2>1. /\ u \notin current_thread_ids
        /\ e.function = CreateThread => e.target # u
    <3> HIDE DEF e
    <3> QED
      BY <1>6, RecordingAssumption
  <2>2. PICK v \in Thread : \E i \in 1..Len(pend[v]) :
                pend[v][i].function = CreateThread /\ pend[v][i].target = u
    BY <2>1 DEF ThreadsOK, LiveOrPending
  <2>3. PICK i \in 1..Len(pend[v]) :
                pend[v][i].function = CreateThread /\ pend[v][i].target = u
    BY <2>2
  <2>4. ~(v = t /\ i = n)
    BY <2>1, <2>3
  <2>5. i \in 1..Len(pend'[v]) /\ pend'[v][i] = pend[v][i]
    BY <1>4, <1>5, <2>4
  <2> QED
    BY <2>3, <2>5
<1> QED
  BY <1>8, <1>9, <1>10, <1>11, <1>12 DEF ThreadsOK, CallsOfThreadsOK

LEMMA ThreadsStep == ThreadsOK /\ [Next]_vars => ThreadsOK'
<1> SUFFICES ASSUME ThreadsOK, [Next]_vars PROVE ThreadsOK'
  OBVIOUS
<1>1. Basics /\ Basics'
  BY BasicsStep DEF ThreadsOK
<1>2. ASSUME NEW t \in Thread, NEW function \in EntryPoints, NEW site \in ReturnSites[t],
             NEW target \in Targets(t, function), Call(t, function, site, target)
      PROVE  ThreadsOK'
  BY <1>2, CallThreads
<1>3. ASSUME NEW t \in Thread, Stop(t) PROVE ThreadsOK'
  BY <1>1, <1>3, ThreadsUntouched DEF Stop, threadsState, events, threads
<1>4. ASSUME NEW t \in Thread, Return(t) PROVE ThreadsOK'
  BY <1>4, ReturnThreads
<1>5. ASSUME NEW t \in Thread, Perform(t) PROVE ThreadsOK'
  BY <1>5, PerformThreads
<1>6. ASSUME NEW t \in Thread, HandleBreakpoint(t) PROVE ThreadsOK'
  <2>1. CASE at[t] = "entry" /\ OnBreakpointEnter(t)
    BY <1>1, <2>1, EnterThreads
  <2>2. CASE /\ at[t] = "return"
             /\ Rip(t) \in Tracked \ EntryPoints /\ t \in Holders(Rip(t))
             /\ OnBreakpointReturn(t)
    <3>1. CASE pending_thread_events[t] # <<>>
      BY <1>1, <2>2, <3>1, CompleteThreads
    <3>2. CASE pending_thread_events[t] = <<>>
      BY <1>1, <2>2, <3>2, ThreadsUntouched
      DEF OnBreakpointReturn, threadsState, events, threads
    <3> QED
      BY <3>1, <3>2
  <2>3. CASE UNCHANGED recorded
    BY <1>1, <2>3, ThreadsUntouched DEF recorded, threadsState, events, threads
  <2> QED
    BY <1>1, <1>6, <2>1, <2>2, <2>3, HandleCases
<1>7. ASSUME Timeout \/ UNCHANGED vars PROVE ThreadsOK'
  BY <1>1, <1>7, ThreadsUntouched
  DEF Timeout, vars, threadsState, debuggee, events, threads
<1> QED
  BY <1>2, <1>3, <1>4, <1>5, <1>6, <1>7 DEF Next

\* No thread that lives is unknown to the debugger, however the creations and
\* terminations of any number of threads overlap: it is tracked, or its creator
\* lives and the event that will track it waits for the creator's call to return.
\* The exception is stated: the thread whose creator was terminated inside
\* NtCreateThreadEx (thread_events.cpp:14-29, thread_manager.cpp TrackThread,
\* UntrackThread).
THEOREM LiveThreadsTracked == Spec => []LiveThreadsAreTracked
<1>1. Spec => []ThreadsOK
  BY InitThreads, ThreadsStep, PTL DEF Spec
<1>2. ThreadsOK => LiveThreadsAreTracked
  BY DEF ThreadsOK, LiveOrPending, LiveThreadsAreTracked, Orphaned, Creating
<1> QED
  BY <1>1, <1>2, PTL

----------------------------------------------------------------------------
(* Threads that return to addresses of their own.                          *)

SitesAreOwn == \A t, u \in Thread : t # u => ReturnSites[t] \cap ReturnSites[u] = {}

\* The address at which a thread has stopped has a breakpoint until the stop
\* is handled.
StopsAreTracked ==
    \A t \in Thread : stopped[t] /\ at[t] = "return" => Top(frames[t]).site \in Tracked

StopsOK == Basics /\ StopsAreTracked /\ NeverAborted

LEMMA InitStops == Init => StopsOK
<1> SUFFICES ASSUME Init PROVE StopsOK
  OBVIOUS
<1>1. StopsAreTracked /\ NeverAborted
  BY DEF Init, StopsAreTracked, NeverAborted
<1> QED
  BY <1>1, InitBasics DEF StopsOK

LEMMA StopsStep ==
  ASSUME SitesAreOwn, StopsOK, [Next]_vars
  PROVE  StopsOK'
<1>1. Basics /\ Basics'
  BY BasicsStep DEF StopsOK
<1>2. /\ at \in [Thread -> {"code", "entry", "body", "return"}]
      /\ stopped \in [Thread -> BOOLEAN]
      /\ phase # "aborted"
  BY <1>1 DEF Basics, TypeOK, StopsOK, NeverAborted
<1>3. ASSUME NEW t \in Thread, NEW function \in EntryPoints, NEW site \in ReturnSites[t],
             NEW target \in Targets(t, function), Call(t, function, site, target)
      PROVE  StopsAreTracked' /\ NeverAborted'
  <2>1. /\ at' = [at EXCEPT ![t] = "entry"]
        /\ \A u \in Thread : u # t => frames'[u] = frames[u]
        /\ UNCHANGED <<address_to_bp, stopped, phase>>
    BY <1>1, <1>3, CallBasics DEF Call, breakpointVars, tables
  <2> QED
    BY <1>2, <2>1 DEF StopsOK, StopsAreTracked, NeverAborted, Tracked
<1>4. ASSUME NEW t \in Thread, Stop(t) PROVE StopsAreTracked' /\ NeverAborted'
  <2>1. /\ byte[Rip(t)] = int3
        /\ stopped' = [stopped EXCEPT ![t] = TRUE]
        /\ UNCHANGED <<address_to_bp, at, frames, phase>>
    BY <1>4 DEF Stop, breakpointVars, tables
  <2>2. at[t] = "return" => Top(frames[t]).site \in Tracked
    BY <1>1, <2>1, TopTyped DEF Basics, TablesOK, Rip
  <2> QED
    BY <1>2, <2>1, <2>2 DEF StopsOK, StopsAreTracked, NeverAborted, Tracked
<1>5. ASSUME NEW t \in Thread, Return(t) PROVE StopsAreTracked' /\ NeverAborted'
  <2>1. /\ ~stopped[t]
        /\ at' = [at EXCEPT ![t] = IF Len(frames[t]) = 1 THEN "code" ELSE "body"]
        /\ \A u \in Thread : u # t => frames'[u] = frames[u]
        /\ UNCHANGED <<address_to_bp, stopped, phase>>
    BY <1>1, <1>5, ReturnBasics DEF Return, Runs, breakpointVars, tables
  <2> QED
    BY <1>2, <2>1 DEF StopsOK, StopsAreTracked, NeverAborted, Tracked
<1>6. ASSUME NEW t \in Thread, Perform(t) PROVE StopsAreTracked' /\ NeverAborted'
  <2>1. /\ ~stopped[t]
        /\ at' = [at EXCEPT ![t] = "return"]
        /\ \/ stopped' = [stopped EXCEPT ![Top(frames[t]).target] = FALSE]
           \/ stopped' = stopped
        /\ UNCHANGED <<address_to_bp, frames, phase>>
    BY <1>6 DEF Perform, Runs, breakpointVars, tables
  <2>2. \A u \in Thread : stopped'[u] => stopped[u] /\ at'[u] = at[u]
    BY <1>2, <2>1
  <2> QED
    BY <1>2, <2>1, <2>2 DEF StopsOK, StopsAreTracked, NeverAborted, Tracked
<1>7. ASSUME NEW t \in Thread, HandleBreakpoint(t) PROVE StopsAreTracked' /\ NeverAborted'
  <2>1. /\ stopped[t] /\ stopped' = [stopped EXCEPT ![t] = FALSE]
    BY <1>1, <1>7, HandleCases
  <2>2. CASE at[t] = "entry" /\ OnBreakpointEnter(t)
    <3>1. /\ at' = [at EXCEPT ![t] = "body"]
          /\ frames' = OpenTop(t, TRUE)
          /\ Top(frames[t]).site \in AllSites
          /\ CreateHeldBreakpoints({Top(frames[t]).site}, t, "Return")
          /\ UNCHANGED phase
      BY <1>1, <2>2, EnterShape
    <3>2. Tracked \subseteq Tracked'
      BY <1>1, <2>2, <3>1, CreateShape, TopTyped, RecordingAssumption DEF Basics
    <3>3. \A u \in Thread : u # t => frames'[u] = frames[u]
      BY <1>1, <2>2, <3>1, TopKept
    <3> QED
      BY <1>2, <2>1, <3>1, <3>2, <3>3 DEF StopsOK, StopsAreTracked, NeverAborted
  <2>3. CASE /\ at[t] = "return"
             /\ Rip(t) \in Tracked \ EntryPoints /\ t \in Holders(Rip(t))
             /\ OnBreakpointReturn(t)
    <3>1. CASE pending_thread_events[t] = <<>>
      <4>1. UNCHANGED <<address_to_bp, at, frames, phase>>
        BY <2>3, <3>1 DEF OnBreakpointReturn, breakpointVars, tables
      <4> QED
        BY <1>2, <2>1, <4>1 DEF StopsOK, StopsAreTracked, NeverAborted, Tracked
    <3>2. CASE pending_thread_events[t] # <<>>
      <4>1. /\ frames' = OpenTop(t, FALSE)
            /\ Rip(t) = Top(frames[t]).site
            /\ RemoveBreakpoints({Rip(t)}, t)
            /\ UNCHANGED <<at, phase>>
        BY <1>1, <2>3, <3>2, ReturnShape
      <4>2. \A a \in Tracked : a # Rip(t) => a \in Tracked'
        BY <1>1, <2>3, <4>1, RemoveShape DEF Basics
      <4>3. \A u \in Thread : u # t => frames'[u] = frames[u]
        BY <1>1, <2>3, <4>1, TopKept
      \* The breakpoint that goes is at an address nobody else returns to.
      <4>4. ASSUME NEW u \in Thread, u # t, at[u] = "return"
            PROVE  Top(frames[u]).site # Rip(t)
        <5>1. /\ Top(frames[u]).site \in ReturnSites[u]
              /\ Top(frames[t]).site \in ReturnSites[t]
          BY <1>1, <2>3, <4>4, TopTyped DEF Basics
        <5> QED
          BY <4>1, <4>4, <5>1 DEF SitesAreOwn
      <4> QED
        BY <1>2, <2>1, <4>1, <4>2, <4>3, <4>4 DEF StopsOK, StopsAreTracked, NeverAborted
    <3> QED
      BY <3>1, <3>2
  <2>4. CASE UNCHANGED <<recorded, phase>>
    BY <1>2, <2>1, <2>4
    DEF recorded, breakpointVars, tables, StopsOK, StopsAreTracked, NeverAborted, Tracked
  <2>5. CASE at[t] = "return" /\ Rip(t) \notin Tracked
    BY <2>1, <2>5 DEF StopsOK, StopsAreTracked, Rip
  <2> QED
    BY <1>1, <1>7, <2>2, <2>3, <2>4, <2>5, HandleCases
<1>8. ASSUME Timeout \/ UNCHANGED vars PROVE StopsAreTracked' /\ NeverAborted'
  <2>1. /\ UNCHANGED <<address_to_bp, at, stopped, frames>>
        /\ phase' \in {phase, "restoring"}
    BY <1>8 DEF Timeout, vars, debuggee, breakpointVars, tables
  <2> QED
    BY <2>1 DEF StopsOK, StopsAreTracked, NeverAborted, Tracked
<1>9. StopsAreTracked' /\ NeverAborted'
  BY <1>3, <1>4, <1>5, <1>6, <1>7, <1>8 DEF Next
<1> QED
  BY <1>1, <1>9 DEF StopsOK

\* Where no two threads return to the same address, the debugger knows a reason
\* for every stop it takes, and .value() never throws: a breakpoint goes only
\* with the return it was written for, which nobody else is waiting at
\* (record_phase.cpp:101-153, event_log.cpp:59-70).
THEOREM RecordingNeverAborts ==
  ASSUME SitesAreOwn
  PROVE  Spec => []NeverAborted
<1>1. StopsOK /\ [Next]_vars => StopsOK'
  BY StopsStep
<1>2. Spec => []StopsOK
  BY <1>1, InitStops, PTL DEF Spec
<1>3. StopsOK => NeverAborted
  BY DEF StopsOK
<1> QED
  BY <1>2, <1>3, PTL

----------------------------------------------------------------------------
(* Calls whose return addresses no two pending calls share: threads return *)
(* to addresses of their own, and none is pending twice.                   *)

\* The open calls, the breakpoints at their return addresses and the pending
\* events are three views of one stack.  A breakpoint has the one holder, and
\* its int3 is in place.
SitesOK ==
    /\ \A t \in Thread : \A i, j \in 1..Len(frames[t]) :
          frames[t][i].site = frames[t][j].site => i = j
    /\ \A a \in Tracked \ EntryPoints : byte[a] = int3
    /\ \A a \in Address : Len(HoldersOf(a)) <= 1
    /\ \A t \in Thread : \A a \in Address :
          (\E i \in 1..Len(HoldersOf(a)) : HoldersOf(a)[i] = t)
             <=> \E i \in 1..Len(frames[t]) : frames[t][i].open /\ frames[t][i].site = a

StacksOK ==
    \A t \in Thread :
        /\ OpenFrames(t) = 1..Len(pending_thread_events[t])
        /\ \A i \in OpenFrames(t) : Matches(pending_thread_events[t][i], frames[t][i])

MatchingOK == Basics /\ SitesOK /\ StacksOK

LEMMA InitMatching == Init => MatchingOK
<1> SUFFICES ASSUME Init PROVE MatchingOK
  OBVIOUS
<1>1. Basics
  BY InitBasics
<1>2. /\ \A t \in Thread : Len(frames[t]) = 0 /\ Len(pending_thread_events[t]) = 0
      /\ Tracked = EntryPoints
  BY DEF Init, Tracked
<1>3. \A a : HoldersOf(a) = <<>>
  BY <1>1, <1>2 DEF HoldersOf, Basics, TablesOK
<1>4. SitesOK
  BY <1>2, <1>3 DEF SitesOK
<1>5. StacksOK
  BY <1>2 DEF StacksOK, OpenFrames
<1> QED
  BY <1>1, <1>4, <1>5 DEF MatchingOK

\* What the invariant is about.
matchingState == <<breakpointVars, frames, pending_thread_events>>

LEMMA MatchingUntouched ==
  ASSUME MatchingOK, Basics', UNCHANGED matchingState
  PROVE  MatchingOK'
<1>1. UNCHANGED <<byte, address_to_bp, frames, pending_thread_events>>
  BY DEF matchingState, breakpointVars, tables
<1>2. Tracked' = Tracked /\ \A a : HoldersOf(a)' = HoldersOf(a)
  BY <1>1 DEF Tracked, HoldersOf
<1>3. SitesOK'
  BY <1>1, <1>2 DEF MatchingOK, SitesOK
<1>4. StacksOK'
  BY <1>1 DEF MatchingOK, StacksOK, OpenFrames
<1> QED
  BY <1>3, <1>4 DEF MatchingOK

LEMMA CallMatching ==
  ASSUME ~Recursion, MatchingOK, NEW t \in Thread, NEW function \in EntryPoints,
         NEW site \in ReturnSites[t], NEW target \in Targets(t, function),
         Call(t, function, site, target)
  PROVE  MatchingOK'
<1> DEFINE new == Frame(function, site, target)
           n == Len(frames[t])
<1>1. /\ Basics /\ Basics'
      /\ frames'[t] = Append(frames[t], new)
      /\ \A u \in Thread : u # t => frames'[u] = frames[u]
      /\ new \in CallFrame /\ ~new.open /\ new.site = site
  BY CallBasics, RecordingAssumption DEF MatchingOK, Frame, CallFrame
<1> HIDE DEF new
<1>2. /\ Len(frames'[t]) = n + 1 /\ n \in Nat
      /\ \A i \in 1..n : frames'[t][i] = frames[t][i]
      /\ frames'[t][n + 1] = new
  BY <1>1, PushProperties, FramesTyped DEF Basics
<1>3. /\ \A i \in 1..n : frames[t][i].site # site
      /\ UNCHANGED <<byte, address_to_bp, pending_thread_events>>
  BY DEF Call, breakpointVars, tables, events
<1>4. Tracked' = Tracked /\ \A a : HoldersOf(a)' = HoldersOf(a)
  BY <1>3 DEF Tracked, HoldersOf
<1>5. \A i \in 1..(n + 1) : i \in 1..n \/ i = n + 1
  BY <1>2
<1>6. ASSUME NEW i \in 1..(n + 1), NEW j \in 1..(n + 1), frames'[t][i].site = frames'[t][j].site
      PROVE  i = j
  BY <1>1, <1>2, <1>3, <1>5, <1>6 DEF MatchingOK, SitesOK
<1>7. ASSUME NEW a
      PROVE  (\E i \in 1..(n + 1) : frames'[t][i].open /\ frames'[t][i].site = a)
                <=> \E i \in 1..n : frames[t][i].open /\ frames[t][i].site = a
  BY <1>1, <1>2, <1>5
<1>8. SitesOK'
  <2>1. ASSUME NEW u \in Thread, NEW i \in 1..Len(frames'[u]), NEW j \in 1..Len(frames'[u]),
               frames'[u][i].site = frames'[u][j].site
        PROVE  i = j
    <3>1. CASE u # t
      BY <1>1, <2>1, <3>1 DEF MatchingOK, SitesOK
    <3>2. CASE u = t
      BY <1>2, <1>6, <2>1, <3>2
    <3> QED
      BY <3>1, <3>2
  <2>2. ASSUME NEW u \in Thread, NEW a \in Address
        PROVE  (\E i \in 1..Len(HoldersOf(a)) : HoldersOf(a)[i] = u)
                 <=> \E i \in 1..Len(frames'[u]) : frames'[u][i].open /\ frames'[u][i].site = a
    <3>1. (\E i \in 1..Len(HoldersOf(a)) : HoldersOf(a)[i] = u)
             <=> \E i \in 1..Len(frames[u]) : frames[u][i].open /\ frames[u][i].site = a
      BY DEF MatchingOK, SitesOK
    <3>2. CASE u # t
      BY <1>1, <3>1, <3>2
    <3>3. CASE u = t
      <4>1. (\E i \in 1..Len(frames'[t]) : frames'[t][i].open /\ frames'[t][i].site = a)
               <=> \E i \in 1..Len(frames[t]) : frames[t][i].open /\ frames[t][i].site = a
        BY <1>2, <1>7
      <4> QED
        BY <3>1, <3>3, <4>1
    <3> QED
      BY <3>2, <3>3
  <2>3. \A a \in Tracked' \ EntryPoints : byte'[a] = int3
    BY <1>3, <1>4 DEF MatchingOK, SitesOK
  <2>4. \A a \in Address : Len(HoldersOf(a)') <= 1
    BY <1>4 DEF MatchingOK, SitesOK
  <2>5. \A u \in Thread : \A a \in Address :
           (\E i \in 1..Len(HoldersOf(a)') : HoldersOf(a)'[i] = u)
              <=> \E i \in 1..Len(frames'[u]) : frames'[u][i].open /\ frames'[u][i].site = a
    BY <1>4, <2>2
  <2>6. \A u \in Thread : \A i, j \in 1..Len(frames'[u]) :
           frames'[u][i].site = frames'[u][j].site => i = j
    BY <2>1
  <2> QED
    BY <2>3, <2>4, <2>5, <2>6 DEF SitesOK
<1>9. \A u \in Thread : /\ OpenFrames(u)' = OpenFrames(u)
                        /\ \A i \in OpenFrames(u) : frames'[u][i] = frames[u][i]
  <2>1. \A u \in Thread : u # t => OpenFrames(u)' = OpenFrames(u) /\ frames'[u] = frames[u]
    BY <1>1 DEF OpenFrames
  <2>2. \A i : i \in OpenFrames(t)' <=> i \in 1..(n + 1) /\ frames'[t][i].open
    BY <1>2 DEF OpenFrames
  <2>3. \A i : i \in OpenFrames(t) <=> i \in 1..n /\ frames[t][i].open
    BY DEF OpenFrames
  <2>4. ASSUME NEW i PROVE i \in OpenFrames(t)' <=> i \in OpenFrames(t)
    <3>1. CASE i \in 1..n
      <4>1. i \in 1..(n + 1) /\ frames'[t][i] = frames[t][i]
        BY <1>2, <3>1
      <4> QED
        BY <2>2, <2>3, <3>1, <4>1
    <3>2. CASE i \notin 1..n
      <4>1. i \notin OpenFrames(t)
        BY <2>3, <3>2
      <4>2. i \in 1..(n + 1) => frames'[t][i] = new
        BY <1>2, <1>5, <3>2
      <4> QED
        BY <1>1, <2>2, <4>1, <4>2
    <3> QED
      BY <3>1, <3>2
  <2>5. \A i \in OpenFrames(t) : frames'[t][i] = frames[t][i]
    BY <1>2, <2>3
  <2> QED
    BY <2>1, <2>4, <2>5
<1>10. StacksOK'
  BY <1>3, <1>9 DEF MatchingOK, StacksOK
<1> QED
  BY <1>1, <1>8, <1>10 DEF MatchingOK

\* A thread goes on from a return address only when the debugger has seen the
\* return: as long as it has not, the int3 is there.
LEMMA ReturnMatching ==
  ASSUME MatchingOK, NEW t \in Thread, Return(t)
  PROVE  MatchingOK'
<1> DEFINE n == Len(frames[t])
<1>1. /\ Basics /\ Basics'
      /\ frames'[t] = Pop(frames[t])
      /\ \A u \in Thread : u # t => frames'[u] = frames[u]
  BY ReturnBasics DEF MatchingOK
<1>2. /\ at[t] = "return" /\ byte[Rip(t)] = Code
      /\ UNCHANGED <<byte, address_to_bp, pending_thread_events>>
  BY DEF Return, breakpointVars, tables, events
<1>3. /\ n \in Nat /\ n >= 1 /\ frames[t] \in Seq(CallFrame)
      /\ Rip(t) = frames[t][n].site /\ Rip(t) \in Address /\ Rip(t) \in AllSites
  BY <1>1, <1>2, TopTyped, FramesTyped DEF Basics, Rip, AllSites
<1>4. /\ Len(frames'[t]) = n - 1
      /\ \A i \in 1..(n - 1) : frames'[t][i] = frames[t][i]
  <2>1. frames[t] # <<>>
    BY <1>3
  <2> QED
    BY <1>1, <1>3, <2>1, PopProperties
<1>5. Tracked' = Tracked /\ \A a : HoldersOf(a)' = HoldersOf(a)
  BY <1>2 DEF Tracked, HoldersOf
<1>6. ~frames[t][n].open
  <2>1. Rip(t) \notin Tracked
    BY <1>2, <1>3, RecordingAssumption DEF MatchingOK, SitesOK, Code, int3
  <2>2. HoldersOf(Rip(t)) = <<>>
    BY <2>1 DEF HoldersOf
  <2>3. ~\E i \in 1..n : frames[t][i].open /\ frames[t][i].site = Rip(t)
    BY <1>3, <2>2 DEF MatchingOK, SitesOK
  <2> QED
    BY <1>3, <2>3
<1>7. \A i \in 1..n : i \in 1..(n - 1) \/ i = n
  BY <1>3
<1>8. ASSUME NEW a
      PROVE  (\E i \in 1..(n - 1) : frames'[t][i].open /\ frames'[t][i].site = a)
                <=> \E i \in 1..n : frames[t][i].open /\ frames[t][i].site = a
  <2>1. \A i \in 1..(n - 1) : i \in 1..n
    BY <1>3
  <2> QED
    BY <1>4, <1>6, <1>7, <2>1
<1>9. SitesOK'
  <2>1. ASSUME NEW u \in Thread, NEW i \in 1..Len(frames'[u]), NEW j \in 1..Len(frames'[u]),
               frames'[u][i].site = frames'[u][j].site
        PROVE  i = j
    <3>1. /\ i \in 1..Len(frames[u]) /\ frames'[u][i] = frames[u][i]
          /\ j \in 1..Len(frames[u]) /\ frames'[u][j] = frames[u][j]
      BY <1>1, <1>3, <1>4
    <3> QED
      BY <2>1, <3>1 DEF MatchingOK, SitesOK
  <2>2. ASSUME NEW u \in Thread, NEW a \in Address
        PROVE  (\E i \in 1..Len(HoldersOf(a)) : HoldersOf(a)[i] = u)
                 <=> \E i \in 1..Len(frames'[u]) : frames'[u][i].open /\ frames'[u][i].site = a
    <3>1. (\E i \in 1..Len(HoldersOf(a)) : HoldersOf(a)[i] = u)
             <=> \E i \in 1..Len(frames[u]) : frames[u][i].open /\ frames[u][i].site = a
      BY DEF MatchingOK, SitesOK
    <3>2. CASE u # t
      BY <1>1, <3>1, <3>2
    <3>3. CASE u = t
      <4>1. (\E i \in 1..Len(frames'[t]) : frames'[t][i].open /\ frames'[t][i].site = a)
               <=> \E i \in 1..Len(frames[t]) : frames[t][i].open /\ frames[t][i].site = a
        BY <1>4, <1>8
      <4> QED
        BY <3>1, <3>3, <4>1
    <3> QED
      BY <3>2, <3>3
  <2>3. \A a \in Tracked' \ EntryPoints : byte'[a] = int3
    BY <1>2, <1>5 DEF MatchingOK, SitesOK
  <2>4. \A a \in Address : Len(HoldersOf(a)') <= 1
    BY <1>5 DEF MatchingOK, SitesOK
  <2>5. \A u \in Thread : \A a \in Address :
           (\E i \in 1..Len(HoldersOf(a)') : HoldersOf(a)'[i] = u)
              <=> \E i \in 1..Len(frames'[u]) : frames'[u][i].open /\ frames'[u][i].site = a
    BY <1>5, <2>2
  <2>6. \A u \in Thread : \A i, j \in 1..Len(frames'[u]) :
           frames'[u][i].site = frames'[u][j].site => i = j
    BY <2>1
  <2> QED
    BY <2>3, <2>4, <2>5, <2>6 DEF SitesOK
<1>10. \A u \in Thread : /\ OpenFrames(u)' = OpenFrames(u)
                         /\ \A i \in OpenFrames(u) : frames'[u][i] = frames[u][i]
  <2>1. \A u \in Thread : u # t => OpenFrames(u)' = OpenFrames(u) /\ frames'[u] = frames[u]
    BY <1>1 DEF OpenFrames
  <2>2. /\ OpenFrames(t)' = OpenFrames(t)
        /\ \A i \in OpenFrames(t) : frames'[t][i] = frames[t][i]
    <3>1. \A i : i \in OpenFrames(t)' <=> i \in 1..(n - 1) /\ frames'[t][i].open
      BY <1>4 DEF OpenFrames
    <3>2. \A i : i \in OpenFrames(t) <=> i \in 1..n /\ frames[t][i].open
      BY DEF OpenFrames
    <3>3. ASSUME NEW i PROVE i \in OpenFrames(t)' <=> i \in OpenFrames(t)
      <4>1. CASE i \in 1..(n - 1)
        <5>1. i \in 1..n /\ frames'[t][i] = frames[t][i]
          BY <1>3, <1>4, <4>1
        <5> QED
          BY <3>1, <3>2, <4>1, <5>1
      <4>2. CASE i \notin 1..(n - 1)
        BY <1>6, <1>7, <3>1, <3>2, <4>2
      <4> QED
        BY <4>1, <4>2
    <3>4. \A i \in OpenFrames(t) : i \in 1..(n - 1)
      BY <3>1, <3>3
    <3> QED
      BY <1>4, <3>3, <3>4
  <2> QED
    BY <2>1, <2>2
<1>11. StacksOK'
  BY <1>2, <1>10 DEF MatchingOK, StacksOK
<1> QED
  BY <1>1, <1>9, <1>11 DEF MatchingOK

LEMMA EnterMatching ==
  ASSUME SitesAreOwn, MatchingOK, Basics', NEW t \in Thread, at[t] = "entry",
         OnBreakpointEnter(t)
  PROVE  MatchingOK'
<1> DEFINE pend == pending_thread_events
           n == Len(frames[t])
<1> PICK r : r = Top(frames[t]).site
  OBVIOUS
<1>1. /\ Basics
      /\ frames' = OpenTop(t, TRUE)
      /\ r \in AllSites
      /\ CreateHeldBreakpoints({r}, t, "Return")
      /\ \E e \in Event :
            /\ e.function = Top(frames[t]).function
            /\ e.target = Top(frames[t]).target
            /\ pend' = [pend EXCEPT ![t] = Append(pend[t], e)]
  BY EnterShape DEF MatchingOK
<1>2. /\ n \in Nat /\ n >= 1 /\ Top(frames[t]) = frames[t][n]
      /\ r = frames[t][n].site /\ r \in Address /\ r \in ReturnSites[t]
      /\ ~frames[t][n].open
      /\ \A i \in 1..(n - 1) : frames[t][i].open
  BY <1>1, TopTyped DEF Basics, CallsOK
<1>3. /\ \A u \in Thread : u # t => frames'[u] = frames[u]
      /\ Len(frames'[t]) = n
      /\ \A i \in 1..(n - 1) : frames'[t][i] = frames[t][i]
      /\ \A i \in 1..n : /\ frames'[t][i].function = frames[t][i].function
                         /\ frames'[t][i].site = frames[t][i].site
                         /\ frames'[t][i].target = frames[t][i].target
      /\ frames'[t][n].open = TRUE
  BY <1>1, OpenTopShape DEF Basics
<1>4. /\ Tracked' = Tracked \cup {r}
      /\ HoldersOf(r)' = Append(HoldersOf(r), t)
      /\ \A a : a # r => HoldersOf(a)' = HoldersOf(a)
      /\ byte' = IF r \in Tracked THEN byte ELSE [byte EXCEPT ![r] = int3]
  BY <1>1, <1>2, CreateShape, RecordingAssumption DEF Basics
<1>5. r \notin EntryPoints
  BY <1>1, RecordingAssumption
\* Nobody holds the return address yet: not the thread itself, whose pending
\* calls return elsewhere, and not another.
<1>6. Len(HoldersOf(r)) = 0
  <2>1. HoldersOf(r) \in Seq(Thread) /\ Len(HoldersOf(r)) \in Nat
    BY <1>1, HoldersTyped DEF Basics
  <2>2. ASSUME Len(HoldersOf(r)) # 0 PROVE FALSE
    <3>1. 1 \in 1..Len(HoldersOf(r)) /\ HoldersOf(r)[1] \in Thread
      BY <1>1, <2>1, <2>2, HoldersTyped DEF Basics
    <3>2. PICK u \in Thread : HoldersOf(r)[1] = u
      BY <3>1
    <3>3. PICK i \in 1..Len(frames[u]) : frames[u][i].open /\ frames[u][i].site = r
      BY <1>2, <3>1, <3>2 DEF MatchingOK, SitesOK
    <3>4. r \in ReturnSites[u]
      BY <1>1, <3>3 DEF Basics, CallsOK
    <3>5. u = t
      BY <1>2, <3>4 DEF SitesAreOwn
    <3>6. i = n
      BY <1>2, <3>3, <3>5 DEF MatchingOK, SitesOK
    <3> QED
      BY <1>2, <3>3, <3>5, <3>6
  <2> QED
    BY <2>2
<1>7. Len(HoldersOf(r)') = 1 /\ HoldersOf(r)'[1] = t
  <2>1. HoldersOf(r) \in Seq(Thread)
    BY <1>1, HoldersTyped DEF Basics
  <2> DEFINE s == HoldersOf(r)
  <2>2. Len(Append(s, t)) = 1 /\ Append(s, t)[1] = t
    BY <1>6, <2>1, AppendProperties
  <2> QED
    BY <1>4, <2>2
<1>8. SitesOK'
  <2>1. ASSUME NEW u \in Thread, NEW i \in 1..Len(frames'[u]), NEW j \in 1..Len(frames'[u]),
               frames'[u][i].site = frames'[u][j].site
        PROVE  i = j
    <3>1. /\ i \in 1..Len(frames[u]) /\ frames'[u][i].site = frames[u][i].site
          /\ j \in 1..Len(frames[u]) /\ frames'[u][j].site = frames[u][j].site
      BY <1>3
    <3>2. \A k, l \in 1..Len(frames[u]) : frames[u][k].site = frames[u][l].site => k = l
      BY DEF MatchingOK, SitesOK
    <3> QED
      BY <2>1, <3>1, <3>2
  <2>2. \A a \in Tracked' \ EntryPoints : byte'[a] = int3
    BY <1>1, <1>4 DEF MatchingOK, SitesOK, Basics, TypeOK, BreakpointTypeOK
  <2>3. \A a \in Address : Len(HoldersOf(a)') <= 1
    BY <1>4, <1>7 DEF MatchingOK, SitesOK
  <2>4. ASSUME NEW u \in Thread, NEW a \in Address
        PROVE  (\E i \in 1..Len(HoldersOf(a)') : HoldersOf(a)'[i] = u)
                 <=> \E i \in 1..Len(frames'[u]) : frames'[u][i].open /\ frames'[u][i].site = a
    <3>1. (\E i \in 1..Len(HoldersOf(a)) : HoldersOf(a)[i] = u)
             <=> \E i \in 1..Len(frames[u]) : frames[u][i].open /\ frames[u][i].site = a
      BY DEF MatchingOK, SitesOK
    <3>2. CASE a # r
      <4>1. HoldersOf(a)' = HoldersOf(a)
        BY <1>4, <3>2
      <4>2. (\E i \in 1..Len(frames'[u]) : frames'[u][i].open /\ frames'[u][i].site = a)
               <=> \E i \in 1..Len(frames[u]) : frames[u][i].open /\ frames[u][i].site = a
        <5>1. CASE u # t
          BY <1>3, <5>1
        <5>2. CASE u = t
          <6>1. Len(frames'[u]) = n /\ Len(frames[u]) = n
            BY <1>3, <5>2
          <6>2. frames[u][n].site # a /\ frames'[u][n].site # a
            BY <1>2, <1>3, <3>2, <5>2
          <6>3. \A i \in 1..n : i = n \/ frames'[u][i] = frames[u][i]
            BY <1>2, <1>3, <5>2
          <6> QED
            BY <6>1, <6>2, <6>3
        <5> QED
          BY <5>1, <5>2
      <4> QED
        BY <3>1, <4>1, <4>2
    <3>3. CASE a = r /\ u = t
      <4>1. 1 \in 1..Len(HoldersOf(r)') /\ HoldersOf(r)'[1] = t
        BY <1>7
      <4>2. n \in 1..Len(frames'[t]) /\ frames'[t][n].open /\ frames'[t][n].site = r
        BY <1>2, <1>3
      <4>3. \E i \in 1..Len(HoldersOf(a)') : HoldersOf(a)'[i] = u
        BY <3>3, <4>1
      <4>4. \E i \in 1..Len(frames'[u]) : frames'[u][i].open /\ frames'[u][i].site = a
        BY <3>3, <4>2
      <4> QED
        BY <4>3, <4>4
    <3>4. CASE a = r /\ u # t
      <4>1. \A i \in 1..Len(HoldersOf(r)') : HoldersOf(r)'[i] = t
        BY <1>7
      <4>2. ~\E i \in 1..Len(HoldersOf(a)') : HoldersOf(a)'[i] = u
        BY <3>4, <4>1
      <4>3. ~\E i \in 1..Len(frames[u]) : frames[u][i].open /\ frames[u][i].site = a
        BY <1>6, <3>1, <3>4
      <4>4. frames'[u] = frames[u]
        BY <1>3, <3>4
      <4> QED
        BY <4>2, <4>3, <4>4
    <3> QED
      BY <3>2, <3>3, <3>4
  <2> QED
    BY <2>1, <2>2, <2>3, <2>4 DEF SitesOK
<1>9. PICK e \in Event :
         /\ e.function = Top(frames[t]).function
         /\ e.target = Top(frames[t]).target
         /\ pend' = [pend EXCEPT ![t] = Append(pend[t], e)]
  BY <1>1
<1>10. /\ \A u \in Thread : u # t => pend'[u] = pend[u]
       /\ Len(pend'[t]) = Len(pend[t]) + 1
       /\ \A i \in 1..Len(pend[t]) : pend'[t][i] = pend[t][i]
       /\ pend'[t][Len(pend[t]) + 1] = e
  <2>1. pend \in [Thread -> Seq(Event)] /\ pend[t] \in Seq(Event)
    BY <1>1 DEF Basics, TypeOK
  <2> QED
    BY <1>9, <2>1, PushProperties
<1>11. Len(pend[t]) = n - 1
  <2>1. OpenFrames(t) = 1..(n - 1)
    BY <1>2 DEF OpenFrames
  <2>2. Len(pend[t]) \in Nat /\ n - 1 \in Nat /\ 1..Len(pend[t]) = 1..(n - 1)
    BY <1>1, <1>2, <2>1, PendingTyped DEF Basics, MatchingOK, StacksOK
  <2> QED
    BY <2>2
<1>12. StacksOK'
  <2> SUFFICES ASSUME NEW u \in Thread
               PROVE  /\ OpenFrames(u)' = 1..Len(pend'[u])
                      /\ \A i \in OpenFrames(u)' : Matches(pend'[u][i], frames'[u][i])
    BY DEF StacksOK
  <2>1. CASE u # t
    <3>1. frames'[u] = frames[u] /\ pend'[u] = pend[u] /\ OpenFrames(u)' = OpenFrames(u)
      BY <1>3, <1>10, <2>1 DEF OpenFrames
    <3> QED
      BY <3>1 DEF MatchingOK, StacksOK
  <2>2. CASE u = t
    <3>1. OpenFrames(t)' = 1..n
      BY <1>2, <1>3 DEF OpenFrames
    <3>2. Len(pend'[t]) = n
      BY <1>2, <1>10, <1>11
    <3>3. \A i \in 1..(n - 1) : Matches(pend'[t][i], frames'[t][i])
      <4>1. \A i \in 1..(n - 1) : Matches(pend[t][i], frames[t][i])
        BY <1>2, <1>11 DEF MatchingOK, StacksOK
      <4> QED
        BY <1>3, <1>10, <1>11, <4>1
    <3>4. Matches(pend'[t][n], frames'[t][n])
      BY <1>2, <1>3, <1>9, <1>10, <1>11 DEF Matches
    <3>5. \A i \in 1..n : i \in 1..(n - 1) \/ i = n
      BY <1>2
    <3> QED
      BY <2>2, <3>1, <3>2, <3>3, <3>4, <3>5
  <2> QED
    BY <2>1, <2>2
<1> QED
  BY <1>8, <1>12 DEF MatchingOK

LEMMA CompleteMatching ==
  ASSUME SitesAreOwn, MatchingOK, Basics', NEW t \in Thread, at[t] = "return",
         Rip(t) \in Tracked \ EntryPoints, t \in Holders(Rip(t)),
         OnBreakpointReturn(t)
  PROVE  MatchingOK'
<1> DEFINE pend == pending_thread_events
           n == Len(frames[t])
<1> PICK r : r = Rip(t)
  OBVIOUS
<1>1. Basics
  BY DEF MatchingOK
<1>2. /\ n \in Nat /\ n >= 1
      /\ r = frames[t][n].site /\ r \in Address /\ r \in ReturnSites[t]
      /\ r \in Tracked \ EntryPoints
      /\ \A i \in 1..(n - 1) : frames[t][i].open
  BY <1>1, TopTyped DEF Basics, CallsOK, Rip
\* The hold is that of the innermost call, so its event is on top.
<1>3. frames[t][n].open
  <2>1. \E i \in 1..Len(HoldersOf(r)) : HoldersOf(r)[i] = t
    BY <1>2 DEF HoldersOf, Holders
  <2>2. PICK i \in 1..n : frames[t][i].open /\ frames[t][i].site = r
    BY <1>2, <2>1 DEF MatchingOK, SitesOK
  <2>3. i = n
    BY <1>2, <2>2 DEF MatchingOK, SitesOK
  <2> QED
    BY <2>2, <2>3
<1>4. Len(pend[t]) = n
  <2>1. OpenFrames(t) = 1..n
    BY <1>2, <1>3 DEF OpenFrames
  <2>2. Len(pend[t]) \in Nat /\ 1..Len(pend[t]) = 1..n
    BY <1>1, <2>1, PendingTyped DEF Basics, MatchingOK, StacksOK
  <2> QED
    BY <1>2, <2>2
<1>5. pend[t] # <<>>
  <2>1. pend[t] = <<>> => Len(pend[t]) = 0
    OBVIOUS
  <2> QED
    BY <1>2, <1>4, <2>1
<1>6. /\ frames' = OpenTop(t, FALSE)
      /\ RemoveBreakpoints({r}, t)
      /\ pend' = [pend EXCEPT ![t] = Pop(pend[t])]
  BY <1>1, <1>5, ReturnShape
<1>7. /\ \A u \in Thread : u # t => frames'[u] = frames[u]
      /\ Len(frames'[t]) = n
      /\ \A i \in 1..(n - 1) : frames'[t][i] = frames[t][i]
      /\ \A i \in 1..n : frames'[t][i].site = frames[t][i].site
      /\ frames'[t][n].open = FALSE
  BY <1>1, <1>6, OpenTopShape DEF Basics
<1>8. /\ r \notin Tracked' => Tracked' = Tracked \ {r}
      /\ r \in Tracked' => Tracked' = Tracked
      /\ HoldersOf(r)' = EraseFirst(HoldersOf(r), t)
      /\ \A a : a # r => HoldersOf(a)' = HoldersOf(a)
      /\ byte' = [byte EXCEPT ![r] = Code]
  BY <1>1, <1>2, <1>6, RemoveShape DEF Basics
\* It was the only hold.
<1>9. HoldersOf(r)' = <<>>
  <2> DEFINE s == HoldersOf(r)
  <2>1. s \in Seq(Thread) /\ Len(s) \in Nat /\ Len(s) <= 1
    BY <1>1, <1>2, HoldersTyped DEF Basics, MatchingOK, SitesOK
  <2>2. PICK k \in 1..Len(s) : s[k] = t
    BY <1>2 DEF HoldersOf, Holders
  <2> HIDE DEF s
  <2>3. EraseFirst(s, t) \in Seq(Thread) /\ Len(EraseFirst(s, t)) = 0
    BY <2>1, <2>2, EraseFirstShortens
  <2>4. EraseFirst(s, t) = <<>>
    BY <2>3, EmptySeq
  <2> QED
    BY <1>8, <2>4 DEF s
<1>10. Tracked' = Tracked \ {r}
  <2>1. ASSUME r \in Tracked' PROVE FALSE
    <3>1. /\ address_to_bp'[r].kind = "Return" /\ BreakpointOK(address_to_bp[r])'
      BY <1>2, <2>1 DEF Basics, TablesOK, ManagerOK
    <3>2. Len(address_to_bp'[r].holders) > 0
      BY <3>1 DEF BreakpointOK, Held
    <3>3. address_to_bp'[r].holders = <<>>
      BY <1>9, <2>1 DEF HoldersOf
    <3> QED
      BY <3>2, <3>3
  <2> QED
    BY <1>8, <2>1
<1>11. SitesOK'
  <2>1. ASSUME NEW u \in Thread, NEW i \in 1..Len(frames'[u]), NEW j \in 1..Len(frames'[u]),
               frames'[u][i].site = frames'[u][j].site
        PROVE  i = j
    <3>1. /\ i \in 1..Len(frames[u]) /\ frames'[u][i].site = frames[u][i].site
          /\ j \in 1..Len(frames[u]) /\ frames'[u][j].site = frames[u][j].site
      BY <1>7
    <3>2. \A k, l \in 1..Len(frames[u]) : frames[u][k].site = frames[u][l].site => k = l
      BY DEF MatchingOK, SitesOK
    <3> QED
      BY <2>1, <3>1, <3>2
  <2>2. \A a \in Tracked' \ EntryPoints : byte'[a] = int3
    BY <1>1, <1>8, <1>10 DEF MatchingOK, SitesOK, Basics, TypeOK, BreakpointTypeOK
  <2>3. \A a \in Address : Len(HoldersOf(a)') <= 1
    BY <1>8, <1>9 DEF MatchingOK, SitesOK
  <2>4. ASSUME NEW u \in Thread, NEW a \in Address
        PROVE  (\E i \in 1..Len(HoldersOf(a)') : HoldersOf(a)'[i] = u)
                 <=> \E i \in 1..Len(frames'[u]) : frames'[u][i].open /\ frames'[u][i].site = a
    <3>1. (\E i \in 1..Len(HoldersOf(a)) : HoldersOf(a)[i] = u)
             <=> \E i \in 1..Len(frames[u]) : frames[u][i].open /\ frames[u][i].site = a
      BY DEF MatchingOK, SitesOK
    <3>2. CASE a # r
      <4>1. HoldersOf(a)' = HoldersOf(a)
        BY <1>8, <3>2
      <4>2. (\E i \in 1..Len(frames'[u]) : frames'[u][i].open /\ frames'[u][i].site = a)
               <=> \E i \in 1..Len(frames[u]) : frames[u][i].open /\ frames[u][i].site = a
        <5>1. CASE u # t
          BY <1>7, <5>1
        <5>2. CASE u = t
          <6>1. Len(frames'[u]) = n /\ Len(frames[u]) = n
            BY <1>7, <5>2
          <6>2. frames[u][n].site # a /\ frames'[u][n].site # a
            BY <1>2, <1>7, <3>2, <5>2
          <6>3. \A i \in 1..n : i = n \/ frames'[u][i] = frames[u][i]
            BY <1>2, <1>7, <5>2
          <6> QED
            BY <6>1, <6>2, <6>3
        <5> QED
          BY <5>1, <5>2
      <4> QED
        BY <3>1, <4>1, <4>2
    <3>3. CASE a = r
      <4>1. ~\E i \in 1..Len(HoldersOf(a)') : HoldersOf(a)'[i] = u
        BY <1>9, <3>3
      <4>2. CASE u = t
        <5>1. \A i \in 1..n : frames[t][i].site = r => i = n
          BY <1>2 DEF MatchingOK, SitesOK
        <5>2. ~\E i \in 1..Len(frames'[u]) : frames'[u][i].open /\ frames'[u][i].site = a
          BY <1>7, <3>3, <4>2, <5>1
        <5> QED
          BY <4>1, <5>2
      <4>3. CASE u # t
        <5>1. \A i \in 1..Len(frames[u]) : frames[u][i].site # r
          BY <1>1, <1>2, <4>3 DEF SitesAreOwn, Basics, CallsOK
        <5>2. frames'[u] = frames[u]
          BY <1>7, <4>3
        <5> QED
          BY <3>3, <4>1, <5>1, <5>2
      <4> QED
        BY <4>2, <4>3
    <3> QED
      BY <3>2, <3>3
  <2> QED
    BY <2>1, <2>2, <2>3, <2>4 DEF SitesOK
<1>12. /\ \A u \in Thread : u # t => pend'[u] = pend[u]
       /\ Len(pend'[t]) = n - 1
       /\ \A i \in 1..(n - 1) : pend'[t][i] = pend[t][i]
  <2>1. pend \in [Thread -> Seq(Event)] /\ pend[t] \in Seq(Event)
    BY <1>1 DEF Basics, TypeOK
  <2>2. /\ Len(Pop(pend[t])) = n - 1
        /\ \A i \in 1..(n - 1) : Pop(pend[t])[i] = pend[t][i]
    BY <1>4, <1>5, <2>1, PopProperties
  <2> QED
    BY <1>6, <2>1, <2>2
<1>13. StacksOK'
  <2> SUFFICES ASSUME NEW u \in Thread
               PROVE  /\ OpenFrames(u)' = 1..Len(pend'[u])
                      /\ \A i \in OpenFrames(u)' : Matches(pend'[u][i], frames'[u][i])
    BY DEF StacksOK
  <2>1. CASE u # t
    <3>1. frames'[u] = frames[u] /\ pend'[u] = pend[u] /\ OpenFrames(u)' = OpenFrames(u)
      BY <1>7, <1>12, <2>1 DEF OpenFrames
    <3> QED
      BY <3>1 DEF MatchingOK, StacksOK
  <2>2. CASE u = t
    <3>1. OpenFrames(t)' = 1..(n - 1)
      BY <1>2, <1>7 DEF OpenFrames
    <3>2. \A i \in 1..(n - 1) : Matches(pend[t][i], frames[t][i])
      BY <1>2, <1>4 DEF MatchingOK, StacksOK
    <3> QED
      BY <2>2, <1>7, <1>12, <3>1, <3>2
  <2> QED
    BY <2>1, <2>2
<1> QED
  BY <1>11, <1>13 DEF MatchingOK

LEMMA MatchingStep ==
  ASSUME SitesAreOwn, ~Recursion, MatchingOK, [Next]_vars
  PROVE  MatchingOK'
<1>1. Basics /\ Basics'
  BY BasicsStep DEF MatchingOK
<1>2. ASSUME NEW t \in Thread, NEW function \in EntryPoints, NEW site \in ReturnSites[t],
             NEW target \in Targets(t, function), Call(t, function, site, target)
      PROVE  MatchingOK'
  BY <1>2, CallMatching
<1>3. ASSUME NEW t \in Thread, Return(t) PROVE MatchingOK'
  BY <1>3, ReturnMatching
<1>4. ASSUME NEW t \in Thread, Stop(t) \/ Perform(t) PROVE MatchingOK'
  BY <1>1, <1>4, MatchingUntouched DEF Stop, Perform, matchingState, events
<1>5. ASSUME NEW t \in Thread, HandleBreakpoint(t) PROVE MatchingOK'
  <2>1. CASE at[t] = "entry" /\ OnBreakpointEnter(t)
    BY <1>1, <2>1, EnterMatching
  <2>2. CASE /\ at[t] = "return"
             /\ Rip(t) \in Tracked \ EntryPoints /\ t \in Holders(Rip(t))
             /\ OnBreakpointReturn(t)
    BY <1>1, <2>2, CompleteMatching
  <2>3. CASE UNCHANGED recorded
    BY <1>1, <2>3, MatchingUntouched DEF recorded, matchingState, events
  <2> QED
    BY <1>1, <1>5, <2>1, <2>2, <2>3, HandleCases
<1>6. ASSUME Timeout \/ UNCHANGED vars PROVE MatchingOK'
  BY <1>1, <1>6, MatchingUntouched DEF Timeout, vars, matchingState, debuggee, events
<1> QED
  BY <1>2, <1>3, <1>4, <1>5, <1>6 DEF Next

\* Where no two pending calls share a return address, the events a thread has
\* pending are those of the calls it is in, outermost first, so that the event
\* a return completes is that of the call that returns, for any number of
\* threads and any nesting: the assertion event_log.cpp:57-58 asks for.  Without
\* either hypothesis TLC finds a counterexample.
THEOREM PendingAlwaysMatchFrames ==
  ASSUME SitesAreOwn, ~Recursion
  PROVE  Spec => []PendingMatchesFrames
<1>1. MatchingOK /\ [Next]_vars => MatchingOK'
  BY MatchingStep
<1>2. Spec => []MatchingOK
  BY <1>1, InitMatching, PTL DEF Spec
<1>3. MatchingOK => PendingMatchesFrames
  BY DEF MatchingOK, StacksOK, PendingMatchesFrames, Matches
<1> QED
  BY <1>2, <1>3, PTL

----------------------------------------------------------------------------
(* Calls whose return addresses may be shared.                             *)

\* T has the places of S in the vectors, those at r behind k moved up by one.
MovedTo(S, T, r, k) ==
    /\ \A x \in S : \E a : \E i \in Nat : x = <<a, i>>
    /\ \A y \in T : \E a : \E i \in Nat : y = <<a, i>>
    /\ \A a : \A i \in Nat : a # r => (<<a, i>> \in S <=> <<a, i>> \in T)
    /\ \A i \in Nat : i < k => (<<r, i>> \in S <=> <<r, i>> \in T)
    /\ \A i \in Nat : i >= k => (<<r, i + 1>> \in S <=> <<r, i>> \in T)

LEMMA MovedUp ==
  ASSUME NEW S, NEW T, NEW r, NEW k \in Nat, IsFiniteSet(S), <<r, k>> \notin S,
         MovedTo(S, T, r, k)
  PROVE  IsFiniteSet(T) /\ Cardinality(T) = Cardinality(S)
<1> DEFINE Moves(x) == x[1] = r /\ x[2] > k
           Place(x) == IF Moves(x) THEN <<r, x[2] - 1>> ELSE x
           f == [x \in S |-> Place(x)]
<1> USE DEF MovedTo
\* What has not moved is before the gap or elsewhere; what has is behind it.
<1>1. ASSUME NEW x \in S
      PROVE  /\ Place(x) \in T
             /\ Moves(x) => \E i \in Nat : i >= k /\ x = <<r, i + 1>> /\ Place(x) = <<r, i>>
             /\ ~Moves(x) => /\ Place(x) = x
                             /\ \E a : \E i \in Nat : x = <<a, i>> /\ (a # r \/ i < k)
  <2>1. PICK a : \E i \in Nat : x = <<a, i>>
    OBVIOUS
  <2>2. PICK i \in Nat : x = <<a, i>>
    BY <2>1
  <2>3. x[1] = a /\ x[2] = i
    BY <2>2
  <2>4. CASE a # r
    BY <2>2, <2>3, <2>4
  <2>5. CASE a = r /\ i < k
    BY <2>2, <2>3, <2>5
  <2>6. CASE a = r /\ i > k
    <3>1. /\ Moves(x) /\ Place(x) = <<r, i - 1>>
          /\ i - 1 \in Nat /\ i - 1 >= k /\ (i - 1) + 1 = i
      BY <2>2, <2>3, <2>6
    <3>2. x = <<r, (i - 1) + 1>>
      BY <2>2, <2>6, <3>1
    <3>3. <<r, i - 1>> \in T
      BY <3>1, <3>2
    <3> QED
      BY <3>1, <3>2, <3>3
  <2>7. CASE a = r /\ i = k
    BY <2>2, <2>7
  <2> QED
    BY <2>4, <2>5, <2>6, <2>7
<1>2. ASSUME NEW x \in S, NEW y \in S, Place(x) = Place(y) PROVE x = y
  <2> HIDE DEF Moves, Place
  <2>1. CASE Moves(x) /\ Moves(y)
    <3>1. PICK i \in Nat : i >= k /\ x = <<r, i + 1>> /\ Place(x) = <<r, i>>
      BY <1>1, <2>1
    <3>2. PICK j \in Nat : j >= k /\ y = <<r, j + 1>> /\ Place(y) = <<r, j>>
      BY <1>1, <2>1
    <3>3. i = j
      BY <1>2, <3>1, <3>2
    <3> QED
      BY <3>1, <3>2, <3>3
  <2>2. CASE ~Moves(x) /\ ~Moves(y)
    BY <1>1, <1>2, <2>2
  <2>3. ASSUME NEW v \in S, NEW w \in S, Moves(v), ~Moves(w), Place(v) = Place(w) PROVE FALSE
    <3>1. PICK i \in Nat : i >= k /\ Place(v) = <<r, i>>
      BY <1>1, <2>3
    <3>2. PICK a : \E j \in Nat : w = <<a, j>> /\ (a # r \/ j < k)
      BY <1>1, <2>3
    <3>3. PICK j \in Nat : w = <<a, j>> /\ (a # r \/ j < k)
      BY <3>2
    <3>4. <<r, i>> = <<a, j>>
      BY <1>1, <2>3, <3>1, <3>3
    <3> QED
      BY <3>1, <3>3, <3>4
  <2> QED
    BY <1>2, <2>1, <2>2, <2>3
<1>3. ASSUME NEW y \in T PROVE \E x \in S : Place(x) = y
  <2>1. PICK a : \E i \in Nat : y = <<a, i>>
    OBVIOUS
  <2>2. PICK i \in Nat : y = <<a, i>>
    BY <2>1
  <2>3. CASE a # r \/ i < k
    <3>1. y \in S
      BY <2>2, <2>3
    <3>2. ~Moves(y)
      BY <2>2, <2>3
    <3> QED
      BY <3>1, <3>2
  <2>4. CASE a = r /\ i >= k
    <3>1. <<r, i + 1>> \in S
      BY <2>2, <2>4
    <3>2. /\ Moves(<<r, i + 1>>)
          /\ Place(<<r, i + 1>>) = <<r, i>>
      BY <2>4
    <3> QED
      BY <2>2, <2>4, <3>1, <3>2
  <2> QED
    BY <2>3, <2>4
<1> HIDE DEF Moves, Place, MovedTo
<1>4. f \in Injection(S, T) /\ f \in Surjection(S, T)
  <2>1. f \in [S -> T] /\ \A x \in S : f[x] = Place(x)
    BY <1>1
  <2> QED
    BY <1>2, <1>3, <2>1 DEF Injection, IsInjective, Surjection
<1>5. ExistsBijection(S, T)
  BY <1>4 DEF ExistsBijection, Bijection
<1> QED
  BY <1>5, FS_Bijection

HoldsView(t) ==
    /\ \A a, i : i \in 1..Len(HoldersOf(a)) /\ HoldersOf(a)[i] = t => <<a, i>> \in HoldsOf(t)
    /\ \A x \in HoldsOf(t) : \E a : \E i \in 1..Len(HoldersOf(a)) :
          x = <<a, i>> /\ HoldersOf(a)[i] = t

LEMMA HoldsAre ==
  ASSUME NEW t
  PROVE  HoldsView(t)
<1>1. ASSUME NEW a, NEW i, i \in 1..Len(HoldersOf(a)), HoldersOf(a)[i] = t
      PROVE  <<a, i>> \in HoldsOf(t)
  <2>1. a \in Tracked
    <3>1. Len(<<>>) = 0
      OBVIOUS
    <3> QED
      BY <1>1, <3>1 DEF HoldersOf
  <2> QED
    BY <1>1, <2>1 DEF HoldersOf, HoldsOf
<1>2. ASSUME NEW x \in HoldsOf(t)
      PROVE  \E a : \E i \in 1..Len(HoldersOf(a)) : x = <<a, i>> /\ HoldersOf(a)[i] = t
  <2>1. PICK a \in Tracked : x \in {<<a, i>> : i \in {j \in 1..Len(address_to_bp[a].holders) :
                                                address_to_bp[a].holders[j] = t}}
    BY DEF HoldsOf
  <2>2. PICK i \in 1..Len(address_to_bp[a].holders) :
                x = <<a, i>> /\ address_to_bp[a].holders[i] = t
    BY <2>1
  <2> QED
    BY <2>2 DEF HoldersOf
<1> QED
  BY <1>1, <1>2 DEF HoldsView

LEMMA HoldsAreNext ==
  ASSUME NEW t
  PROVE  HoldsView(t)'
<1>1. HoldsView(t)
  BY HoldsAre
<1> QED
  BY <1>1, PTL

\* The number of holds a thread has is that of its pending events.
CountsOK ==
    \A t \in Thread : /\ IsFiniteSet(HoldsOf(t))
                      /\ Cardinality(HoldsOf(t)) = Len(pending_thread_events[t])

HoldsOK == Basics /\ CountsOK

LEMMA InitHolds == Init => HoldsOK
<1> SUFFICES ASSUME Init PROVE HoldsOK
  OBVIOUS
<1>1. Basics
  BY InitBasics
<1>2. Tracked = EntryPoints /\ \A t \in Thread : Len(pending_thread_events[t]) = 0
  BY DEF Init, Tracked
<1>3. \A a : HoldersOf(a) = <<>>
  BY <1>1, <1>2 DEF HoldersOf, Basics, TablesOK
<1>4. \A t \in Thread : HoldsOf(t) = {}
  BY <1>3, HoldsAre DEF HoldsView
<1>5. CountsOK
  BY <1>2, <1>4, FS_EmptySet DEF CountsOK
<1> QED
  BY <1>1, <1>5 DEF HoldsOK

LEMMA EnterHolds ==
  ASSUME HoldsOK, Basics', NEW t \in Thread, at[t] = "entry", OnBreakpointEnter(t)
  PROVE  HoldsOK'
<1> DEFINE pend == pending_thread_events
<1> PICK r : r = Top(frames[t]).site
  OBVIOUS
<1>1. /\ Basics
      /\ r \in AllSites
      /\ CreateHeldBreakpoints({r}, t, "Return")
      /\ \E e \in Event : pend' = [pend EXCEPT ![t] = Append(pend[t], e)]
  BY EnterShape DEF HoldsOK
<1>2. r \in Address
  BY <1>1, TopTyped DEF Basics
<1>3. /\ HoldersOf(r)' = Append(HoldersOf(r), t)
      /\ \A a : a # r => HoldersOf(a)' = HoldersOf(a)
  BY <1>1, <1>2, CreateShape, RecordingAssumption DEF Basics
<1> PICK n : n = Len(HoldersOf(r))
  OBVIOUS
<1>4. /\ n \in Nat
      /\ Len(HoldersOf(r)') = n + 1
      /\ \A i \in 1..n : HoldersOf(r)'[i] = HoldersOf(r)[i]
      /\ HoldersOf(r)'[n + 1] = t
  <2>1. HoldersOf(r) \in Seq(Thread)
    BY <1>1, HoldersTyped DEF Basics
  <2> DEFINE s == HoldersOf(r)
  <2>2. /\ Len(Append(s, t)) = Len(s) + 1 /\ Len(s) \in Nat
        /\ \A i \in 1..Len(s) : Append(s, t)[i] = s[i]
        /\ Append(s, t)[Len(s) + 1] = t
    BY <2>1, AppendProperties
  <2> QED
    BY <1>3, <2>2
<1>5. \A i \in 1..(n + 1) : i \in 1..n \/ i = n + 1
  BY <1>4
<1>6. ASSUME NEW u \in Thread, NEW x
      PROVE  x \in HoldsOf(u)' <=> x \in HoldsOf(u) \/ (u = t /\ x = <<r, n + 1>>)
  <2>1. ASSUME x \in HoldsOf(u)' PROVE x \in HoldsOf(u) \/ (u = t /\ x = <<r, n + 1>>)
    <3>1. PICK a : \E i \in 1..Len(HoldersOf(a)') : x = <<a, i>> /\ HoldersOf(a)'[i] = u
      BY <2>1, HoldsAreNext DEF HoldsView
    <3>2. PICK i \in 1..Len(HoldersOf(a)') : x = <<a, i>> /\ HoldersOf(a)'[i] = u
      BY <3>1
    <3>3. CASE a # r
      BY <1>3, <3>2, <3>3, HoldsAre DEF HoldsView
    <3>4. CASE a = r
      <4>1. i \in 1..(n + 1) /\ HoldersOf(r)'[i] = u
        BY <1>4, <3>2, <3>4
      <4>2. CASE i \in 1..n
        BY <1>4, <3>2, <3>4, <4>1, <4>2, HoldsAre DEF HoldsView
      <4>3. CASE i = n + 1
        BY <1>4, <3>2, <3>4, <4>1, <4>3
      <4> QED
        BY <1>5, <4>1, <4>2, <4>3
    <3> QED
      BY <3>3, <3>4
  <2>2. ASSUME x \in HoldsOf(u) PROVE x \in HoldsOf(u)'
    <3>1. PICK a : \E i \in 1..Len(HoldersOf(a)) : x = <<a, i>> /\ HoldersOf(a)[i] = u
      BY <2>2, HoldsAre DEF HoldsView
    <3>2. PICK i \in 1..Len(HoldersOf(a)) : x = <<a, i>> /\ HoldersOf(a)[i] = u
      BY <3>1
    <3>3. i \in 1..Len(HoldersOf(a)') /\ HoldersOf(a)'[i] = u
      BY <1>3, <1>4, <3>2
    <3> QED
      BY <3>2, <3>3, HoldsAreNext DEF HoldsView
  <2>3. ASSUME u = t, x = <<r, n + 1>> PROVE x \in HoldsOf(u)'
    <3>1. n + 1 \in 1..Len(HoldersOf(r)') /\ HoldersOf(r)'[n + 1] = u
      BY <1>4, <2>3
    <3> QED
      BY <2>3, <3>1, HoldsAreNext DEF HoldsView
  <2> QED
    BY <2>1, <2>2, <2>3
<1>7. <<r, n + 1>> \notin HoldsOf(t)
  <2>1. ASSUME <<r, n + 1>> \in HoldsOf(t) PROVE FALSE
    <3>1. PICK a : \E i \in 1..Len(HoldersOf(a)) : <<r, n + 1>> = <<a, i>>
      BY <2>1, HoldsAre DEF HoldsView
    <3> QED
      BY <1>4, <3>1
  <2> QED
    BY <2>1
<1>8. /\ HoldsOf(t)' = HoldsOf(t) \cup {<<r, n + 1>>}
      /\ \A u \in Thread : u # t => HoldsOf(u)' = HoldsOf(u)
  BY <1>6
<1>9. /\ \A u \in Thread : u # t => pend'[u] = pend[u]
      /\ Len(pend'[t]) = Len(pend[t]) + 1
  <2>1. pend \in [Thread -> Seq(Event)] /\ pend[t] \in Seq(Event)
    BY <1>1 DEF Basics, TypeOK
  <2> QED
    BY <1>1, <2>1, PushProperties
<1>10. CountsOK'
  <2>1. /\ IsFiniteSet(HoldsOf(t) \cup {<<r, n + 1>>})
        /\ Cardinality(HoldsOf(t) \cup {<<r, n + 1>>}) = Cardinality(HoldsOf(t)) + 1
    BY <1>7, FS_AddElement DEF HoldsOK, CountsOK
  <2> QED
    BY <1>8, <1>9, <2>1 DEF HoldsOK, CountsOK
<1> QED
  BY <1>10 DEF HoldsOK

LEMMA CompleteHolds ==
  ASSUME HoldsOK, Basics', NEW t \in Thread, at[t] = "return",
         Rip(t) \in Tracked \ EntryPoints, t \in Holders(Rip(t)),
         OnBreakpointReturn(t), pending_thread_events[t] # <<>>
  PROVE  HoldsOK'
<1> DEFINE pend == pending_thread_events
<1> PICK r : r = Rip(t)
  OBVIOUS
<1>1. /\ Basics
      /\ RemoveBreakpoints({r}, t)
      /\ pend' = [pend EXCEPT ![t] = Pop(pend[t])]
  BY ReturnShape DEF HoldsOK
<1>2. /\ HoldersOf(r)' = EraseFirst(HoldersOf(r), t)
      /\ \A a : a # r => HoldersOf(a)' = HoldersOf(a)
  BY <1>1, RemoveShape DEF Basics
<1> PICK N : N = Len(HoldersOf(r))
  OBVIOUS
<1> PICK old : old = HoldersOf(r)
  OBVIOUS
<1>3. /\ N \in Nat /\ Len(HoldersOf(r)') = N - 1
      /\ \E k \in 1..N : /\ HoldersOf(r)[k] = t
                         /\ \A i \in 1..(k - 1) : HoldersOf(r)'[i] = HoldersOf(r)[i]
                         /\ \A i \in k..(N - 1) : HoldersOf(r)'[i] = HoldersOf(r)[i + 1]
  <2>1. old \in Seq(Thread) /\ N \in Nat /\ N = Len(old)
    BY <1>1, HoldersTyped DEF Basics
  <2>2. PICK found \in 1..Len(old) : old[found] = t
    BY DEF HoldersOf, Holders
  <2>3. \E k \in 1..Len(old) : Erased(old, EraseFirst(old, t), t, k)
    BY <2>1, <2>2, EraseFirstElements
  <2>4. HoldersOf(r)' = EraseFirst(old, t)
    BY <1>2
  <2> QED
    BY <2>1, <2>3, <2>4 DEF Erased
<1>4. PICK k \in 1..N : /\ HoldersOf(r)[k] = t
                        /\ \A i \in 1..(k - 1) : HoldersOf(r)'[i] = HoldersOf(r)[i]
                        /\ \A i \in k..(N - 1) : HoldersOf(r)'[i] = HoldersOf(r)[i + 1]
  BY <1>3
\* Where a thread holds a breakpoint, before and after, place by place.
<1>5. ASSUME NEW u, NEW a, NEW i \in Nat
      PROVE  /\ <<a, i>> \in HoldsOf(u) <=> i \in 1..Len(HoldersOf(a)) /\ HoldersOf(a)[i] = u
             /\ <<a, i>> \in HoldsOf(u)' <=> i \in 1..Len(HoldersOf(a)') /\ HoldersOf(a)'[i] = u
  <2>1. <<a, i>> \in HoldsOf(u) => i \in 1..Len(HoldersOf(a)) /\ HoldersOf(a)[i] = u
    BY HoldsAre DEF HoldsView
  <2>2. <<a, i>> \in HoldsOf(u)' => i \in 1..Len(HoldersOf(a)') /\ HoldersOf(a)'[i] = u
    BY HoldsAreNext DEF HoldsView
  <2>3. i \in 1..Len(HoldersOf(a)) /\ HoldersOf(a)[i] = u => <<a, i>> \in HoldsOf(u)
    BY HoldsAre DEF HoldsView
  <2>4. i \in 1..Len(HoldersOf(a)') /\ HoldersOf(a)'[i] = u => <<a, i>> \in HoldsOf(u)'
    BY HoldsAreNext DEF HoldsView
  <2> QED
    BY <2>1, <2>2, <2>3, <2>4
<1>6. ASSUME NEW u \in Thread
      PROVE  /\ IsFiniteSet(HoldsOf(u)')
             /\ Cardinality(HoldsOf(u)') = Cardinality(HoldsOf(u) \ {<<r, k>>})
  <2> PICK S : S = HoldsOf(u) \ {<<r, k>>}
    OBVIOUS
  <2> PICK T : T = HoldsOf(u)'
    OBVIOUS
  <2>1. IsFiniteSet(S)
    BY FS_RemoveElement DEF HoldsOK, CountsOK
  <2>2. /\ \A x \in S : \E a : \E i \in Nat : x = <<a, i>>
        /\ \A y \in T : \E a : \E i \in Nat : y = <<a, i>>
    BY HoldsAre, HoldsAreNext DEF HoldsView
  <2>3. \A a : \A i \in Nat : a # r => (<<a, i>> \in S <=> <<a, i>> \in T)
    BY <1>2, <1>5
  <2>4. \A i \in Nat : i < k => (<<r, i>> \in S <=> <<r, i>> \in T)
    <3> SUFFICES ASSUME NEW i \in Nat, i < k PROVE <<r, i>> \in S <=> <<r, i>> \in T
      OBVIOUS
    <3>1. /\ i \in 1..N <=> i \in 1..(N - 1)
          /\ i \in 1..(N - 1) => HoldersOf(r)'[i] = HoldersOf(r)[i]
      BY <1>3, <1>4
    <3>2. <<r, i>> \in S <=> i \in 1..N /\ HoldersOf(r)[i] = u
      BY <1>5
    <3>3. <<r, i>> \in T <=> i \in 1..(N - 1) /\ HoldersOf(r)'[i] = u
      <4>1. Len(HoldersOf(r)') = N - 1
        BY <1>3
      <4>2. <<r, i>> \in HoldsOf(u)' <=> i \in 1..Len(HoldersOf(r)') /\ HoldersOf(r)'[i] = u
        BY <1>5
      <4> QED
        BY <4>1, <4>2
    <3> QED
      BY <3>1, <3>2, <3>3
  <2>5. \A i \in Nat : i >= k => (<<r, i + 1>> \in S <=> <<r, i>> \in T)
    <3> SUFFICES ASSUME NEW i \in Nat, i >= k PROVE <<r, i + 1>> \in S <=> <<r, i>> \in T
      OBVIOUS
    <3>1. /\ i + 1 \in 1..N <=> i \in 1..(N - 1)
          /\ i \in 1..(N - 1) => HoldersOf(r)'[i] = HoldersOf(r)[i + 1]
          /\ i + 1 \in Nat /\ i + 1 # k
      BY <1>3, <1>4
    <3>2. <<r, i + 1>> \in S <=> i + 1 \in 1..N /\ HoldersOf(r)[i + 1] = u
      <4>1. <<r, i + 1>> \in S <=> <<r, i + 1>> \in HoldsOf(u)
        BY <3>1
      <4>2. <<r, i + 1>> \in HoldsOf(u) <=> i + 1 \in 1..Len(HoldersOf(r)) /\ HoldersOf(r)[i + 1] = u
        BY <1>5, <3>1
      <4> QED
        BY <4>1, <4>2
    <3>3. <<r, i>> \in T <=> i \in 1..(N - 1) /\ HoldersOf(r)'[i] = u
      <4>1. Len(HoldersOf(r)') = N - 1
        BY <1>3
      <4>2. <<r, i>> \in HoldsOf(u)' <=> i \in 1..Len(HoldersOf(r)') /\ HoldersOf(r)'[i] = u
        BY <1>5
      <4> QED
        BY <4>1, <4>2
    <3> QED
      BY <3>1, <3>2, <3>3
  <2>6. k \in Nat /\ <<r, k>> \notin S
    BY <1>4
  <2>7. IsFiniteSet(T) /\ Cardinality(T) = Cardinality(S)
    <3>1. MovedTo(S, T, r, k)
      BY <2>2, <2>3, <2>4, <2>5 DEF MovedTo
    <3> QED
      BY <2>1, <2>6, <3>1, MovedUp
  <2> QED
    BY <2>7
<1>7. /\ <<r, k>> \in HoldsOf(t)
      /\ \A u \in Thread : u # t => <<r, k>> \notin HoldsOf(u)
  BY <1>3, <1>4, <1>5
<1>8. ASSUME NEW u \in Thread
      PROVE  Cardinality(HoldsOf(u)') = IF u = t THEN Cardinality(HoldsOf(u)) - 1
                                                 ELSE Cardinality(HoldsOf(u))
  <2>1. IsFiniteSet(HoldsOf(u))
    BY DEF HoldsOK, CountsOK
  <2>2. <<r, k>> \in HoldsOf(u) =>
           Cardinality(HoldsOf(u) \ {<<r, k>>}) = Cardinality(HoldsOf(u)) - 1
    BY <2>1, FS_RemoveElement
  <2>3. <<r, k>> \notin HoldsOf(u) => HoldsOf(u) \ {<<r, k>>} = HoldsOf(u)
    OBVIOUS
  <2>4. <<r, k>> \in HoldsOf(u) <=> u = t
    BY <1>7
  <2> QED
    BY <1>6, <2>2, <2>3, <2>4
<1>9. /\ \A u \in Thread : u # t => pend'[u] = pend[u]
      /\ Len(pend'[t]) = Len(pend[t]) - 1
  <2>1. pend \in [Thread -> Seq(Event)] /\ pend[t] \in Seq(Event)
    BY <1>1 DEF Basics, TypeOK
  <2> QED
    BY <1>1, <2>1, PopProperties
<1>10. CountsOK'
  <2>1. ASSUME NEW u \in Thread PROVE Cardinality(HoldsOf(u)') = Len(pend'[u])
    <3>1. Cardinality(HoldsOf(u)) = Len(pend[u])
      BY DEF HoldsOK, CountsOK
    <3> QED
      BY <1>8, <1>9, <3>1
  <2> QED
    BY <1>6, <2>1 DEF CountsOK
<1> QED
  BY <1>10 DEF HoldsOK

LEMMA HoldsUntouched ==
  ASSUME HoldsOK, Basics', UNCHANGED <<address_to_bp, pending_thread_events>>
  PROVE  HoldsOK'
<1>1. \A t : HoldsOf(t)' = HoldsOf(t)
  BY DEF HoldsOf, Tracked
<1> QED
  BY <1>1 DEF HoldsOK, CountsOK

LEMMA HoldsStep == HoldsOK /\ [Next]_vars => HoldsOK'
<1> SUFFICES ASSUME HoldsOK, [Next]_vars PROVE HoldsOK'
  OBVIOUS
<1>1. Basics /\ Basics'
  BY BasicsStep DEF HoldsOK
<1>2. ASSUME NEW t \in Thread, NEW function \in EntryPoints, NEW site \in ReturnSites[t],
             NEW target \in Targets(t, function), Call(t, function, site, target)
      PROVE  HoldsOK'
  BY <1>1, <1>2, HoldsUntouched DEF Call, breakpointVars, tables, events
<1>3. ASSUME NEW t \in Thread, Stop(t) \/ Return(t) \/ Perform(t) PROVE HoldsOK'
  BY <1>1, <1>3, HoldsUntouched DEF Stop, Return, Perform, breakpointVars, tables, events
<1>4. ASSUME NEW t \in Thread, HandleBreakpoint(t) PROVE HoldsOK'
  <2>1. CASE at[t] = "entry" /\ OnBreakpointEnter(t)
    BY <1>1, <2>1, EnterHolds
  <2>2. CASE /\ at[t] = "return"
             /\ Rip(t) \in Tracked \ EntryPoints /\ t \in Holders(Rip(t))
             /\ OnBreakpointReturn(t)
    <3>1. CASE pending_thread_events[t] # <<>>
      BY <1>1, <2>2, <3>1, CompleteHolds
    <3>2. CASE pending_thread_events[t] = <<>>
      BY <1>1, <2>2, <3>2, HoldsUntouched
      DEF OnBreakpointReturn, breakpointVars, tables, events
    <3> QED
      BY <3>1, <3>2
  <2>3. CASE UNCHANGED recorded
    BY <1>1, <2>3, HoldsUntouched DEF recorded, breakpointVars, tables, events
  <2> QED
    BY <1>1, <1>4, <2>1, <2>2, <2>3, HandleCases
<1>5. ASSUME Timeout \/ UNCHANGED vars PROVE HoldsOK'
  BY <1>1, <1>5, HoldsUntouched DEF Timeout, vars, breakpointVars, tables, events
<1> QED
  BY <1>2, <1>3, <1>4, <1>5 DEF Next

\* Even where calls share return addresses, a thread holds exactly as many of
\* them as it has events pending, so a return the debugger takes for one of
\* its calls always has an event to complete, and no thread is left at its
\* int3 (event_log.cpp:60-61, 69, breakpoint_manager.cpp's holders).
THEOREM HoldsAlwaysMatchPending == Spec => []HoldsMatchPending
<1>1. Spec => []HoldsOK
  BY InitHolds, HoldsStep, PTL DEF Spec
<1>2. HoldsOK => HoldsMatchPending
  BY DEF HoldsOK, CountsOK, HoldsMatchPending
<1> QED
  BY <1>1, <1>2, PTL

=============================================================================
