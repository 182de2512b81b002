------------------------- MODULE ReverseReplayProofs -------------------------
(***************************************************************************)
(* Theorems about ReverseReplay, for any control flow, any trace and any   *)
(* number of replays: what a reverse step reports is the last visit with   *)
(* fewer branches than the stop, and one pass over the trace is enough to  *)
(* correct the counters it was told.  Of the visits in the stop's own      *)
(* block they say nothing: the code passes over them.                      *)
(*                                                                         *)
(* The argument: the branch counter tells how far along the trace a replay *)
(* is (Counters); while a pass goes on, pred_last_seen_ctr_ has the last   *)
(* visit so far of each predecessor (Remembered); a pass ends only beyond  *)
(* every earlier visit, so what it remembered are the last of them         *)
(* (Corrected), and the next pass cannot go past one (NotPassed).  A       *)
(* thread gone astray is in no pass any more.                              *)
(***************************************************************************)
EXTENDS ReverseReplay, FiniteSetTheorems, TLAPS

Count(s, i) == Cardinality({j \in 1..i : s[j] \in Leaders})
Path(s) == \A i \in 1..(Len(s) - 1) : s[i + 1] \in Flow[s[i]]

\* Every loop of the flow has an instrumented block.  A loop inside a function
\* needs a branch, and where a branch may lead a block begins; the returns of a
\* recursion are a loop that has none, and are excluded.
LoopsHaveLeaders ==
    \A s \in Seq(Address) :
        /\ Len(s) > 1 /\ Path(s) /\ s[1] = s[Len(s)]
        => \E i \in 2..Len(s) : s[i] \in Leaders

----------------------------------------------------------------------------
(* Branch counters.                                                        *)

LEMMA CountIsNat ==
  ASSUME NEW s, NEW i \in Nat
  PROVE  Count(s, i) \in Nat /\ IsFiniteSet({j \in 1..i : s[j] \in Leaders})
<1> DEFINE T == {j \in 1..i : s[j] \in Leaders}
<1>1. T \in SUBSET (1..i) /\ IsFiniteSet(1..i)
  BY FS_Interval
<1> HIDE DEF T
<1>2. IsFiniteSet(T)
  BY <1>1, FS_Subset
<1> QED
  BY <1>2, FS_CardinalityType DEF T, Count

LEMMA CountNext ==
  ASSUME NEW s, NEW i \in Nat
  PROVE  Count(s, i + 1) = IF s[i + 1] \in Leaders THEN Count(s, i) + 1 ELSE Count(s, i)
<1> DEFINE T(k) == {j \in 1..k : s[j] \in Leaders}
<1>1. IsFiniteSet(T(i))
  BY CountIsNat, Zenon
<1>2. CASE s[i + 1] \in Leaders
  <2>1. T(i + 1) = T(i) \cup {i + 1} /\ i + 1 \notin T(i)
    BY <1>2
  <2> HIDE DEF T
  <2>2. Cardinality(T(i) \cup {i + 1}) = Cardinality(T(i)) + 1
    BY <1>1, <2>1, FS_AddElement
  <2> QED
    BY <1>2, <2>1, <2>2 DEF T, Count
<1>3. CASE s[i + 1] \notin Leaders
  <2>1. T(i + 1) = T(i)
    BY <1>3
  <2> QED
    BY <1>3, <2>1 DEF Count
<1> QED
  BY <1>2, <1>3

LEMMA CountGrows ==
  ASSUME NEW s, NEW i \in Nat, NEW j \in Nat, i <= j
  PROVE  Count(s, i) <= Count(s, j)
<1> DEFINE T(k) == {m \in 1..k : s[m] \in Leaders}
<1>1. T(i) \in SUBSET T(j)
  OBVIOUS
<1>2. IsFiniteSet(T(j))
  BY CountIsNat, Zenon
<1> HIDE DEF T
<1>3. Cardinality(T(i)) <= Cardinality(T(j))
  BY <1>1, <1>2, FS_Subset
<1> QED
  BY <1>3 DEF T, Count

\* A block in between is counted.
LEMMA CountRises ==
  ASSUME NEW s, NEW i \in Nat, NEW j \in Nat, NEW k \in (i + 1)..j, s[k] \in Leaders
  PROVE  Count(s, i) < Count(s, j)
<1>1. k - 1 \in Nat /\ i <= k - 1 /\ (k - 1) + 1 = k /\ k \in Nat /\ k <= j
  OBVIOUS
<1>2. Count(s, k) = Count(s, k - 1) + 1
  BY <1>1, CountNext
<1>3. Count(s, i) <= Count(s, k - 1) /\ Count(s, k) <= Count(s, j)
  BY <1>1, CountGrows
<1>4. Count(s, i) \in Nat /\ Count(s, j) \in Nat /\ Count(s, k) \in Nat /\ Count(s, k - 1) \in Nat
  BY <1>1, CountIsNat
<1> QED
  BY <1>2, <1>3, <1>4

\* Fewer branches is earlier.
LEMMA FewerIsEarlier ==
  ASSUME NEW s, NEW i \in Nat, NEW j \in Nat, Count(s, i) < Count(s, j)
  PROVE  i < j
<1>1. Count(s, i) \in Nat /\ Count(s, j) \in Nat
  BY CountIsNat
<1>2. j <= i => Count(s, j) <= Count(s, i)
  BY CountGrows
<1> QED
  BY <1>1, <1>2

LEMMA SameCount ==
  ASSUME NEW s, NEW r, NEW i \in Nat, \A j \in 1..i : r[j] = s[j]
  PROVE  Count(r, i) = Count(s, i)
<1>1. {j \in 1..i : r[j] \in Leaders} = {j \in 1..i : s[j] \in Leaders}
  OBVIOUS
<1> QED
  BY <1>1 DEF Count

\* Two visits of one address have different counters.
LEMMA VisitsDiffer ==
  ASSUME LoopsHaveLeaders, NEW s \in Seq(Address), Path(s),
         NEW i \in 1..Len(s), NEW j \in 1..Len(s), i < j, s[i] = s[j]
  PROVE  Count(s, i) < Count(s, j)
<1> DEFINE r == [k \in 1..(j - i + 1) |-> s[i + k - 1]]
<1>1. j - i + 1 \in Nat /\ \A k \in 1..(j - i + 1) : i + k - 1 \in 1..Len(s)
  OBVIOUS
<1>2. r \in Seq(Address) /\ Len(r) = j - i + 1
  BY <1>1
<1>3. \A k \in 1..(j - i + 1) : r[k] = s[i + k - 1]
  OBVIOUS
<1> HIDE DEF r
<1>4. r[1] = s[i] /\ r[Len(r)] = s[j]
  BY <1>2, <1>3
<1>5. Path(r)
  <2>1. ASSUME NEW k \in 1..(Len(r) - 1)
        PROVE  r[k + 1] \in Flow[r[k]]
    <3>1. i + k - 1 \in 1..(Len(s) - 1) /\ (i + k - 1) + 1 = i + k
      BY <1>2
    <3>2. r[k] = s[i + k - 1] /\ r[k + 1] = s[i + k]
      <4>1. k \in 1..(j - i + 1) /\ k + 1 \in 1..(j - i + 1) /\ i + (k + 1) - 1 = i + k
        BY <1>2
      <4> QED
        BY <4>1, <1>3
    <3>3. s[(i + k - 1) + 1] \in Flow[s[i + k - 1]]
      BY <3>1 DEF Path
    <3> QED
      BY <3>1, <3>2, <3>3
  <2> QED
    BY <2>1 DEF Path
<1>6. PICK m \in 2..Len(r) : r[m] \in Leaders
  BY <1>2, <1>4, <1>5 DEF LoopsHaveLeaders
<1>7. i + m - 1 \in (i + 1)..j /\ s[i + m - 1] \in Leaders
  BY <1>2, <1>3, <1>6
<1> QED
  BY <1>7, CountRises
----------------------------------------------------------------------------
(* The invariant.                                                          *)

Replaying == phase \in {"replay", "trapped"}
Commanded == phase # "debugger"

Steady ==
    /\ phase \in {"debugger", "restore", "replay", "trapped", "astray"}
    /\ trace \in Seq(Address) /\ Path(trace)
    /\ position \in 1..Len(trace)
    /\ stop \in 0..Len(trace)
    /\ Commanded => stop >= 1 /\ passes >= 1
    /\ passes \in Nat /\ entered \in BOOLEAN

\* The counter is the number of blocks the thread has entered.
Counters ==
    /\ phase \in {"debugger", "trapped"} => counter = Counter(position)
    /\ phase = "replay" =>
           counter = IF entered THEN Counter(position) ELSE Counter(position) - 1

\* Either predecessors are looked for, up to the stop, or a branch target.
Catching ==
    /\ Commanded /\ branch_target # Sentinel => DOMAIN predecessors = {}
    /\ Replaying =>
           catch = IF branch_target # Sentinel THEN NoCatch
                   ELSE [address |-> {StoppedAddress}, counter |-> StoppedCounter]

Others == DOMAIN predecessors \ {StoppedAddress}
\* What the passes correct, whether or not a breakpoint can be lifted.
Sought == {a \in Others : EarlierVisits(a) # {}}
Passed(a) == {i \in 1..(position - 1) : trace[i] = a}
IsLast(i, S) == i \in S /\ \A j \in S : j <= i

Remembered ==
    Replaying =>
        \A a \in Others :
            /\ a \in DOMAIN pred_last_seen_ctr_ =>
                   \E i \in Passed(a) : /\ IsLast(i, Passed(a))
                                        /\ pred_last_seen_ctr_[a] = Counter(i)
            /\ a \notin DOMAIN pred_last_seen_ctr_ => Passed(a) = {}
            /\ \A i \in Passed(a) : Counter(i) < StoppedCounter

Guessed ==
    Commanded /\ passes <= 1 =>
        \A a \in DOMAIN predecessors : predecessors[a] \in {StoppedCounter, StoppedCounter - 1}

Corrected ==
    Commanded /\ passes > 1 =>
        \A a \in Sought :
            \E i \in EarlierVisits(a) : IsLast(i, EarlierVisits(a)) /\ predecessors[a] = Counter(i)

\* The stop's own breakpoint is written a second time when it is a predecessor.
Doubling ==
    Commanded /\ StoppedAddress \in DOMAIN predecessors => StoppedAddress \in doubled

SoughtTwice == Commanded /\ passes > 2 => Sought = {}

NotPassed ==
    Replaying /\ passes > 1 => \A a \in Sought : \E i \in EarlierVisits(a) : position <= i

SearchInv ==
    /\ Steady /\ Counters /\ Catching
    /\ Remembered /\ Guessed /\ Corrected /\ NotPassed
    /\ SoughtTwice /\ Doubling

LEMMA CounterIsNat ==
  ASSUME NEW i \in Nat
  PROVE  Counter(i) \in Nat
<1>1. Counter(i) = Count(trace, i)
  BY DEF Counter, Count
<1> QED
  BY <1>1, CountIsNat

LEMMA CounterNext ==
  ASSUME NEW i \in Nat
  PROVE  Counter(i + 1) = IF trace[i + 1] \in Leaders THEN Counter(i) + 1 ELSE Counter(i)
<1>1. Counter(i) = Count(trace, i) /\ Counter(i + 1) = Count(trace, i + 1)
  BY DEF Counter, Count
<1> QED
  BY <1>1, CountNext

LEMMA CounterFewer ==
  ASSUME NEW i \in Nat, NEW j \in Nat, Counter(i) < Counter(j)
  PROVE  i < j
<1>1. Counter(i) = Count(trace, i) /\ Counter(j) = Count(trace, j)
  BY DEF Counter, Count
<1> QED
  BY <1>1, FewerIsEarlier

LEMMA InitSearch == Init => SearchInv
<1> SUFFICES ASSUME Init PROVE SearchInv
  OBVIOUS
<1>1. trace \in Seq(Address) /\ Len(trace) = 1
  BY ReverseAssumption DEF Init
<1>2. Steady
  BY <1>1 DEF Init, Steady, Path, Commanded
<1>3. Counters
  BY DEF Init, Counters
<1> QED
  BY <1>2, <1>3 DEF Init, SearchInv, Catching, Remembered, Guessed, Corrected, NotPassed,
       SoughtTwice, Doubling, Commanded, Replaying

----------------------------------------------------------------------------
(* The trace grows.                                                        *)

LEMMA GoesAlong ==
  ASSUME Steady, Goes
  PROVE  /\ trace' \in Seq(Address) /\ Path(trace)'
         /\ position' = position + 1 /\ position' \in 1..Len(trace')
         /\ Len(trace) \in Nat /\ Len(trace') \in Nat /\ Len(trace) <= Len(trace')
         /\ \A i \in 1..Len(trace) : trace'[i] = trace[i]
<1> USE DEF Steady
<1>1. CASE position < Len(trace)
  <2>1. trace' = trace /\ position' = position + 1
    BY <1>1 DEF Goes
  <2> QED
    BY <1>1, <2>1 DEF Path
<1>2. CASE position >= Len(trace)
  <2>1. PICK a \in Flow[trace[position]] : trace' = Append(trace, a)
    BY <1>2 DEF Goes
  <2>2. position = Len(trace) /\ position' = position + 1
    BY <1>2 DEF Goes
  <2>3. a \in Address
    BY <2>2, ReverseAssumption
  <2>4. /\ trace' \in Seq(Address) /\ Len(trace') = Len(trace) + 1
        /\ \A i \in 1..Len(trace) : trace'[i] = trace[i]
        /\ trace'[Len(trace) + 1] = a
    BY <2>1, <2>3
  <2>5. ASSUME NEW i \in 1..(Len(trace') - 1)
        PROVE  trace'[i + 1] \in Flow[trace'[i]]
    <3>1. CASE i = Len(trace)
      BY <2>1, <2>2, <2>4, <3>1
    <3>2. CASE i # Len(trace)
      <4>1. i \in 1..(Len(trace) - 1) /\ i + 1 \in 1..Len(trace) /\ i \in 1..Len(trace)
        BY <2>4, <3>2
      <4> QED
        BY <2>4, <4>1 DEF Path
    <3> QED
      BY <3>1, <3>2
  <2> QED
    BY <2>2, <2>4, <2>5 DEF Path
<1> QED
  BY <1>1, <1>2

\* The counters of the trace so far stay as they are.
LEMMA CounterStays ==
  ASSUME NEW n \in Nat, \A i \in 1..n : trace'[i] = trace[i]
  PROVE  \A i \in 0..n : Counter(i)' = Counter(i)
<1> SUFFICES ASSUME NEW i \in 0..n PROVE Counter(i)' = Counter(i)
  OBVIOUS
<1>1. {j \in 1..i : trace'[j] \in Leaders} = {j \in 1..i : trace[j] \in Leaders}
  OBVIOUS
<1> QED
  BY <1>1 DEF Counter

\* So does what there is to find before the stop.
LEMMA GoalStays ==
  ASSUME Steady, stop \in 1..Len(trace), stop' = stop,
         \A i \in 1..Len(trace) : trace'[i] = trace[i]
  PROVE  /\ StoppedAddress' = StoppedAddress /\ StoppedCounter' = StoppedCounter
         /\ \A a : EarlierVisits(a)' = EarlierVisits(a)
         /\ \A i \in 0..Len(trace) : Counter(i)' = Counter(i)
<1>1. Len(trace) \in Nat
  BY DEF Steady
<1>2. \A i \in 0..Len(trace) : Counter(i)' = Counter(i)
  BY <1>1, CounterStays
<1>3. StoppedAddress' = StoppedAddress /\ StoppedCounter' = StoppedCounter
  BY <1>1, <1>2 DEF StoppedAddress, StoppedCounter
<1>4. ASSUME NEW a
      PROVE  EarlierVisits(a)' = EarlierVisits(a)
  <2>1. \A i \in 1..(stop - 1) : trace'[i] = trace[i] /\ Counter(i)' = Counter(i)
    BY <1>1, <1>2
  <2>2. \A i : i \in EarlierVisits(a)' <=> i \in EarlierVisits(a)
    BY <1>3, <2>1 DEF EarlierVisits, Visits
  <2> QED
    BY <2>2
<1> QED
  BY <1>2, <1>3, <1>4
----------------------------------------------------------------------------
(* The thread goes on during a pass.                                       *)

\* It is at a predecessor that is remembered and is not the one looked for, or
\* at none.
Noted(a) ==
    IF a = trace[position]
    THEN /\ a \in DOMAIN pred_last_seen_ctr_' /\ pred_last_seen_ctr_'[a] = counter
         /\ counter < StoppedCounter /\ counter # predecessors[a]
    ELSE /\ a \in DOMAIN pred_last_seen_ctr_' <=> a \in DOMAIN pred_last_seen_ctr_
         /\ a \in DOMAIN pred_last_seen_ctr_ =>
                pred_last_seen_ctr_'[a] = pred_last_seen_ctr_[a]

LEMMA AdvanceSearch ==
  ASSUME SearchInv, phase = "replay", entered, Advance,
         UNCHANGED <<phase, stop, counter, predecessors, doubled, branch_target, catch,
                     passes>>,
         \A a \in Others : Noted(a)
  PROVE  SearchInv'
<1>1. /\ Steady /\ stop \in 1..Len(trace) /\ Goes /\ Replaying /\ Commanded
      /\ position \in Nat /\ Len(trace) \in Nat /\ position \in 1..Len(trace)
      /\ stop \in Nat
  BY DEF SearchInv, Steady, Advance, Replaying, Commanded
<1>2. /\ trace' \in Seq(Address) /\ Path(trace)'
      /\ position' = position + 1 /\ position' \in 1..Len(trace')
      /\ Len(trace') \in Nat /\ Len(trace) <= Len(trace')
      /\ \A i \in 1..Len(trace) : trace'[i] = trace[i]
  BY <1>1, GoesAlong
<1>3. /\ StoppedAddress' = StoppedAddress /\ StoppedCounter' = StoppedCounter
      /\ \A a : EarlierVisits(a)' = EarlierVisits(a)
      /\ \A i \in 0..Len(trace) : Counter(i)' = Counter(i)
  BY <1>1, <1>2, GoalStays
<1>4. Sought' = Sought /\ Others' = Others /\ Replaying' /\ Commanded'
  BY <1>1, <1>3 DEF Sought, Others, Replaying, Commanded
<1>5. counter = Counter(position) /\ Counter(position) \in Nat
  BY <1>1, CounterIsNat DEF SearchInv, Counters
<1>6. Steady'
  BY <1>1, <1>2 DEF Steady, Commanded, Advance
<1>p. PICK p \in Nat : p = position
  BY <1>1
<1>7. Counters'
  <2>1. Counter(p)' = counter
    BY <1>1, <1>3, <1>5, <1>p
  <2>2. Count(trace', p + 1) = IF trace'[p + 1] \in Leaders THEN Count(trace', p) + 1
                               ELSE Count(trace', p)
    BY CountNext
  <2>3. Count(trace', p) = Counter(p)' /\ Count(trace', p + 1) = Counter(p + 1)'
    BY DEF Count, Counter
  <2>4. entered' = (trace'[p + 1] \notin Leaders) /\ position' = p + 1
    BY <1>2, <1>p DEF Advance
  <2>5. Counter(position)' = Counter(p + 1)'
    BY <2>4
  <2>6. phase' = "replay" /\ counter' = counter /\ entered' \in BOOLEAN
    BY <2>4
  <2>7. counter' = IF entered' THEN Counter(position)' ELSE Counter(position)' - 1
    <3>1. CASE trace'[p + 1] \in Leaders
      <4>1. Counter(position)' = counter + 1 /\ counter + 1 \in Nat /\ (counter + 1) - 1 = counter
        BY <1>5, <2>1, <2>2, <2>3, <2>5, <3>1
      <4> QED
        BY <2>4, <2>6, <3>1, <4>1, Zenon
    <3>2. CASE trace'[p + 1] \notin Leaders
      <4>1. Counter(position)' = counter
        BY <2>1, <2>2, <2>3, <2>5, <3>2
      <4> QED
        BY <2>4, <2>6, <3>2, <4>1, Zenon
    <3> QED
      BY <3>1, <3>2
  <2> QED
    BY <2>6, <2>7 DEF Counters
<1>8. Catching'
  BY <1>1, <1>3, <1>4 DEF SearchInv, Catching
<1>9. Remembered'
  <2> SUFFICES ASSUME NEW a \in Others
               PROVE  /\ a \in DOMAIN pred_last_seen_ctr_' =>
                             \E i \in Passed(a)' : /\ IsLast(i, Passed(a)')
                                                   /\ pred_last_seen_ctr_'[a] = Counter(i)'
                      /\ a \notin DOMAIN pred_last_seen_ctr_' => Passed(a)' = {}
                      /\ \A i \in Passed(a)' : Counter(i)' < StoppedCounter'
    BY <1>4 DEF Remembered
  <2>1. /\ a \in DOMAIN pred_last_seen_ctr_ =>
               \E i \in Passed(a) : /\ IsLast(i, Passed(a))
                                    /\ pred_last_seen_ctr_[a] = Counter(i)
        /\ a \notin DOMAIN pred_last_seen_ctr_ => Passed(a) = {}
        /\ \A i \in Passed(a) : Counter(i) < StoppedCounter
    BY <1>1 DEF SearchInv, Remembered
  <2>2. Noted(a)
    OBVIOUS
  <2>3. \A i \in Passed(a) : i \in 1..Len(trace) /\ i < position
    BY <1>1 DEF Passed
  <2>4. CASE a = trace[position]
    <3>1. Passed(a)' = Passed(a) \cup {p}
      <4>1. trace'[p] = a /\ position' = p + 1
        BY <1>1, <1>2, <1>p, <2>4
      <4>2. \A i \in 1..p : trace'[i] = trace[i]
        BY <1>1, <1>2, <1>p
      <4>3. \A i : i \in Passed(a)' <=> i \in Passed(a) \/ i = p
        BY <1>1, <1>p, <4>1, <4>2 DEF Passed
      <4> QED
        BY <4>3
    <3>2. IsLast(p, Passed(a)')
      BY <1>1, <1>p, <2>3, <3>1 DEF IsLast
    <3>3. /\ a \in DOMAIN pred_last_seen_ctr_' /\ pred_last_seen_ctr_'[a] = counter
          /\ counter < StoppedCounter
      BY <2>2, <2>4 DEF Noted
    <3>4. Counter(p)' = counter
      BY <1>1, <1>3, <1>5, <1>p
    <3>5. \A i \in Passed(a) : Counter(i)' = Counter(i)
      BY <1>3, <2>3
    <3>6. \A i \in Passed(a)' : Counter(i)' < StoppedCounter'
      BY <1>3, <2>1, <3>1, <3>3, <3>4, <3>5
    <3> QED
      BY <3>1, <3>2, <3>3, <3>4, <3>6
  <2>5. CASE a # trace[position]
    <3>1. Passed(a)' = Passed(a)
      BY SMTT(20), <1>1, <1>2, <2>5 DEF Passed
    <3>2. \A i \in Passed(a) : Counter(i)' = Counter(i)
      BY <1>3, <2>3
    <3> QED
      BY <1>3, <2>1, <2>2, <2>5, <3>1, <3>2 DEF Noted
  <2> QED
    BY <2>4, <2>5
<1>10. Guessed'
  BY <1>1, <1>3, <1>4 DEF SearchInv, Guessed
<1>11. \A a : \A i \in EarlierVisits(a) : i \in 0..Len(trace) /\ i \in Nat
  BY <1>1 DEF EarlierVisits, Visits
<1>12. Corrected'
  BY <1>1, <1>3, <1>4, <1>11 DEF SearchInv, Corrected
<1>13. ASSUME passes > 1, NEW a \in Sought
       PROVE  \E i \in EarlierVisits(a) : position + 1 <= i
  <2>1. PICK i \in EarlierVisits(a) : position <= i
    BY <1>1, <1>13 DEF SearchInv, NotPassed
  <2>2. PICK l \in EarlierVisits(a) : IsLast(l, EarlierVisits(a)) /\ predecessors[a] = Counter(l)
    BY <1>1, <1>13 DEF SearchInv, Corrected
  <2>3. position <= l /\ l \in Nat
    BY <1>1, <1>11, <2>1, <2>2 DEF IsLast
  <2>4. l # position
    <3>1. ASSUME l = position
          PROVE  FALSE
      <4>1. trace[position] = a /\ predecessors[a] = counter
        BY <1>5, <2>2, <3>1 DEF EarlierVisits, Visits
      <4>2. a \in Others
        BY DEF Sought, Others
      <4> QED
        BY <4>1, <4>2 DEF Noted
    <3> QED
      BY <3>1
  <2> QED
    BY <1>1, <2>2, <2>3, <2>4
<1>14. NotPassed'
  BY <1>1, <1>2, <1>3, <1>4, <1>13 DEF NotPassed
<1>15. SoughtTwice' /\ Doubling'
  BY <1>1, <1>3, <1>4 DEF SearchInv, SoughtTwice, Doubling
<1> QED
  BY <1>6, <1>7, <1>8, <1>9, <1>10, <1>12, <1>14, <1>15 DEF SearchInv
----------------------------------------------------------------------------
(* The other steps.                                                        *)

\* The user lets the thread run.
LEMMA ForwardSearch ==
  ASSUME SearchInv, Forward
  PROVE  SearchInv'
<1>1. /\ Steady /\ Goes /\ ~Commanded' /\ ~Replaying'
      /\ position \in Nat /\ Len(trace) \in Nat /\ position \in 1..Len(trace)
      /\ counter = Counter(position)
  BY DEF SearchInv, Steady, Counters, Forward, Replaying, Commanded
<1>2. /\ trace' \in Seq(Address) /\ Path(trace)'
      /\ position' = position + 1 /\ position' \in 1..Len(trace')
      /\ Len(trace') \in Nat /\ Len(trace) <= Len(trace')
      /\ \A i \in 1..Len(trace) : trace'[i] = trace[i]
  BY <1>1, GoesAlong
<1>3. Steady'
  BY <1>1, <1>2 DEF Steady, Commanded, Forward
<1>4. PICK p \in Nat : p = position
  BY <1>1
<1>5. Counter(p)' = counter
  BY <1>1, <1>2, <1>4, CounterStays
<1>6. Count(trace', p + 1) = IF trace'[p + 1] \in Leaders THEN Count(trace', p) + 1
                             ELSE Count(trace', p)
  BY <1>4, CountNext
<1>7. Count(trace', p) = Counter(p)' /\ Count(trace', p + 1) = Counter(p + 1)'
  BY DEF Count, Counter
<1>8. Counter(position)' = Counter(p + 1)'
  BY <1>2, <1>4
<1>9. counter' = IF trace'[p + 1] \in Leaders THEN counter + 1 ELSE counter
  BY <1>4 DEF Forward
<1>10. counter' = Counter(position)'
  BY <1>5, <1>6, <1>7, <1>8, <1>9
<1>11. Counters'
  BY <1>10 DEF Counters, Forward
<1> QED
  BY <1>1, <1>3, <1>11
  DEF SearchInv, Catching, Remembered, Guessed, Corrected, NotPassed, SoughtTwice,
      Doubling, Commanded

\* The command: its counters are guesses.
LEMMA ReverseStepSearch ==
  ASSUME SearchInv, NEW preds, NEW d, ReverseStep(preds, d)
  PROVE  SearchInv'
<1> USE DEF ReverseStep
<1>1. /\ Commanded' /\ ~Replaying' /\ passes' = 1
      /\ counter = Counter(position) /\ StoppedCounter' = counter
      /\ position \in 1..Len(trace) /\ Len(trace) \in Nat
  BY DEF SearchInv, Steady, Counters, Replaying, Commanded, StoppedCounter, Counter
<1>2. Steady'
  BY <1>1 DEF SearchInv, Steady, Commanded, Path
<1>3. Counters'
  BY DEF Counters
<1>4. predecessors' \in [preds -> {counter, counter - 1}]
  OBVIOUS
<1>5. Catching'
  BY <1>1, <1>4 DEF Catching
<1>6. Guessed'
  BY <1>1, <1>4 DEF Guessed
<1>7. Doubling'
  BY <1>4 DEF Doubling, StoppedAddress
<1> QED
  BY <1>1, <1>2, <1>3, <1>5, <1>6, <1>7
  DEF SearchInv, Remembered, Corrected, NotPassed, SoughtTwice

\* The goal of a step that does not touch the trace.
LEMMA GoalSame ==
  ASSUME UNCHANGED <<trace, stop>>
  PROVE  /\ StoppedAddress' = StoppedAddress /\ StoppedCounter' = StoppedCounter
         /\ \A a : EarlierVisits(a)' = EarlierVisits(a)
         /\ \A i : Counter(i)' = Counter(i)
BY DEF StoppedAddress, StoppedCounter, EarlierVisits, Visits, Counter

\* The snapshot is restored: nothing has been passed.
LEMMA EnterSearch ==
  ASSUME SearchInv, Enter
  PROVE  SearchInv'
<1> USE DEF Enter
<1>1. /\ Commanded /\ Commanded' /\ Replaying' /\ phase' = "replay" /\ passes' = passes
      /\ Len(trace) \in Nat /\ 1 \in 1..Len(trace)
      /\ UNCHANGED <<trace, stop, predecessors, doubled, branch_target>> /\ position' = 1
  BY DEF SearchInv, Steady, Replaying, Commanded
<1>2. /\ StoppedAddress' = StoppedAddress /\ StoppedCounter' = StoppedCounter
      /\ \A a : EarlierVisits(a)' = EarlierVisits(a)
      /\ \A i : Counter(i)' = Counter(i)
  BY <1>1, GoalSame
<1>3. Sought' = Sought /\ Others' = Others
  BY <1>1, <1>2 DEF Sought, Others
<1>4. Steady'
  BY <1>1 DEF SearchInv, Steady, Commanded, Path
<1>5. Counters'
  BY <1>1, <1>2 DEF Counters
<1>6. Catching'
  BY <1>1, <1>2 DEF SearchInv, Catching
<1>7. Remembered'
  <2>1. \A a : Passed(a)' = {} /\ a \notin DOMAIN pred_last_seen_ctr_'
    BY <1>1 DEF Passed
  <2> QED
    BY <2>1 DEF Remembered
<1>8. Guessed'
  BY <1>1, <1>2 DEF SearchInv, Guessed
<1>9. Corrected'
  BY <1>1, <1>2, <1>3 DEF SearchInv, Corrected
<1>10. NotPassed'
  <2>1. ASSUME passes > 1, NEW a \in Sought
        PROVE  \E i \in EarlierVisits(a) : 1 <= i
    BY <2>1 DEF Sought, EarlierVisits, Visits
  <2> QED
    BY <1>1, <1>2, <1>3, <2>1 DEF NotPassed
<1>11. SoughtTwice' /\ Doubling'
  BY <1>1, <1>2, <1>3 DEF SearchInv, SoughtTwice, Doubling, Commanded
<1> QED
  BY <1>4, <1>5, <1>6, <1>7, <1>8, <1>9, <1>10, <1>11 DEF SearchInv

\* A prologue, and a stop in one that is continued.
LEMMA StandingSearch ==
  ASSUME SearchInv, EnterBlock \/ PassTarget
  PROVE  SearchInv'
<1>1. /\ Commanded /\ Commanded' /\ Replaying /\ Replaying'
      /\ UNCHANGED <<trace, stop, position, predecessors, doubled, branch_target, catch,
                     pred_last_seen_ctr_, passes>>
      /\ Len(trace) \in Nat /\ position \in 1..Len(trace)
  BY DEF SearchInv, Steady, Replaying, Commanded, EnterBlock, PassTarget
<1>2. /\ StoppedAddress' = StoppedAddress /\ StoppedCounter' = StoppedCounter
      /\ \A a : EarlierVisits(a)' = EarlierVisits(a)
      /\ \A i : Counter(i)' = Counter(i)
  BY <1>1, GoalSame
<1>3. Sought' = Sought /\ Others' = Others /\ \A a : Passed(a)' = Passed(a)
  BY <1>1, <1>2 DEF Sought, Others, Passed
<1>4. /\ counter' = Counter(position) /\ entered' \in BOOLEAN
      /\ phase' = "replay" => entered'
  <2>1. CASE EnterBlock
    <3>1. Counter(position) \in Nat /\ counter = Counter(position) - 1
      BY <1>1, <2>1, CounterIsNat DEF SearchInv, Counters, EnterBlock
    <3>2. counter' = counter + 1
      BY <2>1 DEF EnterBlock
    <3> DEFINE below == counter' < target
    <3>3. entered' = below /\ below \in BOOLEAN /\ (phase' = "replay" => below)
      BY <2>1 DEF EnterBlock
    <3> HIDE DEF below
    <3>4. entered' \in BOOLEAN /\ (phase' = "replay" => entered')
      BY <3>3
    <3> QED
      BY <3>1, <3>2, <3>4
  <2>2. CASE PassTarget
    BY <2>2 DEF SearchInv, Counters, PassTarget
  <2> QED
    BY <2>1, <2>2
<1>5. Steady'
  BY <1>1, <1>4 DEF SearchInv, Steady, Commanded, Replaying, Path
<1>6. Counters'
  BY <1>1, <1>2, <1>4 DEF Counters
<1>7. Catching'
  BY <1>1, <1>2 DEF SearchInv, Catching
<1>8. Remembered'
  BY <1>1, <1>2, <1>3 DEF SearchInv, Remembered
<1>9. Guessed'
  BY <1>1, <1>2 DEF SearchInv, Guessed
<1>10. Corrected'
  BY <1>1, <1>2, <1>3 DEF SearchInv, Corrected
<1>11. NotPassed'
  BY <1>1, <1>2, <1>3 DEF SearchInv, NotPassed
<1>12. SoughtTwice' /\ Doubling'
  BY <1>1, <1>2, <1>3 DEF SearchInv, SoughtTwice, Doubling, Commanded
<1> QED
  BY <1>5, <1>6, <1>7, <1>8, <1>9, <1>10, <1>11, <1>12 DEF SearchInv

LEMMA GoingOnSearch ==
  ASSUME SearchInv, Execute \/ StepOverCatch \/ StepOverPredecessor, phase' # "astray"
  PROVE  SearchInv'
<1>1. /\ phase = "replay" /\ entered /\ Advance /\ Replaying
      /\ UNCHANGED <<phase, stop, counter, predecessors, doubled, branch_target, catch,
                     passes>>
  BY DEF Execute, StepOverCatch, StepOverPredecessor, StepOver, Caught, AtPredecessor, AtBreakpoint,
         Replaying
<1>2. catch.address \subseteq {StoppedAddress}
  BY <1>1 DEF SearchInv, Catching, NoCatch
<1>3. ASSUME NEW a \in Others
      PROVE  Noted(a)
  <2>1. CASE Execute
    BY <2>1 DEF Execute, Noted, Others, Armed
  <2>2. CASE StepOverCatch
    BY <1>2, <2>2 DEF StepOverCatch, Caught, Noted, Others
  <2>3. CASE StepOverPredecessor
    <3>1. /\ AtBreakpoint /\ ~(counter >= StoppedCounter)
          /\ counter # predecessors[trace[position]] /\ pred_last_seen_ctr_' = Seen
      BY <2>3 DEF StepOverPredecessor, AtPredecessor, TooFar
    <3>2. counter \in Nat /\ StoppedCounter \in Nat
      <4>1. position \in Nat /\ stop \in Nat
        BY DEF SearchInv, Steady
      <4> QED
        BY <1>1, <4>1, CounterIsNat DEF SearchInv, Counters, StoppedCounter
    <3>3. /\ DOMAIN pred_last_seen_ctr_' = {trace[position]} \cup DOMAIN pred_last_seen_ctr_
          /\ \A x \in DOMAIN pred_last_seen_ctr_' :
                pred_last_seen_ctr_'[x] = IF x = trace[position] THEN counter
                                          ELSE pred_last_seen_ctr_[x]
      BY <3>1 DEF Seen
    <3>4. counter < StoppedCounter
      BY <3>1, <3>2
    <3>5. CASE a = trace[position]
      BY <3>1, <3>3, <3>4, <3>5 DEF Noted
    <3>6. CASE a # trace[position]
      <4>1. a \in DOMAIN pred_last_seen_ctr_ =>
                pred_last_seen_ctr_'[a] = pred_last_seen_ctr_[a]
        BY <3>3, <3>6
      <4> QED
        BY <3>3, <3>6, <4>1 DEF Noted
    <3> QED
      BY <3>5, <3>6
  <2> QED
    BY <2>1, <2>2, <2>3
<1> QED
  BY <1>1, <1>3, AdvanceSearch

\* The breakpoint it steps over is not lifted.
LEMMA AstraySearch ==
  ASSUME SearchInv, StepOverCatch \/ StepOverPredecessor, phase' = "astray"
  PROVE  SearchInv'
<1>1. /\ phase = "replay" /\ Commanded /\ Commanded' /\ ~Replaying'
      /\ UNCHANGED <<trace, position, entered, stop, counter, predecessors, doubled,
                     branch_target, catch, passes>>
  BY DEF StepOverCatch, StepOverPredecessor, StepOver, Caught, AtPredecessor, AtBreakpoint,
         Replaying, Commanded
<1>2. /\ StoppedAddress' = StoppedAddress /\ StoppedCounter' = StoppedCounter
      /\ \A a : EarlierVisits(a)' = EarlierVisits(a)
      /\ \A i : Counter(i)' = Counter(i)
  BY <1>1, GoalSame
<1>3. Sought' = Sought
  BY <1>1, <1>2 DEF Sought, Others
<1>4. Steady'
  BY <1>1 DEF SearchInv, Steady, Commanded, Path
<1>5. Counters'
  BY DEF Counters
<1>6. Catching' /\ Guessed'
  BY <1>1, <1>2 DEF SearchInv, Catching, Guessed
<1>7. Corrected' /\ SoughtTwice' /\ Doubling'
  BY <1>1, <1>2, <1>3 DEF SearchInv, Corrected, SoughtTwice, Doubling
<1> QED
  BY <1>1, <1>4, <1>5, <1>6, <1>7 DEF SearchInv, Remembered, NotPassed

\* A pass ends with the counter at the stop's: whatever there was to find has
\* been passed, and was remembered.
LEMMA RetrySearch ==
  ASSUME SearchInv, Retry
  PROVE  SearchInv'
<1> USE DEF Retry
<1>1. /\ Commanded /\ Commanded' /\ Replaying /\ ~Replaying' /\ phase' = "restore"
      /\ UNCHANGED <<trace, stop, position, doubled, branch_target>>
      /\ passes \in Nat /\ passes >= 1 /\ predecessors' = LastSeen
      /\ position \in Nat /\ stop \in Nat /\ Len(trace) \in Nat
      /\ stop \in 1..Len(trace) /\ position \in 1..Len(trace)
  BY DEF SearchInv, Steady, Replaying, Commanded, TooFar, AtBreakpoint
<1>p. passes' \in Nat /\ passes' > 1 /\ (passes' > 2 => passes > 1)
  BY <1>1, ReverseAssumption
<1>2. /\ StoppedAddress' = StoppedAddress /\ StoppedCounter' = StoppedCounter
      /\ \A a : EarlierVisits(a)' = EarlierVisits(a)
      /\ \A i : Counter(i)' = Counter(i)
  BY <1>1, GoalSame
<1>3. DOMAIN predecessors' = DOMAIN predecessors
  BY <1>1 DEF LastSeen
<1>4. Sought' = Sought
  BY <1>1, <1>2, <1>3 DEF Sought, Others
<1>5. counter = Counter(position) /\ counter \in Nat /\ StoppedCounter \in Nat
  <2>1. Counter(position) \in Nat /\ StoppedCounter \in Nat
    BY <1>1, CounterIsNat DEF StoppedCounter
  <2>2. counter = Counter(position)
    BY DEF SearchInv, Counters, TooFar, AtBreakpoint
  <2> QED
    BY <2>1, <2>2
<1>6. counter >= StoppedCounter
  <2>1. CASE Caught /\ counter = catch.counter
    <3>1. catch.counter = StoppedCounter
      BY <1>1, <2>1 DEF SearchInv, Catching, Caught, NoCatch
    <3> QED
      BY <1>5, <2>1, <3>1
  <2>2. CASE counter >= StoppedCounter
    BY <2>2
  <2> QED
    BY <2>1, <2>2 DEF TooFar
<1>7. ASSUME NEW a \in Others
      PROVE  EarlierVisits(a) = Passed(a)
  <2>1. ASSUME NEW i \in EarlierVisits(a) PROVE i \in Passed(a)
    <3>1. i \in 1..(stop - 1) /\ trace[i] = a /\ Counter(i) < StoppedCounter /\ i \in Nat
      BY <1>1 DEF EarlierVisits, Visits
    <3>2. Counter(i) < Counter(position)
      BY <1>5, <1>6, <3>1, CounterIsNat
    <3>3. i < position
      BY <1>1, <3>1, <3>2, CounterFewer
    <3> QED
      BY <1>1, <3>1, <3>3 DEF Passed
  <2>2. ASSUME NEW i \in Passed(a) PROVE i \in EarlierVisits(a)
    <3>1. i \in 1..(position - 1) /\ trace[i] = a /\ i \in Nat
      BY <1>1 DEF Passed
    <3>2. Counter(i) < StoppedCounter
      BY <1>1 DEF SearchInv, Remembered
    <3>3. i < stop
      BY <1>1, <3>1, <3>2, CounterFewer DEF StoppedCounter
    <3> QED
      BY <1>1, <3>1, <3>2, <3>3 DEF EarlierVisits, Visits
  <2> QED
    BY <2>1, <2>2
<1>8. Sought \subseteq Others
  BY DEF Sought, Others
<1>9. Corrected'
  <2>1. ASSUME NEW a \in Sought
        PROVE  \E i \in EarlierVisits(a) : IsLast(i, EarlierVisits(a)) /\ LastSeen[a] = Counter(i)
    <3>1. Passed(a) # {} /\ EarlierVisits(a) = Passed(a) /\ a \in Others
      BY <1>7, <1>8 DEF Sought
    <3>2. /\ a \in DOMAIN pred_last_seen_ctr_
          /\ \E i \in Passed(a) : IsLast(i, Passed(a)) /\ pred_last_seen_ctr_[a] = Counter(i)
      BY <1>1, <3>1 DEF SearchInv, Remembered
    <3>3. LastSeen[a] = pred_last_seen_ctr_[a]
      BY <3>1, <3>2 DEF LastSeen, Others
    <3> QED
      BY <3>1, <3>2, <3>3
  <2> QED
    BY <1>1, <1>2, <1>4, <2>1 DEF Corrected
<1>10. SoughtTwice' /\ Doubling'
  <2>1. ASSUME passes > 1, NEW a \in Sought PROVE FALSE
    <3>1. PICK i \in EarlierVisits(a) : position <= i
      BY <1>1, <2>1 DEF SearchInv, NotPassed
    <3>2. i \in Passed(a)
      BY <1>7, <1>8, <3>1
    <3> QED
      BY <1>1, <3>1, <3>2 DEF Passed
  <2> QED
    BY <1>1, <1>p, <1>2, <1>3, <1>4, <2>1 DEF SearchInv, SoughtTwice, Doubling
<1>11. Steady'
  BY <1>1, <1>p DEF SearchInv, Steady, Commanded, Path
<1>12. Counters'
  BY <1>1 DEF Counters
<1>13. Catching'
  BY <1>1, <1>3 DEF SearchInv, Catching
<1>14. Guessed'
  <2>1. passes' > 1 /\ passes' \in Nat
    BY <1>p
  <2> QED
    BY <1>1, <2>1 DEF Guessed
<1> QED
  BY <1>1, <1>9, <1>10, <1>11, <1>12, <1>13, <1>14 DEF SearchInv, Remembered, NotPassed

LEMMA FoundSearch ==
  ASSUME SearchInv, Found
  PROVE  SearchInv'
<1>1. ~Commanded' /\ ~Replaying' /\ UNCHANGED <<trace, stop, position, entered, counter, passes>>
  BY DEF Found, Commanded, Replaying
<1>2. Steady'
  BY <1>1 DEF Found, SearchInv, Steady, Path
<1>3. Counters'
  BY <1>1 DEF Found, SearchInv, Counters, AtPredecessor, AtBreakpoint, Counter
<1> QED
  BY <1>1, <1>2, <1>3
  DEF SearchInv, Catching, Remembered, Guessed, Corrected, NotPassed, SoughtTwice,
      Doubling, Commanded

LEMMA NextSearch == SearchInv /\ [Next]_vars => SearchInv'
<1> SUFFICES ASSUME SearchInv, [Next]_vars PROVE SearchInv'
  OBVIOUS
<1>1. CASE UNCHANGED vars
  <2> USE <1>1 DEF vars
  <2>1. /\ StoppedAddress' = StoppedAddress /\ StoppedCounter' = StoppedCounter
        /\ \A a : EarlierVisits(a)' = EarlierVisits(a)
        /\ \A i : Counter(i)' = Counter(i)
        /\ Counter(position)' = Counter(position)
    BY GoalSame DEF Counter
  <2>2. /\ Sought' = Sought /\ Others' = Others /\ Replaying' = Replaying
        /\ Commanded' = Commanded /\ \A a : Passed(a)' = Passed(a)
    BY <2>1 DEF Sought, Others, Replaying, Commanded, Passed
  <2>3. Steady' /\ Counters' /\ Catching'
    BY <2>1, <2>2 DEF SearchInv, Steady, Counters, Catching, Path
  <2>4. Remembered' /\ Guessed'
    BY <2>1, <2>2 DEF SearchInv, Remembered, Guessed
  <2>5. Corrected' /\ NotPassed' /\ SoughtTwice' /\ Doubling'
    BY <2>1, <2>2 DEF SearchInv, Corrected, NotPassed, SoughtTwice, Doubling
  <2> QED
    BY <2>3, <2>4, <2>5 DEF SearchInv
<1> QED
  BY <1>1, ForwardSearch, ReverseStepSearch, EnterSearch, StandingSearch, GoingOnSearch,
     AstraySearch, RetrySearch, FoundSearch
  DEF Next, Run, Execute

THEOREM SearchInvHolds == Spec => []SearchInv
BY InitSearch, NextSearch, PTL DEF Spec
----------------------------------------------------------------------------
(* The theorems.                                                           *)

\* What the first replay has seen corrects the counters: a predecessor the thread
\* has been at with fewer branches than the stop is found in the second replay at
\* the latest, for any guesses, where every breakpoint can be lifted
\* (reverse_replay_phase.cpp:86-140, step_command.cpp:48-101).
THEOREM TwoPassesSuffice == Spec => []FoundInTwoPasses
<1>1. SearchInv => FoundInTwoPasses
  BY DEF SearchInv, FoundInTwoPasses, SoughtTwice, Doubling, Sought, Others, Findable, Commanded
<1> QED
  BY <1>1, SearchInvHolds, PTL

LEMMA FoundIsLast ==
  ASSUME LoopsHaveLeaders, SearchInv, Found
  PROVE  ReportsLastEarlierVisit'
<1> DEFINE a == trace[position]
<1>1. /\ Commanded /\ Replaying /\ Steady
      /\ position \in Nat /\ stop \in Nat /\ Len(trace) \in Nat
      /\ stop \in 1..Len(trace) /\ position \in 1..Len(trace)
      /\ UNCHANGED <<trace, stop, position, predecessors>>
  BY DEF SearchInv, Steady, Replaying, Commanded, Found, AtPredecessor, AtBreakpoint
<1>2. counter = Counter(position) /\ counter \in Nat /\ StoppedCounter \in Nat
  <2>1. Counter(position) \in Nat /\ StoppedCounter \in Nat
    BY <1>1, CounterIsNat DEF StoppedCounter
  <2>2. counter = Counter(position)
    BY DEF SearchInv, Counters, Found, AtPredecessor, AtBreakpoint
  <2> QED
    BY <2>1, <2>2
<1>3. counter < StoppedCounter /\ counter = predecessors[a]
  BY <1>2 DEF Found, AtPredecessor, TooFar
<1>4. a \in Others
  <2>1. a \in DOMAIN predecessors \cup catch.address /\ a \notin catch.address
    BY DEF Found, AtPredecessor, AtBreakpoint, Armed, Caught
  <2>2. StoppedAddress \in catch.address
    BY <1>1, <2>1 DEF SearchInv, Catching
  <2> QED
    BY <2>1, <2>2 DEF Others
<1>5. position \in EarlierVisits(a)
  <2>1. position < stop
    BY <1>1, <1>2, <1>3, CounterFewer DEF StoppedCounter
  <2>2. position \in 1..(stop - 1) /\ Counter(position) < StoppedCounter
    BY <1>1, <1>2, <1>3, <2>1
  <2> QED
    BY <2>2 DEF EarlierVisits, Visits
<1>6. ASSUME NEW i \in EarlierVisits(a)
      PROVE  i <= position
  <2>1. /\ i \in 1..Len(trace) /\ i \in Nat /\ trace[i] = a
        /\ Counter(i) < StoppedCounter /\ Counter(i) \in Nat
    BY <1>1, CounterIsNat DEF EarlierVisits, Visits
  <2>2. position < i => Counter(position) < Counter(i)
    <3>1. position < i => Count(trace, position) < Count(trace, i)
      BY <1>1, <2>1, VisitsDiffer DEF Steady
    <3> QED
      BY <3>1 DEF Count, Counter
  <2>3. CASE passes <= 1
    <3>1. counter \in {StoppedCounter, StoppedCounter - 1}
      BY <1>1, <1>3, <1>4, <2>3 DEF SearchInv, Guessed, Others
    <3> QED
      BY <1>1, <1>2, <1>3, <2>1, <2>2, <3>1
  <2>4. CASE passes > 1
    <3>1. a \in Sought
      BY <1>4, <1>5 DEF Sought
    <3>2. PICK l \in EarlierVisits(a) : IsLast(l, EarlierVisits(a)) /\ predecessors[a] = Counter(l)
      BY <1>1, <2>4, <3>1 DEF SearchInv, Corrected
    <3>3. l \in 1..Len(trace) /\ l \in Nat /\ trace[l] = a /\ position <= l /\ i <= l
      BY <1>1, <1>5, <3>2 DEF EarlierVisits, Visits, IsLast
    <3>4. ~(position < l)
      <4>1. position < l => Count(trace, position) < Count(trace, l)
        BY <1>1, <3>3, VisitsDiffer DEF Steady
      <4>2. Count(trace, position) = Count(trace, l)
        BY <1>2, <1>3, <3>2 DEF Count, Counter
      <4>3. Count(trace, l) \in Nat
        BY <3>3, CountIsNat
      <4> QED
        BY <4>1, <4>2, <4>3
    <3> QED
      BY <1>1, <2>1, <3>3, <3>4
  <2>5. passes \in Nat
    BY <1>1 DEF Steady
  <2> QED
    BY <2>3, <2>4, <2>5
<1>7. EarlierVisits(a)' = EarlierVisits(a)
  BY <1>1 DEF EarlierVisits, Visits, Counter, StoppedCounter
<1> QED
  BY <1>1, <1>4, <1>5, <1>6, <1>7
  DEF ReportsLastEarlierVisit, Others, EarlierVisits, Visits, Counter, StoppedCounter

\* Where every loop has an instrumented block, a reverse step that stops is at the
\* last of the visits of that address with fewer branches than the stop, however
\* long the trace and however many visits and guesses there are; a visit in the
\* stop's own block comes later and is not found
\* (reverse_replay_phase.cpp:86-140, step_command.cpp:48-101).
THEOREM ReportsTheLastEarlierVisit ==
  ASSUME LoopsHaveLeaders
  PROVE  Spec => []ReportsLastEarlierVisit
<1>1. Init => ReportsLastEarlierVisit
  BY DEF Init, ReportsLastEarlierVisit, Reported
<1>2. ASSUME SearchInv, ReportsLastEarlierVisit, [Next]_vars
      PROVE  ReportsLastEarlierVisit'
  <2>1. CASE Found
    BY <1>2, <2>1, FoundIsLast
  <2>2. CASE UNCHANGED vars
    BY <1>2, <2>2
    DEF vars, ReportsLastEarlierVisit, Reported, EarlierVisits, Visits, Counter,
        StoppedCounter
  <2>3. CASE Forward \/ \E preds, d : ReverseStep(preds, d)
    <3>1. ~Reported'
      BY <2>3 DEF Forward, ReverseStep, Reported
    <3> QED
      BY <3>1 DEF ReportsLastEarlierVisit
  <2>4. CASE Enter \/ (Run /\ ~Found)
    <3>1. ~Reported'
      BY <2>4 DEF Enter, Run, Execute, EnterBlock, Retry, StepOverCatch, StepOverPredecessor,
                  StepOver, PassTarget, Reported, Caught, AtPredecessor, AtBreakpoint
    <3> QED
      BY <3>1 DEF ReportsLastEarlierVisit
  <2> QED
    BY <1>2, <2>1, <2>2, <2>3, <2>4 DEF Next
<1> QED
  BY <1>1, <1>2, SearchInvHolds, PTL DEF Spec
=============================================================================
