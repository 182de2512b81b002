----------------------- MODULE InstrumentationProofs -----------------------
(***************************************************************************)
(* Theorems about Instrumentation, for any programs a compiler makes, any  *)
(* blocks that are left alone, depths, counts and branch targets.          *)
(***************************************************************************)
EXTENDS Instrumentation, FiniteSetTheorems, SequenceTheorems, WellFoundedInduction, TLAPS

----------------------------------------------------------------------------
(* Sets of numbers in order.                                               *)

Rank(S, x) == Cardinality({y \in S : y <= x})

\* A set of natural numbers has a least member.
LEMMA LeastMember ==
  ASSUME NEW T \in SUBSET Nat, T # {}
  PROVE  \E i \in T : \A j \in T : i <= j
<1>1. PICK i \in T : \A j \in T : <<j, i>> \notin OpToRel(<, Nat)
  BY NatLessThanWellFounded, WFMin
<1>2. \A j \in T : ~(j < i)
  BY <1>1 DEF OpToRel
<1> QED
  BY <1>2

LEMMA Interval ==
  ASSUME NEW n \in Nat
  PROVE  IsFiniteSet(1..n) /\ Cardinality(1..n) = n
<1>1. IsFiniteSet(1..n) /\ Cardinality(1..n) = IF 1 > n THEN 0 ELSE n - 1 + 1
  BY FS_Interval
<1> QED
  BY <1>1

LEMMA SmallestOfIs ==
  ASSUME NEW T \in SUBSET Nat, T # {}
  PROVE  SmallestOf(T) \in T /\ \A j \in T : SmallestOf(T) <= j
BY LeastMember DEF SmallestOf

\* Ranks are different and count the members.
LEMMA Ranks ==
  ASSUME NEW N \in Nat, NEW S \in SUBSET (1..N)
  PROVE  /\ IsFiniteSet(S) /\ Cardinality(S) \in Nat
         /\ \A x \in S : Rank(S, x) \in 1..Cardinality(S)
         /\ \A x, y \in S : x < y => Rank(S, x) < Rank(S, y)
<1>1. IsFiniteSet(S) /\ Cardinality(S) \in Nat
  <2>1. IsFiniteSet(S)
    BY Interval, FS_Subset
  <2> QED
    BY <2>1, FS_CardinalityType
<1>2. ASSUME NEW x \in S
      PROVE  Rank(S, x) \in 1..Cardinality(S)
  <2> DEFINE T == {y \in S : y <= x}
  <2>1. T \in SUBSET S /\ x \in T
    OBVIOUS
  <2>2. IsFiniteSet(T) /\ Cardinality(T) <= Cardinality(S) /\ Cardinality(T) \in Nat
    BY <1>1, <2>1, FS_Subset, FS_CardinalityType
  <2>3. Cardinality(T) # 0
    BY <2>1, <2>2, FS_EmptySet
  <2> QED
    BY <1>1, <2>2, <2>3 DEF Rank
<1>3. ASSUME NEW x \in S, NEW y \in S, x < y
      PROVE  Rank(S, x) < Rank(S, y)
  <2> DEFINE T == {z \in S : z <= x}
             U == {z \in S : z <= y}
  <2>0. x \in Nat /\ y \in Nat /\ S \subseteq Nat
    OBVIOUS
  <2>5. \A z \in S : z <= x => z <= y
    BY <1>3, <2>0
  <2>6. y <= y /\ ~(y <= x)
    BY <1>3, <2>0
  <2>1. T \in SUBSET U /\ y \in U /\ y \notin T /\ U \in SUBSET S
    BY <2>5, <2>6
  <2>2. IsFiniteSet(U)
    BY <1>1, <2>1, FS_Subset
  <2>3. /\ IsFiniteSet(T) /\ Cardinality(T) <= Cardinality(U)
        /\ Cardinality(T) = Cardinality(U) => T = U
    BY <2>1, <2>2, FS_Subset
  <2>4. Cardinality(T) \in Nat /\ Cardinality(U) \in Nat
    BY <2>2, <2>3, FS_CardinalityType
  <2> QED
    BY <2>1, <2>3, <2>4 DEF Rank
<1> QED
  BY <1>1, <1>2, <1>3

\* InOrder(S) lists S: the k-th of it is the member of rank k.
LEMMA InOrderIs ==
  ASSUME NEW N \in Nat, NEW S \in SUBSET (1..N)
  PROVE  /\ DOMAIN InOrder(S) = 1..Cardinality(S)
         /\ \A k \in 1..Cardinality(S) : InOrder(S)[k] \in S /\ Rank(S, InOrder(S)[k]) = k
         /\ \A x \in S : InOrder(S)[Rank(S, x)] = x
<1>1. /\ IsFiniteSet(S) /\ Cardinality(S) \in Nat
      /\ \A x \in S : Rank(S, x) \in 1..Cardinality(S)
      /\ \A x, y \in S : x < y => Rank(S, x) < Rank(S, y)
  BY Ranks
<1> DEFINE n == Cardinality(S)
           r == [x \in S |-> Rank(S, x)]
<1>2. \A x, y \in S : Rank(S, x) = Rank(S, y) => x = y
  <2> TAKE x, y \in S
  <2>1. x \in Nat /\ y \in Nat /\ Rank(S, x) \in Nat /\ Rank(S, y) \in Nat
    BY <1>1
  <2>2. x < y \/ y < x \/ x = y
    BY <2>1
  <2>3. CASE x < y
    BY <1>1, <2>1, <2>3
  <2>4. CASE y < x
    BY <1>1, <2>1, <2>4
  <2> QED
    BY <2>2, <2>3, <2>4
<1>3. r \in Injection(S, 1..n)
  BY <1>1, <1>2 DEF Injection, IsInjective
<1>4. IsFiniteSet(1..n) /\ Cardinality(1..n) = n
  BY <1>1, Interval
<1>5. r \in Surjection(S, 1..n)
  BY <1>3, <1>4, FS_Injection
<1>6. \A k \in 1..n : \E x \in S : Rank(S, x) = k
  BY <1>5 DEF Surjection
<1>7. DOMAIN InOrder(S) = 1..n /\ \A k \in 1..n : InOrder(S)[k] = CHOOSE x \in S : Rank(S, x) = k
  BY DEF InOrder, Rank
<1> QED
  BY <1>1, <1>2, <1>6, <1>7

LEMMA InOrderInterval ==
  ASSUME NEW n \in Nat
  PROVE  InOrder(1..n) = [k \in 1..n |-> k]
<1>1. Cardinality(1..n) = n
  BY Interval
<1>2. ASSUME NEW k \in 1..n PROVE Rank(1..n, k) = k
  <2>1. {y \in 1..n : y <= k} = 1..k
    OBVIOUS
  <2>2. Cardinality(1..k) = k
    BY Interval
  <2> QED
    BY <2>1, <2>2 DEF Rank
<1>3. \A k \in 1..n : InOrder(1..n)[k] = k
  BY <1>1, <1>2, InOrderIs
<1>4. InOrder(1..n) = [k \in 1..n |-> InOrder(1..n)[k]]
  <2> DEFINE f == [k \in 1..n |-> CHOOSE x \in 1..n : Cardinality({y \in 1..n : y <= x}) = k]
  <2>1. InOrder(1..n) = f
    BY <1>1, Zenon DEF InOrder
  <2>2. f = [k \in 1..n |-> f[k]]
    OBVIOUS
  <2> HIDE DEF f
  <2> QED
    BY <2>1, <2>2
<1> QED
  BY <1>3, <1>4

\* A stack whose last words are a prologue's, and no others.
LEMMA FramesBelow ==
  ASSUME NEW s \in Seq(Nat), NEW m \in 0..Len(s),
         \A i \in 1..Len(s) : s[i] = SavedRegister <=> i > m
  PROVE  ReturnAddresses(s) = SubSeq(s, 1, m)
<1>1. {i \in DOMAIN s : s[i] # SavedRegister} = 1..m
  OBVIOUS
<1>2. InOrder(1..m) = [k \in 1..m |-> k]
  BY InOrderInterval
<1>3. ReturnAddresses(s) = [k \in 1..m |-> s[k]]
  <2> DEFINE words == InOrder({i \in DOMAIN s : s[i] # SavedRegister})
  <2>1. words = [k \in 1..m |-> k]
    BY <1>1, <1>2
  <2>2. ReturnAddresses(s) = [k \in DOMAIN words |-> s[words[k]]]
    BY Zenon DEF ReturnAddresses
  <2> HIDE DEF words
  <2> QED
    BY <2>1, <2>2
<1> QED
  BY <1>3

----------------------------------------------------------------------------
(* Functions, blocks and patches.                                          *)

LEMMA Instructions ==
  ASSUME NEW p \in Programs, NEW a \in DOMAIN p.code
  PROVE  /\ a \in Nat /\ 0 < a /\ a < Region /\ Region \in Nat
         /\ EndOf(p, a) \in Nat /\ a < EndOf(p, a) /\ EndOf(p, a) < Region
         /\ \A c \in DOMAIN p.code : a < c => EndOf(p, a) <= c
         /\ p.code[a].category \in {"OTHER", "COND_BR", "UNCOND_BR", "CALL", "RET"}
<1>1. Region \in Nat
  BY InstrumentationAssumption
<1>2. /\ DOMAIN p.code \subseteq 1..(Region - 1)
      /\ p.code[a].category \in {"OTHER", "COND_BR", "UNCOND_BR", "CALL", "RET"}
      /\ p.code[a].length \in Nat \ {0}
      /\ EndOf(p, a) < Region
      /\ \A c \in DOMAIN p.code : a < c => EndOf(p, a) <= c
  BY ProgramsAssumption
<1>3. a \in Nat /\ 0 < a /\ a < Region
  BY <1>1, <1>2
<1>4. EndOf(p, a) = a + p.code[a].length
  BY DEF EndOf
<1> QED
  BY <1>1, <1>2, <1>3, <1>4

LEMMA FunctionsApart ==
  ASSUME NEW p \in Programs, NEW fn \in p.functions
  PROVE  /\ fn.start \in DOMAIN p.code /\ fn.start \in Nat /\ fn.end \in Nat /\ fn.start < fn.end
         /\ \A gn \in p.functions : fn # gn => fn.end <= gn.start \/ gn.end <= fn.start
<1>1. fn.start \in DOMAIN p.code /\ fn.end \in Nat /\ fn.start < fn.end
  BY ProgramsAssumption
<1>2. \A gn \in p.functions : fn # gn => fn.end <= gn.start \/ gn.end <= fn.start
  BY ProgramsAssumption
<1> QED
  BY <1>1, <1>2, Instructions

\* An instruction is in one function, and so is the next if it may get there.
LEMMA InFunction ==
  ASSUME NEW p \in Programs, NEW a \in DOMAIN p.code
  PROVE  /\ \E fn \in p.functions : fn.start <= a /\ a < fn.end
         /\ \A fn \in p.functions : fn.start <= a /\ a < fn.end =>
               \/ EndOf(p, a) < fn.end /\ EndOf(p, a) \in DOMAIN p.code
               \/ EndOf(p, a) = fn.end /\ p.code[a].category \in {"UNCOND_BR", "RET"}
<1>1. PICK fn \in p.functions :
        /\ fn.start <= a
        /\ \/ EndOf(p, a) < fn.end /\ EndOf(p, a) \in DOMAIN p.code
           \/ EndOf(p, a) = fn.end /\ p.code[a].category \in {"UNCOND_BR", "RET"}
  BY ProgramsAssumption
<1>2. /\ a \in Nat /\ EndOf(p, a) \in Nat /\ a < EndOf(p, a)
      /\ fn.end \in Nat /\ fn.start \in Nat
  BY Instructions, FunctionsApart
<1>3. ASSUME NEW gn \in p.functions, gn.start <= a, a < gn.end
      PROVE  gn = fn
  <2>1. gn.end \in Nat /\ gn.start \in Nat
    BY FunctionsApart
  <2>2. fn # gn => fn.end <= gn.start \/ gn.end <= fn.start
    BY FunctionsApart
  <2> QED
    BY <1>1, <1>2, <1>3, <2>1, <2>2
<1> QED
  BY <1>1, <1>2, <1>3

\* Blocks begin at instructions of their function.
LEMMA LeaderIs ==
  ASSUME NEW p \in Programs, NEW fn \in p.functions, NEW l \in Leaders(p, fn)
  PROVE  l \in DOMAIN p.code /\ l \in Nat /\ fn.start <= l /\ l < fn.end
<1>1. /\ fn.start \in DOMAIN p.code /\ fn.start \in Nat /\ fn.end \in Nat /\ fn.start < fn.end
  BY FunctionsApart
<1>2. CASE l = fn.start
  BY <1>1, <1>2
<1>3. ASSUME NEW b \in Branches(p, fn), l = b.next_address, l < fn.end,
             b.kind \in {"Conditional", "UnconditionalJmp", "IndirectJump"}
      PROVE  l \in DOMAIN p.code /\ l \in Nat /\ fn.start <= l /\ l < fn.end
  <2>1. PICK a \in DOMAIN p.code : l = EndOf(p, a) /\ fn.start <= a /\ a < fn.end
    BY <1>3 DEF Branches, Within
  <2>2. EndOf(p, a) < fn.end => EndOf(p, a) \in DOMAIN p.code
    BY <1>1, <2>1, InFunction
  <2> QED
    BY <1>1, <1>3, <2>1, <2>2, Instructions
<1>4. ASSUME NEW b \in Branches(p, fn), l = b.target, fn.start <= l, l < fn.end
      PROVE  l \in DOMAIN p.code /\ l \in Nat /\ fn.start <= l /\ l < fn.end
  <2>1. PICK a \in DOMAIN p.code : l = p.code[a].target
    BY <1>4 DEF Branches, Within
  <2>2. l # Indirect
    BY <1>1, <1>4, Instructions DEF Indirect
  <2>3. l \in DOMAIN p.code
    BY <2>1, <2>2, ProgramsAssumption DEF Leads
  <2> QED
    BY <1>4, <2>3, Instructions
<1> QED
  BY <1>2, <1>3, <1>4 DEF Leaders

LEMMA BlockIs ==
  ASSUME NEW p \in Programs, NEW fn \in p.functions, NEW b \in Blocks(p, fn)
  PROVE  /\ b.start \in Leaders(p, fn) /\ b.start \in DOMAIN p.code
         /\ b.start \in Nat /\ b.end \in Nat /\ fn.end \in Nat /\ fn.start \in Nat
         /\ fn.start <= b.start /\ b.start < b.end /\ b.end <= fn.end
         /\ \A m \in Leaders(p, fn) : m <= b.start \/ b.end <= m
<1>1. PICK l \in Leaders(p, fn) :
        b = [start |-> l, end |-> SmallestOf({m \in Leaders(p, fn) \cup {fn.end} : m > l})]
  BY DEF Blocks
<1> DEFINE T == {m \in Leaders(p, fn) \cup {fn.end} : m > l}
<1>2. /\ fn.end \in Nat /\ fn.start \in Nat
      /\ \A m \in Leaders(p, fn) : m \in Nat /\ m \in DOMAIN p.code /\ fn.start <= m /\ m < fn.end
  BY LeaderIs, FunctionsApart
<1>3. T \in SUBSET Nat /\ fn.end \in T
  BY <1>1, <1>2
<1>4. SmallestOf(T) \in T /\ \A m \in T : SmallestOf(T) <= m
  BY <1>3, SmallestOfIs
<1>5. b.start = l /\ b.end = SmallestOf(T)
  BY <1>1
<1>6. b.end \in T /\ \A m \in T : b.end <= m
  BY <1>4, <1>5
<1>7. ASSUME NEW m \in Leaders(p, fn)
      PROVE  m <= b.start \/ b.end <= m
  <2>1. m > l => m \in T
    OBVIOUS
  <2> QED
    BY <1>2, <1>5, <1>6, <2>1
<1>8. b.end \in Nat /\ b.end > l /\ b.end <= fn.end
  BY <1>3, <1>6
<1> QED
  BY <1>2, <1>5, <1>7, <1>8

LEMMA AllBlocksAre ==
  ASSUME NEW p \in Programs, NEW b \in AllBlocks(p)
  PROVE  \E fn \in p.functions :
            /\ b \in Blocks(p, fn)
            /\ fn.start <= b.start /\ b.end <= fn.end /\ fn.start \in Nat /\ fn.end \in Nat
            /\ b.start \in Leaders(p, fn) /\ b.start \in DOMAIN p.code
            /\ b.start \in Nat /\ b.end \in Nat /\ b.start < b.end
BY BlockIs DEF AllBlocks

LEMMA BlocksApart ==
  ASSUME NEW p \in Programs, NEW b \in AllBlocks(p), NEW c \in AllBlocks(p), b # c
  PROVE  b.end <= c.start \/ c.end <= b.start
<1>1. PICK fn \in p.functions : b \in Blocks(p, fn)
  BY DEF AllBlocks
<1>2. PICK gn \in p.functions : c \in Blocks(p, gn)
  BY DEF AllBlocks
<1>3. CASE fn # gn
  <2>1. fn.end <= gn.start \/ gn.end <= fn.start
    BY <1>3, FunctionsApart
  <2> QED
    BY <1>1, <1>2, <2>1, BlockIs
<1>4. CASE fn = gn
  <2>1. /\ b.start \in Leaders(p, fn) /\ c.start \in Leaders(p, fn)
        /\ b.start \in Nat /\ c.start \in Nat /\ b.end \in Nat /\ c.end \in Nat
        /\ \A m \in Leaders(p, fn) : m <= b.start \/ b.end <= m
        /\ \A m \in Leaders(p, fn) : m <= c.start \/ c.end <= m
    BY <1>1, <1>2, <1>4, BlockIs
  <2>2. b.start # c.start
    <3> DEFINE Made(l) == [start |-> l, end |-> SmallestOf({m \in Leaders(p, fn) \cup {fn.end} : m > l})]
    <3>1. b \in {Made(l) : l \in Leaders(p, fn)} /\ c \in {Made(l) : l \in Leaders(p, fn)}
      BY <1>1, <1>2, <1>4 DEF Blocks
    <3>2. \A l : Made(l).start = l
      OBVIOUS
    <3> HIDE DEF Made
    <3>3. b = Made(b.start) /\ c = Made(c.start)
      BY <3>1, <3>2
    <3> QED
      BY <3>3
  <2> QED
    BY <2>1, <2>2
<1> QED
  BY <1>3, <1>4

\* What a patch covers, and where the code goes on behind it.
LEMMA PatchIs ==
  ASSUME NEW p \in Programs, NEW b \in AllBlocks(p), CanInstrument(p, b)
  PROVE  /\ b.start \in Displaced(p, b)
         /\ PatchEnd(p, b) \in Nat
         /\ \A a \in Displaced(p, b) :
               /\ a \in DOMAIN p.code /\ a \in Nat /\ b.start <= a /\ a < b.end
               /\ a < PatchEnd(p, b) /\ p.code[a].category = "OTHER"
               /\ EndOf(p, a) \in DOMAIN p.code
               /\ EndOf(p, a) < PatchEnd(p, b) => EndOf(p, a) \in Displaced(p, b)
               /\ ~(EndOf(p, a) < PatchEnd(p, b)) => EndOf(p, a) = PatchEnd(p, b)
<1>1. PICK fn \in p.functions :
        /\ fn.start <= b.start /\ b.end <= fn.end /\ fn.start \in Nat /\ fn.end \in Nat
        /\ b.start \in DOMAIN p.code /\ b.start \in Nat /\ b.end \in Nat /\ b.start < b.end
  BY AllBlocksAre
<1>2. \A a \in Within(p, b) : a \in DOMAIN p.code /\ a \in Nat /\ b.start <= a /\ a < b.end
                              /\ EndOf(p, a) \in Nat
  BY Instructions DEF Within
<1>3. PatchEnds(p, b) \in SUBSET Nat /\ PatchEnds(p, b) # {}
  BY <1>2 DEF PatchEnds, CanInstrument
<1>4. PatchEnd(p, b) \in PatchEnds(p, b)
  BY <1>3, SmallestOfIs DEF PatchEnd
<1>5. PICK last \in Within(p, b) : PatchEnd(p, b) = EndOf(p, last) /\ PatchEnd(p, b) - b.start >= 5
  BY <1>4 DEF PatchEnds, PatchSize
<1>6. PatchEnd(p, b) \in Nat
  BY <1>3, <1>4
<1>7. b.start \in Displaced(p, b)
  BY <1>1, <1>5, <1>6 DEF Displaced, Within
<1>8. ASSUME NEW a \in Displaced(p, b)
      PROVE  /\ a \in DOMAIN p.code /\ a \in Nat /\ b.start <= a /\ a < b.end
             /\ a < PatchEnd(p, b) /\ p.code[a].category = "OTHER"
             /\ EndOf(p, a) \in DOMAIN p.code
             /\ EndOf(p, a) < PatchEnd(p, b) => EndOf(p, a) \in Displaced(p, b)
             /\ ~(EndOf(p, a) < PatchEnd(p, b)) => EndOf(p, a) = PatchEnd(p, b)
  <2>1. /\ a \in DOMAIN p.code /\ a \in Nat /\ b.start <= a /\ a < b.end
        /\ a < PatchEnd(p, b) /\ p.code[a].category = "OTHER" /\ a \in Within(p, b)
    BY <1>2 DEF Displaced, CanInstrument
  <2>2. EndOf(p, a) \in DOMAIN p.code
    BY <2>1, InFunction
  <2>3. EndOf(p, a) \in Nat /\ a < EndOf(p, a)
    BY <2>1, Instructions
  <2>4. last \in DOMAIN p.code /\ last \in Nat /\ last < b.end
    BY <1>2
  <2>5. last < a => EndOf(p, last) <= a
    BY <2>1, <2>4, Instructions
  <2>6. a < last => EndOf(p, a) <= last
    BY <2>1, <2>4, Instructions
  <2>7. last < EndOf(p, last)
    BY <2>4, Instructions
  <2>8. CASE a = last
    BY <1>5, <1>6, <2>1, <2>2, <2>8
  <2>9. CASE a < last
    <3>1. EndOf(p, a) \in Within(p, b)
      BY <1>1, <2>1, <2>2, <2>3, <2>4, <2>6, <2>9 DEF Within
    <3>2. EndOf(p, a) < PatchEnd(p, b)
      BY <1>5, <1>6, <2>3, <2>4, <2>6, <2>7, <2>9
    <3> QED
      BY <2>1, <2>2, <3>1, <3>2 DEF Displaced
  <2>10. ~(last < a)
    BY <1>5, <1>6, <2>1, <2>5
  <2> QED
    BY <2>1, <2>4, <2>8, <2>9, <2>10
<1> QED
  BY <1>6, <1>7, <1>8

\* Who runs into a patch without a branch comes from inside it.
LEMMA NoWayIn ==
  ASSUME NEW p \in Programs, NEW b \in AllBlocks(p), CanInstrument(p, b),
         NEW a \in DOMAIN p.code, EndOf(p, a) \in Displaced(p, b), EndOf(p, a) # b.start
  PROVE  a \in Displaced(p, b)
<1>1. /\ b.start <= EndOf(p, a) /\ EndOf(p, a) < b.end /\ EndOf(p, a) < PatchEnd(p, b)
      /\ PatchEnd(p, b) \in Nat /\ b.start \in DOMAIN p.code
  BY PatchIs
<1>2. a \in Nat /\ a < EndOf(p, a) /\ EndOf(p, a) \in Nat /\ b.start \in Nat /\ b.end \in Nat
  BY <1>1, Instructions, AllBlocksAre
<1>3. a < b.start => EndOf(p, a) <= b.start
  BY <1>1, Instructions
<1> QED
  BY <1>1, <1>2, <1>3 DEF Displaced, Within

LEMMA LeaderNotInside ==
  ASSUME NEW p \in Programs, NEW b \in AllBlocks(p), CanInstrument(p, b),
         NEW fn \in p.functions, NEW t \in Leaders(p, fn), t \in Displaced(p, b)
  PROVE  t = b.start
<1>1. PICK gn \in p.functions : b \in Blocks(p, gn)
  BY DEF AllBlocks
<1>2. /\ b.start <= t /\ t < b.end /\ t \in Nat /\ fn.start <= t /\ t < fn.end
      /\ fn.start \in Nat /\ fn.end \in Nat
  BY PatchIs, LeaderIs, FunctionsApart
<1>3. /\ gn.start <= b.start /\ b.end <= gn.end /\ gn.start \in Nat /\ gn.end \in Nat
      /\ b.start \in Nat /\ b.end \in Nat
      /\ \A m \in Leaders(p, gn) : m <= b.start \/ b.end <= m
  BY <1>1, BlockIs
<1>4. fn = gn
  <2>1. fn # gn => fn.end <= gn.start \/ gn.end <= fn.start
    BY FunctionsApart
  <2> QED
    BY <1>2, <1>3, <2>1
<1> QED
  BY <1>2, <1>3, <1>4

\* Branches lead to the beginning of blocks.
LEMMA TargetIsLeader ==
  ASSUME NEW p \in Programs, NEW a \in DOMAIN p.code, p.code[a].category # "OTHER",
         p.code[a].target # Indirect, NEW fn \in FunctionsContaining(p, p.code[a].target)
  PROVE  p.code[a].target \in Leaders(p, fn)
<1> DEFINE t == p.code[a].target
<1>1. fn \in p.functions /\ fn.start <= t /\ t < fn.end
  BY DEF FunctionsContaining
<1>2. t = fn.start \/ fn \in FunctionsContaining(p, a)
  BY ProgramsAssumption DEF Leads
<1>3. CASE fn \in FunctionsContaining(p, a)
  <2> DEFINE site == [address |-> a, next_address |-> EndOf(p, a), target |-> t,
                      kind |-> BranchKind(p.code[a])]
  <2>1. a \in Within(p, fn)
    BY <1>3 DEF FunctionsContaining, Within
  <2>2. site \in Branches(p, fn)
    BY <2>1 DEF Branches
  <2> QED
    BY <1>1, <2>2 DEF Leaders
<1> QED
  BY <1>2, <1>3 DEF Leaders

----------------------------------------------------------------------------
(* Stubs.                                                                  *)

\* The instructions a patch covers, in order, follow each other.
LEMMA MovedInOrder ==
  ASSUME NEW p \in Programs, NEW b \in AllBlocks(p), CanInstrument(p, b)
  PROVE  LET S == Displaced(p, b)
             n == Cardinality(S)
             d == InOrder(S)
         IN  /\ n \in Nat /\ 1 <= n
             /\ \A i \in 1..n : d[i] \in S
             /\ \A i, j \in 1..n : d[i] = d[j] => i = j
             /\ \A a \in S : \E i \in 1..n : d[i] = a
             /\ d[1] = b.start
             /\ \A i \in 1..(n - 1) : d[i + 1] = EndOf(p, d[i])
             /\ EndOf(p, d[n]) = PatchEnd(p, b)
<1> DEFINE S == Displaced(p, b)
           n == Cardinality(S)
           d == InOrder(S)
<1>1. /\ b.start \in S /\ PatchEnd(p, b) \in Nat
      /\ \A a \in S : /\ a \in DOMAIN p.code /\ a \in Nat /\ b.start <= a /\ a < PatchEnd(p, b)
                      /\ EndOf(p, a) \in DOMAIN p.code
                      /\ EndOf(p, a) < PatchEnd(p, b) => EndOf(p, a) \in S
                      /\ ~(EndOf(p, a) < PatchEnd(p, b)) => EndOf(p, a) = PatchEnd(p, b)
  BY PatchIs
<1>2. /\ Region \in Nat
      /\ \A a \in S : /\ EndOf(p, a) \in Nat /\ a < EndOf(p, a) /\ 0 < a /\ a < Region
                      /\ \A c \in S : a < c => EndOf(p, a) <= c
  <2>1. \A a \in S : a \in DOMAIN p.code
    BY <1>1
  <2> HIDE DEF S
  <2> QED
    BY <2>1, Instructions, InstrumentationAssumption
<1>3. S \in SUBSET (1..Region)
  <2>1. \A a \in S : a \in 1..Region
    BY <1>1, <1>2
  <2> QED
    BY <2>1
<1> HIDE DEF S
<1>4. /\ IsFiniteSet(S) /\ n \in Nat
      /\ \A x \in S : Rank(S, x) \in 1..n
  BY <1>3, <1>2, Ranks
<1>5. /\ \A i \in 1..n : d[i] \in S /\ Rank(S, d[i]) = i
      /\ \A x \in S : d[Rank(S, x)] = x
  BY <1>3, <1>2, InOrderIs
<1>6. Rank(S, b.start) = 1
  <2>1. b.start \in Nat /\ b.start <= b.start /\ \A y \in S : y <= b.start => y = b.start
    BY <1>1
  <2>2. {y \in S : y <= b.start} = {b.start}
    BY <1>1, <2>1
  <2> QED
    BY <2>2, FS_Singleton DEF Rank
<1>7. ASSUME NEW x \in S, EndOf(p, x) \in S
      PROVE  Rank(S, EndOf(p, x)) = Rank(S, x) + 1
  <2> DEFINE T == {y \in S : y <= x}
  <2>1. /\ \A y \in S : y <= EndOf(p, x) <=> y <= x \/ y = EndOf(p, x)
        /\ ~(EndOf(p, x) <= x)
    BY <1>1, <1>2, <1>7
  <2>2. {y \in S : y <= EndOf(p, x)} = T \cup {EndOf(p, x)} /\ EndOf(p, x) \notin T
    BY <1>7, <2>1
  <2>3. T \in SUBSET S
    OBVIOUS
  <2> HIDE DEF T
  <2>4. IsFiniteSet(T)
    BY <1>4, <2>3, FS_Subset
  <2>5. Cardinality(T \cup {EndOf(p, x)}) = Cardinality(T) + 1
    BY <2>2, <2>4, FS_AddElement
  <2> QED
    BY <2>2, <2>5 DEF Rank, T
<1>8. ASSUME NEW x \in S, EndOf(p, x) \notin S
      PROVE  Rank(S, x) = n /\ EndOf(p, x) = PatchEnd(p, b)
  <2>1. EndOf(p, x) = PatchEnd(p, b)
    BY <1>1, <1>8
  <2>2. \A y \in S : y <= x
    <3> TAKE y \in S
    <3>1. x < y => EndOf(p, x) <= y
      BY <1>2
    <3> QED
      BY <1>1, <2>1, <3>1
  <2>3. {y \in S : y <= x} = S
    BY <2>2
  <2> QED
    BY <2>1, <2>3 DEF Rank
<1>9. 1 <= n /\ d[1] = b.start
  BY <1>1, <1>4, <1>5, <1>6
<1>10. ASSUME NEW i \in 1..(n - 1)
       PROVE  d[i + 1] = EndOf(p, d[i])
  <2>1. d[i] \in S /\ Rank(S, d[i]) = i /\ i # n
    BY <1>4, <1>5
  <2> DEFINE x == d[i]
  <2> HIDE DEF d
  <2>2. EndOf(p, x) \in S
    BY <1>8, <2>1
  <2>3. Rank(S, EndOf(p, x)) = i + 1
    BY <1>7, <2>1, <2>2
  <2> QED
    BY <1>5, <2>2, <2>3
<1>11. EndOf(p, d[n]) = PatchEnd(p, b)
  <2>1. d[n] \in S /\ Rank(S, d[n]) = n
    BY <1>4, <1>5, <1>9
  <2>2. EndOf(p, d[n]) \notin S
    <3>1. EndOf(p, d[n]) \in S => Rank(S, EndOf(p, d[n])) = n + 1 /\ Rank(S, EndOf(p, d[n])) \in 1..n
      BY <1>4, <1>7, <2>1
    <3> QED
      BY <1>4, <3>1
  <2> QED
    BY <1>8, <2>1, <2>2
<1>12. \A i, j \in 1..n : d[i] = d[j] => i = j
  BY <1>5
<1>13. \A a \in S : \E i \in 1..n : d[i] = a
  BY <1>4, <1>5
<1> QED
  BY <1>4, <1>5, <1>9, <1>10, <1>11, <1>12, <1>13 DEF S

Op == {"push rax", "save flags", "count", "push rcx", "compare", "int3", "pop rcx",
       "restore flags", "pop rax", "displaced", "jump back"}
SlotType == [op : Op, address : Nat]

LEMMA Joined ==
  ASSUME NEW T, NEW u \in Seq(T), NEW v \in Seq(T)
  PROVE  /\ u \o v \in Seq(T) /\ Len(u \o v) = Len(u) + Len(v)
         /\ \A i \in 1..Len(u) : (u \o v)[i] = u[i]
         /\ \A i \in 1..Len(v) : (u \o v)[Len(u) + i] = v[i]
<1>1. /\ u \o v \in Seq(T) /\ Len(u \o v) = Len(u) + Len(v)
      /\ \A i \in 1..(Len(u) + Len(v)) :
            (u \o v)[i] = IF i <= Len(u) THEN u[i] ELSE v[i - Len(u)]
  BY ConcatProperties
<1> QED
  BY <1>1

LEMMA ThreeJoined ==
  ASSUME NEW T, NEW u \in Seq(T), NEW v \in Seq(T), NEW w \in Seq(T)
  PROVE  LET s == u \o v \o w
         IN  /\ s \in Seq(T) /\ Len(s) = Len(u) + Len(v) + Len(w)
             /\ \A i \in 1..Len(u) : s[i] = u[i]
             /\ \A i \in 1..Len(v) : s[Len(u) + i] = v[i]
             /\ \A i \in 1..Len(w) : s[Len(u) + Len(v) + i] = w[i]
<1> DEFINE r == u \o v
           s == r \o w
<1>1. /\ r \in Seq(T) /\ Len(r) = Len(u) + Len(v)
      /\ \A i \in 1..Len(u) : r[i] = u[i]
      /\ \A i \in 1..Len(v) : r[Len(u) + i] = v[i]
  BY Joined
<1>0. Len(u) \in Nat /\ Len(v) \in Nat /\ Len(w) \in Nat
  OBVIOUS
<1>r. r \in Seq(T)
  BY <1>1
<1> HIDE DEF r
<1>2. /\ s \in Seq(T) /\ Len(s) = Len(r) + Len(w)
      /\ \A i \in 1..Len(r) : s[i] = r[i]
      /\ \A i \in 1..Len(w) : s[Len(r) + i] = w[i]
  BY <1>r, Joined
<1> HIDE DEF s
<1>3. \A i \in 1..Len(u) : s[i] = u[i]
  BY <1>0, <1>1, <1>2
<1>4. \A i \in 1..Len(v) : s[Len(u) + i] = v[i]
  BY <1>0, <1>1, <1>2
<1> QED
  BY <1>1, <1>2, <1>3, <1>4 DEF r, s

LEMMA Single ==
  ASSUME NEW T, NEW x \in T
  PROVE  <<x>> \in Seq(T) /\ Len(<<x>>) = 1 /\ <<x>>[1] = x
OBVIOUS

LEMMA StubIs ==
  ASSUME NEW p \in Programs, NEW b \in AllBlocks(p), CanInstrument(p, b)
  PROVE  LET n == Cardinality(Displaced(p, b))
             d == InOrder(Displaced(p, b))
         IN  /\ Stub(p, b) \in Seq(SlotType) /\ Len(Stub(p, b)) = n + 10
             /\ \A i \in 1..9 : Stub(p, b)[i] = Slot(Prologue[i], b.start)
             /\ \A i \in 1..n : Stub(p, b)[i + 9] = Slot("displaced", d[i])
             /\ Stub(p, b)[n + 10] = Slot("jump back", PatchEnd(p, b))
<1> DEFINE n == Cardinality(Displaced(p, b))
           d == InOrder(Displaced(p, b))
           first == [i \in 1..Len(Prologue) |-> Slot(Prologue[i], b.start)]
           moved == [i \in 1..n |-> Slot("displaced", d[i])]
           last == <<Slot("jump back", PatchEnd(p, b))>>
<1>1. /\ n \in Nat /\ \A i \in 1..n : d[i] \in Displaced(p, b)
  BY MovedInOrder
<1>2. /\ b.start \in Nat /\ PatchEnd(p, b) \in Nat
      /\ \A a \in Displaced(p, b) : a \in Nat
  BY PatchIs
<1>3. Len(Prologue) = 9 /\ \A i \in 1..9 : Prologue[i] \in Op
  BY DEF Prologue, Op
<1>4. \A o \in Op, a \in Nat : Slot(o, a) \in SlotType
  BY DEF Slot, SlotType
<1>5. first \in Seq(SlotType) /\ Len(first) = 9
  BY <1>2, <1>3, <1>4
<1>6. moved \in Seq(SlotType) /\ Len(moved) = n
  <2>1. "displaced" \in Op
    BY DEF Op
  <2>2. \A i \in 1..n : Slot("displaced", d[i]) \in SlotType
    BY <1>1, <1>2, <1>4, <2>1
  <2> HIDE DEF n, d
  <2> QED
    BY <1>1, <2>2
<1>7. last \in Seq(SlotType) /\ Len(last) = 1 /\ last[1] = Slot("jump back", PatchEnd(p, b))
  <2>1. "jump back" \in Op
    BY DEF Op
  <2>2. Slot("jump back", PatchEnd(p, b)) \in SlotType
    BY <1>2, <1>4, <2>1
  <2> DEFINE x == Slot("jump back", PatchEnd(p, b))
  <2> HIDE DEF x
  <2>3. <<x>> \in Seq(SlotType) /\ Len(<<x>>) = 1 /\ <<x>>[1] = x
    BY <2>2, Single DEF x
  <2> QED
    BY <2>3 DEF x
<1>8. Stub(p, b) = first \o moved \o last
  BY DEF Stub
<1>9. \A i \in 1..9 : first[i] = Slot(Prologue[i], b.start)
  BY <1>3
<1>10. \A i \in 1..n : moved[i] = Slot("displaced", d[i])
  OBVIOUS
<1> HIDE DEF first, moved, last, n, d
<1> DEFINE s == first \o moved \o last
<1>s. first \in Seq(SlotType) /\ moved \in Seq(SlotType) /\ last \in Seq(SlotType)
  BY <1>5, <1>6, <1>7
<1>11. /\ s \in Seq(SlotType) /\ Len(s) = Len(first) + Len(moved) + Len(last)
       /\ \A i \in 1..Len(first) : s[i] = first[i]
       /\ \A i \in 1..Len(moved) : s[Len(first) + i] = moved[i]
       /\ \A i \in 1..Len(last) : s[Len(first) + Len(moved) + i] = last[i]
  BY <1>s, ThreeJoined
<1> HIDE DEF s
<1>12. /\ s \in Seq(SlotType) /\ Len(s) = n + 10
       /\ \A i \in 1..9 : s[i] = first[i]
       /\ \A i \in 1..n : s[i + 9] = moved[i]
       /\ s[n + 10] = last[1]
  <2>1. n \in Nat /\ Len(first) = 9 /\ Len(moved) = n /\ Len(last) = 1
    BY <1>1, <1>5, <1>6, <1>7
  <2>2. /\ s \in Seq(SlotType) /\ Len(s) = n + 10
        /\ \A i \in 1..9 : s[i] = first[i]
    BY <1>11, <2>1
  <2>3. ASSUME NEW i \in 1..n PROVE s[i + 9] = moved[i]
    <3>1. s[Len(first) + i] = moved[i]
      BY <1>11, <2>1
    <3> QED
      BY <2>1, <3>1
  <2>4. s[n + 10] = last[1]
    <3>1. s[Len(first) + Len(moved) + 1] = last[1]
      BY <1>11, <2>1
    <3>2. Len(first) + Len(moved) + 1 = n + 10
      BY <2>1
    <3> QED
      BY <3>1, <3>2
  <2> QED
    BY <2>2, <2>3, <2>4
<1> QED
  BY <1>7, <1>8, <1>9, <1>10, <1>12 DEF n, d, s

\* Code a thread can run through: a slot that is not a jump back is followed by
\* the one that comes after it in a stub of a patch of P.
Follows(p, P, s, i) ==
    LET o == s[i]
    IN  /\ o.op # "jump back" => i + 1 <= Len(s)
        /\ \A k \in 1..8 : o.op = Prologue[k] => s[i + 1] = Slot(Prologue[k + 1], o.address)
        /\ o.op = "pop rax" => s[i + 1] = Slot("displaced", o.address)
        /\ o.op = "displaced" =>
              /\ \E b \in P : o.address \in Displaced(p, b)
              /\ \/ s[i + 1] = Slot("displaced", EndOf(p, o.address))
                 \/ s[i + 1] = Slot("jump back", EndOf(p, o.address))
        /\ o.op = "jump back" => \E b \in P : o.address = PatchEnd(p, b)
        /\ o.op \notin {"displaced", "jump back"} => \E b \in P : o.address = b.start

Runs(p, P, s) ==
    /\ s \in Seq(SlotType)
    /\ \A i \in 1..Len(s) : Follows(p, P, s, i)

LEMMA PrologueIs ==
  /\ \A k \in 1..9 : k \in {1, 2, 3, 4, 5, 6, 7, 8, 9}
  /\ Prologue[1] = "push rax" /\ Prologue[2] = "save flags" /\ Prologue[3] = "count"
  /\ Prologue[4] = "push rcx" /\ Prologue[5] = "compare" /\ Prologue[6] = "int3"
  /\ Prologue[7] = "pop rcx" /\ Prologue[8] = "restore flags" /\ Prologue[9] = "pop rax"
BY DEF Prologue

LEMMA NotAtTheEnd == \A k \in 1..8 : Prologue[k] # "jump back" /\ Prologue[k] # "displaced"
<1>1. \A k \in 1..8 : k \in {1, 2, 3, 4, 5, 6, 7, 8}
  OBVIOUS
<1> QED
  BY <1>1, PrologueIs, Zenon

LEMMA PrologueDiffers == \A i \in 1..9, k \in 1..9 : Prologue[i] = Prologue[k] => i = k
<1> DEFINE Place(o) == CASE o = "push rax" -> 1 [] o = "save flags" -> 2 [] o = "count" -> 3
                         [] o = "push rcx" -> 4 [] o = "compare" -> 5 [] o = "int3" -> 6
                         [] o = "pop rcx" -> 7 [] o = "restore flags" -> 8 [] OTHER -> 9
<1>1. ASSUME NEW i \in 1..9 PROVE Place(Prologue[i]) = i
  <2>1. i \in {1, 2, 3, 4, 5, 6, 7, 8, 9}
    OBVIOUS
  <2> QED
    BY <2>1, PrologueIs
<1> HIDE DEF Place
<1> QED
  BY <1>1

LEMMA StubRuns ==
  ASSUME NEW p \in Programs, NEW b \in AllBlocks(p), CanInstrument(p, b)
  PROVE  Runs(p, {b}, Stub(p, b))
<1> DEFINE S == Displaced(p, b)
           n == Cardinality(S)
           d == InOrder(S)
           s == Stub(p, b)
<1>1. /\ n \in Nat /\ 1 <= n
      /\ \A i \in 1..n : d[i] \in S
      /\ d[1] = b.start
      /\ \A i \in 1..(n - 1) : d[i + 1] = EndOf(p, d[i])
      /\ EndOf(p, d[n]) = PatchEnd(p, b)
  BY MovedInOrder
<1>2. /\ s \in Seq(SlotType) /\ Len(s) = n + 10
      /\ \A i \in 1..9 : s[i] = Slot(Prologue[i], b.start)
      /\ \A i \in 1..n : s[i + 9] = Slot("displaced", d[i])
      /\ s[n + 10] = Slot("jump back", PatchEnd(p, b))
  BY StubIs
<1>3. n \in Nat /\ 1 <= n /\ Len(s) = n + 10
  BY <1>1, <1>2
<1>4. \A i \in 1..9 : s[i] = Slot(Prologue[i], b.start)
  BY <1>2
<1>5. \A i \in 1..n : s[i + 9] = Slot("displaced", d[i]) /\ d[i] \in S
  BY <1>1, <1>2
<1>6. s[n + 10] = Slot("jump back", PatchEnd(p, b)) /\ EndOf(p, d[n]) = PatchEnd(p, b)
  BY <1>1, <1>2
<1>7. \A i \in 1..(n - 1) : d[i + 1] = EndOf(p, d[i])
  BY <1>1
<1>8. s[10] = Slot("displaced", b.start)
  <2>1. 1 \in 1..n /\ 1 + 9 = 10
    BY <1>3
  <2> QED
    BY <1>1, <1>5, <2>1
<1> HIDE DEF n, d, s, S
<1>9. ASSUME NEW i \in 1..9
      PROVE  Follows(p, {b}, s, i)
  <2>1. s[i] = Slot(Prologue[i], b.start) /\ i + 1 <= Len(s) /\ i \in {1, 2, 3, 4, 5, 6, 7, 8, 9}
    BY <1>3, <1>4
  <2>2. i # 9 => s[i + 1] = Slot(Prologue[i + 1], b.start)
    <3>1. i # 9 => i + 1 \in 1..9
      OBVIOUS
    <3> QED
      BY <1>4, <3>1
  <2>3. i = 9 => s[i + 1] = Slot("displaced", b.start)
    BY <1>8
  <2>4. s[i].op = Prologue[i] /\ s[i].address = b.start
    BY <2>1 DEF Slot
  <2>5. \A k \in 1..8 : Prologue[i] = Prologue[k] => i = k
    BY PrologueDiffers
  <2>6. /\ Prologue[i] \notin {"displaced", "jump back"}
        /\ Prologue[i] = "pop rax" => i = 9
    BY <2>1, PrologueIs
  <2>7. \A k \in 1..8 : s[i].op = Prologue[k] => s[i + 1] = Slot(Prologue[k + 1], s[i].address)
    BY <2>2, <2>4, <2>5
  <2> QED
    BY <2>1, <2>3, <2>4, <2>6, <2>7 DEF Follows
<1>10. ASSUME NEW j \in 1..n
       PROVE  Follows(p, {b}, s, j + 9)
  <2>1. s[j + 9] = Slot("displaced", d[j]) /\ d[j] \in S
    BY <1>5
  <2>2. (j + 9) + 1 <= Len(s)
    BY <1>3
  <2>3. \/ s[(j + 9) + 1] = Slot("displaced", EndOf(p, d[j]))
        \/ s[(j + 9) + 1] = Slot("jump back", EndOf(p, d[j]))
    <3>1. CASE j = n
      <4>1. (j + 9) + 1 = n + 10
        BY <1>3, <3>1
      <4> QED
        BY <1>6, <3>1, <4>1
    <3>2. CASE j # n
      <4>1. j \in 1..(n - 1) /\ j + 1 \in 1..n /\ (j + 9) + 1 = (j + 1) + 9
        BY <1>3, <3>2
      <4>2. s[(j + 1) + 9] = Slot("displaced", d[j + 1])
        BY <1>5, <4>1
      <4> QED
        BY <1>7, <4>1, <4>2
    <3> QED
      BY <3>1, <3>2
  <2>4. s[j + 9].op = "displaced" /\ s[j + 9].address = d[j]
    BY <2>1 DEF Slot
  <2>5. \A k \in 1..8 : Prologue[k] # "displaced"
    BY NotAtTheEnd
  <2> QED
    BY <2>1, <2>2, <2>3, <2>4, <2>5 DEF Follows, S
<1>11. Follows(p, {b}, s, n + 10)
  <2> DEFINE e == PatchEnd(p, b)
  <2>0. Slot("jump back", e).op = "jump back" /\ Slot("jump back", e).address = e
    BY DEF Slot
  <2>1. s[n + 10].op = "jump back" /\ s[n + 10].address = e
    BY <1>6, <2>0, Zenon
  <2> QED
    BY <2>1, NotAtTheEnd DEF Follows
<1>12. ASSUME NEW i \in 1..Len(s)
       PROVE  i \in 1..9 \/ (\E j \in 1..n : i = j + 9) \/ i = n + 10
  <2>1. i \in 1..9 \/ i - 9 \in 1..n \/ i = n + 10
    BY <1>3
  <2>2. i - 9 \in 1..n => i = (i - 9) + 9
    BY <1>3
  <2> QED
    BY <2>1, <2>2
<1> QED
  BY <1>2, <1>9, <1>10, <1>11, <1>12 DEF Runs, s

LEMMA CodeGrows ==
  ASSUME NEW p, NEW P, NEW Q, NEW s, NEW t, Runs(p, P, s), Runs(p, Q, t)
  PROVE  Runs(p, P \cup Q, s \o t)
<1>1. s \in Seq(SlotType) /\ t \in Seq(SlotType)
  BY DEF Runs
<1> DEFINE st == s \o t
<1>2. /\ st \in Seq(SlotType) /\ Len(st) = Len(s) + Len(t)
      /\ \A i \in 1..Len(s) : st[i] = s[i]
      /\ \A i \in 1..Len(t) : st[Len(s) + i] = t[i]
  BY <1>1, Joined
<1> HIDE DEF st
<1>3. ASSUME NEW i \in 1..Len(s)
      PROVE  Follows(p, P \cup Q, st, i)
  <2>1. Follows(p, P, s, i)
    BY DEF Runs
  <2>2. st[i] = s[i] /\ Len(s) \in Nat /\ Len(t) \in Nat /\ Len(st) = Len(s) + Len(t)
    BY <1>1, <1>2
  <2>3. i + 1 <= Len(s) => st[i + 1] = s[i + 1] /\ i + 1 <= Len(st)
    BY <1>2, <2>2
  <2>4. s[i].op # "jump back" => st[i + 1] = s[i + 1] /\ i + 1 <= Len(st)
    BY <2>1, <2>3 DEF Follows
  <2> QED
    BY <2>1, <2>2, <2>4, NotAtTheEnd DEF Follows
<1>4. ASSUME NEW j \in 1..Len(t)
      PROVE  Follows(p, P \cup Q, st, Len(s) + j)
  <2>1. Follows(p, Q, t, j)
    BY DEF Runs
  <2>2. st[Len(s) + j] = t[j] /\ Len(s) \in Nat /\ Len(t) \in Nat /\ Len(st) = Len(s) + Len(t)
    BY <1>1, <1>2
  <2>3. j + 1 <= Len(t) => st[Len(s) + j + 1] = t[j + 1] /\ Len(s) + j + 1 <= Len(st)
    <3>1. j + 1 <= Len(t) => st[Len(s) + (j + 1)] = t[j + 1]
      BY <1>2, <2>2
    <3>2. Len(s) + (j + 1) = Len(s) + j + 1
      BY <2>2
    <3> QED
      BY <2>2, <3>1, <3>2
  <2>4. t[j].op # "jump back" => st[Len(s) + j + 1] = t[j + 1] /\ Len(s) + j + 1 <= Len(st)
    BY <2>1, <2>3 DEF Follows
  <2> QED
    BY <2>1, <2>2, <2>4, NotAtTheEnd DEF Follows
<1>5. ASSUME NEW i \in 1..Len(st)
      PROVE  i \in 1..Len(s) \/ \E j \in 1..Len(t) : i = Len(s) + j
  <2>1. Len(s) \in Nat /\ Len(t) \in Nat
    BY <1>1
  <2>2. i \in 1..Len(s) \/ (i - Len(s) \in 1..Len(t) /\ i = Len(s) + (i - Len(s)))
    BY <1>2, <2>1
  <2> QED
    BY <2>2
<1> QED
  BY <1>2, <1>3, <1>4, <1>5 DEF Runs, st

----------------------------------------------------------------------------
(* The inductive invariant.                                                *)

\* The words a prologue has pushed when it reaches an instruction.
Words(op) == CASE op \in {"save flags", "count", "push rcx", "restore flags", "pop rax"} -> 1
               [] op \in {"compare", "int3", "pop rcx"} -> 2
               [] OTHER -> 0

\* Where the program's branches, calls and returns lead: never into a patch.
AtInstruction(a) ==
    /\ a \in DOMAIN program.code
    /\ \A b \in patches_ : a \in Displaced(program, b) => a = b.start

BlocksKept ==
    /\ program \in Programs
    /\ todo \subseteq AllBlocks(program)
    /\ patches_ \subseteq AllBlocks(program)
    /\ patches_ \cap todo = {}
    /\ \A b \in patches_ : CanInstrument(program, b)
    /\ ready => todo = {}

StubsRun ==
    /\ Runs(program, patches_, code_)
    /\ \A b \in patches_ : \E i \in 1..Len(code_) : code_[i] = Slot("push rax", b.start)

\* The plugin's tables say of each slot what it is.
TablesTell ==
    /\ DOMAIN instruction_address_to_original_ = {Region + i : i \in 1..Len(code_)}
    /\ DOMAIN prologue_rsp_fix_instructions \subseteq {Region + i : i \in 1..Len(code_)}
    /\ \A i \in 1..Len(code_) :
          /\ instruction_address_to_original_[Region + i] = code_[i].address
          /\ address_rsp_fix_words(Region + i) = Words(code_[i].op)

\* A stack that ends in w words of a prologue, over return addresses.
Frames(s, w) ==
    /\ s \in Seq(Nat) /\ w \in 0..Len(s)
    /\ \A i \in 1..Len(s) :
          IF i > Len(s) - w THEN s[i] = SavedRegister ELSE AtInstruction(s[i])

ThreadSomewhere ==
    /\ ~ready => pc = program.entry /\ stack = <<>>
    /\ pc \in Nat
    /\ pc = Exited \/ InStub(pc) \/ AtInstruction(pc)
    /\ Frames(stack, address_rsp_fix_words(pc))

Inv == BlocksKept /\ StubsRun /\ TablesTell /\ ThreadSomewhere

LEMMA EntryNotInside ==
  ASSUME NEW p \in Programs, NEW t \in Entries(p), NEW b \in AllBlocks(p), CanInstrument(p, b)
  PROVE  t \in DOMAIN p.code /\ (t \in Displaced(p, b) => t = b.start)
<1>1. t \in DOMAIN p.code /\ \A fn \in FunctionsContaining(p, t) : t \in Leaders(p, fn)
  BY ProgramsAssumption
<1>2. PICK fn \in p.functions : fn.start <= t /\ t < fn.end
  BY <1>1, InFunction
<1>3. fn \in FunctionsContaining(p, t)
  BY <1>2 DEF FunctionsContaining
<1> QED
  BY <1>1, <1>3, LeaderNotInside

LEMMA TargetNotInside ==
  ASSUME NEW p \in Programs, NEW a \in DOMAIN p.code, p.code[a].category # "OTHER",
         p.code[a].target # Indirect, NEW b \in AllBlocks(p), CanInstrument(p, b)
  PROVE  LET t == p.code[a].target
         IN  t \in DOMAIN p.code /\ (t \in Displaced(p, b) => t = b.start)
<1> DEFINE t == p.code[a].target
<1>1. t \in DOMAIN p.code
  BY ProgramsAssumption DEF Leads
<1>2. PICK fn \in p.functions : fn.start <= t /\ t < fn.end
  BY <1>1, InFunction
<1>3. fn \in FunctionsContaining(p, t)
  BY <1>2 DEF FunctionsContaining
<1>4. t \in Leaders(p, fn)
  BY <1>3, TargetIsLeader
<1> QED
  BY <1>1, <1>4, LeaderNotInside

LEMMA OverrideIs ==
  ASSUME NEW f, NEW g
  PROVE  /\ DOMAIN Override(f, g) = DOMAIN f \cup DOMAIN g
         /\ \A x \in DOMAIN g : Override(f, g)[x] = g[x]
         /\ \A x \in DOMAIN f : x \notin DOMAIN g => Override(f, g)[x] = f[x]
BY DEF Override

LEMMA NextBlockIs ==
  ASSUME BlocksKept, todo # {}
  PROVE  NextBlock \in todo /\ NextBlock \in AllBlocks(program)
<1>1. \A b \in todo : b.start \in Nat
  BY AllBlocksAre DEF BlocksKept
<1> DEFINE T == {b.start : b \in todo}
<1>2. T \in SUBSET Nat /\ T # {}
  BY <1>1
<1>3. PICK i \in T : \A j \in T : i <= j
  BY <1>2, LeastMember
<1>4. \E b \in todo : \A c \in todo : b.start <= c.start
  BY <1>3
<1> QED
  BY <1>4 DEF NextBlock, BlocksKept

\* What the tables say of an address.
Known(t) ==
    /\ Len(code_) \in Nat /\ Region \in Nat
    /\ InStub(t) => /\ t - Region \in 1..Len(code_)
                    /\ SlotAt(t) \in SlotType
                    /\ address_rsp_fix_words(t) = Words(SlotAt(t).op)
                    /\ get_original_instruction_address(t) = SlotAt(t).address
    /\ ~InStub(t) => /\ address_rsp_fix_words(t) = 0
                     /\ get_original_instruction_address(t) = t
    /\ AtInstruction(t) \/ t = Exited => ~InStub(t)

LEMMA WhereIs == BlocksKept /\ StubsRun /\ TablesTell => \A t \in Nat : Known(t)
<1> SUFFICES ASSUME BlocksKept, StubsRun, TablesTell, NEW t \in Nat
             PROVE  Known(t)
  OBVIOUS
<1>1. Region \in Nat /\ code_ \in Seq(SlotType) /\ Len(code_) \in Nat
  <2>1. code_ \in Seq(SlotType)
    BY Zenon DEF StubsRun, Runs
  <2> QED
    BY <2>1, InstrumentationAssumption, LenProperties
<1>2. InStub(t) => t - Region \in 1..Len(code_) /\ Region + (t - Region) = t
  BY <1>1 DEF InStub
<1>3. ~InStub(t) => t \notin {Region + i : i \in 1..Len(code_)}
  BY <1>1 DEF InStub
<1>4. InStub(t) => address_rsp_fix_words(t) = Words(SlotAt(t).op) /\ SlotAt(t) \in SlotType
  BY <1>1, <1>2 DEF TablesTell, SlotAt
<1>5. InStub(t) => get_original_instruction_address(t) = SlotAt(t).address
  BY <1>1, <1>2 DEF TablesTell, SlotAt, get_original_instruction_address, Translate
<1>6. ~InStub(t) => address_rsp_fix_words(t) = 0 /\ get_original_instruction_address(t) = t
  BY <1>3 DEF TablesTell, address_rsp_fix_words, get_original_instruction_address, Translate
<1>7. AtInstruction(t) \/ t = Exited => ~InStub(t)
  <2>1. AtInstruction(t) => t < Region
    BY Instructions DEF AtInstruction, BlocksKept
  <2> QED
    BY <1>1, <2>1 DEF Exited, InStub
<1> QED
  BY <1>1, <1>2, <1>4, <1>5, <1>6, <1>7 DEF Known

LEMMA WhereIsNext == (BlocksKept /\ StubsRun /\ TablesTell)' => (\A t \in Nat : Known(t))'
BY WhereIs, PTL

LEMMA Framed ==
  ASSUME BlocksKept, NEW s, NEW w, Frames(s, w)
  PROVE  ReturnAddresses(s) = SubSeq(s, 1, Len(s) - w)
<1>1. s \in Seq(Nat) /\ Len(s) \in Nat /\ Len(s) - w \in 0..Len(s)
  <2>1. s \in Seq(Nat) /\ w \in 0..Len(s)
    BY DEF Frames
  <2> QED
    BY <2>1
<1>2. \A a : AtInstruction(a) => a # SavedRegister
  BY Instructions DEF AtInstruction, BlocksKept, SavedRegister
<1>3. \A i \in 1..Len(s) : s[i] = SavedRegister <=> i > Len(s) - w
  BY <1>2 DEF Frames
<1> QED
  BY <1>1, <1>3, FramesBelow

LEMMA FramesPushed ==
  ASSUME BlocksKept, NEW s, NEW w, Frames(s, w)
  PROVE  /\ Frames(Append(s, SavedRegister), w + 1)
         /\ ReturnAddresses(Append(s, SavedRegister)) = ReturnAddresses(s)
<1> DEFINE t == Append(s, SavedRegister)
<1>1. s \in Seq(Nat) /\ Len(s) \in Nat /\ w \in 0..Len(s)
  <2>1. s \in Seq(Nat) /\ w \in 0..Len(s)
    BY DEF Frames
  <2> QED
    BY <2>1
<1>2. /\ t \in Seq(Nat) /\ Len(t) = Len(s) + 1 /\ t[Len(s) + 1] = SavedRegister
      /\ \A i \in 1..Len(s) : t[i] = s[i]
  BY <1>1 DEF SavedRegister
<1> HIDE DEF t
<1>3. Frames(t, w + 1)
  <2>1. w + 1 \in 0..Len(t) /\ Len(t) - (w + 1) = Len(s) - w
    BY <1>1, <1>2
  <2>2. ASSUME NEW i \in 1..Len(t)
        PROVE  IF i > Len(s) - w THEN t[i] = SavedRegister ELSE AtInstruction(t[i])
    <3>1. CASE i \in 1..Len(s)
      <4>1. IF i > Len(s) - w THEN s[i] = SavedRegister ELSE AtInstruction(s[i])
        BY <3>1 DEF Frames
      <4> QED
        BY <1>2, <3>1, <4>1
    <3>2. CASE i = Len(s) + 1
      <4>1. i > Len(s) - w
        BY <1>1, <3>2
      <4> QED
        BY <1>2, <3>2, <4>1
    <3> QED
      BY <1>1, <1>2, <3>1, <3>2
  <2> QED
    BY <1>2, <2>1, <2>2 DEF Frames
<1>4. ReturnAddresses(t) = SubSeq(t, 1, Len(t) - (w + 1)) /\ ReturnAddresses(s) = SubSeq(s, 1, Len(s) - w)
  BY <1>3, Framed
<1>5. Len(t) - (w + 1) = Len(s) - w /\ Len(s) - w \in 0..Len(s)
  BY <1>1, <1>2
<1>6. SubSeq(t, 1, Len(s) - w) = SubSeq(s, 1, Len(s) - w)
  <2> DEFINE m == Len(s) - w
  <2>1. m \in 0..Len(s) /\ m \in 0..Len(t)
    BY <1>1, <1>2
  <2> HIDE DEF m
  <2>2. \A i \in 1..m : t[i] = s[i]
    BY <1>2, <2>1, <1>1
  <2> QED
    BY <1>1, <1>2, <2>1, <2>2 DEF m
<1> QED
  BY <1>3, <1>4, <1>5, <1>6 DEF t

LEMMA FrontIs ==
  ASSUME NEW T, NEW s \in Seq(T), s # <<>>
  PROVE  /\ Front(s) \in Seq(T) /\ Len(Front(s)) = Len(s) - 1
         /\ \A i \in 1..(Len(s) - 1) : Front(s)[i] = s[i]
         /\ Len(s) \in Nat /\ Len(s) > 0
<1>1. Len(s) \in Nat /\ Len(s) > 0
  OBVIOUS
<1> DEFINE n == Len(s) - 1
           t == SubSeq(s, 1, n)
<1>2. n \in Int /\ 1 \in Int /\ \A i \in 1..n : s[i] \in T
  BY <1>1
<1> HIDE DEF n
<1>3. /\ t \in Seq(T)
      /\ Len(t) = IF 1 <= n THEN n - 1 + 1 ELSE 0
      /\ \A i \in 1..(n - 1 + 1) : t[i] = s[1 + i - 1]
  BY <1>2, SubSeqProperties
<1> HIDE DEF t
<1>4. \A i \in 1..n : i \in 1..(n - 1 + 1) /\ 1 + i - 1 = i
  BY <1>2
<1>5. Len(t) = n
  <2>1. n \in Nat
    BY <1>1 DEF n
  <2> QED
    BY <1>3, <2>1
<1>6. ASSUME NEW i \in 1..n PROVE t[i] = s[i]
  <2>1. i \in 1..(n - 1 + 1) /\ 1 + i - 1 = i
    BY <1>4
  <2>2. t[i] = s[1 + i - 1]
    BY <1>3, <2>1
  <2> QED
    BY <2>1, <2>2
<1> QED
  BY <1>1, <1>3, <1>5, <1>6 DEF Front, n, t

LEMMA FramesPopped ==
  ASSUME BlocksKept, NEW s, NEW w, Frames(s, w), w > 0
  PROVE  /\ Frames(Front(s), w - 1)
         /\ ReturnAddresses(Front(s)) = ReturnAddresses(s)
<1> DEFINE t == Front(s)
<1>1. s \in Seq(Nat) /\ Len(s) \in Nat /\ w \in 0..Len(s) /\ Len(s) > 0
  <2>1. s \in Seq(Nat) /\ w \in 0..Len(s)
    BY DEF Frames
  <2> QED
    BY <2>1
<1>2. t \in Seq(Nat) /\ Len(t) = Len(s) - 1 /\ \A i \in 1..Len(t) : t[i] = s[i]
  <2>1. s # <<>>
    BY <1>1
  <2> QED
    BY <1>1, <2>1, FrontIs
<1> HIDE DEF t
<1>3. Frames(t, w - 1)
  <2>1. w - 1 \in 0..Len(t) /\ Len(t) - (w - 1) = Len(s) - w
    BY <1>1, <1>2
  <2>2. \A i \in 1..Len(t) : i \in 1..Len(s)
    BY <1>1, <1>2
  <2> QED
    BY <1>2, <2>1, <2>2 DEF Frames
<1>4. ReturnAddresses(t) = SubSeq(t, 1, Len(t) - (w - 1)) /\ ReturnAddresses(s) = SubSeq(s, 1, Len(s) - w)
  BY <1>3, Framed
<1>5. Len(t) - (w - 1) = Len(s) - w
  BY <1>1, <1>2
<1>6. SubSeq(t, 1, Len(s) - w) = SubSeq(s, 1, Len(s) - w)
  <2> DEFINE m == Len(s) - w
  <2>1. m \in 0..Len(s) /\ m \in 0..Len(t)
    BY <1>1, <1>2
  <2> HIDE DEF m
  <2>2. \A i \in 1..m : t[i] = s[i]
    BY <1>2, <2>1, <1>1
  <2> QED
    BY <1>1, <1>2, <2>1, <2>2 DEF m
<1> QED
  BY <1>3, <1>4, <1>5, <1>6 DEF t

\* A stack without a prologue's words is its return addresses.
LEMMA FramesOnly ==
  ASSUME BlocksKept, NEW s, Frames(s, 0)
  PROVE  ReturnAddresses(s) = s
<1>1. s \in Seq(Nat) /\ Len(s) \in Nat
  BY DEF Frames
<1>2. ReturnAddresses(s) = SubSeq(s, 1, Len(s) - 0)
  BY Framed
<1>3. SubSeq(s, 1, Len(s)) = s
  BY <1>1
<1> QED
  BY <1>1, <1>2, <1>3

LEMMA FramesCalled ==
  ASSUME NEW s, Frames(s, 0), NEW a \in Nat, AtInstruction(a)
  PROVE  Frames(Append(s, a), 0)
<1>1. s \in Seq(Nat) /\ Len(s) \in Nat /\ \A i \in 1..Len(s) : AtInstruction(s[i])
  BY DEF Frames
<1> DEFINE t == Append(s, a)
<1>2. /\ t \in Seq(Nat) /\ Len(t) = Len(s) + 1 /\ t[Len(s) + 1] = a
      /\ \A i \in 1..Len(s) : t[i] = s[i]
  BY <1>1
<1> HIDE DEF t
<1>3. \A i \in 1..Len(t) : i \in 1..Len(s) \/ i = Len(s) + 1
  BY <1>1, <1>2
<1>4. \A i \in 1..Len(t) : AtInstruction(t[i]) /\ ~(i > Len(t) - 0)
  BY <1>1, <1>2, <1>3
<1>5. 0 \in 0..Len(t)
  BY <1>1, <1>2
<1> QED
  BY <1>2, <1>4, <1>5 DEF Frames, t

LEMMA FramesReturned ==
  ASSUME NEW s, Frames(s, 0), s # <<>>
  PROVE  /\ Frames(Front(s), 0) /\ AtInstruction(Last(s)) /\ Last(s) = s[Len(s)]
         /\ Front(s) = SubSeq(s, 1, Len(s) - 1)
<1>1. s \in Seq(Nat) /\ Len(s) \in Nat /\ \A i \in 1..Len(s) : AtInstruction(s[i])
  BY DEF Frames
<1> DEFINE t == Front(s)
<1>2. t \in Seq(Nat) /\ Len(t) = Len(s) - 1 /\ \A i \in 1..Len(t) : t[i] = s[i]
  BY <1>1, FrontIs
<1>3. Len(s) \in 1..Len(s) /\ Last(s) = s[Len(s)] /\ t = SubSeq(s, 1, Len(s) - 1)
  BY <1>1 DEF Last, Front
<1> HIDE DEF t
<1>4. \A i \in 1..Len(t) : AtInstruction(t[i]) /\ ~(i > Len(t) - 0)
  BY <1>1, <1>2
<1>5. 0 \in 0..Len(t)
  BY <1>1, <1>2
<1> QED
  BY <1>1, <1>2, <1>3, <1>4, <1>5 DEF Frames, t

LEMMA InitInv == Init => Inv
<1> SUFFICES ASSUME Init PROVE Inv
  OBVIOUS
<1>1. BlocksKept
  BY DEF Init, BlocksKept
<1>2. code_ = <<>> /\ code_ \in Seq(SlotType) /\ Len(code_) = 0 /\ 1..Len(code_) = {}
  BY DEF Init
<1>3. StubsRun
  BY <1>2 DEF Init, StubsRun, Runs
<1>4. TablesTell
  <2>1. DOMAIN instruction_address_to_original_ = {} /\ DOMAIN prologue_rsp_fix_instructions = {}
    BY DEF Init
  <2> QED
    BY <1>2, <2>1 DEF TablesTell
<1>5. pc \in Nat /\ AtInstruction(pc) /\ stack = <<>> /\ pc = program.entry
  <2>1. program.entry \in Entries(program) /\ patches_ = {} /\ program \in Programs
    BY DEF Init, Entries
  <2>2. program.entry \in DOMAIN program.code
    BY <2>1, ProgramsAssumption
  <2> QED
    BY <2>1, <2>2, Instructions DEF Init, AtInstruction
<1>6. Frames(<<>>, 0)
  BY DEF Frames
<1>7. address_rsp_fix_words(pc) = 0
  BY <1>1, <1>3, <1>4, <1>5, WhereIs DEF Known
<1> QED
  BY <1>1, <1>3, <1>4, <1>5, <1>6, <1>7 DEF Inv, ThreadSomewhere

\* What the program sees of a step: nothing.
Stutters ==
    /\ get_original_instruction_address(pc)' = get_original_instruction_address(pc)
    /\ ReturnAddresses(stack)' = ReturnAddresses(stack)
    /\ program' = program

Tables == <<code_, instruction_address_to_original_, prologue_rsp_fix_instructions>>

\* Most steps leave the stubs alone.
LEMMA StubsKept ==
  ASSUME StubsRun, TablesTell, UNCHANGED <<program, patches_, Tables>>
  PROVE  /\ StubsRun' /\ TablesTell'
         /\ \A t : AtInstruction(t)' <=> AtInstruction(t)
         /\ \A t : InStub(t)' <=> InStub(t)
         /\ \A t : address_rsp_fix_words(t)' = address_rsp_fix_words(t)
         /\ \A t : get_original_instruction_address(t)' = get_original_instruction_address(t)
         /\ \A s, w : Frames(s, w)' <=> Frames(s, w)
<1>1. StubsRun'
  BY DEF StubsRun, Tables
<1>2. TablesTell'
  BY DEF TablesTell, address_rsp_fix_words, Tables
<1>3. \A t : AtInstruction(t)' <=> AtInstruction(t)
  BY DEF AtInstruction
<1>4. \A t : InStub(t)' <=> InStub(t)
  BY DEF InStub, Tables
<1>5. \A t : address_rsp_fix_words(t)' = address_rsp_fix_words(t)
  BY DEF address_rsp_fix_words, Tables
<1>6. \A t : get_original_instruction_address(t)' = get_original_instruction_address(t)
  BY DEF get_original_instruction_address, Tables
<1>7. \A s, w : Frames(s, w)' <=> Frames(s, w)
  BY <1>3 DEF Frames
<1> QED
  BY <1>1, <1>2, <1>3, <1>4, <1>5, <1>6, <1>7

\* A step of the plugin or the debugger that adds no stub.
LEMMA ThreadKept ==
  ASSUME Inv, BlocksKept', UNCHANGED <<program, patches_, Tables, pc, stack>>, ready => ready'
  PROVE  Inv' /\ Stutters
<1>1. /\ StubsRun' /\ TablesTell'
      /\ AtInstruction(pc)' <=> AtInstruction(pc)
      /\ InStub(pc)' <=> InStub(pc)
      /\ address_rsp_fix_words(pc)' = address_rsp_fix_words(pc)
      /\ get_original_instruction_address(pc)' = get_original_instruction_address(pc)
      /\ Frames(stack, address_rsp_fix_words(pc))' <=> Frames(stack, address_rsp_fix_words(pc))
  BY StubsKept DEF Inv
<1>2. ThreadSomewhere'
  BY <1>1 DEF Inv, ThreadSomewhere
<1>3. Stutters
  BY <1>1 DEF Stutters
<1> QED
  BY <1>1, <1>2, <1>3 DEF Inv

LEMMA SkipBlockInv == Inv /\ SkipBlock => Inv' /\ Stutters
<1> SUFFICES ASSUME Inv, SkipBlock PROVE Inv' /\ Stutters
  OBVIOUS
<1>1. UNCHANGED <<program, patches_, Tables, pc, stack, ready>> /\ todo' \subseteq todo
  BY DEF SkipBlock, thread, Tables
<1>2. BlocksKept'
  BY <1>1 DEF Inv, BlocksKept
<1> QED
  BY <1>1, <1>2, ThreadKept

LEMMA CommitInv == Inv /\ Commit => Inv' /\ Stutters
<1> SUFFICES ASSUME Inv, Commit PROVE Inv' /\ Stutters
  OBVIOUS
<1>1. UNCHANGED <<program, patches_, Tables, pc, stack>> /\ todo = {} /\ todo' = {} /\ ~ready
  BY DEF Commit, Untouched, thread, Tables
<1>2. BlocksKept'
  BY <1>1 DEF Inv, BlocksKept
<1> QED
  BY <1>1, <1>2, ThreadKept

LEMMA GiveUpInv == Inv /\ GiveUp => Inv' /\ Stutters
<1> SUFFICES ASSUME Inv, GiveUp PROVE Inv' /\ Stutters
  OBVIOUS
<1>1. UNCHANGED <<program, patches_, Tables, pc, stack>> /\ todo' = {} /\ ~ready
  BY DEF GiveUp, Untouched, thread, Tables
<1>2. BlocksKept'
  BY <1>1 DEF Inv, BlocksKept
<1> QED
  BY <1>1, <1>2, ThreadKept

LEMMA PluginKept ==
  ASSUME BlocksKept, UNCHANGED plugin
  PROVE  BlocksKept' /\ UNCHANGED <<program, patches_, Tables>> /\ ready' = ready
BY DEF plugin, BlocksKept, Tables

LEMMA BeginStepInv == Inv /\ (\E mode \in {"Line", "Into"} : BeginStep(mode)) => Inv' /\ Stutters
<1> SUFFICES ASSUME Inv, NEW mode, BeginStep(mode) PROVE Inv' /\ Stutters
  OBVIOUS
<1>1. UNCHANGED plugin /\ UNCHANGED <<pc, stack>>
  BY DEF BeginStep, thread
<1> QED
  BY <1>1, PluginKept, ThreadKept DEF Inv

LEMMA EndStepInv == Inv /\ EndStep => Inv' /\ Stutters
<1> SUFFICES ASSUME Inv, EndStep PROVE Inv' /\ Stutters
  OBVIOUS
<1>1. UNCHANGED plugin /\ UNCHANGED <<pc, stack>>
  BY DEF EndStep, thread
<1> QED
  BY <1>1, PluginKept, ThreadKept DEF Inv

LEMMA SlotIs == \A o, a : Slot(o, a).op = o /\ Slot(o, a).address = a
BY DEF Slot

LEMMA InstrumentBlockTables ==
  ASSUME Inv, InstrumentBlock
  PROVE  LET stub == Stub(program, NextBlock)
         IN  /\ stub \in Seq(SlotType) /\ Len(stub) >= 10
             /\ \A i \in 1..9 : stub[i] = Slot(Prologue[i], NextBlock.start)
             /\ \A i \in 10..Len(stub) : stub[i].op \in {"displaced", "jump back"}
             /\ code_' = code_ \o stub
             /\ CanInstrument(program, NextBlock)
             /\ Runs(program, {NextBlock}, stub)
<1> DEFINE b == NextBlock
           n == Cardinality(Displaced(program, b))
           d == InOrder(Displaced(program, b))
           stub == Stub(program, b)
<1>1. /\ todo # {} /\ CanInstrument(program, b) /\ code_' = code_ \o stub
  BY DEF InstrumentBlock
<1>2. b \in AllBlocks(program) /\ program \in Programs
  BY <1>1, NextBlockIs DEF Inv, BlocksKept
<1> HIDE DEF b
<1>3. n \in Nat
  BY <1>1, <1>2, MovedInOrder
<1>4. /\ stub \in Seq(SlotType) /\ Len(stub) = n + 10
      /\ \A i \in 1..9 : stub[i] = Slot(Prologue[i], b.start)
      /\ \A i \in 1..n : stub[i + 9] = Slot("displaced", d[i])
      /\ stub[n + 10] = Slot("jump back", PatchEnd(program, b))
  BY <1>1, <1>2, StubIs
<1>5. Runs(program, {b}, stub)
  BY <1>1, <1>2, StubRuns
<1> HIDE DEF n, d, stub
<1>6. Len(stub) = n + 10
  BY <1>4
<1>7. ASSUME NEW i \in 1..n PROVE stub[i + 9].op = "displaced"
  <2>1. stub[i + 9] = Slot("displaced", d[i])
    BY <1>4
  <2> QED
    BY <2>1, SlotIs
<1>10. stub[n + 10].op = "jump back"
  <2>1. stub[n + 10] = Slot("jump back", PatchEnd(program, b))
    BY <1>4
  <2> QED
    BY <2>1, SlotIs
<1>8. ASSUME NEW i \in 10..Len(stub)
      PROVE  stub[i].op \in {"displaced", "jump back"}
  <2>1. i = n + 10 \/ (i - 9 \in 1..n /\ i = (i - 9) + 9)
    BY <1>3, <1>6
  <2> QED
    BY <1>7, <1>10, <2>1
<1>9. Len(stub) >= 10
  BY <1>3, <1>6
<1> QED
  BY <1>1, <1>4, <1>5, <1>8, <1>9 DEF stub, b

LEMMA PushedWordsAre ==
  \A i \in 2..9 : PushedWords[i] = Words(Prologue[i])
<1>2. /\ PushedWords[2] = 1 /\ PushedWords[3] = 1 /\ PushedWords[4] = 1 /\ PushedWords[5] = 2
      /\ PushedWords[6] = 2 /\ PushedWords[7] = 2 /\ PushedWords[8] = 1 /\ PushedWords[9] = 1
  BY DEF PushedWords
<1>3. /\ Words("save flags") = 1 /\ Words("count") = 1 /\ Words("push rcx") = 1
      /\ Words("compare") = 2 /\ Words("int3") = 2 /\ Words("pop rcx") = 2
      /\ Words("restore flags") = 1 /\ Words("pop rax") = 1
  BY DEF Words
<1> TAKE i \in 2..9
<1>1. i \in {2, 3, 4, 5, 6, 7, 8, 9}
  OBVIOUS
<1> QED
  BY <1>1, <1>2, <1>3, PrologueIs

LEMMA NoWordsYet == Words("push rax") = 0 /\ Words("displaced") = 0 /\ Words("jump back") = 0
BY DEF Words

LEMMA InstrumentBlockInv == Inv /\ InstrumentBlock => Inv' /\ Stutters
<1> SUFFICES ASSUME Inv, InstrumentBlock PROVE Inv' /\ Stutters
  OBVIOUS
<1> DEFINE b == NextBlock
           stub == Stub(program, b)
           L == Len(code_)
           m == Len(stub)
<1>1. /\ stub \in Seq(SlotType) /\ m >= 10
      /\ \A i \in 1..9 : stub[i] = Slot(Prologue[i], b.start)
      /\ \A i \in 10..m : stub[i].op \in {"displaced", "jump back"}
      /\ code_' = code_ \o stub
      /\ CanInstrument(program, b) /\ Runs(program, {b}, stub)
  BY InstrumentBlockTables
<1>2. /\ todo # {} /\ todo' = todo \ {b} /\ patches_' = patches_ \cup {b}
      /\ program' = program /\ ready' = ready /\ pc' = pc /\ stack' = stack
  BY DEF InstrumentBlock, thread
<1>3. /\ instruction_address_to_original_' =
            Override(instruction_address_to_original_,
                [t \in {NewAddress(i) : i \in 1..m} |-> stub[t - NewAddress(0)].address])
      /\ prologue_rsp_fix_instructions' =
            Override(prologue_rsp_fix_instructions,
                [t \in {NewAddress(i) : i \in 2..Len(Prologue)} |-> PushedWords[t - NewAddress(0)]])
  BY DEF InstrumentBlock
<1>4. b \in todo /\ b \in AllBlocks(program) /\ program \in Programs /\ b.start \in Nat
  BY <1>2, NextBlockIs, AllBlocksAre DEF Inv, BlocksKept
<1>5. BlocksKept'
  BY <1>1, <1>2, <1>4 DEF Inv, BlocksKept
<1> HIDE DEF b, stub
<1>6. code_ \in Seq(SlotType) /\ L \in Nat /\ m \in Nat /\ Region \in Nat /\ m >= 10
  <2>1. code_ \in Seq(SlotType)
    BY DEF Inv, StubsRun, Runs
  <2>2. stub \in Seq(SlotType) /\ m >= 10
    BY <1>1
  <2> QED
    BY <2>1, <2>2, InstrumentationAssumption, LenProperties
<1>j. code_ \in Seq(SlotType) /\ stub \in Seq(SlotType)
  BY <1>1, <1>6
<1>7. /\ code_' \in Seq(SlotType) /\ Len(code_') = L + m
      /\ \A i \in 1..L : code_'[i] = code_[i]
      /\ \A i \in 1..m : code_'[L + i] = stub[i]
  <2> DEFINE st == code_ \o stub
  <2>1. /\ st \in Seq(SlotType) /\ Len(st) = Len(code_) + Len(stub)
        /\ \A i \in 1..Len(code_) : st[i] = code_[i]
        /\ \A i \in 1..Len(stub) : st[Len(code_) + i] = stub[i]
    BY <1>j, Joined
  <2> HIDE DEF st
  <2>2. code_' = st
    BY <1>1 DEF st
  <2> QED
    BY <2>1, <2>2
<1>k. Len(code_') = L + m
  BY <1>7
<1>8. StubsRun'
  <2>1. Runs(program, patches_ \cup {b}, code_ \o stub)
    <3>1. Runs(program, patches_, code_) /\ Runs(program, {b}, stub)
      BY <1>1 DEF Inv, StubsRun
    <3> QED
      BY <3>1, CodeGrows
  <2>2. Runs(program, patches_, code_)'
    BY <1>1, <1>2, <2>1
  <2>3. ASSUME NEW c \in patches_'
        PROVE  \E i \in 1..Len(code_') : code_'[i] = Slot("push rax", c.start)
    <3>1. CASE c = b
      <4>1. code_'[L + 1] = Slot("push rax", b.start)
        <5>1. 1 \in 1..m /\ 1 \in 1..9
          BY <1>6
        <5>2. stub[1] = Slot("push rax", b.start)
          BY <1>1, <5>1, PrologueIs
        <5> QED
          BY <1>7, <5>1, <5>2
      <4>2. L + 1 \in 1..Len(code_')
        BY <1>6, <1>k
      <4> QED
        BY <3>1, <4>1, <4>2
    <3>2. CASE c \in patches_
      <4>1. PICK i \in 1..L : code_[i] = Slot("push rax", c.start)
        BY <3>2 DEF Inv, StubsRun
      <4>2. code_'[i] = Slot("push rax", c.start)
        BY <1>7, <4>1
      <4>3. i \in 1..Len(code_')
        BY <1>6, <1>k
      <4> QED
        BY <4>2, <4>3
    <3> QED
      BY <1>2, <3>1, <3>2
  <2> QED
    BY <2>2, <2>3 DEF StubsRun
<1> HIDE DEF L, m
<1>9. /\ \A i \in 1..(L + m) : i \in 1..L \/ (i - L \in 1..m /\ i = L + (i - L))
      /\ \A i \in 1..m : L + i \in 1..(L + m)
      /\ \A i \in 1..L : i \in 1..(L + m)
  BY <1>6
<1>10. \A i : NewAddress(i) = Region + L + i
  BY DEF NewAddress, L
<1>11. /\ DOMAIN instruction_address_to_original_ = {Region + i : i \in 1..L}
       /\ DOMAIN prologue_rsp_fix_instructions \subseteq {Region + i : i \in 1..L}
       /\ \A i \in 1..L : /\ instruction_address_to_original_[Region + i] = code_[i].address
                          /\ address_rsp_fix_words(Region + i) = Words(code_[i].op)
  BY DEF Inv, TablesTell, L
<1>12. TablesTell'
  <2> DEFINE g == [t \in {NewAddress(i) : i \in 1..m} |-> stub[t - NewAddress(0)].address]
             h == [t \in {NewAddress(i) : i \in 2..Len(Prologue)} |-> PushedWords[t - NewAddress(0)]]
             o == instruction_address_to_original_
             f == prologue_rsp_fix_instructions
  <2>1. DOMAIN g = {Region + L + i : i \in 1..m} /\ \A i \in 1..m : g[Region + L + i] = stub[i].address
    <3>1. DOMAIN g = {Region + L + i : i \in 1..m}
      BY <1>10
    <3>2. \A i \in 1..m : (Region + L + i) - (Region + L + 0) = i
      BY <1>6
    <3> QED
      BY <1>10, <3>1, <3>2
  <2>2. DOMAIN h = {Region + L + i : i \in 2..9} /\ \A i \in 2..9 : h[Region + L + i] = PushedWords[i]
    <3>0. Len(Prologue) = 9
      BY DEF Prologue
    <3>1. DOMAIN h = {Region + L + i : i \in 2..9}
      BY <1>10, <3>0
    <3>2. \A i \in 2..9 : (Region + L + i) - (Region + L + 0) = i
      BY <1>6
    <3> QED
      BY <1>10, <3>1, <3>2
  <2>3. o' = Override(o, g) /\ f' = Override(f, h)
    BY <1>3
  <2> HIDE DEF g, h
  <2>4. DOMAIN o' = DOMAIN o \cup DOMAIN g /\ DOMAIN f' = DOMAIN f \cup DOMAIN h
    BY <2>3, OverrideIs
  <2>a. \A x \in DOMAIN g : o'[x] = g[x]
    <3>1. \A x \in DOMAIN g : Override(o, g)[x] = g[x]
      BY DEF Override
    <3> QED
      BY <2>3, <3>1
  <2>b. \A x \in DOMAIN h : f'[x] = h[x]
    <3>1. \A x \in DOMAIN h : Override(f, h)[x] = h[x]
      BY DEF Override
    <3> QED
      BY <2>3, <3>1
  <2>5. /\ \A i \in 1..m : Region + (L + i) = Region + L + i
        /\ \A i \in 1..L : \A k \in 1..m : Region + i # Region + L + k
        /\ \A i \in 2..9 : i \in 1..m
        /\ \A i \in 1..m : i = 1 \/ i \in 2..9 \/ i \in 10..m
        /\ \A i, k \in 1..m : Region + L + i = Region + L + k => i = k
    BY <1>6
  <2>6. DOMAIN o' = {Region + i : i \in 1..(L + m)}
    <3>1. \A i \in 1..(L + m) : Region + i \in DOMAIN o'
      BY <1>9, <1>11, <2>1, <2>4, <2>5
    <3>2. \A t \in DOMAIN o' : \E i \in 1..(L + m) : t = Region + i
      BY <1>9, <1>11, <2>1, <2>4, <2>5
    <3> QED
      BY <3>1, <3>2
  <2>7. DOMAIN f' \subseteq {Region + i : i \in 1..(L + m)}
    BY <1>9, <1>11, <2>2, <2>4, <2>5
  <2>8. ASSUME NEW i \in 1..L
        PROVE  /\ o'[Region + i] = code_'[i].address
               /\ address_rsp_fix_words(Region + i)' = Words(code_'[i].op)
    <3>1. Region + i \in DOMAIN o /\ Region + i \notin DOMAIN g /\ Region + i \notin DOMAIN h
      BY <1>11, <2>1, <2>2, <2>5
    <3>2. o'[Region + i] = o[Region + i]
      BY <2>3, <3>1, OverrideIs
    <3>3. /\ Region + i \in DOMAIN f' <=> Region + i \in DOMAIN f
          /\ Region + i \in DOMAIN f => f'[Region + i] = f[Region + i]
      BY <2>3, <2>4, <3>1, OverrideIs
    <3>4. code_'[i] = code_[i]
      BY <1>7 DEF L
    <3> QED
      BY <1>11, <3>2, <3>3, <3>4 DEF address_rsp_fix_words
  <2>9. ASSUME NEW i \in 1..m, NEW j, j = L + i
        PROVE  /\ o'[Region + j] = code_'[j].address
               /\ address_rsp_fix_words(Region + j)' = Words(code_'[j].op)
    <3> DEFINE t == Region + j
    <3>0. t = Region + L + i
      BY <2>5, <2>9
    <3>1. code_'[j] = stub[i]
      BY <1>7, <2>9 DEF L, m
    <3>2. t \in DOMAIN g /\ g[t] = stub[i].address
      BY <2>1, <3>0
    <3>3. o'[t] = stub[i].address
      <4> HIDE DEF t
      <4> QED
        BY <2>a, <3>2
    <3>4. t \notin DOMAIN f
      BY <1>11, <2>5, <3>0
    <3>5. \/ i \in 2..9 /\ t \in DOMAIN h /\ h[t] = PushedWords[i]
          \/ i \notin 2..9 /\ t \notin DOMAIN h
      BY <2>2, <2>5, <3>0
    <3>6. ASSUME i \in 2..9 PROVE address_rsp_fix_words(t)' = Words(stub[i].op)
      <4>2. t \in DOMAIN f' /\ f'[t] = PushedWords[i]
        <5>1. t \in DOMAIN h /\ h[t] = PushedWords[i]
          BY <3>5, <3>6
        <5> QED
          BY <2>4, <2>b, <5>1
      <4>3. PushedWords[i] = Words(Prologue[i])
        BY <3>6, PushedWordsAre
      <4>4. i \in 1..9
        BY <3>6
      <4>5. stub[i].op = Prologue[i]
        <5> HIDE DEF t, o, f, g, h, stub, m
        <5>1. stub[i] = Slot(Prologue[i], b.start)
          BY <1>1, <4>4
        <5>2. Slot(Prologue[i], b.start).op = Prologue[i]
          BY SlotIs, Zenon
        <5> QED
          BY <5>1, <5>2, Zenon
      <4>6. address_rsp_fix_words(t)' = f'[t]
        BY <4>2 DEF address_rsp_fix_words
      <4> HIDE DEF t, h, f, stub
      <4>7. address_rsp_fix_words(t)' = Words(Prologue[i])
        BY <4>2, <4>3, <4>6
      <4> QED
        BY <4>5, <4>7
    <3>7. ASSUME i \notin 2..9 PROVE address_rsp_fix_words(t)' = Words(stub[i].op)
      <4>2. t \notin DOMAIN f'
        BY <2>4, <3>4, <3>5, <3>7
      <4>3. i = 1 \/ i \in 10..m
        BY <2>5, <3>7
      <4>4. stub[1].op = "push rax"
        <5>1. 1 \in 1..9
          OBVIOUS
        <5>2. stub[1] = Slot(Prologue[1], b.start)
          BY <1>1, <5>1
        <5>3. stub[1].op = Prologue[1]
          BY <5>2, SlotIs
        <5> QED
          BY <5>3, PrologueIs
      <4>5. i \in 10..m => stub[i].op \in {"displaced", "jump back"}
        BY <1>1 DEF m
      <4>6. Words(stub[i].op) = 0
        BY <4>3, <4>4, <4>5, NoWordsYet
      <4> QED
        BY <4>2, <4>6 DEF address_rsp_fix_words
    <3> QED
      BY <3>1, <3>3, <3>6, <3>7
  <2>10. Len(code_') = L + m
    BY <1>7 DEF L, m
  <2>11. ASSUME NEW i \in 1..Len(code_')
         PROVE  /\ o'[Region + i] = code_'[i].address
                /\ address_rsp_fix_words(Region + i)' = Words(code_'[i].op)
    <3>1. i \in 1..L \/ (i - L \in 1..m /\ i = L + (i - L))
      BY <1>9, <2>10
    <3>2. CASE i \in 1..L
      BY <2>8, <3>2
    <3>3. ASSUME NEW k \in 1..m, i = L + k
          PROVE  /\ o'[Region + i] = code_'[i].address
                 /\ address_rsp_fix_words(Region + i)' = Words(code_'[i].op)
      BY <2>9, <3>3
    <3> QED
      BY <3>1, <3>2, <3>3
  <2> QED
    BY <2>6, <2>7, <2>10, <2>11 DEF TablesTell
<1>13. ~ready /\ pc = program.entry /\ stack = <<>>
  BY <1>2 DEF Inv, BlocksKept, ThreadSomewhere
<1>14. AtInstruction(pc)'
  <2>1. program.entry \in Entries(program)
    BY DEF Entries
  <2>2. /\ program.entry \in DOMAIN program.code
        /\ program.entry \in Displaced(program, b) => program.entry = b.start
    BY <1>1, <1>4, <2>1, EntryNotInside
  <2>3. AtInstruction(program.entry)
    <3>1. \A c \in patches_ : c \in AllBlocks(program) /\ CanInstrument(program, c)
      BY DEF Inv, BlocksKept
    <3> QED
      BY <1>4, <2>1, <2>2, <3>1, EntryNotInside DEF AtInstruction
  <2> QED
    BY <1>2, <1>13, <2>2, <2>3 DEF AtInstruction
<1>15. pc \in Nat /\ AtInstruction(pc)
  <2>1. AtInstruction(pc)
    BY <1>2, <1>14 DEF AtInstruction
  <2> QED
    BY <2>1 DEF Inv, ThreadSomewhere
<1>16. /\ address_rsp_fix_words(pc)' = 0
       /\ get_original_instruction_address(pc)' = pc
  <2>1. BlocksKept' /\ StubsRun' /\ TablesTell' /\ pc' \in Nat /\ AtInstruction(pc)'
    BY <1>2, <1>5, <1>8, <1>12, <1>14, <1>15
  <2>2. Known(pc)'
    BY <2>1, WhereIsNext
  <2> QED
    BY <1>2, <2>1, <2>2 DEF Known
<1>17. get_original_instruction_address(pc) = pc
  BY <1>15, WhereIs DEF Inv, Known
<1>18. Frames(stack, address_rsp_fix_words(pc))'
  BY <1>2, <1>13, <1>16 DEF Frames
<1>19. ThreadSomewhere'
  BY <1>2, <1>13, <1>14, <1>15, <1>18 DEF ThreadSomewhere
<1>20. Stutters
  BY <1>2, <1>16, <1>17 DEF Stutters
<1> QED
  BY <1>5, <1>8, <1>12, <1>19, <1>20 DEF Inv

\* A step of the thread, seen from where it leads.
LEMMA ThreadMoves ==
  ASSUME Inv, ready, UNCHANGED plugin,
         NEW t \in Nat, NEW s, pc' = t, stack' = s,
         t = Exited \/ InStub(t) \/ AtInstruction(t),
         Frames(s, address_rsp_fix_words(t))
  PROVE  /\ Inv' /\ program' = program
         /\ get_original_instruction_address(pc)' = get_original_instruction_address(t)
<1>1. BlocksKept' /\ UNCHANGED <<program, patches_, Tables>> /\ ready' = ready
  BY PluginKept DEF Inv
<1>2. /\ StubsRun' /\ TablesTell'
      /\ AtInstruction(t)' <=> AtInstruction(t)
      /\ InStub(t)' <=> InStub(t)
      /\ address_rsp_fix_words(t)' = address_rsp_fix_words(t)
      /\ get_original_instruction_address(t)' = get_original_instruction_address(t)
      /\ \A w : Frames(s, w)' <=> Frames(s, w)
  BY <1>1, StubsKept DEF Inv
<1>3. Frames(s, address_rsp_fix_words(t))'
  BY <1>2 DEF Frames
<1>4. ThreadSomewhere'
  <2>1. pc' \in Nat /\ (pc' = Exited \/ InStub(pc)' \/ AtInstruction(pc)')
    BY <1>2
  <2>2. Frames(stack, address_rsp_fix_words(pc))'
    BY <1>3
  <2> QED
    BY <1>1, <2>1, <2>2 DEF ThreadSomewhere
<1> QED
  BY <1>1, <1>2, <1>4 DEF Inv

LEMMA DetourInv == Inv /\ Detour => Inv' /\ Stutters
<1> SUFFICES ASSUME Inv, Detour PROVE Inv' /\ Stutters
  OBVIOUS
<1>1. /\ ready /\ UNCHANGED plugin /\ stack' = stack /\ Detoured(pc)
      /\ pc' = Region + (CHOOSE i \in 1..Len(code_) : code_[i] = Slot(Head(Prologue), pc))
  BY DEF Detour, MayRun, Running
<1>2. PICK b \in patches_ : b.start = pc
  BY <1>1 DEF Detoured
<1>3. Head(Prologue) = "push rax"
  BY DEF Prologue
<1>4. \E i \in 1..Len(code_) : code_[i] = Slot("push rax", pc)
  BY <1>2 DEF Inv, StubsRun
<1>5. PICK i \in 1..Len(code_) : code_[i] = Slot("push rax", pc) /\ pc' = Region + i
  BY <1>1, <1>3, <1>4
<1>6. pc \in Nat /\ pc < Region
  <2>1. b.start \in DOMAIN program.code /\ program \in Programs
    BY AllBlocksAre DEF Inv, BlocksKept
  <2> QED
    BY <1>2, <2>1, Instructions
<1>7. Known(pc) /\ ~InStub(pc)
  BY <1>6, WhereIs, InstrumentationAssumption DEF Inv, InStub
<1>8. Region + i \in Nat /\ InStub(Region + i) /\ SlotAt(Region + i) = code_[i]
  <2>1. i \in Nat /\ Region \in Nat /\ Len(code_) \in Nat /\ i <= Len(code_) /\ 0 < i
    BY <1>7 DEF Known
  <2>2. (Region + i) - Region = i
    BY <2>1
  <2> QED
    BY <2>1, <2>2 DEF InStub, SlotAt
<1>9. Known(Region + i)
  BY <1>8, WhereIs DEF Inv
<1>10. address_rsp_fix_words(Region + i) = 0 /\ get_original_instruction_address(Region + i) = pc
  <2>1. code_[i].op = "push rax" /\ code_[i].address = pc
    <3>1. code_[i] = Slot("push rax", pc)
      BY <1>5
    <3>2. Slot("push rax", pc).op = "push rax" /\ Slot("push rax", pc).address = pc
      BY SlotIs, Zenon
    <3> QED
      BY <3>1, <3>2
  <2>2. SlotAt(Region + i).op = "push rax" /\ SlotAt(Region + i).address = pc
    BY <1>8, <2>1
  <2>3. /\ address_rsp_fix_words(Region + i) = Words(SlotAt(Region + i).op)
        /\ get_original_instruction_address(Region + i) = SlotAt(Region + i).address
    BY <1>8, <1>9 DEF Known
  <2> QED
    BY <2>2, <2>3, NoWordsYet
<1>11. Frames(stack, 0)
  BY <1>7 DEF Known, Inv, ThreadSomewhere
<1>12. PICK t \in Nat : t = Region + i
  BY <1>8
<1>13. PICK s : s = stack
  OBVIOUS
<1>14. /\ Inv' /\ program' = program
       /\ get_original_instruction_address(pc)' = get_original_instruction_address(t)
  BY <1>1, <1>5, <1>8, <1>10, <1>11, <1>12, <1>13, ThreadMoves
<1> QED
  BY <1>1, <1>7, <1>10, <1>12, <1>14 DEF Stutters, Known

LEMMA PrologueOps ==
  Range(Prologue) = {"push rax", "save flags", "count", "push rcx", "compare", "int3",
                     "pop rcx", "restore flags", "pop rax"}
<1>1. DOMAIN Prologue = 1..9
  BY DEF Prologue
<1>2. Range(Prologue) = {Prologue[i] : i \in 1..9}
  BY <1>1 DEF Range
<1>3. 1..9 = {1, 2, 3, 4, 5, 6, 7, 8, 9}
  OBVIOUS
<1>4. Range(Prologue) = {Prologue[i] : i \in {1, 2, 3, 4, 5, 6, 7, 8, 9}}
  BY <1>2, <1>3, Zenon
<1>5. Range(Prologue) = {Prologue[1], Prologue[2], Prologue[3], Prologue[4], Prologue[5],
                         Prologue[6], Prologue[7], Prologue[8], Prologue[9]}
  BY <1>4, SMT
<1> QED
  BY <1>5, PrologueIs, Zenon

\* What follows in a prologue.
LEMMA PrologueGoesOn ==
  ASSUME Inv, NEW t \in Nat, InStub(t), SlotAt(t).op \in Range(Prologue)
  PROVE  /\ t + 1 \in Nat /\ InStub(t + 1) /\ SlotAt(t + 1).address = SlotAt(t).address
         /\ SlotAt(t).op = "push rax" => SlotAt(t + 1).op = "save flags"
         /\ SlotAt(t).op = "save flags" => SlotAt(t + 1).op = "count"
         /\ SlotAt(t).op = "count" => SlotAt(t + 1).op = "push rcx"
         /\ SlotAt(t).op = "push rcx" => SlotAt(t + 1).op = "compare"
         /\ SlotAt(t).op = "compare" => SlotAt(t + 1).op = "int3"
         /\ SlotAt(t).op = "int3" => SlotAt(t + 1).op = "pop rcx"
         /\ SlotAt(t).op = "pop rcx" => SlotAt(t + 1).op = "restore flags"
         /\ SlotAt(t).op = "restore flags" => SlotAt(t + 1).op = "pop rax"
         /\ SlotAt(t).op = "pop rax" => SlotAt(t + 1).op = "displaced"
<1>1. Known(t)
  BY WhereIs DEF Inv
<1> DEFINE i == t - Region
<1>2. i \in 1..Len(code_) /\ SlotAt(t) = code_[i] /\ Region \in Nat /\ Len(code_) \in Nat
  BY <1>1 DEF Known, SlotAt
<1>3. Follows(program, patches_, code_, i)
  BY <1>2 DEF Inv, StubsRun, Runs
<1>4. (t + 1) - Region = i + 1
  BY <1>2
<1>5. SlotAt(t + 1) = code_[i + 1]
  BY <1>4 DEF SlotAt
<1> HIDE DEF i
<1>6. i + 1 <= Len(code_)
  BY <1>2, <1>3, PrologueOps DEF Follows
<1>7. InStub(t + 1) /\ t + 1 \in Nat
  BY <1>2, <1>6 DEF InStub, i
<1>8. /\ \A k \in 1..8 : SlotAt(t).op = Prologue[k] => SlotAt(t + 1) = Slot(Prologue[k + 1], SlotAt(t).address)
      /\ SlotAt(t).op = "pop rax" => SlotAt(t + 1) = Slot("displaced", SlotAt(t).address)
  BY <1>2, <1>3, <1>5 DEF Follows
<1> DEFINE o == SlotAt(t).op
           a == SlotAt(t).address
           u == SlotAt(t + 1)
<1>9. /\ o \in {"push rax", "save flags", "count", "push rcx", "compare", "int3",
                "pop rcx", "restore flags", "pop rax"}
      /\ \A k \in 1..8 : o = Prologue[k] => u.op = Prologue[k + 1] /\ u.address = a
      /\ o = "pop rax" => u.op = "displaced" /\ u.address = a
  <2>1. \A k \in 1..8 : o = Prologue[k] => u = Slot(Prologue[k + 1], a)
    BY <1>8
  <2>2. o = "pop rax" => u = Slot("displaced", a)
    BY <1>8
  <2>3. o \in Range(Prologue)
    OBVIOUS
  <2> HIDE DEF o, a, u
  <2>4. ASSUME NEW k \in 1..8, o = Prologue[k] PROVE u.op = Prologue[k + 1] /\ u.address = a
    <3>1. u = Slot(Prologue[k + 1], a)
      BY <2>1, <2>4
    <3> QED
      BY <3>1, SlotIs
  <2>5. o = "pop rax" => u.op = "displaced" /\ u.address = a
    BY <2>2, SlotIs
  <2> QED
    BY <2>3, <2>4, <2>5, PrologueOps
<1> HIDE DEF o, a, u
<1>10. 1 \in 1..8 /\ 2 \in 1..8 /\ 3 \in 1..8 /\ 4 \in 1..8 /\ 5 \in 1..8 /\ 6 \in 1..8 /\ 7 \in 1..8 /\ 8 \in 1..8
  OBVIOUS
<1>11. /\ o = "push rax" => u.op = "save flags" /\ u.address = a
       /\ o = "save flags" => u.op = "count" /\ u.address = a
       /\ o = "count" => u.op = "push rcx" /\ u.address = a
       /\ o = "push rcx" => u.op = "compare" /\ u.address = a
       /\ o = "compare" => u.op = "int3" /\ u.address = a
       /\ o = "int3" => u.op = "pop rcx" /\ u.address = a
       /\ o = "pop rcx" => u.op = "restore flags" /\ u.address = a
       /\ o = "restore flags" => u.op = "pop rax" /\ u.address = a
  <2>1. 1 + 1 = 2 /\ 2 + 1 = 3 /\ 3 + 1 = 4 /\ 4 + 1 = 5 /\ 5 + 1 = 6 /\ 6 + 1 = 7 /\ 7 + 1 = 8 /\ 8 + 1 = 9
    OBVIOUS
  <2>2. \A k \in 1..8 : o = Prologue[k] => u.op = Prologue[k + 1] /\ u.address = a
    BY <1>9
  <2>3. /\ o = Prologue[1] => u.op = Prologue[2] /\ u.address = a
        /\ o = Prologue[2] => u.op = Prologue[3] /\ u.address = a
        /\ o = Prologue[3] => u.op = Prologue[4] /\ u.address = a
        /\ o = Prologue[4] => u.op = Prologue[5] /\ u.address = a
        /\ o = Prologue[5] => u.op = Prologue[6] /\ u.address = a
        /\ o = Prologue[6] => u.op = Prologue[7] /\ u.address = a
        /\ o = Prologue[7] => u.op = Prologue[8] /\ u.address = a
        /\ o = Prologue[8] => u.op = Prologue[9] /\ u.address = a
    BY <1>10, <2>1, <2>2
  <2> QED
    BY <2>3, PrologueIs, Zenon
<1>12. u.address = a
  BY <1>9, <1>11
<1> QED
  BY <1>7, <1>9, <1>11, <1>12 DEF o, a, u

LEMMA WordsAre ==
  /\ Words("push rax") = 0 /\ Words("save flags") = 1 /\ Words("count") = 1
  /\ Words("push rcx") = 1 /\ Words("compare") = 2 /\ Words("int3") = 2
  /\ Words("pop rcx") = 2 /\ Words("restore flags") = 1 /\ Words("pop rax") = 1
  /\ Words("displaced") = 0 /\ Words("jump back") = 0
BY DEF Words

\* What a step of a prologue leads to.
LEMMA RunPrologueLeads ==
  ASSUME Inv, RunPrologue
  PROVE  LET o == SlotAt(pc).op
         IN  /\ InStub(pc) /\ o \in Range(Prologue)
             /\ \E t \in Nat :
                   /\ pc' = t /\ InStub(t) /\ SlotAt(t).address = SlotAt(pc).address
                   /\ o = "push rax" => SlotAt(t).op = "save flags"
                   /\ o = "save flags" => SlotAt(t).op = "count"
                   /\ o = "count" => SlotAt(t).op = "push rcx"
                   /\ o = "push rcx" => SlotAt(t).op = "compare"
                   /\ o = "compare" => SlotAt(t).op \in {"int3", "pop rcx"}
                   /\ o = "int3" => SlotAt(t).op = "pop rcx"
                   /\ o = "pop rcx" => SlotAt(t).op = "restore flags"
                   /\ o = "restore flags" => SlotAt(t).op = "pop rax"
                   /\ o = "pop rax" => SlotAt(t).op = "displaced"
<1> DEFINE o == SlotAt(pc).op
<1>1. /\ InStub(pc) /\ o \in Range(Prologue)
      /\ pc' = IF o = "compare" /\ counter < target THEN pc + 2 ELSE pc + 1
  BY DEF RunPrologue
<1>2. pc \in Nat
  BY DEF Inv, ThreadSomewhere
<1>3. \E t \in Nat :
        /\ pc' = t /\ InStub(t) /\ SlotAt(t).address = SlotAt(pc).address
        /\ o = "push rax" => SlotAt(t).op = "save flags"
        /\ o = "save flags" => SlotAt(t).op = "count"
        /\ o = "count" => SlotAt(t).op = "push rcx"
        /\ o = "push rcx" => SlotAt(t).op = "compare"
        /\ o = "compare" => SlotAt(t).op \in {"int3", "pop rcx"}
        /\ o = "int3" => SlotAt(t).op = "pop rcx"
        /\ o = "pop rcx" => SlotAt(t).op = "restore flags"
        /\ o = "restore flags" => SlotAt(t).op = "pop rax"
        /\ o = "pop rax" => SlotAt(t).op = "displaced"
  <2>1. CASE pc' = pc + 1
    BY <1>1, <1>2, <2>1, PrologueGoesOn
  <2>2. CASE o = "compare" /\ pc' = pc + 2
    <3> DEFINE u == pc + 1
    <3>1. u \in Nat /\ InStub(u) /\ SlotAt(u).address = SlotAt(pc).address /\ SlotAt(u).op = "int3"
      BY <1>1, <1>2, <2>2, PrologueGoesOn
    <3>2. SlotAt(u).op \in Range(Prologue)
      BY <3>1, PrologueOps
    <3>3. u + 1 = pc + 2
      BY <1>2
    <3> HIDE DEF u
    <3>4. /\ u + 1 \in Nat /\ InStub(u + 1) /\ SlotAt(u + 1).address = SlotAt(u).address
          /\ SlotAt(u + 1).op = "pop rcx"
      BY <3>1, <3>2, PrologueGoesOn
    <3> QED
      BY <2>2, <3>1, <3>3, <3>4
  <2> QED
    BY <1>1, <2>1, <2>2
<1> QED
  BY <1>1, <1>3

LEMMA RunPrologueInv == Inv /\ RunPrologue => Inv' /\ Stutters
<1> SUFFICES ASSUME Inv, RunPrologue PROVE Inv' /\ Stutters
  OBVIOUS
<1> DEFINE o == SlotAt(pc).op
<1>1. /\ ready /\ UNCHANGED plugin /\ InStub(pc) /\ o \in Range(Prologue)
      /\ stack' = CASE o \in {"push rax", "push rcx"} -> Append(stack, SavedRegister)
                    [] o \in {"pop rax", "pop rcx"}   -> Front(stack)
                    [] OTHER                          -> stack
      /\ pc' = IF o = "compare" /\ counter < target THEN pc + 2 ELSE pc + 1
  BY DEF RunPrologue, MayRun, Running
<1>2. pc \in Nat /\ Known(pc)
  BY WhereIs DEF Inv, ThreadSomewhere
<1>3. Frames(stack, Words(o)) /\ BlocksKept
  BY <1>1, <1>2 DEF Known, Inv, ThreadSomewhere
<1>4. PICK t \in Nat :
        /\ pc' = t /\ InStub(t) /\ SlotAt(t).address = SlotAt(pc).address
        /\ o = "push rax" => SlotAt(t).op = "save flags"
        /\ o = "save flags" => SlotAt(t).op = "count"
        /\ o = "count" => SlotAt(t).op = "push rcx"
        /\ o = "push rcx" => SlotAt(t).op = "compare"
        /\ o = "compare" => SlotAt(t).op \in {"int3", "pop rcx"}
        /\ o = "int3" => SlotAt(t).op = "pop rcx"
        /\ o = "pop rcx" => SlotAt(t).op = "restore flags"
        /\ o = "restore flags" => SlotAt(t).op = "pop rax"
        /\ o = "pop rax" => SlotAt(t).op = "displaced"
  BY RunPrologueLeads
<1>5. Known(t)
  BY WhereIs DEF Inv
<1>6. address_rsp_fix_words(t) = Words(SlotAt(t).op) /\ get_original_instruction_address(t) = get_original_instruction_address(pc)
  BY <1>1, <1>2, <1>4, <1>5 DEF Known
<1> DEFINE q == SlotAt(t).op
<1> HIDE DEF o, q
<1>a. /\ o \in {"push rax", "push rcx"} => stack' = Append(stack, SavedRegister)
      /\ o \in {"pop rax", "pop rcx"} => stack' = Front(stack)
      /\ o \in {"save flags", "count", "compare", "int3", "restore flags"} => stack' = stack
  BY <1>1 DEF o
<1>b. /\ o = "push rax" => Words(o) = 0 /\ Words(q) = 1
      /\ o = "push rcx" => Words(o) = 1 /\ Words(q) = 2
      /\ o = "pop rcx" => Words(o) = 2 /\ Words(q) = 1
      /\ o = "pop rax" => Words(o) = 1 /\ Words(q) = 0
  BY <1>4, WordsAre DEF o, q
<1> DEFINE wo == Words(o)
           wq == Words(q)
<1>c. /\ o \in {"push rax", "push rcx"} => wq = wo + 1
      /\ o \in {"pop rax", "pop rcx"} => wq = wo - 1 /\ wo > 0
  <2>1. /\ o = "push rax" => wo = 0 /\ wq = 1
        /\ o = "push rcx" => wo = 1 /\ wq = 2
        /\ o = "pop rcx" => wo = 2 /\ wq = 1
        /\ o = "pop rax" => wo = 1 /\ wq = 0
    BY <1>b
  <2> HIDE DEF wo, wq
  <2>2. /\ o = "push rax" \/ o = "push rcx" => (wo = 0 /\ wq = 1) \/ (wo = 1 /\ wq = 2)
        /\ o = "pop rax" \/ o = "pop rcx" => (wo = 2 /\ wq = 1) \/ (wo = 1 /\ wq = 0)
    BY <2>1
  <2>3. /\ (wo = 0 /\ wq = 1) \/ (wo = 1 /\ wq = 2) => wq = wo + 1
        /\ (wo = 2 /\ wq = 1) \/ (wo = 1 /\ wq = 0) => wq = wo - 1 /\ wo > 0
    OBVIOUS
  <2> QED
    BY <2>2, <2>3
<1>7. Frames(stack', Words(q)) /\ ReturnAddresses(stack') = ReturnAddresses(stack)
  <2>1. CASE o \in {"push rax", "push rcx"}
    <3>1. stack' = Append(stack, SavedRegister)
      BY <1>a, <2>1
    <3>2. Words(q) = Words(o) + 1
      BY <1>c, <2>1
    <3> QED
      BY <1>3, <3>1, <3>2, FramesPushed
  <2>2. CASE o \in {"pop rax", "pop rcx"}
    <3>1. stack' = Front(stack)
      BY <1>a, <2>2
    <3>2. Words(q) = Words(o) - 1 /\ Words(o) > 0
      BY <1>c, <2>2
    <3> QED
      BY <1>3, <3>1, <3>2, FramesPopped
  <2>3. CASE o \in {"save flags", "count", "compare", "int3", "restore flags"}
    <3>1. stack' = stack /\ Words(q) = Words(o)
      BY <1>a, <1>4, <2>3, WordsAre DEF q, o
    <3> QED
      BY <1>3, <3>1
  <2> QED
    BY <1>1, <2>1, <2>2, <2>3, PrologueOps DEF o
<1>8. PICK s : s = stack'
  OBVIOUS
<1>9. /\ Inv' /\ program' = program
      /\ get_original_instruction_address(pc)' = get_original_instruction_address(t)
  BY <1>1, <1>4, <1>6, <1>7, <1>8, ThreadMoves DEF q
<1> QED
  BY <1>6, <1>7, <1>9 DEF Stutters

LEMMA MovedEnds ==
  ASSUME NEW p \in Programs, NEW b \in AllBlocks(p), CanInstrument(p, b)
  PROVE  \E a \in Displaced(p, b) : a \in DOMAIN p.code /\ EndOf(p, a) = PatchEnd(p, b)
<1> DEFINE n == Cardinality(Displaced(p, b))
           d == InOrder(Displaced(p, b))
<1>1. n \in Nat /\ 1 <= n /\ (\A i \in 1..n : d[i] \in Displaced(p, b)) /\ EndOf(p, d[n]) = PatchEnd(p, b)
  BY MovedInOrder
<1> HIDE DEF n, d
<1>2. n \in 1..n
  BY <1>1
<1> QED
  BY <1>1, <1>2, PatchIs

\* Where a patch's last instruction, and where an instruction left in its
\* place, goes on.
LEMMA GoesOn ==
  ASSUME BlocksKept, NEW a \in DOMAIN program.code, EndOf(program, a) \in DOMAIN program.code,
         \/ ~Overwritten(a)
         \/ \E b \in patches_ : a \in Displaced(program, b) /\ EndOf(program, a) = PatchEnd(program, b)
  PROVE  EndOf(program, a) \in Nat /\ AtInstruction(EndOf(program, a))
<1> DEFINE e == EndOf(program, a)
<1>1. program \in Programs /\ \A b \in patches_ : b \in AllBlocks(program) /\ CanInstrument(program, b)
  BY DEF BlocksKept
<1>2. e \in Nat
  BY <1>1, Instructions
<1>3. ASSUME NEW c \in patches_, e \in Displaced(program, c), e # c.start
      PROVE  FALSE
  <2>1. a \in Displaced(program, c)
    BY <1>1, <1>3, NoWayIn
  <2>2. PICK b \in patches_ : a \in Displaced(program, b) /\ e = PatchEnd(program, b)
    BY <2>1 DEF Overwritten
  <2>3. b = c
    <3>1. /\ b.start <= a /\ a < b.end /\ c.start <= a /\ a < c.end /\ a \in Nat
          /\ b.start \in Nat /\ b.end \in Nat /\ c.start \in Nat /\ c.end \in Nat
      BY <1>1, <2>1, <2>2, PatchIs, AllBlocksAre
    <3>2. b # c => b.end <= c.start \/ c.end <= b.start
      BY <1>1, BlocksApart
    <3> QED
      BY <3>1, <3>2
  <2>4. e < PatchEnd(program, c)
    BY <1>1, <1>3, PatchIs
  <2> QED
    BY <1>2, <2>2, <2>3, <2>4
<1> QED
  BY <1>2, <1>3 DEF AtInstruction

LEMMA JumpBackInv == Inv /\ JumpBack => Inv' /\ Stutters
<1> SUFFICES ASSUME Inv, JumpBack PROVE Inv' /\ Stutters
  OBVIOUS
<1>1. /\ ready /\ UNCHANGED plugin /\ InStub(pc) /\ SlotAt(pc).op = "jump back"
      /\ pc' = SlotAt(pc).address /\ stack' = stack
  BY DEF JumpBack, MayRun, Running
<1>2. pc \in Nat /\ Known(pc)
  BY WhereIs DEF Inv, ThreadSomewhere
<1>3. Frames(stack, 0)
  BY <1>1, <1>2, WordsAre DEF Known, Inv, ThreadSomewhere
<1>4. PICK b \in patches_ : SlotAt(pc).address = PatchEnd(program, b)
  <2>1. pc - Region \in 1..Len(code_) /\ SlotAt(pc) = code_[pc - Region]
    BY <1>1, <1>2 DEF Known, SlotAt
  <2>2. Follows(program, patches_, code_, pc - Region)
    BY <2>1 DEF Inv, StubsRun, Runs
  <2> QED
    BY <1>1, <2>1, <2>2 DEF Follows
<1> DEFINE e == PatchEnd(program, b)
<1>5. program \in Programs /\ b \in AllBlocks(program) /\ CanInstrument(program, b)
  BY DEF Inv, BlocksKept
<1>6. PICK a \in Displaced(program, b) : a \in DOMAIN program.code /\ EndOf(program, a) = e
  BY <1>5, MovedEnds
<1>7. e \in Nat /\ AtInstruction(e)
  <2>1. EndOf(program, a) \in DOMAIN program.code
    BY <1>5, <1>6, PatchIs
  <2>2. EndOf(program, a) \in Nat /\ AtInstruction(EndOf(program, a))
    BY <1>6, <2>1, GoesOn DEF Inv
  <2> QED
    BY <1>6, <2>2
<1>8. Known(e)
  BY <1>7, WhereIs DEF Inv
<1>9. ~InStub(e) /\ address_rsp_fix_words(e) = 0 /\ get_original_instruction_address(e) = e
  BY <1>7, <1>8 DEF Known
<1>10. PICK t \in Nat : t = e
  BY <1>7
<1>11. PICK s : s = stack
  OBVIOUS
<1>12. /\ Inv' /\ program' = program
       /\ get_original_instruction_address(pc)' = get_original_instruction_address(t)
  BY <1>1, <1>3, <1>4, <1>7, <1>9, <1>10, <1>11, ThreadMoves
<1> QED
  BY <1>1, <1>2, <1>4, <1>9, <1>10, <1>12 DEF Stutters, Known

LEMMA NamedLeads ==
  ASSUME BlocksKept, NEW a \in DOMAIN program.code, program.code[a].category # "OTHER",
         NEW t \in IF program.code[a].target = Indirect THEN program.taken ELSE {program.code[a].target}
  PROVE  t \in Nat /\ AtInstruction(t)
<1>1. program \in Programs /\ \A b \in patches_ : b \in AllBlocks(program) /\ CanInstrument(program, b)
  BY DEF BlocksKept
<1>2. t \in DOMAIN program.code
  <2>1. program.code[a].target = Indirect => t \in Entries(program)
    BY DEF Entries
  <2>2. t \in Entries(program) => t \in DOMAIN program.code
    BY <1>1, ProgramsAssumption
  <2>3. program.code[a].target # Indirect => t = program.code[a].target /\ t \in DOMAIN program.code
    BY <1>1, ProgramsAssumption DEF Leads
  <2> QED
    BY <2>1, <2>2, <2>3
<1>3. ASSUME NEW b \in patches_, t \in Displaced(program, b)
      PROVE  t = b.start
  <2>1. CASE program.code[a].target = Indirect
    <3>1. t \in Entries(program)
      BY <2>1 DEF Entries
    <3> QED
      BY <1>1, <1>3, <3>1, EntryNotInside
  <2>2. CASE program.code[a].target # Indirect
    <3>1. t = program.code[a].target
      BY <2>2
    <3> QED
      BY <1>1, <1>3, <2>2, <3>1, TargetNotInside
  <2> QED
    BY <2>1, <2>2
<1> QED
  BY <1>1, <1>2, <1>3, Instructions DEF AtInstruction

\* Where an instruction left in its place leads.
LEMMA InPlaceLeads ==
  ASSUME Inv, NEW a \in DOMAIN program.code, Execute(a), pc = a, ~Overwritten(a),
         Frames(stack, 0), ~InStub(pc)
  PROVE  \E t \in Nat :
            /\ pc' = t /\ (t = Exited \/ AtInstruction(t))
            /\ t \in Original!Destinations(program, a, stack)
            /\ stack' = Original!StackAfter(program, a, stack, EndOf(program, a))
            /\ Frames(stack', 0)
<1> DEFINE i == program.code[a]
           e == EndOf(program, a)
           named == IF i.target = Indirect THEN program.taken ELSE {i.target}
           returns == i.category = "RET" /\ stack # <<>>
<1>1. /\ i.category = "OTHER" => pc' = e
      /\ i.category = "COND_BR" => pc' \in named \cup {e}
      /\ i.category \in {"UNCOND_BR", "CALL"} => pc' \in named
      /\ i.category = "RET" => pc' = IF stack # <<>> THEN Last(stack) ELSE Exited
      /\ i.category = "CALL" => stack' = Append(stack, e)
      /\ i.category = "RET" /\ stack # <<>> => stack' = Front(stack)
      /\ i.category \notin {"CALL", "RET"} => stack' = stack
      /\ i.category = "RET" /\ stack = <<>> => stack' = stack
  BY DEF Execute
<1>2. BlocksKept /\ program \in Programs
  BY DEF Inv, BlocksKept
<1>3. i.category \in {"OTHER", "COND_BR", "UNCOND_BR", "CALL", "RET"}
  BY <1>2, Instructions
<1>4. i.category \in {"OTHER", "COND_BR", "CALL"} => e \in Nat /\ AtInstruction(e)
  <2>1. i.category \in {"OTHER", "COND_BR", "CALL"} => e \in DOMAIN program.code
    BY <1>2, InFunction
  <2> QED
    BY <1>2, <2>1, GoesOn
<1>5. i.category # "OTHER" => \A t \in named : t \in Nat /\ AtInstruction(t)
  BY <1>2, NamedLeads
<1>6. Original!InstructionEnd(program, a) = e
  BY DEF Original!InstructionEnd, EndOf
<1>7. Frames(stack, 0)
  OBVIOUS
<1>8. /\ i.category = "OTHER" => Original!Destinations(program, a, stack) = {e}
      /\ i.category = "COND_BR" => Original!Destinations(program, a, stack) = named \cup {e}
      /\ i.category \in {"UNCOND_BR", "CALL"} => Original!Destinations(program, a, stack) = named
      /\ i.category = "RET" => Original!Destinations(program, a, stack)
                                 = {IF stack = <<>> THEN Exited ELSE stack[Len(stack)]}
  BY <1>6 DEF Original!Destinations, Original!Indirect, Indirect, Original!Exited, Exited
<1>9. /\ i.category = "CALL" => Original!StackAfter(program, a, stack, e) = Append(stack, e)
      /\ i.category = "RET" /\ stack # <<>> =>
            Original!StackAfter(program, a, stack, e) = SubSeq(stack, 1, Len(stack) - 1)
      /\ i.category = "RET" /\ stack = <<>> => Original!StackAfter(program, a, stack, e) = stack
      /\ i.category \notin {"CALL", "RET"} => Original!StackAfter(program, a, stack, e) = stack
  BY DEF Original!StackAfter
<1>10. stack # <<>> => /\ Frames(Front(stack), 0) /\ AtInstruction(Last(stack))
                       /\ Last(stack) = stack[Len(stack)]
                       /\ Front(stack) = SubSeq(stack, 1, Len(stack) - 1)
                       /\ Last(stack) \in Nat
  <2>1. \A t : AtInstruction(t) => t \in Nat
    BY <1>2, Instructions DEF AtInstruction
  <2> QED
    BY <2>1, FramesReturned
<1>11. AtInstruction(e) /\ e \in Nat => Frames(Append(stack, e), 0)
  BY FramesCalled
<1>12. Exited \in Nat
  BY DEF Exited
<1> HIDE DEF i, e, named
<1>13. CASE i.category \in {"OTHER", "COND_BR", "UNCOND_BR"}
  BY <1>1, <1>4, <1>5, <1>7, <1>8, <1>9, <1>13 DEF e
<1>14. CASE i.category = "CALL"
  BY <1>1, <1>4, <1>5, <1>8, <1>9, <1>11, <1>14 DEF e
<1>15. CASE i.category = "RET"
  BY <1>1, <1>7, <1>8, <1>9, <1>10, <1>12, <1>15 DEF e
<1> QED
  BY <1>3, <1>13, <1>14, <1>15

\* Where a moved instruction leads: on in its stub.
LEMMA MovedOn ==
  ASSUME Inv, NEW t \in Nat, NEW a, InStub(t), SlotAt(t) = Slot("displaced", a)
  PROVE  /\ t + 1 \in Nat /\ InStub(t + 1) /\ SlotAt(t + 1).op \in {"displaced", "jump back"}
         /\ SlotAt(t + 1).address = EndOf(program, a)
         /\ a \in DOMAIN program.code /\ program.code[a].category = "OTHER"
         /\ \E b \in patches_ : a \in Displaced(program, b)
<1>1. Known(t)
  BY WhereIs DEF Inv
<1> DEFINE i == t - Region
<1>2. i \in 1..Len(code_) /\ SlotAt(t) = code_[i] /\ Region \in Nat /\ Len(code_) \in Nat
  BY <1>1 DEF Known, SlotAt
<1>3. Follows(program, patches_, code_, i)
  BY <1>2 DEF Inv, StubsRun, Runs
<1>4. (t + 1) - Region = i + 1
  BY <1>2
<1>5. SlotAt(t + 1) = code_[i + 1]
  BY <1>4 DEF SlotAt
<1>6. code_[i].op = "displaced" /\ code_[i].address = a
  BY <1>2, SlotIs
<1> HIDE DEF i
<1>7. /\ i + 1 <= Len(code_)
      /\ \E b \in patches_ : a \in Displaced(program, b)
      /\ \/ code_[i + 1] = Slot("displaced", EndOf(program, a))
         \/ code_[i + 1] = Slot("jump back", EndOf(program, a))
  BY <1>3, <1>6 DEF Follows
<1>8. InStub(t + 1) /\ t + 1 \in Nat
  <2>1. i + 1 <= Len(code_) /\ i \in 1..Len(code_) /\ Region \in Nat /\ Len(code_) \in Nat
    BY <1>2, <1>7
  <2> QED
    BY <2>1 DEF InStub, i
<1>9. SlotAt(t + 1).op \in {"displaced", "jump back"} /\ SlotAt(t + 1).address = EndOf(program, a)
  <2> DEFINE u == SlotAt(t + 1)
             e == EndOf(program, a)
  <2>1. u = Slot("displaced", e) \/ u = Slot("jump back", e)
    BY <1>5, <1>7
  <2> HIDE DEF u, e
  <2>2. u.op \in {"displaced", "jump back"} /\ u.address = e
    BY <2>1, SlotIs
  <2> QED
    BY <2>2 DEF u, e
<1>10. a \in DOMAIN program.code /\ program.code[a].category = "OTHER"
  BY <1>7, PatchIs DEF Inv, BlocksKept
<1> QED
  BY <1>7, <1>8, <1>9, <1>10

\* The program takes the step that the patched code took.
LEMMA ExecuteInv ==
  Inv /\ (\E a \in DOMAIN program.code : Execute(a)) => Inv' /\ Original!Execute
<1> SUFFICES ASSUME Inv, NEW a \in DOMAIN program.code, Execute(a)
             PROVE  Inv' /\ Original!Execute
  OBVIOUS
<1>1. /\ ready /\ UNCHANGED plugin /\ Executes(a) /\ Len(stack') <= MaxDepth
  BY DEF Execute, MayRun, Running
<1>2. pc \in Nat /\ Known(pc) /\ BlocksKept /\ program \in Programs
  BY WhereIs DEF Inv, ThreadSomewhere, BlocksKept
<1>3. a \in Nat /\ 0 < a /\ a < Region /\ a # Exited
  BY <1>2, Instructions DEF Exited
<1> DEFINE Goes(t) ==
             /\ pc' = t /\ (t = Exited \/ InStub(t) \/ AtInstruction(t))
             /\ address_rsp_fix_words(t) = 0
             /\ get_original_instruction_address(t) \in Original!Destinations(program, a, stack)
             /\ stack' = Original!StackAfter(program, a, stack, EndOf(program, a))
             /\ Frames(stack', 0)
<1>4. /\ Frames(stack, 0) /\ get_original_instruction_address(pc) = a
      /\ \E t \in Nat : Goes(t)
  <2>1. CASE pc = a /\ ~Overwritten(a)
    <3>1. ~InStub(pc)
      BY <1>2, <1>3, <2>1, InstrumentationAssumption DEF InStub
    <3>2. Frames(stack, 0) /\ get_original_instruction_address(pc) = a
      BY <1>2, <2>1, <3>1 DEF Known, Inv, ThreadSomewhere
    <3>3. PICK t \in Nat :
            /\ pc' = t /\ (t = Exited \/ AtInstruction(t))
            /\ t \in Original!Destinations(program, a, stack)
            /\ stack' = Original!StackAfter(program, a, stack, EndOf(program, a))
            /\ Frames(stack', 0)
      BY <2>1, <3>1, <3>2, InPlaceLeads
    <3>4. Known(t)
      BY WhereIs DEF Inv
    <3>5. address_rsp_fix_words(t) = 0 /\ get_original_instruction_address(t) = t
      BY <3>3, <3>4 DEF Known
    <3> QED
      BY <3>2, <3>3, <3>5
  <2>2. CASE InStub(pc) /\ SlotAt(pc) = Slot("displaced", a)
    <3>1. SlotAt(pc).op = "displaced" /\ SlotAt(pc).address = a
      BY <2>2, SlotIs
    <3>2. Frames(stack, 0) /\ get_original_instruction_address(pc) = a
      BY <1>2, <2>2, <3>1, WordsAre DEF Known, Inv, ThreadSomewhere
    <3> DEFINE t == pc + 1
    <3>3. /\ t \in Nat /\ InStub(t) /\ SlotAt(t).op \in {"displaced", "jump back"}
          /\ SlotAt(t).address = EndOf(program, a)
          /\ program.code[a].category = "OTHER"
      BY <1>2, <2>2, MovedOn
    <3>4. pc' = t /\ stack' = stack
      BY <2>2, <3>3 DEF Execute
    <3> HIDE DEF t
    <3>5. Known(t)
      BY <3>3, WhereIs DEF Inv
    <3>6. address_rsp_fix_words(t) = 0 /\ get_original_instruction_address(t) = EndOf(program, a)
      BY <3>3, <3>5, WordsAre DEF Known
    <3>7. /\ EndOf(program, a) \in Original!Destinations(program, a, stack)
          /\ stack = Original!StackAfter(program, a, stack, EndOf(program, a))
      BY <3>3 DEF Original!Destinations, Original!StackAfter, Original!InstructionEnd, EndOf
    <3>8. Goes(t)
      BY <3>2, <3>3, <3>4, <3>6, <3>7
    <3> QED
      BY <3>2, <3>3, <3>8
  <2> QED
    BY <1>1, <2>1, <2>2 DEF Executes
<1>5. PICK t \in Nat : Goes(t)
  BY <1>4
<1>6. PICK s : s = stack'
  OBVIOUS
<1>7. /\ Inv' /\ program' = program
      /\ get_original_instruction_address(pc)' = get_original_instruction_address(t)
  BY <1>1, <1>5, <1>6, ThreadMoves
<1>8. ReturnAddresses(stack) = stack /\ ReturnAddresses(stack)' = stack'
  <2>1. ReturnAddresses(stack') = stack'
    BY <1>2, <1>5, FramesOnly
  <2> QED
    BY <1>2, <1>4, <2>1, FramesOnly
<1>9. Original!InstructionEnd(program, a) = EndOf(program, a)
  BY DEF Original!InstructionEnd, EndOf
<1> QED
  BY <1>1, <1>3, <1>4, <1>5, <1>7, <1>8, <1>9 DEF Original!Execute, Original!Exited, Exited

----------------------------------------------------------------------------
(* The theorems.                                                           *)

LEMMA StepInv ==
  Inv /\ [Next]_vars => Inv' /\ [Original!Execute]_<<program, get_original_instruction_address(pc),
                                                     ReturnAddresses(stack)>>
<1> SUFFICES ASSUME Inv, [Next]_vars
             PROVE  Inv' /\ (Stutters \/ Original!Execute)
  BY DEF Stutters
<1>1. CASE InstrumentBlock
  BY <1>1, InstrumentBlockInv
<1>2. CASE SkipBlock
  BY <1>2, SkipBlockInv
<1>3. CASE Commit
  BY <1>3, CommitInv
<1>4. CASE GiveUp
  BY <1>4, GiveUpInv
<1>5. CASE Detour
  BY <1>5, DetourInv
<1>6. CASE RunPrologue
  BY <1>6, RunPrologueInv
<1>7. CASE JumpBack
  BY <1>7, JumpBackInv
<1>8. CASE \E a \in DOMAIN program.code : Execute(a)
  BY <1>8, ExecuteInv
<1>9. CASE \E mode \in {"Line", "Into"} : BeginStep(mode)
  BY <1>9, BeginStepInv
<1>10. CASE EndStep
  BY <1>10, EndStepInv
<1>11. CASE UNCHANGED vars
  <2>1. UNCHANGED plugin /\ UNCHANGED <<pc, stack>>
    BY <1>11 DEF vars, thread
  <2> QED
    BY <2>1, PluginKept, ThreadKept DEF Inv
<1> QED
  BY <1>1, <1>2, <1>3, <1>4, <1>5, <1>6, <1>7, <1>8, <1>9, <1>10, <1>11 DEF Next

LEMMA InvAlways == Spec => []Inv
<1>1. Inv /\ [Next]_vars => Inv'
  BY StepInv
<1> QED
  BY <1>1, InitInv, PTL DEF Spec

\* A thread is always at an instruction: of the program, of a stub, or at the
\* jump that starts a patch.
THEOREM NeverInside == Spec => []NeverInsideAPatch
<1>1. Inv => NeverInsideAPatch
  BY DEF Inv, ThreadSomewhere, NeverInsideAPatch, AtInstruction, Overwritten, Detoured
<1> QED
  BY <1>1, InvAlways, PTL

\* At whatever instruction of a stub a thread is stopped, the walk of its stack
\* finds its callers' return addresses and nothing else.
THEOREM StackWalks == Spec => []StackWalkFindsCallers
<1>1. Inv => StackWalkFindsCallers
  BY Framed DEF Inv, ThreadSomewhere, StackWalkFindsCallers, get_all_return_addresses
<1> QED
  BY <1>1, InvAlways, PTL

\* The instrumented thread runs the program and nothing but the program.
THEOREM RunsTheProgram == Spec => ImplementsProgram
<1>1. Init => Original!Init
  <2> SUFFICES ASSUME Init PROVE Original!Init
    OBVIOUS
  <2>1. Inv /\ pc = program.entry /\ stack = <<>> /\ program \in Programs
    BY InitInv DEF Init
  <2>2. AtInstruction(pc) /\ pc \in Nat
    <3>1. program.entry \in Entries(program) /\ patches_ = {}
      BY DEF Init, Entries
    <3>2. program.entry \in DOMAIN program.code
      BY <2>1, <3>1, ProgramsAssumption
    <3> QED
      BY <2>1, <3>1, <3>2 DEF AtInstruction, Inv, ThreadSomewhere
  <2>3. get_original_instruction_address(pc) = pc /\ address_rsp_fix_words(pc) = 0
    BY <2>1, <2>2, WhereIs DEF Inv, Known
  <2>4. ReturnAddresses(stack) = <<>>
    <3>1. Frames(stack, 0) /\ BlocksKept
      BY <2>1, <2>3 DEF Inv, ThreadSomewhere
    <3> QED
      BY <2>1, <3>1, FramesOnly
  <2> QED
    BY <2>1, <2>3, <2>4 DEF Original!Init
<1>2. Inv /\ [Next]_vars => [Original!Execute]_<<program, get_original_instruction_address(pc),
                                                 ReturnAddresses(stack)>>
  BY StepInv
<1> QED
  BY <1>1, <1>2, InvAlways, PTL DEF Spec, ImplementsProgram, Original!Spec

----------------------------------------------------------------------------
(* Branch counts order a thread's past.                                    *)

AllInstrumented == \A b \in AllBlocks(program) : b.start \in leaders

\* Between a leader and the increment in its stub the count is still that of
\* the block before, and no instruction of the program is executed.
CountedAt(t) ==
    /\ t # Exited /\ ~Detoured(t)
    /\ InStub(t) => SlotAt(t).op \notin {"push rax", "save flags", "count"}

\* Moment v is before that of a thread at t, with count c and d frames: there
\* was a leader since, or a return, or the thread has only gone forward.
Before(v, t, c, d) ==
    \/ v[2] < c
    \/ v[3] > d
    \/ v[3] = d /\ get_original_instruction_address(v[1]) < get_original_instruction_address(t)

Past(V, t, c, d) ==
    AllInstrumented => \A v \in V : v[2] <= c /\ (CountedAt(t) => Before(v, t, c, d))

Moments ==
    /\ leaders = {b.start : b \in patches_}
    /\ counter \in Nat
    /\ ~ready => visited = {}
    /\ visited \subseteq Nat \X Nat \X Nat
    /\ Past(visited, pc, counter, Depth)

LEMMA LeadersDetour ==
  ASSUME BlocksKept, leaders = {b.start : b \in patches_}, AllInstrumented,
         NEW fn \in program.functions, NEW l \in Leaders(program, fn)
  PROVE  Detoured(l)
<1>1. PICK b \in AllBlocks(program) : b.start = l
  <2> DEFINE b == [start |-> l, end |-> SmallestOf({m \in Leaders(program, fn) \cup {fn.end} : m > l})]
  <2>1. b \in Blocks(program, fn)
    BY DEF Blocks
  <2>2. b \in AllBlocks(program)
    BY <2>1 DEF AllBlocks
  <2> QED
    BY <2>2
<1>2. l \in leaders
  BY <1>1 DEF AllInstrumented
<1> QED
  BY <1>2 DEF Detoured

\* A branch, taken, leads to the jump of a patch.
LEMMA NamedDetours ==
  ASSUME BlocksKept, leaders = {b.start : b \in patches_}, AllInstrumented,
         NEW a \in DOMAIN program.code, program.code[a].category # "OTHER",
         NEW t \in IF program.code[a].target = Indirect THEN program.taken ELSE {program.code[a].target}
  PROVE  Detoured(t)
<1>1. program \in Programs
  BY DEF BlocksKept
<1>2. t \in DOMAIN program.code
  BY NamedLeads DEF AtInstruction
<1>3. PICK fn \in program.functions : fn.start <= t /\ t < fn.end
  BY <1>1, <1>2, InFunction
<1>4. fn \in FunctionsContaining(program, t)
  BY <1>3 DEF FunctionsContaining
<1>5. t \in Leaders(program, fn)
  <2>1. CASE program.code[a].target = Indirect
    <3>1. t \in Entries(program)
      BY <2>1 DEF Entries
    <3> QED
      BY <1>1, <1>4, <3>1, ProgramsAssumption
  <2>2. CASE program.code[a].target # Indirect
    <3>1. t = program.code[a].target
      BY <2>2
    <3> QED
      BY <1>1, <1>4, <2>2, <3>1, TargetIsLeader
  <2> QED
    BY <2>1, <2>2
<1> QED
  BY <1>5, LeadersDetour

\* A step of the thread, seen from the moment it leads to.
LEMMA MomentsMove ==
  ASSUME Moments, ready, UNCHANGED plugin,
         NEW t, NEW c \in Nat, NEW d, NEW V \in SUBSET (Nat \X Nat \X Nat),
         pc' = t, counter' = c, Depth' = d, visited' = V, Past(V, t, c, d)
  PROVE  Moments'
<1>1. UNCHANGED <<program, ready, leaders, patches_, code_, instruction_address_to_original_>>
  BY DEF plugin
<1>2. Past(V, t, c, d)' <=> Past(V, t, c, d)
  <2>1. AllInstrumented' <=> AllInstrumented
    BY <1>1 DEF AllInstrumented
  <2>2. CountedAt(t)' <=> CountedAt(t)
    BY <1>1 DEF CountedAt, Detoured, InStub, SlotAt
  <2>3. \A v : Before(v, t, c, d)' <=> Before(v, t, c, d)
    BY <1>1 DEF Before, get_original_instruction_address, Translate
  <2> QED
    BY <2>1, <2>2, <2>3 DEF Past
<1>3. Past(visited, pc, counter, Depth)'
  BY <1>2
<1> QED
  BY <1>1, <1>3 DEF Moments

\* While blocks are instrumented, the thread has no past.
LEMMA NoMoments ==
  ASSUME Moments, ~ready, UNCHANGED <<thread, history>>, leaders' = {b.start : b \in patches_'}
  PROVE  Moments'
<1>1. visited' = {} /\ counter' = counter
  BY DEF thread, history, Moments
<1>2. Past(visited, pc, counter, Depth)'
  BY <1>1 DEF Past
<1> QED
  BY <1>1, <1>2 DEF Moments

LEMMA MomentsKept ==
  ASSUME Moments, UNCHANGED <<plugin, thread, history>>
  PROVE  Moments'
BY DEF Moments, Past, AllInstrumented, CountedAt, Before, Detoured, InStub, SlotAt, Depth,
       get_original_instruction_address, Translate, plugin, thread, history

LEMMA StutterAt ==
  ASSUME UNCHANGED plugin, Stutters, NEW t, pc' = t
  PROVE  get_original_instruction_address(t) = get_original_instruction_address(pc) /\ Depth' = Depth
<1>1. instruction_address_to_original_' = instruction_address_to_original_
  BY DEF plugin
<1>2. get_original_instruction_address(pc)' = get_original_instruction_address(t)
  BY <1>1 DEF get_original_instruction_address
<1> QED
  BY <1>2 DEF Stutters, Depth

LEMMA InstrumentBlockMoments == Inv /\ Moments /\ InstrumentBlock => Moments'
<1> SUFFICES ASSUME Inv, Moments, InstrumentBlock PROVE Moments'
  OBVIOUS
<1>1. /\ todo # {} /\ UNCHANGED <<thread, history>>
      /\ patches_' = patches_ \cup {NextBlock} /\ leaders' = leaders \cup {NextBlock.start}
  BY DEF InstrumentBlock
<1>2. ~ready
  BY <1>1 DEF Inv, BlocksKept
<1>3. leaders' = {b.start : b \in patches_'}
  BY <1>1 DEF Moments
<1> QED
  BY <1>1, <1>2, <1>3, NoMoments

LEMMA PreparingMoments == Inv /\ Moments /\ (SkipBlock \/ Commit \/ GiveUp) => Moments'
<1> SUFFICES ASSUME Inv, Moments, SkipBlock \/ Commit \/ GiveUp PROVE Moments'
  OBVIOUS
<1>1. ~ready /\ UNCHANGED <<thread, history>> /\ patches_' = patches_ /\ leaders' = leaders
  BY DEF SkipBlock, Commit, GiveUp, Untouched, Inv, BlocksKept
<1>2. leaders' = {b.start : b \in patches_'}
  BY <1>1 DEF Moments
<1> QED
  BY <1>1, <1>2, NoMoments

LEMMA BeforeAgain ==
  ASSUME NEW v, NEW t, NEW u, NEW c, NEW d, Before(v, u, c, d),
         get_original_instruction_address(t) = get_original_instruction_address(u)
  PROVE  Before(v, t, c, d)
BY DEF Before

\* A patch is not in a stub.
LEMMA DetoursOutside ==
  ASSUME Inv, NEW t, InStub(t)
  PROVE  ~Detoured(t) /\ t # Exited
<1>1. ASSUME NEW b \in patches_ PROVE b.start # t
  <2>1. b.start \in DOMAIN program.code /\ program \in Programs
    BY AllBlocksAre DEF Inv, BlocksKept
  <2>2. b.start \in Nat /\ b.start < Region /\ Region \in Nat
    BY <2>1, Instructions
  <2> QED
    BY <2>2 DEF InStub
<1>2. Region \in Nat
  BY InstrumentationAssumption
<1> QED
  BY <1>1, <1>2 DEF Detoured, InStub, Exited

\* A patch's jump leads to the beginning of a stub.
LEMMA DetourLeads ==
  ASSUME Inv, Detour
  PROVE  /\ \E t \in Nat : pc' = t /\ InStub(t) /\ SlotAt(t).op = "push rax"
         /\ ~InStub(pc)
<1>1. /\ pc' = Region + (CHOOSE i \in 1..Len(code_) : code_[i] = Slot(Head(Prologue), pc))
      /\ Detoured(pc)
  BY DEF Detour
<1>2. \E i \in 1..Len(code_) : code_[i] = Slot("push rax", pc)
  BY <1>1 DEF Inv, StubsRun, Detoured
<1>3. Head(Prologue) = "push rax"
  BY DEF Prologue
<1>4. PICK i \in 1..Len(code_) : code_[i] = Slot("push rax", pc) /\ pc' = Region + i
  BY <1>1, <1>2, <1>3
<1>5. i \in Nat /\ Region \in Nat /\ Len(code_) \in Nat /\ i <= Len(code_) /\ 0 < i
  <2>1. Known(0)
    BY WhereIs DEF Inv
  <2> QED
    BY <2>1 DEF Known
<1>6. (Region + i) - Region = i
  BY <1>5
<1>7. code_[i].op = "push rax"
  BY <1>4, SlotIs
<1>8. SlotAt(Region + i).op = "push rax"
  BY <1>6, <1>7 DEF SlotAt
<1>9. Region < Region + i /\ Region + i <= Region + Len(code_) /\ Region + i \in Nat
  BY <1>5
<1>10. InStub(Region + i)
  BY <1>9 DEF InStub
<1> QED
  BY <1>1, <1>4, <1>8, <1>9, <1>10, DetoursOutside

LEMMA DetourMoments == Inv /\ Moments /\ Detour => Moments'
<1> SUFFICES ASSUME Inv, Moments, Detour PROVE Moments'
  OBVIOUS
<1>1. ready /\ UNCHANGED plugin /\ counter' = counter /\ visited' = visited
  BY DEF Detour, MayRun, Running, history
<1>2. PICK t \in Nat : pc' = t /\ InStub(t) /\ SlotAt(t).op = "push rax"
  BY DetourLeads
<1>3. ~CountedAt(t)
  BY <1>2 DEF CountedAt
<1>4. PICK d : d = Depth
  OBVIOUS
<1>5. PICK c : c = counter
  OBVIOUS
<1>6. PICK V : V = visited
  OBVIOUS
<1>7. Depth' = d
  BY <1>4, DetourInv DEF Stutters, Depth
<1>8. c \in Nat /\ V \in SUBSET (Nat \X Nat \X Nat) /\ Past(V, t, c, d)
  BY <1>3, <1>5, <1>6 DEF Moments, Past
<1> QED
  BY <1>1, <1>2, <1>5, <1>6, <1>7, <1>8, MomentsMove

LEMMA JumpBackMoments == Inv /\ Moments /\ JumpBack => Moments'
<1> SUFFICES ASSUME Inv, Moments, JumpBack PROVE Moments'
  OBVIOUS
<1>1. /\ ready /\ UNCHANGED plugin /\ counter' = counter /\ visited' = visited
      /\ InStub(pc) /\ SlotAt(pc).op = "jump back"
  BY DEF JumpBack, MayRun, Running, history
<1>2. CountedAt(pc)
  BY <1>1, DetoursOutside DEF CountedAt
<1>3. PICK t : t = pc'
  OBVIOUS
<1>4. Stutters
  BY JumpBackInv
<1>5. PICK d : d = Depth
  OBVIOUS
<1>6. PICK c : c = counter
  OBVIOUS
<1>7. PICK V : V = visited
  OBVIOUS
<1>8. Depth' = d /\ get_original_instruction_address(t) = get_original_instruction_address(pc)
  BY <1>1, <1>3, <1>4, <1>5, StutterAt
<1>9. c \in Nat /\ V \in SUBSET (Nat \X Nat \X Nat)
  BY <1>6, <1>7 DEF Moments
<1>10. Past(V, t, c, d)
  BY <1>2, <1>5, <1>6, <1>7, <1>8, BeforeAgain DEF Moments, Past
<1> QED
  BY <1>1, <1>3, <1>6, <1>7, <1>8, <1>9, <1>10, MomentsMove

LEMMA RunPrologueMoments == Inv /\ Moments /\ RunPrologue => Moments'
<1> SUFFICES ASSUME Inv, Moments, RunPrologue PROVE Moments'
  OBVIOUS
<1> DEFINE o == SlotAt(pc).op
<1>1. /\ ready /\ UNCHANGED plugin /\ visited' = visited /\ InStub(pc) /\ o \in Range(Prologue)
      /\ counter' = IF o = "count" THEN counter + 1 ELSE counter
      /\ pc' = IF o = "compare" /\ counter < target THEN pc + 2 ELSE pc + 1
  BY DEF RunPrologue, MayRun, Running, history
<1>2. pc \in Nat
  BY DEF Inv, ThreadSomewhere
<1>3. PICK t : t = pc'
  OBVIOUS
<1>4. PICK d : d = Depth
  OBVIOUS
<1>5. PICK c : c = counter'
  OBVIOUS
<1>6. PICK V : V = visited
  OBVIOUS
<1>7. Depth' = d /\ get_original_instruction_address(t) = get_original_instruction_address(pc)
  <2>1. Stutters
    BY RunPrologueInv
  <2> QED
    BY <1>1, <1>3, <1>4, <2>1, StutterAt
<1>8. c \in Nat /\ counter <= c /\ V \in SUBSET (Nat \X Nat \X Nat)
  <2>1. counter \in Nat /\ (c = counter \/ c = counter + 1)
    BY <1>1, <1>5 DEF Moments
  <2>2. c \in Nat /\ counter <= c
    BY <2>1
  <2> QED
    BY <1>6, <2>2 DEF Moments
<1>9. /\ o \in {"push rax", "save flags"} => ~CountedAt(t)
      /\ o = "count" => c = counter + 1
      /\ o \notin {"push rax", "save flags", "count"} => CountedAt(pc) /\ c = counter
  <2>1. o \in {"push rax", "save flags"} => ~CountedAt(t)
    <3>1. o \in {"push rax", "save flags"} => t = pc + 1
      BY <1>1, <1>3
    <3>2. InStub(pc + 1)
      BY <1>1, <1>2, PrologueGoesOn
    <3>3. o \in {"push rax", "save flags"} => SlotAt(pc + 1).op \in {"save flags", "count"}
      BY <1>1, <1>2, PrologueGoesOn
    <3> QED
      BY <3>1, <3>2, <3>3 DEF CountedAt
  <2>2. o \notin {"push rax", "save flags", "count"} => CountedAt(pc)
    BY <1>1, DetoursOutside DEF CountedAt
  <2> QED
    BY <1>1, <1>5, <2>1, <2>2
<1>10. Past(V, t, c, d)
  <2> SUFFICES ASSUME AllInstrumented, NEW v \in V
               PROVE  v[2] <= c /\ (CountedAt(t) => Before(v, t, c, d))
    BY DEF Past
  <2>1. v[2] <= counter /\ (CountedAt(pc) => Before(v, pc, counter, d))
    BY <1>4, <1>6 DEF Moments, Past
  <2>2. v[2] \in Nat /\ counter \in Nat
    BY <1>6 DEF Moments
  <2>3. v[2] <= c
    BY <1>8, <2>1, <2>2
  <2>4. CASE o \in {"push rax", "save flags"}
    BY <1>9, <2>3, <2>4
  <2>5. CASE o = "count"
    <3>1. v[2] < c
      <4>1. c = counter + 1
        BY <1>9, <2>5
      <4>2. v[2] <= counter
        BY <2>1
      <4> QED
        BY <2>2, <4>1, <4>2
    <3> QED
      BY <2>3, <3>1 DEF Before
  <2>6. CASE o \notin {"push rax", "save flags", "count"}
    BY <1>7, <1>9, <2>1, <2>3, <2>6, BeforeAgain
  <2> QED
    BY <2>4, <2>5, <2>6
<1> QED
  BY <1>1, <1>3, <1>5, <1>6, <1>7, <1>8, <1>10, MomentsMove

\* An instruction of the program is executed between increments.
LEMMA ExecutesCounted ==
  ASSUME Inv, NEW a \in DOMAIN program.code, Executes(a)
  PROVE  /\ CountedAt(pc) /\ get_original_instruction_address(pc) = a
         /\ Frames(stack, 0) /\ Depth = Len(stack) /\ Depth \in Nat
         /\ pc = a /\ ~Overwritten(a) => ~InStub(pc)
<1>1. pc \in Nat /\ Known(pc) /\ BlocksKept /\ program \in Programs
  BY WhereIs DEF Inv, ThreadSomewhere, BlocksKept
<1>2. a \in Nat /\ 0 < a /\ a < Region /\ a # Exited
  BY <1>1, Instructions DEF Exited
<1>3. pc = a => ~InStub(pc)
  BY <1>2, InstrumentationAssumption DEF InStub
<1>4. CountedAt(pc) /\ get_original_instruction_address(pc) = a /\ Frames(stack, 0)
  <2>1. CASE pc = a /\ ~Overwritten(a)
    <3>1. ~Detoured(pc)
      <4>1. \A b \in patches_ : b.start \in Displaced(program, b)
        BY <1>1, PatchIs DEF BlocksKept
      <4> QED
        BY <2>1, <4>1 DEF Detoured, Overwritten
    <3>2. CountedAt(pc)
      BY <1>2, <1>3, <2>1, <3>1 DEF CountedAt
    <3> QED
      BY <1>1, <1>3, <2>1, <3>2 DEF Known, Inv, ThreadSomewhere
  <2>2. CASE InStub(pc) /\ SlotAt(pc) = Slot("displaced", a)
    <3>1. SlotAt(pc).op = "displaced" /\ SlotAt(pc).address = a
      BY <2>2, SlotIs
    <3>2. CountedAt(pc)
      BY <2>2, <3>1, DetoursOutside DEF CountedAt
    <3> QED
      BY <1>1, <2>2, <3>1, <3>2, WordsAre DEF Known, Inv, ThreadSomewhere
  <2> QED
    BY <2>1, <2>2 DEF Executes
<1>5. ReturnAddresses(stack) = stack /\ stack \in Seq(Nat)
  BY <1>1, <1>4, FramesOnly DEF Frames
<1> QED
  BY <1>3, <1>4, <1>5 DEF Depth

\* Without a leader in between, an instruction is followed by one at a larger
\* address or by a return.
LEMMA ExecuteGoesForward ==
  ASSUME Inv, Moments, AllInstrumented, NEW a \in DOMAIN program.code, Execute(a)
  PROVE  /\ Depth' \in Nat /\ pc' \in Nat
         /\ CountedAt(pc') => \/ Depth' < Depth
                              \/ Depth' = Depth /\ a < get_original_instruction_address(pc')
<1>1. Executes(a)
  BY DEF Execute
<1>2. pc \in Nat /\ BlocksKept /\ program \in Programs /\ leaders = {b.start : b \in patches_}
  BY DEF Inv, ThreadSomewhere, BlocksKept, Moments
<1>3. /\ Frames(stack, 0) /\ Depth = Len(stack) /\ Depth \in Nat
      /\ pc = a /\ ~Overwritten(a) => ~InStub(pc)
  BY <1>1, ExecutesCounted
<1> DEFINE i == program.code[a]
           e == EndOf(program, a)
           named == IF i.target = Indirect THEN program.taken ELSE {i.target}
<1>4. a \in Nat /\ e \in Nat /\ a < e /\ i.category \in {"OTHER", "COND_BR", "UNCOND_BR", "CALL", "RET"}
  BY <1>2, Instructions
<1>5. CASE InStub(pc) /\ SlotAt(pc) = Slot("displaced", a)
  <2> DEFINE t == pc + 1
  <2>1. /\ t \in Nat /\ InStub(t) /\ SlotAt(t).address = e /\ i.category = "OTHER"
    BY <1>2, <1>5, MovedOn
  <2>2. pc' = t /\ stack' = stack
    BY <1>5, <2>1 DEF Execute
  <2> HIDE DEF t
  <2>3. get_original_instruction_address(t) = e
    <3>1. Known(t)
      BY <2>1, WhereIs DEF Inv
    <3> QED
      BY <2>1, <3>1 DEF Known
  <2>4. Depth' = Depth
    BY <2>2 DEF Depth
  <2> QED
    BY <1>3, <1>4, <2>1, <2>2, <2>3, <2>4
<1>6. CASE pc = a /\ ~Overwritten(a)
  <2>1. ~InStub(pc)
    BY <1>3, <1>6
  <2>2. /\ i.category = "OTHER" => pc' = e
        /\ i.category = "COND_BR" => pc' \in named \cup {e}
        /\ i.category \in {"UNCOND_BR", "CALL"} => pc' \in named
        /\ i.category = "RET" /\ stack = <<>> => pc' = Exited
        /\ i.category = "RET" /\ stack # <<>> => stack' = Front(stack)
        /\ i.category \notin {"CALL", "RET"} => stack' = stack
    BY <2>1 DEF Execute
  <2>3. PICK t \in Nat : pc' = t /\ Frames(stack', 0)
    BY <1>3, <1>6, <2>1, InPlaceLeads
  <2>4. Depth' = Len(stack') /\ Depth' \in Nat
    <3>1. ReturnAddresses(stack') = stack' /\ stack' \in Seq(Nat)
      BY <1>2, <2>3, FramesOnly DEF Frames
    <3> QED
      BY <3>1 DEF Depth
  <2>5. CASE pc' = e /\ i.category \in {"OTHER", "COND_BR"}
    <3>1. e \in DOMAIN program.code
      BY <1>2, <2>5, InFunction
    <3>2. e < Region /\ Region \in Nat
      BY <1>2, <3>1, Instructions
    <3>3. ~InStub(e)
      BY <1>4, <3>2 DEF InStub
    <3>4. Known(e)
      BY <1>4, WhereIs DEF Inv
    <3>5. get_original_instruction_address(e) = e
      BY <3>3, <3>4 DEF Known
    <3>6. Depth' = Depth
      BY <1>3, <2>2, <2>4, <2>5
    <3> QED
      BY <1>4, <2>4, <2>5, <3>5, <3>6
  <2>6. CASE i.category \notin {"OTHER", "RET"} /\ pc' \in named
    <3>1. Detoured(t)
      BY <1>2, <2>3, <2>6, NamedDetours
    <3> QED
      BY <2>3, <2>4, <3>1 DEF CountedAt
  <2>7. CASE i.category = "RET" /\ stack = <<>>
    BY <2>2, <2>3, <2>4, <2>7 DEF CountedAt
  <2>8. CASE i.category = "RET" /\ stack # <<>>
    <3>1. stack \in Seq(Nat) /\ stack' = Front(stack)
      BY <1>3, <2>2, <2>8 DEF Frames
    <3>2. Len(stack) \in Nat /\ Len(Front(stack)) = Len(stack) - 1
      BY <2>8, <3>1, FrontIs
    <3>3. Len(stack') = Len(stack) - 1
      BY <3>1, <3>2
    <3> QED
      BY <1>3, <2>3, <2>4, <3>2, <3>3
  <2> QED
    BY <1>4, <2>2, <2>5, <2>6, <2>7, <2>8
<1> QED
  BY <1>1, <1>5, <1>6 DEF Executes

LEMMA ExecuteMoments ==
  Inv /\ Moments /\ (\E a \in DOMAIN program.code : Execute(a)) => Moments'
<1> SUFFICES ASSUME Inv, Moments, NEW a \in DOMAIN program.code, Execute(a)
             PROVE  Moments'
  OBVIOUS
<1>1. /\ ready /\ UNCHANGED plugin /\ counter' = counter /\ Executes(a)
      /\ visited' = visited \cup {<<pc, counter, Depth>>}
  BY DEF Execute, MayRun, Running
<1>2. /\ CountedAt(pc) /\ get_original_instruction_address(pc) = a /\ Depth \in Nat
  BY <1>1, ExecutesCounted
<1>3. pc \in Nat /\ counter \in Nat /\ visited \subseteq Nat \X Nat \X Nat
  BY DEF Inv, ThreadSomewhere, Moments
<1>4. PICK t : t = pc'
  OBVIOUS
<1>5. PICK c : c = counter
  OBVIOUS
<1>6. PICK d : d = Depth
  OBVIOUS
<1>7. PICK n : n = Depth'
  OBVIOUS
<1>8. PICK V : V = visited \cup {<<pc, c, d>>}
  OBVIOUS
<1>9. c \in Nat /\ d \in Nat /\ V \in SUBSET (Nat \X Nat \X Nat)
  BY <1>2, <1>3, <1>5, <1>6, <1>8
<1>10. Past(V, t, c, n)
  <2> SUFFICES ASSUME AllInstrumented, NEW v \in V
               PROVE  v[2] <= c /\ (CountedAt(t) => Before(v, t, c, n))
    BY DEF Past
  <2> DEFINE o == get_original_instruction_address(v[1])
             q == get_original_instruction_address(t)
  <2>1. v \in Nat \X Nat \X Nat
    BY <1>9
  <2>2. v[2] \in Nat /\ v[3] \in Nat /\ v[1] \in Nat
    BY <2>1
  <2>3. t \in Nat /\ n \in Nat /\ (CountedAt(t) => n < d \/ (n = d /\ a < q))
    BY <1>4, <1>6, <1>7, ExecuteGoesForward
  <2>4. \A u \in Nat : get_original_instruction_address(u) \in Nat
    <3> SUFFICES ASSUME NEW u \in Nat PROVE get_original_instruction_address(u) \in Nat
      OBVIOUS
    <3>1. Known(u)
      BY WhereIs DEF Inv
    <3> QED
      BY <3>1 DEF Known, SlotType
  <2>5. o \in Nat /\ q \in Nat /\ a \in Nat
    BY <1>2, <1>3, <2>2, <2>3, <2>4
  <2>6. v[2] <= c /\ (v[2] < c \/ v[3] > d \/ (v[3] = d /\ o <= a))
    <3>1. CASE v \in visited
      <4>1. v[2] <= c /\ (v[2] < c \/ v[3] > d \/ (v[3] = d /\ o < a))
        BY <1>2, <1>5, <1>6, <3>1 DEF Moments, Past, Before
      <4> QED
        BY <2>5, <4>1
    <3>2. CASE v = <<pc, c, d>>
      <4>1. v[2] = c /\ v[3] = d /\ o = a
        BY <1>2, <3>2
      <4> QED
        BY <1>9, <2>5, <4>1
    <3> QED
      BY <1>8, <3>1, <3>2
  <2> HIDE DEF o, q
  <2>7. CountedAt(t) => v[2] < c \/ v[3] > n \/ (v[3] = n /\ o < q)
    BY <1>9, <2>2, <2>3, <2>5, <2>6
  <2> QED
    BY <2>6, <2>7 DEF Before, o, q
<1> QED
  BY <1>1, <1>4, <1>5, <1>6, <1>7, <1>8, <1>9, <1>10, MomentsMove

LEMMA StepMoments == Inv /\ Moments /\ [Next]_vars => Moments'
<1> SUFFICES ASSUME Inv, Moments, [Next]_vars PROVE Moments'
  OBVIOUS
<1>1. CASE InstrumentBlock
  BY <1>1, InstrumentBlockMoments
<1>2. CASE SkipBlock \/ Commit \/ GiveUp
  BY <1>2, PreparingMoments
<1>3. CASE Detour
  BY <1>3, DetourMoments
<1>4. CASE RunPrologue
  BY <1>4, RunPrologueMoments
<1>5. CASE JumpBack
  BY <1>5, JumpBackMoments
<1>6. CASE \E a \in DOMAIN program.code : Execute(a)
  BY <1>6, ExecuteMoments
<1>7. CASE \E mode \in {"Line", "Into"} : BeginStep(mode)
  BY <1>7, MomentsKept DEF BeginStep
<1>8. CASE EndStep
  BY <1>8, MomentsKept DEF EndStep
<1>9. CASE UNCHANGED vars
  BY <1>9, MomentsKept DEF vars
<1> QED
  BY <1>1, <1>2, <1>3, <1>4, <1>5, <1>6, <1>7, <1>8, <1>9 DEF Next

\* Where every block has its stub, no instruction is executed twice with the
\* same count and in frames equally deep.
THEOREM CountsTellMoments == Spec => []MomentsAreUnique
<1>1. Init => Moments
  <2> SUFFICES ASSUME Init PROVE Moments
    OBVIOUS
  <2>1. visited = {} /\ leaders = {} /\ patches_ = {} /\ counter = 0
    BY DEF Init
  <2> QED
    BY <2>1 DEF Moments, Past
<1>2. Inv /\ Moments => MomentsAreUnique
  <2> SUFFICES ASSUME Inv, Moments, AllInstrumented, NEW a \in DOMAIN program.code, Executes(a),
                      <<pc, counter, Depth>> \in visited
               PROVE  FALSE
    BY DEF MomentsAreUnique, AllInstrumented
  <2>1. CountedAt(pc) /\ Depth \in Nat /\ get_original_instruction_address(pc) = a
    BY ExecutesCounted
  <2>2. PICK v \in visited : v = <<pc, counter, Depth>>
    OBVIOUS
  <2>3. Before(v, pc, counter, Depth)
    BY <2>1 DEF Moments, Past
  <2>4. v[1] = pc /\ v[2] = counter /\ v[3] = Depth /\ counter \in Nat
    BY <2>2 DEF Moments
  <2>5. program \in Programs
    BY DEF Inv, BlocksKept
  <2>6. a \in Nat
    BY <2>5, Instructions
  <2> QED
    BY <2>1, <2>3, <2>4, <2>6 DEF Before
<1>3. Inv /\ Moments /\ [Next]_vars => Moments'
  BY StepMoments
<1> QED
  BY <1>1, <1>2, <1>3, InvAlways, PTL DEF Spec

----------------------------------------------------------------------------
(* The predecessors of an instruction.                                     *)

\* The instructions that were moved, and where to.
Remaps ==
    /\ \A a \in DOMAIN instruction_remap_ : Overwritten(a)
    /\ \A i \in 1..Len(code_) : code_[i].op = "displaced" =>
          /\ code_[i].address \in DOMAIN instruction_remap_
          /\ instruction_remap_[code_[i].address] = Region + i

\* Where the block being entered has been counted already.
Increments(t) ==
    IF /\ InStub(t)
       /\ \/ SlotAt(t).op \in {"push rcx", "compare", "int3", "pop rcx", "restore flags", "pop rax"}
          \/ SlotAt(t).op = "displaced" /\ SlotAt(t).address \in leaders
    THEN 1 ELSE 0

\* The instruction executed at v leads directly to a thread at t, with count c.
LedTo(v, t, c) ==
    LET s == get_original_instruction_address(v.address)
        o == get_original_instruction_address(t)
        i == program.code[s]
    IN  /\ s \in DOMAIN program.code
        /\ v.address = get_true_instruction_address(s)
        /\ \/ i.category \in {"OTHER", "COND_BR"} /\ o = EndOf(program, s)
           \/ i.category # "OTHER" /\ i.target # Indirect /\ o = i.target
        /\ v.counter \in Nat /\ c = v.counter + Increments(t)

Led ==
    /\ analysis # {} => analysis = program.functions
    /\ Remaps
    /\ ~ready => ~prev.direct
    /\ prev.direct => LedTo(prev, pc, counter)

LEMMA MovedOnce ==
  ASSUME NEW p \in Programs, NEW b \in AllBlocks(p), CanInstrument(p, b),
         NEW i \in 1..Len(Stub(p, b)), Stub(p, b)[i].op = "displaced"
  PROVE  /\ Stub(p, b)[i].address \in Displaced(p, b)
         /\ \A j \in 1..Len(Stub(p, b)) :
               Stub(p, b)[j].op = "displaced" /\ Stub(p, b)[j].address = Stub(p, b)[i].address
                  => j = i
<1> DEFINE n == Cardinality(Displaced(p, b))
           d == InOrder(Displaced(p, b))
           s == Stub(p, b)
<1>1. /\ n \in Nat /\ \A k \in 1..n : d[k] \in Displaced(p, b)
      /\ \A k, l \in 1..n : d[k] = d[l] => k = l
  BY MovedInOrder
<1>2. /\ Len(s) = n + 10
      /\ \A k \in 1..9 : s[k] = Slot(Prologue[k], b.start)
      /\ \A k \in 1..n : s[k + 9] = Slot("displaced", d[k])
      /\ s[n + 10] = Slot("jump back", PatchEnd(p, b))
  BY StubIs
<1> HIDE DEF n, d, s
<1>3. \A k \in 1..9 : s[k].op # "displaced"
  <2>1. \A k \in 1..9 : Prologue[k] # "displaced"
    <3>1. \A k \in {1, 2, 3, 4, 5, 6, 7, 8, 9} : Prologue[k] # "displaced"
      BY PrologueIs, Zenon
    <3> QED
      BY <3>1, PrologueIs, Zenon
  <2> TAKE k \in 1..9
  <2>2. s[k].op = Prologue[k]
    <3>1. s[k] = Slot(Prologue[k], b.start)
      BY <1>2
    <3>2. Slot(Prologue[k], b.start).op = Prologue[k]
      BY SlotIs, Zenon
    <3> QED
      BY <3>1, <3>2
  <2> QED
    BY <2>1, <2>2
<1>4. s[n + 10].op # "displaced"
  <2>1. s[n + 10] = Slot("jump back", PatchEnd(p, b))
    BY <1>2
  <2>2. s[n + 10].op = "jump back"
    BY <2>1, SlotIs
  <2> QED
    BY <2>2
<1>5. \A k \in 1..n : s[k + 9].address = d[k]
  <2> TAKE k \in 1..n
  <2>1. s[k + 9] = Slot("displaced", d[k])
    BY <1>2
  <2> QED
    BY <2>1, SlotIs
<1>6. \A k \in 1..(n + 10) : k \in 1..9 \/ k = n + 10 \/ (k - 9 \in 1..n /\ k = (k - 9) + 9)
  BY <1>1
<1>7. \A k \in 1..Len(s) : s[k].op = "displaced" => k - 9 \in 1..n /\ k = (k - 9) + 9 /\ s[k].address = d[k - 9]
  <2> SUFFICES ASSUME NEW k \in 1..Len(s), s[k].op = "displaced"
               PROVE  k - 9 \in 1..n /\ k = (k - 9) + 9 /\ s[k].address = d[k - 9]
    OBVIOUS
  <2>0. Len(s) = n + 10
    BY <1>2
  <2>1. k - 9 \in 1..n /\ k = (k - 9) + 9
    BY <2>0, <1>3, <1>4, <1>6
  <2>2. s[(k - 9) + 9].address = d[k - 9]
    BY <1>5, <2>1
  <2> QED
    BY <2>1, <2>2
<1>8. i \in 1..Len(s) /\ s[i].op = "displaced"
  BY DEF s
<1>9. s[i].address \in Displaced(p, b)
  BY <1>1, <1>7, <1>8
<1>10. ASSUME NEW j \in 1..Len(s), s[j].op = "displaced", s[j].address = s[i].address
       PROVE  j = i
  <2>1. j - 9 = i - 9
    BY <1>1, <1>7, <1>8, <1>10
  <2>2. j \in Nat /\ i \in Nat
    BY <1>10
  <2> QED
    BY <2>1, <2>2
<1>11. \A j \in 1..Len(s) : s[j].op = "displaced" /\ s[j].address = s[i].address => j = i
  BY <1>10
<1> QED
  BY <1>9, <1>11, Zenon DEF s

LEMMA LedKept ==
  ASSUME Led, UNCHANGED <<plugin, thread, history>>
  PROVE  Led'
<1>1. Remaps'
  BY DEF Led, Remaps, Overwritten, plugin
<1>2. prev.direct' => LedTo(prev, pc, counter)'
  BY DEF Led, LedTo, Increments, InStub, SlotAt, get_original_instruction_address,
         get_true_instruction_address, Translate, plugin, thread, history
<1> QED
  BY <1>1, <1>2 DEF Led, plugin, history

\* A step of the thread, seen from the moment it leads to.
LEMMA LedMove ==
  ASSUME Led, ready, UNCHANGED plugin, NEW t, pc' = t, NEW c, counter' = c, NEW v, prev' = v,
         v.direct => LedTo(v, t, c)
  PROVE  Led'
<1>1. UNCHANGED <<program, ready, analysis, leaders, patches_, code_, instruction_remap_,
                  instruction_address_to_original_>>
  BY DEF plugin
<1>2. Remaps'
  BY <1>1 DEF Led, Remaps, Overwritten
<1>3. LedTo(v, t, c)' <=> LedTo(v, t, c)
  BY <1>1 DEF LedTo, Increments, InStub, SlotAt, get_original_instruction_address,
              get_true_instruction_address, Translate
<1>4. prev.direct' => LedTo(prev, pc, counter)'
  BY <1>3
<1> QED
  BY <1>1, <1>2, <1>4 DEF Led

LEMMA PreparingLed == Led /\ Inv /\ (SkipBlock \/ Commit \/ GiveUp) => Led'
<1> SUFFICES ASSUME Led, Inv, SkipBlock \/ Commit \/ GiveUp PROVE Led'
  OBVIOUS
<1>1. /\ ~ready /\ prev' = prev
      /\ UNCHANGED <<program, patches_, code_, instruction_remap_>>
      /\ analysis' = analysis \/ analysis' = program.functions
  BY DEF SkipBlock, Commit, GiveUp, Untouched, Inv, BlocksKept, history
<1>2. Remaps'
  BY <1>1 DEF Led, Remaps, Overwritten
<1> QED
  BY <1>1, <1>2 DEF Led

LEMMA InstrumentBlockLed == Led /\ Inv /\ InstrumentBlock => Led'
<1> SUFFICES ASSUME Led, Inv, InstrumentBlock PROVE Led'
  OBVIOUS
<1> DEFINE b == NextBlock
           stub == Stub(program, b)
           L == Len(code_)
           moved == {i \in 1..Len(stub) : stub[i].op = "displaced"}
           g == [a \in {stub[i].address : i \in moved} |->
                    NewAddress(CHOOSE i \in moved : stub[i].address = a)]
<1>1. /\ todo # {} /\ patches_' = patches_ \cup {b} /\ program' = program /\ ready' = ready
      /\ analysis' = analysis /\ prev' = prev /\ CanInstrument(program, b)
      /\ code_' = code_ \o stub
      /\ instruction_remap_' = Override(instruction_remap_, g)
  BY DEF InstrumentBlock, history
<1>2. b \in todo /\ b \in AllBlocks(program) /\ program \in Programs
  BY <1>1, NextBlockIs DEF Inv, BlocksKept
<1>3. ~ready
  BY <1>1 DEF Inv, BlocksKept
<1>4. /\ stub \in Seq(SlotType) /\ code_ \in Seq(SlotType) /\ L \in Nat /\ Region \in Nat
      /\ Len(stub) \in Nat
  <2>1. stub \in Seq(SlotType)
    BY InstrumentBlockTables
  <2>2. code_ \in Seq(SlotType)
    BY DEF Inv, StubsRun, Runs
  <2> QED
    BY <2>1, <2>2, InstrumentationAssumption, LenProperties
<1>5. \A i \in moved : stub[i].address \in Displaced(program, b) /\ \A j \in moved :
        stub[j].address = stub[i].address => j = i
  BY <1>1, <1>2, MovedOnce
<1>6. \A i : NewAddress(i) = Region + L + i
  BY DEF NewAddress
<1> HIDE DEF b, stub, L
<1>7. DOMAIN g = {stub[i].address : i \in moved}
  OBVIOUS
<1>8. ASSUME NEW i \in moved PROVE g[stub[i].address] = Region + L + i
  <2>1. stub[i].address \in {stub[j].address : j \in moved}
    OBVIOUS
  <2>2. g[stub[i].address] = NewAddress(CHOOSE j \in moved : stub[j].address = stub[i].address)
    BY <2>1
  <2>3. (CHOOSE j \in moved : stub[j].address = stub[i].address) = i
    BY <1>5
  <2> QED
    BY <1>6, <2>2, <2>3
<1> HIDE DEF g
<1>9. /\ DOMAIN instruction_remap_' = DOMAIN instruction_remap_ \cup DOMAIN g
      /\ \A x \in DOMAIN g : instruction_remap_'[x] = g[x]
      /\ \A x \in DOMAIN instruction_remap_ : x \notin DOMAIN g => instruction_remap_'[x] = instruction_remap_[x]
  <2>1. instruction_remap_' = Override(instruction_remap_, g)
    BY <1>1
  <2> DEFINE h == Override(instruction_remap_, g)
  <2>2. /\ DOMAIN h = DOMAIN instruction_remap_ \cup DOMAIN g
        /\ \A x \in DOMAIN g : h[x] = g[x]
        /\ \A x \in DOMAIN instruction_remap_ : x \notin DOMAIN g => h[x] = instruction_remap_[x]
    BY OverrideIs
  <2>3. instruction_remap_' = h
    BY <2>1
  <2> HIDE DEF h
  <2> QED
    BY <2>2, <2>3
<1>10. \A a \in DOMAIN instruction_remap_' : Overwritten(a)'
  <2>1. \A a \in DOMAIN g : \E c \in patches_' : a \in Displaced(program, c)
    BY <1>1, <1>5, <1>7
  <2>2. \A a \in DOMAIN instruction_remap_ : \E c \in patches_' : a \in Displaced(program, c)
    BY <1>1 DEF Led, Remaps, Overwritten
  <2> QED
    BY <1>1, <1>9, <2>1, <2>2 DEF Overwritten
<1>11. \A x : (\E c \in patches_ : x \in Displaced(program, c)) => x \notin DOMAIN g
  <2> SUFFICES ASSUME NEW c \in patches_, NEW x \in Displaced(program, c), x \in DOMAIN g
               PROVE  FALSE
    OBVIOUS
  <2>1. x \in Displaced(program, b)
    BY <1>5, <1>7
  <2>2. c \in AllBlocks(program) /\ CanInstrument(program, c) /\ c # b
    BY <1>2 DEF Inv, BlocksKept
  <2>3. /\ b.start <= x /\ x < b.end /\ c.start <= x /\ x < c.end /\ x \in Nat
        /\ b.start \in Nat /\ b.end \in Nat /\ c.start \in Nat /\ c.end \in Nat
    BY <1>1, <1>2, <2>1, <2>2, PatchIs, AllBlocksAre
  <2>4. b.end <= c.start \/ c.end <= b.start
    BY <1>2, <2>2, BlocksApart
  <2> QED
    BY <2>3, <2>4
<1>12. ASSUME NEW i \in 1..Len(code_'), code_'[i].op = "displaced"
       PROVE  /\ code_'[i].address \in DOMAIN instruction_remap_'
              /\ instruction_remap_'[code_'[i].address] = Region + i
  <2>1. /\ Len(code_') = L + Len(stub)
        /\ \A k \in 1..L : code_'[k] = code_[k]
        /\ \A k \in 1..Len(stub) : code_'[L + k] = stub[k]
    <3>1. code_ \in Seq(SlotType) /\ stub \in Seq(SlotType)
      BY <1>4
    <3>2. code_' = code_ \o stub
      BY <1>1
    <3> QED
      BY <3>1, <3>2, Joined DEF L
  <2>2. i \in 1..L \/ (i - L \in 1..Len(stub) /\ i = L + (i - L))
    <3>1. i \in 1..(L + Len(stub))
      BY <2>1, <1>12
    <3> QED
      BY <1>4, <3>1
  <2>3. CASE i \in 1..L
    <3>1. code_'[i] = code_[i] /\ i \in 1..Len(code_)
      BY <2>1, <2>3 DEF L
    <3>2. /\ code_[i].op = "displaced"
          /\ code_[i].address \in DOMAIN instruction_remap_
          /\ instruction_remap_[code_[i].address] = Region + i
      BY <1>12, <3>1 DEF Led, Remaps
    <3>3. code_[i].address \notin DOMAIN g
      BY <1>11, <3>2 DEF Led, Remaps, Overwritten
    <3> QED
      BY <1>9, <3>1, <3>2, <3>3
  <2>4. CASE i - L \in 1..Len(stub) /\ i = L + (i - L)
    <3> DEFINE k == i - L
    <3>1. k \in 1..Len(stub) /\ i = L + k
      BY <2>4
    <3>i. i \in Nat
      BY <1>12
    <3> HIDE DEF k
    <3>2. code_'[i] = stub[k]
      BY <2>1, <3>1
    <3>3. k \in moved
      BY <1>12, <3>1, <3>2
    <3>4. stub[k].address \in DOMAIN g /\ g[stub[k].address] = Region + L + k
      BY <1>7, <1>8, <3>3
    <3>5. Region + L + k = Region + i
      BY <1>4, <3>1
    <3> QED
      BY <1>9, <3>2, <3>4, <3>5
  <2> QED
    BY <2>2, <2>3, <2>4
<1>13. Remaps'
  BY <1>10, <1>12 DEF Remaps
<1> QED
  BY <1>1, <1>3, <1>13 DEF Led

\* A slot of a prologue is that of a leader.
LEMMA PrologueOfLeader ==
  ASSUME Inv, leaders = {b.start : b \in patches_}, NEW t \in Nat, InStub(t),
         SlotAt(t).op \in Range(Prologue)
  PROVE  SlotAt(t).address \in leaders
<1>1. Known(t)
  BY WhereIs DEF Inv
<1> DEFINE i == t - Region
<1>2. i \in 1..Len(code_) /\ SlotAt(t) = code_[i]
  BY <1>1 DEF Known, SlotAt
<1>3. Follows(program, patches_, code_, i)
  BY <1>2 DEF Inv, StubsRun, Runs
<1>4. SlotAt(t).op \notin {"displaced", "jump back"}
  BY PrologueOps
<1> QED
  BY <1>2, <1>3, <1>4 DEF Follows

\* The first instruction of a patch follows the prologue of its stub, in no
\* other place.
LEMMA LeaderFollowsPrologue ==
  ASSUME Inv, Remaps, NEW t \in Nat, InStub(t), InStub(t + 1),
         SlotAt(t + 1).op = "displaced", NEW b \in patches_, SlotAt(t + 1).address = b.start
  PROVE  SlotAt(t).op = "pop rax"
<1>1. PICK j \in 1..Len(code_) : code_[j] = Slot("push rax", b.start)
  BY DEF Inv, StubsRun
<1>2. Region \in Nat /\ Len(code_) \in Nat
  <2>1. Known(t)
    BY WhereIs DEF Inv
  <2> QED
    BY <2>1 DEF Known
<1>3. PICK u \in Nat : InStub(u) /\ SlotAt(u).op = "push rax" /\ SlotAt(u).address = b.start
  <2>1. (Region + j) - Region = j /\ Region + j \in Nat /\ Region < Region + j
        /\ Region + j <= Region + Len(code_)
    BY <1>2
  <2>2. code_[j].op = "push rax" /\ code_[j].address = b.start
    <3> DEFINE x == code_[j]
               c == b.start
    <3>1. x = Slot("push rax", c)
      BY <1>1
    <3> HIDE DEF x, c
    <3>2. x.op = "push rax" /\ x.address = c
      BY <3>1, SlotIs
    <3> QED
      BY <3>2 DEF x, c
  <2>3. InStub(Region + j) /\ SlotAt(Region + j) = code_[j]
    BY <2>1 DEF InStub, SlotAt
  <2> QED
    BY <2>1, <2>2, <2>3
<1> DEFINE At(v, op) == v \in Nat /\ InStub(v) /\ SlotAt(v).op = op /\ SlotAt(v).address = b.start
<1>4. /\ "push rax" \in Range(Prologue) /\ "save flags" \in Range(Prologue)
      /\ "count" \in Range(Prologue) /\ "push rcx" \in Range(Prologue)
      /\ "compare" \in Range(Prologue) /\ "int3" \in Range(Prologue)
      /\ "pop rcx" \in Range(Prologue) /\ "restore flags" \in Range(Prologue)
      /\ "pop rax" \in Range(Prologue)
  BY PrologueOps
<1>5. ASSUME NEW v, NEW o \in Range(Prologue), At(v, o)
      PROVE  /\ o = "push rax" => At(v + 1, "save flags")
             /\ o = "save flags" => At(v + 1, "count")
             /\ o = "count" => At(v + 1, "push rcx")
             /\ o = "push rcx" => At(v + 1, "compare")
             /\ o = "compare" => At(v + 1, "int3")
             /\ o = "int3" => At(v + 1, "pop rcx")
             /\ o = "pop rcx" => At(v + 1, "restore flags")
             /\ o = "restore flags" => At(v + 1, "pop rax")
             /\ o = "pop rax" => At(v + 1, "displaced")
  BY <1>5, PrologueGoesOn
<1>6. At(u, "push rax")
  BY <1>3
<1> HIDE DEF At
<1>p1. PICK u1 : At(u1, "save flags")
  BY <1>4, <1>5, <1>6
<1>p2. PICK u2 : At(u2, "count")
  BY <1>4, <1>5, <1>p1
<1>p3. PICK u3 : At(u3, "push rcx")
  BY <1>4, <1>5, <1>p2
<1>p4. PICK u4 : At(u4, "compare")
  BY <1>4, <1>5, <1>p3
<1>p5. PICK u5 : At(u5, "int3")
  BY <1>4, <1>5, <1>p4
<1>p6. PICK u6 : At(u6, "pop rcx")
  BY <1>4, <1>5, <1>p5
<1>p7. PICK u7 : At(u7, "restore flags")
  BY <1>4, <1>5, <1>p6
<1>p8. PICK u8 : At(u8, "pop rax")
  BY <1>4, <1>5, <1>p7
<1>12. u8 \in Nat /\ SlotAt(u8).op = "pop rax"
  BY <1>p8 DEF At
<1>13. \A v \in Nat : At(v, "displaced") => instruction_remap_[b.start] = v
  <2> SUFFICES ASSUME NEW v \in Nat, At(v, "displaced")
               PROVE  instruction_remap_[b.start] = v
    OBVIOUS
  <2>1. v - Region \in 1..Len(code_) /\ SlotAt(v) = code_[v - Region]
    <3>1. Known(v)
      BY WhereIs DEF Inv
    <3> QED
      BY <3>1 DEF Known, SlotAt, At
  <2>2. instruction_remap_[b.start] = Region + (v - Region)
    BY <2>1 DEF Remaps, At
  <2> QED
    BY <1>2, <2>2
<1>14. t + 1 = u8 + 1
  <2>1. t + 1 \in Nat /\ At(t + 1, "displaced")
    BY DEF At
  <2>2. instruction_remap_[b.start] = t + 1
    BY <1>13, <2>1
  <2>3. At(u8 + 1, "displaced") /\ u8 + 1 \in Nat
    <3>1. u8 \in Nat
      BY <1>12
    <3>2. u8 + 1 \in Nat
      BY <3>1
    <3>3. At(u8 + 1, "displaced")
      BY <1>4, <1>5, <1>p8
    <3> QED
      BY <3>2, <3>3
  <2>4. instruction_remap_[b.start] = u8 + 1
    BY <1>13, <2>3
  <2> QED
    BY <2>2, <2>4
<1>15. t = u8
  <2>1. u8 \in Nat
    BY <1>12
  <2> QED
    BY <1>14, <2>1
<1> QED
  BY <1>12, <1>15

LEMMA LedAgain ==
  ASSUME NEW v, NEW t, NEW u, NEW c, NEW e, LedTo(v, u, c),
         get_original_instruction_address(t) = get_original_instruction_address(u),
         e = v.counter + Increments(t)
  PROVE  LedTo(v, t, e)
BY DEF LedTo

LEMMA DetourLed == Inv /\ Led /\ Detour => Led'
<1> SUFFICES ASSUME Inv, Led, Detour PROVE Led'
  OBVIOUS
<1>1. ready /\ UNCHANGED plugin /\ counter' = counter /\ prev' = prev
  BY DEF Detour, MayRun, Running, history
<1>2. PICK t \in Nat : pc' = t /\ InStub(t) /\ SlotAt(t).op = "push rax"
  BY DetourLeads
<1>3. Increments(t) = 0 /\ Increments(pc) = 0
  BY <1>2, DetourLeads DEF Increments
<1>4. PICK c : c = counter
  OBVIOUS
<1>5. PICK v : v = prev
  OBVIOUS
<1>6. get_original_instruction_address(t) = get_original_instruction_address(pc)
  BY <1>1, <1>2, DetourInv, StutterAt
<1>7. ASSUME v.direct PROVE LedTo(v, t, c)
  <2>1. LedTo(v, pc, c)
    BY <1>4, <1>5, <1>7 DEF Led
  <2>2. c = v.counter + Increments(t)
    BY <1>3, <2>1 DEF LedTo
  <2> QED
    BY <1>6, <2>1, <2>2, LedAgain
<1> QED
  BY <1>1, <1>2, <1>4, <1>5, <1>7, LedMove

LEMMA JumpBackLed == Inv /\ Led /\ JumpBack => Led'
<1> SUFFICES ASSUME Inv, Led, JumpBack PROVE Led'
  OBVIOUS
<1>1. /\ ready /\ UNCHANGED plugin /\ counter' = counter /\ prev' = prev
      /\ InStub(pc) /\ SlotAt(pc).op = "jump back" /\ pc' = SlotAt(pc).address
  BY DEF JumpBack, MayRun, Running, history
<1>2. PICK t : t = pc'
  OBVIOUS
<1>3. Increments(pc) = 0
  BY <1>1 DEF Increments
<1>4. Increments(t) = 0
  <2>1. pc \in Nat /\ Known(pc)
    BY WhereIs DEF Inv, ThreadSomewhere
  <2>2. PICK b \in patches_ : t = PatchEnd(program, b)
    <3>1. pc - Region \in 1..Len(code_) /\ SlotAt(pc) = code_[pc - Region]
      BY <1>1, <2>1 DEF Known, SlotAt
    <3>2. Follows(program, patches_, code_, pc - Region)
      BY <3>1 DEF Inv, StubsRun, Runs
    <3> QED
      BY <1>1, <1>2, <3>1, <3>2 DEF Follows
  <2>3. program \in Programs /\ b \in AllBlocks(program) /\ CanInstrument(program, b)
    BY DEF Inv, BlocksKept
  <2>4. PICK a \in Displaced(program, b) : a \in DOMAIN program.code /\ EndOf(program, a) = t
    BY <2>2, <2>3, MovedEnds
  <2>5. t \in Nat /\ t < Region /\ Region \in Nat
    BY <2>3, <2>4, Instructions
  <2>6. ~InStub(t)
    BY <2>5 DEF InStub
  <2> QED
    BY <2>6 DEF Increments
<1>5. PICK c : c = counter
  OBVIOUS
<1>6. PICK v : v = prev
  OBVIOUS
<1>7. get_original_instruction_address(t) = get_original_instruction_address(pc)
  BY <1>1, <1>2, JumpBackInv, StutterAt
<1>8. ASSUME v.direct PROVE LedTo(v, t, c)
  <2>1. LedTo(v, pc, c)
    BY <1>5, <1>6, <1>8 DEF Led
  <2>2. c = v.counter + Increments(t)
    BY <1>3, <1>4, <2>1 DEF LedTo
  <2> QED
    BY <1>7, <2>1, <2>2, LedAgain
<1> QED
  BY <1>1, <1>2, <1>5, <1>6, <1>8, LedMove

LEMMA RunPrologueLed ==
  Inv /\ Led /\ leaders = {b.start : b \in patches_} /\ RunPrologue => Led'
<1> SUFFICES ASSUME Inv, Led, leaders = {b.start : b \in patches_}, RunPrologue PROVE Led'
  OBVIOUS
<1> DEFINE o == SlotAt(pc).op
<1>1. /\ ready /\ UNCHANGED plugin /\ prev' = prev /\ InStub(pc) /\ o \in Range(Prologue)
      /\ counter' = IF o = "count" THEN counter + 1 ELSE counter
  BY DEF RunPrologue, MayRun, Running, history
<1>2. PICK t \in Nat :
        /\ pc' = t /\ InStub(t) /\ SlotAt(t).address = SlotAt(pc).address
        /\ o = "push rax" => SlotAt(t).op = "save flags"
        /\ o = "save flags" => SlotAt(t).op = "count"
        /\ o = "count" => SlotAt(t).op = "push rcx"
        /\ o = "push rcx" => SlotAt(t).op = "compare"
        /\ o = "compare" => SlotAt(t).op \in {"int3", "pop rcx"}
        /\ o = "int3" => SlotAt(t).op = "pop rcx"
        /\ o = "pop rcx" => SlotAt(t).op = "restore flags"
        /\ o = "restore flags" => SlotAt(t).op = "pop rax"
        /\ o = "pop rax" => SlotAt(t).op = "displaced"
  BY RunPrologueLeads
<1>3. SlotAt(t).address \in leaders
  <2>1. pc \in Nat
    BY DEF Inv, ThreadSomewhere
  <2> QED
    BY <1>1, <1>2, <2>1, PrologueOfLeader
<1>4. PICK c : c = counter'
  OBVIOUS
<1>5. PICK v : v = prev
  OBVIOUS
<1>6. get_original_instruction_address(t) = get_original_instruction_address(pc)
  BY <1>1, <1>2, RunPrologueInv, StutterAt
<1>7. /\ o \in {"push rax", "save flags"} => Increments(pc) = 0 /\ Increments(t) = 0
      /\ o = "count" => Increments(pc) = 0 /\ Increments(t) = 1
      /\ o \notin {"push rax", "save flags", "count"} => Increments(pc) = 1 /\ Increments(t) = 1
  <2>1. \A u : InStub(u) /\ SlotAt(u).op \in {"push rax", "save flags", "count"} => Increments(u) = 0
    BY DEF Increments
  <2>2. \A u : InStub(u) /\ SlotAt(u).op \in {"push rcx", "compare", "int3", "pop rcx", "restore flags", "pop rax"}
            => Increments(u) = 1
    BY DEF Increments
  <2>3. o = "pop rax" => Increments(t) = 1
    BY <1>2, <1>3 DEF Increments
  <2>4. o \in {"push rax", "save flags"} => Increments(pc) = 0 /\ Increments(t) = 0
    BY <1>1, <1>2, <2>1
  <2>5. o = "count" => Increments(pc) = 0 /\ Increments(t) = 1
    BY <1>1, <1>2, <2>1, <2>2
  <2>6. o \in {"push rcx", "compare", "int3", "pop rcx", "restore flags"} => Increments(pc) = 1 /\ Increments(t) = 1
    BY <1>1, <1>2, <2>2
  <2>7. o = "pop rax" => Increments(pc) = 1
    BY <1>1, <2>2
  <2> QED
    BY <1>1, <2>3, <2>4, <2>5, <2>6, <2>7, PrologueOps
<1>8. ASSUME v.direct PROVE LedTo(v, t, c)
  <2>1. LedTo(v, pc, counter)
    BY <1>5, <1>8 DEF Led
  <2>2. v.counter \in Nat /\ counter = v.counter + Increments(pc)
    BY <2>1 DEF LedTo
  <2>3. c = v.counter + Increments(t)
    <3>1. CASE o \in {"push rax", "save flags"}
      BY <1>1, <1>4, <1>7, <2>2, <3>1
    <3>2. CASE o = "count"
      <4>1. c = counter + 1 /\ Increments(pc) = 0 /\ Increments(t) = 1
        BY <1>1, <1>4, <1>7, <3>2
      <4> QED
        BY <2>2, <4>1
    <3>3. CASE o \notin {"push rax", "save flags", "count"}
      BY <1>1, <1>4, <1>7, <2>2, <3>3
    <3> QED
      BY <3>1, <3>2, <3>3
  <2> QED
    BY <1>6, <2>1, <2>3, LedAgain
<1> QED
  BY <1>1, <1>2, <1>4, <1>5, <1>8, LedMove

\* An instruction of the program is executed where the plugin says it is.
LEMMA ExecutesAt ==
  ASSUME Inv, Remaps, NEW a \in DOMAIN program.code, Executes(a)
  PROVE  pc = get_true_instruction_address(a)
<1>1. CASE InStub(pc) /\ SlotAt(pc) = Slot("displaced", a)
  <2>1. pc \in Nat /\ Known(pc)
    BY WhereIs DEF Inv, ThreadSomewhere
  <2>2. pc - Region \in 1..Len(code_) /\ SlotAt(pc) = code_[pc - Region] /\ Region \in Nat
    BY <1>1, <2>1 DEF Known, SlotAt
  <2>3. SlotAt(pc).op = "displaced" /\ SlotAt(pc).address = a
    BY <1>1, SlotIs
  <2>4. a \in DOMAIN instruction_remap_ /\ instruction_remap_[a] = Region + (pc - Region)
    BY <2>2, <2>3 DEF Remaps
  <2>5. Region + (pc - Region) = pc
    BY <2>1, <2>2
  <2> QED
    BY <2>4, <2>5 DEF get_true_instruction_address, Translate
<1>2. CASE pc = a /\ ~Overwritten(a)
  BY <1>2 DEF get_true_instruction_address, Translate, Remaps
<1> QED
  BY <1>1, <1>2 DEF Executes

\* Where an instruction that leads somewhere directly leads.
LEMMA ExecuteLeads ==
  ASSUME Inv, Led, leaders = {b.start : b \in patches_}, NEW a \in DOMAIN program.code, Execute(a),
         prev'.direct
  PROVE  LET i == program.code[a]
             o == get_original_instruction_address(pc')
         IN  /\ pc = get_true_instruction_address(a)
             /\ \/ i.category \in {"OTHER", "COND_BR"} /\ o = EndOf(program, a)
                \/ i.category # "OTHER" /\ i.target # Indirect /\ o = i.target
             /\ Increments(pc') = 0
<1>1. Executes(a)
  BY DEF Execute
<1>2. pc \in Nat /\ BlocksKept /\ program \in Programs
  BY DEF Inv, ThreadSomewhere, BlocksKept
<1>3. /\ Frames(stack, 0) /\ (pc = a /\ ~Overwritten(a) => ~InStub(pc))
  BY <1>1, ExecutesCounted
<1> DEFINE i == program.code[a]
           e == EndOf(program, a)
           named == IF i.target = Indirect THEN program.taken ELSE {i.target}
<1>4. a \in Nat /\ e \in Nat /\ a < e /\ i.category \in {"OTHER", "COND_BR", "UNCOND_BR", "CALL", "RET"}
  BY <1>2, Instructions
<1>5. i.category # "RET" /\ (i.category = "OTHER" \/ i.target # Indirect)
  BY DEF Execute
<1>6. CASE InStub(pc) /\ SlotAt(pc) = Slot("displaced", a)
  <2> DEFINE t == pc + 1
  <2>1. /\ t \in Nat /\ InStub(t) /\ SlotAt(t).op \in {"displaced", "jump back"}
        /\ SlotAt(t).address = e /\ i.category = "OTHER"
    BY <1>2, <1>6, MovedOn
  <2>2. pc' = t
    BY <1>6, <2>1 DEF Execute
  <2>3. pc = get_true_instruction_address(a)
    BY <1>1, ExecutesAt DEF Led
  <2>4. Increments(t) = 0
    <3>1. SUFFICES ASSUME SlotAt(t).op = "displaced", SlotAt(t).address \in leaders
                   PROVE  FALSE
      BY <2>1 DEF Increments
    <3>2. PICK b \in patches_ : SlotAt(t).address = b.start
      BY <3>1
    <3>3. SlotAt(pc).op = "pop rax"
      BY <1>2, <1>6, <2>1, <3>1, <3>2, LeaderFollowsPrologue DEF Led
    <3>4. SlotAt(pc).op = "displaced"
      BY <1>6, SlotIs
    <3> QED
      BY <3>3, <3>4
  <2> HIDE DEF t
  <2>5. get_original_instruction_address(t) = e
    <3>1. Known(t)
      BY <2>1, WhereIs DEF Inv
    <3> QED
      BY <2>1, <3>1 DEF Known
  <2> QED
    BY <2>1, <2>2, <2>3, <2>4, <2>5
<1>7. CASE pc = a /\ ~Overwritten(a)
  <2>1. ~InStub(pc)
    BY <1>3, <1>7
  <2>2. pc = get_true_instruction_address(a)
    BY <1>1, ExecutesAt DEF Led
  <2>3. /\ i.category = "OTHER" => pc' = e
        /\ i.category = "COND_BR" => pc' \in named \cup {e}
        /\ i.category \in {"UNCOND_BR", "CALL"} => pc' \in named
    BY <2>1 DEF Execute
  <2>4. PICK t : t = pc'
    OBVIOUS
  <2>5. t \in DOMAIN program.code
    <3>1. i.category \in {"OTHER", "COND_BR"} => e \in DOMAIN program.code
      BY <1>2, InFunction
    <3>2. i.category # "OTHER" => \A u \in named : u \in DOMAIN program.code
      BY <1>2, NamedLeads DEF AtInstruction
    <3> QED
      BY <1>4, <1>5, <2>3, <2>4, <3>1, <3>2
  <2>6. t \in Nat /\ t < Region /\ Region \in Nat
    BY <1>2, <2>5, Instructions
  <2>7. ~InStub(t) /\ Known(t)
    BY <2>6, WhereIs DEF Inv, InStub
  <2>8. get_original_instruction_address(t) = t /\ Increments(t) = 0
    BY <2>7 DEF Known, Increments
  <2>9. i.category # "OTHER" => named = {i.target}
    BY <1>5
  <2> QED
    BY <1>4, <1>5, <2>2, <2>3, <2>4, <2>8, <2>9
<1> QED
  BY <1>1, <1>6, <1>7 DEF Executes

LEMMA ExecuteLed ==
  /\ Inv /\ Moments /\ Led
  /\ \E a \in DOMAIN program.code : Execute(a)
  => Led'
<1> SUFFICES ASSUME Inv, Moments, Led, NEW a \in DOMAIN program.code, Execute(a)
             PROVE  Led'
  OBVIOUS
<1>1. /\ ready /\ UNCHANGED plugin /\ counter' = counter /\ Executes(a)
      /\ prev'.address = pc /\ prev'.counter = counter
  BY DEF Execute, MayRun, Running
<1>2. PICK t : t = pc'
  OBVIOUS
<1>3. PICK c : c = counter
  OBVIOUS
<1>4. PICK v : v = prev'
  OBVIOUS
<1>5. get_original_instruction_address(pc) = a
  BY <1>1, ExecutesCounted
<1>6. ASSUME v.direct PROVE LedTo(v, t, c)
  <2>1. /\ pc = get_true_instruction_address(a)
        /\ \/ program.code[a].category \in {"OTHER", "COND_BR"}
              /\ get_original_instruction_address(t) = EndOf(program, a)
           \/ program.code[a].category # "OTHER" /\ program.code[a].target # Indirect
              /\ get_original_instruction_address(t) = program.code[a].target
        /\ Increments(t) = 0
    BY <1>2, <1>4, <1>6, ExecuteLeads DEF Moments
  <2>2. c \in Nat /\ c = c + 0
    BY <1>3 DEF Moments
  <2>3. v.address = pc /\ v.counter = c
    BY <1>1, <1>3, <1>4
  <2> QED
    BY <1>5, <2>1, <2>2, <2>3 DEF LedTo
<1> QED
  BY <1>1, <1>2, <1>3, <1>4, <1>6, LedMove

LEMMA StepLed == Inv /\ Moments /\ Led /\ [Next]_vars => Led'
<1> SUFFICES ASSUME Inv, Moments, Led, [Next]_vars PROVE Led'
  OBVIOUS
<1>1. CASE InstrumentBlock
  BY <1>1, InstrumentBlockLed
<1>2. CASE SkipBlock \/ Commit \/ GiveUp
  BY <1>2, PreparingLed
<1>3. CASE Detour
  BY <1>3, DetourLed
<1>4. CASE RunPrologue
  BY <1>4, RunPrologueLed DEF Moments
<1>5. CASE JumpBack
  BY <1>5, JumpBackLed
<1>6. CASE \E a \in DOMAIN program.code : Execute(a)
  BY <1>6, ExecuteLed
<1>7. CASE \E mode \in {"Line", "Into"} : BeginStep(mode)
  BY <1>7, LedKept DEF BeginStep
<1>8. CASE EndStep
  BY <1>8, LedKept DEF EndStep
<1>9. CASE UNCHANGED vars
  BY <1>9, LedKept DEF vars
<1> QED
  BY <1>1, <1>2, <1>3, <1>4, <1>5, <1>6, <1>7, <1>8, <1>9 DEF Next

LEMMA LedAlways == Spec => [](Inv /\ Moments /\ Led)
<1>1. Init => Moments /\ Led
  <2> SUFFICES ASSUME Init PROVE Moments /\ Led
    OBVIOUS
  <2>1. /\ visited = {} /\ leaders = {} /\ patches_ = {} /\ counter = 0 /\ code_ = <<>>
        /\ instruction_remap_ = << >> /\ analysis = {} /\ prev = NoPrev
    BY DEF Init
  <2>2. Moments
    BY <2>1 DEF Moments, Past
  <2>3. Remaps
    BY <2>1 DEF Remaps
  <2>4. ~prev.direct
    BY <2>1 DEF NoPrev
  <2> QED
    BY <2>1, <2>2, <2>3, <2>4 DEF Led
<1>2. Inv /\ [Next]_vars => Inv'
  BY StepInv
<1> QED
  BY <1>1, <1>2, InitInv, StepMoments, StepLed, PTL DEF Spec

\* How an instruction that leads to another is found among its predecessors.
LEMMA FallsThrough ==
  ASSUME NEW p \in Programs, NEW s \in DOMAIN p.code, p.code[s].category \in {"OTHER", "COND_BR"},
         NEW breakpoints,
         \A fn \in FunctionsContaining(p, EndOf(p, s)) : InStep(p, fn, breakpoints, EndOf(p, s))
  PROVE  s \in fallthrough_predecessor(p, breakpoints, EndOf(p, s))
<1> DEFINE e == EndOf(p, s)
<1>1. PICK fn \in p.functions : fn.start <= s /\ s < fn.end
  BY InFunction
<1>2. e < fn.end
  BY <1>1, InFunction
<1>3. s \in Nat /\ e \in Nat /\ s < e /\ fn.start \in Nat
  BY Instructions, FunctionsApart
<1>4. fn \in FunctionsContaining(p, e) /\ fn.start # e /\ InStep(p, fn, breakpoints, e)
  BY <1>1, <1>2, <1>3 DEF FunctionsContaining
<1>5. s \in Within(p, fn)
  BY <1>1 DEF Within
<1> QED
  BY <1>4, <1>5 DEF fallthrough_predecessor

LEMMA IsSource ==
  ASSUME NEW p \in Programs, NEW s \in DOMAIN p.code, p.code[s].category # "OTHER"
  PROVE  s \in branch_sources_targeting(p, p.code[s].target)
<1>1. PICK fn \in p.functions : fn.start <= s /\ s < fn.end
  BY InFunction
<1>2. s \in Within(p, fn)
  BY <1>1 DEF Within
<1> DEFINE b == [address |-> s, next_address |-> EndOf(p, s), target |-> p.code[s].target,
                 kind |-> BranchKind(p.code[s])]
<1>3. b \in Branches(p, fn)
  BY <1>2 DEF Branches
<1>4. b \in AllBranches(p)
  BY <1>3 DEF AllBranches
<1>5. b.target = p.code[s].target /\ b.address = s
  OBVIOUS
<1> HIDE DEF b
<1> QED
  BY <1>4, <1>5 DEF branch_sources_targeting

LEMMA AnalysedIs ==
  ASSUME Inv, Led, analysis # {}
  PROVE  Analysed = program
<1>1. program \in Programs /\ analysis = program.functions
  BY DEF Inv, BlocksKept, Led
<1>2. PICK c, f, l, e, k : program = [code |-> c, functions |-> f, line |-> l, entry |-> e, taken |-> k]
  BY <1>1, ProgramsAssumption
<1>3. analysis = f
  BY <1>1, <1>2
<1>4. [[code |-> c, functions |-> f, line |-> l, entry |-> e, taken |-> k] EXCEPT !.functions = f]
        = [code |-> c, functions |-> f, line |-> l, entry |-> e, taken |-> k]
  OBVIOUS
<1> QED
  BY <1>2, <1>3, <1>4 DEF Analysed

\* What is known of the source of a direct transfer that is complete.
LEMMA SourceIs ==
  ASSUME Inv, Moments, Led, analysis # {}, NEW a \in DOMAIN program.code,
         NEW breakpoints, LedHere(a, breakpoints)
  PROVE  /\ prev.direct /\ Analysed = program /\ program \in Programs
         /\ get_original_instruction_address(pc) = a
         /\ Source \in DOMAIN program.code
         /\ prev.address = get_true_instruction_address(Source)
         /\ prev.counter = IF a \in leaders THEN counter - 1 ELSE counter
         /\ \/ /\ program.code[Source].category \in {"OTHER", "COND_BR"}
               /\ a = EndOf(program, Source)
               /\ \A fn \in FunctionsContaining(program, a) : InStep(program, fn, breakpoints, a)
            \/ /\ a \in leaders /\ prev.address = Source
               /\ program.code[Source].category # "OTHER" /\ a = program.code[Source].target
<1>1. prev.direct /\ Executes(a) /\ program \in Programs /\ Analysed = program
  BY AnalysedIs DEF LedHere, Inv, BlocksKept
<1>2. LedTo(prev, pc, counter) /\ get_original_instruction_address(pc) = a
  BY <1>1, ExecutesCounted DEF Led
<1> DEFINE s == Source
           i == program.code[s]
<1>3. /\ s \in DOMAIN program.code /\ prev.address = get_true_instruction_address(s)
      /\ \/ i.category \in {"OTHER", "COND_BR"} /\ a = EndOf(program, s)
         \/ i.category # "OTHER" /\ i.target # Indirect /\ a = i.target
      /\ prev.counter \in Nat /\ counter = prev.counter + Increments(pc)
  BY <1>2 DEF LedTo, Source
<1>4. Increments(pc) = IF a \in leaders THEN 1 ELSE 0
  <2>1. CASE pc = a /\ ~Overwritten(a)
    <3>1. ~InStub(pc)
      BY <1>1, <2>1, ExecutesCounted
    <3>2. a \notin leaders
      <4>1. \A b \in patches_ : b.start \in Displaced(program, b)
        BY <1>1, PatchIs DEF Inv, BlocksKept
      <4> QED
        BY <2>1, <4>1 DEF Overwritten, Moments
    <3> QED
      BY <3>1, <3>2 DEF Increments
  <2>2. CASE InStub(pc) /\ SlotAt(pc) = Slot("displaced", a)
    <3>1. SlotAt(pc).op = "displaced" /\ SlotAt(pc).address = a
      BY <2>2, SlotIs
    <3> QED
      BY <2>2, <3>1 DEF Increments
  <2> QED
    BY <1>1, <2>1, <2>2 DEF Executes
<1>5. prev.counter = IF a \in leaders THEN counter - 1 ELSE counter
  <2>1. prev.counter \in Nat /\ counter = prev.counter + (IF a \in leaders THEN 1 ELSE 0)
    BY <1>3, <1>4
  <2> DEFINE n == prev.counter
  <2> HIDE DEF n
  <2>2. n \in Nat /\ counter = n + (IF a \in leaders THEN 1 ELSE 0)
    BY <2>1 DEF n
  <2>3. n = IF a \in leaders THEN counter - 1 ELSE counter
    BY <2>2
  <2> QED
    BY <2>3 DEF n
<1>6. i.category # "OTHER" => prev.address = s
  <2>1. SUFFICES ASSUME i.category # "OTHER", s \in DOMAIN instruction_remap_ PROVE FALSE
    BY <1>3 DEF get_true_instruction_address, Translate
  <2>2. PICK b \in patches_ : s \in Displaced(program, b)
    BY <2>1 DEF Led, Remaps, Overwritten
  <2>3. program.code[s].category = "OTHER"
    BY <1>1, <2>2, PatchIs DEF Inv, BlocksKept
  <2> QED
    BY <2>1, <2>3
<1>7. \/ /\ i.category \in {"OTHER", "COND_BR"} /\ a = EndOf(program, s)
         /\ \A fn \in FunctionsContaining(program, a) : InStep(program, fn, breakpoints, a)
      \/ a \in leaders /\ i.category # "OTHER" /\ a = i.target
  <2>1. CASE WalkedHere(a, breakpoints)
    BY <2>1 DEF WalkedHere
  <2>2. CASE JumpedHere(a)
    BY <2>2 DEF JumpedHere
  <2> QED
    BY <2>1, <2>2 DEF LedHere
<1> QED
  BY <1>1, <1>2, <1>3, <1>5, <1>6, <1>7

\* The instruction that led here directly is among the predecessors of this
\* one, with the count it was executed at.
THEOREM PredecessorFound == Spec => []PredecessorsComplete
<1>1. Inv /\ Moments /\ Led => PredecessorsComplete
  <2> SUFFICES ASSUME Inv, Moments, Led, NEW a \in DOMAIN program.code, analysis # {},
                      NEW breakpoints \in Breakpoints, LedHere(a, breakpoints)
               PROVE  Candidate(prev.address, prev.counter)
                         \in get_address_predecesors(breakpoints, "Instruction")
    BY DEF PredecessorsComplete
  <2> DEFINE s == Source
             n == IF a \in leaders THEN counter - 1 ELSE counter
  <2>1. /\ Analysed = program /\ program \in Programs
        /\ get_original_instruction_address(pc) = a
        /\ s \in DOMAIN program.code
        /\ prev.address = get_true_instruction_address(s)
        /\ prev.counter = n
        /\ \/ /\ program.code[s].category \in {"OTHER", "COND_BR"}
              /\ a = EndOf(program, s)
              /\ \A fn \in FunctionsContaining(program, a) : InStep(program, fn, breakpoints, a)
           \/ /\ a \in leaders /\ prev.address = s
              /\ program.code[s].category # "OTHER" /\ a = program.code[s].target
    BY SourceIs
  <2>2. get_address_predecesors(breakpoints, "Instruction")
          = (IF a \in leaders
             THEN {Candidate(b, n) : b \in branch_sources_targeting(program, a)} ELSE {})
            \cup {Candidate(Translate(instruction_remap_, b), n) :
                     b \in fallthrough_predecessor(program, breakpoints, a)}
    BY <2>1 DEF get_address_predecesors, get_predecessors_of_address,
                get_instruction_predecessors_of_address
  <2>3. CASE /\ program.code[s].category \in {"OTHER", "COND_BR"} /\ a = EndOf(program, s)
             /\ \A fn \in FunctionsContaining(program, a) : InStep(program, fn, breakpoints, a)
    <3>1. s \in fallthrough_predecessor(program, breakpoints, a)
      BY <2>1, <2>3, FallsThrough
    <3>2. prev.address = Translate(instruction_remap_, s) /\ prev.counter = n
      BY <2>1 DEF get_true_instruction_address
    <3> QED
      BY <2>2, <3>1, <3>2
  <2>4. CASE a \in leaders /\ prev.address = s
             /\ program.code[s].category # "OTHER" /\ a = program.code[s].target
    <3>1. s \in branch_sources_targeting(program, a)
      BY <2>1, <2>4, IsSource
    <3>2. prev.address = s /\ prev.counter = n
      BY <2>1, <2>4
    <3> QED
      BY <2>2, <2>4, <3>1, <3>2
  <2> QED
    BY <2>1, <2>3, <2>4
<1> QED
  BY <1>1, LedAlways, PTL

LEMMA LineRangeIs ==
  ASSUME NEW p \in Programs, NEW a \in DOMAIN p.code, NEW r \in LineRanges(p, a)
  PROVE  /\ r.start \in Nat /\ r.end \in Nat /\ r.start < r.end
         /\ r.end \notin SameLine(p, a) /\ \E x \in SameLine(p, a) : r.end = EndOf(p, x)
<1> DEFINE S == SameLine(p, a)
           ends == {EndOf(p, x) : x \in S} \ S
           E(s) == {e \in ends : e > s}
<1>1. PICK s \in S : r = [start |-> s, end |-> SmallestOf(E(s))]
  BY DEF LineRanges
<1>2. \A x \in S : /\ x \in DOMAIN p.code /\ x \in Nat /\ EndOf(p, x) \in Nat /\ x < EndOf(p, x)
                   /\ EndOf(p, x) < Region /\ Region \in Nat
  BY Instructions DEF SameLine
<1> HIDE DEF S
<1> DEFINE M == {Region - EndOf(p, x) : x \in S}
<1>3. M \in SUBSET Nat /\ M # {}
  BY <1>2
<1>4. PICK m \in M : \A k \in M : m <= k
  BY <1>3, LeastMember
<1>5. PICK x \in S : m = Region - EndOf(p, x)
  BY <1>4
<1>6. \A y \in S : EndOf(p, y) <= EndOf(p, x)
  <2> TAKE y \in S
  <2>1. Region - EndOf(p, x) <= Region - EndOf(p, y)
    BY <1>4, <1>5
  <2>2. EndOf(p, x) \in Nat /\ EndOf(p, y) \in Nat /\ Region \in Nat
    BY <1>2
  <2> QED
    BY <2>1, <2>2
<1>7. EndOf(p, x) \notin S
  <2> SUFFICES ASSUME NEW y \in S, y = EndOf(p, x) PROVE FALSE
    OBVIOUS
  <2>1. y \in Nat /\ EndOf(p, y) \in Nat /\ y < EndOf(p, y) /\ EndOf(p, y) <= y
    BY <1>2, <1>6
  <2> QED
    BY <2>1
<1>8. EndOf(p, x) > s
  <2>1. s \in Nat /\ EndOf(p, s) \in Nat /\ s < EndOf(p, s) /\ EndOf(p, s) <= EndOf(p, x) /\ EndOf(p, x) \in Nat
    BY <1>1, <1>2, <1>6
  <2> QED
    BY <2>1
<1>9. E(s) \in SUBSET Nat /\ E(s) # {}
  BY <1>2, <1>7, <1>8
<1> HIDE DEF E
<1>10. SmallestOf(E(s)) \in E(s)
  BY <1>9, SmallestOfIs
<1>11. SmallestOf(E(s)) \in Nat /\ SmallestOf(E(s)) > s
  BY <1>9, <1>10 DEF E
<1>12. r.start = s /\ r.end = SmallestOf(E(s))
  BY <1>1
<1>13. r.end \notin S /\ \E y \in S : r.end = EndOf(p, y)
  BY <1>10, <1>12 DEF E
<1> QED
  BY <1>2, <1>1, <1>11, <1>12, <1>13 DEF S

\* The start of the line that led here directly is among the predecessors by
\* line of the start of this one.
THEOREM LinePredecessorFound == Spec => []LinePredecessorsComplete
<1>1. Inv /\ Moments /\ Led => LinePredecessorsComplete
  <2> SUFFICES ASSUME Inv, Moments, Led, NEW a \in DOMAIN program.code, analysis # {},
                      NEW breakpoints \in Breakpoints, LedHere(a, breakpoints),
                      StartsLine(a), NEW r \in LineRanges(program, Source)
               PROVE  \E c \in get_address_predecesors(breakpoints, "Line") :
                         /\ c.true_address = get_true_instruction_address(r.start)
                         /\ OnlyLeader(a) => c.branch_counter = prev.counter
    BY DEF LinePredecessorsComplete
  <2> DEFINE s == Source
             ranges == {q \in LineRanges(program, a) : q.start <= a /\ a < q.end}
             is_leader == \E q \in ranges : \E l \in leaders : q.start <= l /\ l < q.end
             n == IF is_leader THEN counter - 1 ELSE counter
             d == Candidate(Translate(instruction_remap_, r.start), n)
             From(q) == (IF is_leader
                         THEN RangeStarts(program, instruction_remap_,
                                          branch_sources_targeting(program, q.start), n)
                         ELSE {})
                        \cup RangeStarts(program, instruction_remap_,
                                         fallthrough_predecessor(program, breakpoints, q.start), n)
  <2>1. /\ Analysed = program /\ program \in Programs
        /\ get_original_instruction_address(pc) = a
        /\ s \in DOMAIN program.code
        /\ prev.counter = IF a \in leaders THEN counter - 1 ELSE counter
        /\ \/ /\ program.code[s].category \in {"OTHER", "COND_BR"}
              /\ a = EndOf(program, s)
              /\ \A fn \in FunctionsContaining(program, a) : InStep(program, fn, breakpoints, a)
           \/ /\ a \in leaders
              /\ program.code[s].category # "OTHER" /\ a = program.code[s].target
    BY SourceIs
  <2>2. get_address_predecesors(breakpoints, "Line") = UNION {From(q) : q \in ranges}
    BY <2>1 DEF get_address_predecesors, get_predecessors_of_address,
                get_line_predecessors_of_address
  <2>3. PICK q \in LineRanges(program, a) : q.start = a
    BY DEF StartsLine
  <2>4. q \in ranges /\ (a \in leaders => is_leader)
    <3>1. a \in Nat /\ q.end \in Nat /\ a < q.end /\ a <= a
      BY <2>1, <2>3, LineRangeIs
    <3> QED
      BY <2>3, <3>1
  <2>5. d.true_address = get_true_instruction_address(r.start) /\ d.branch_counter = n
    BY DEF Candidate, get_true_instruction_address
  <2>8. OnlyLeader(a) => n = prev.counter
    <3> SUFFICES ASSUME OnlyLeader(a), is_leader PROVE a \in leaders
      BY <2>1, <2>4
    <3>1. PICK x \in ranges : \E l \in leaders : x.start <= l /\ l < x.end
      OBVIOUS
    <3>2. PICK l \in leaders : x.start <= l /\ l < x.end
      BY <3>1
    <3>3. l \in DOMAIN program.code
      <4>1. PICK b \in patches_ : b.start = l
        BY DEF Moments
      <4>2. b \in AllBlocks(program)
        BY DEF Inv, BlocksKept
      <4>3. PICK fn \in program.functions : b \in Blocks(program, fn)
        BY <4>2 DEF AllBlocks
      <4> QED
        BY <2>1, <4>1, <4>3, BlockIs
    <3>4. a \in Within(program, x) /\ l \in Within(program, x)
      BY <3>1, <3>2, <3>3 DEF Within
    <3>5. l = a
      BY <3>1, <3>2, <3>4 DEF OnlyLeader
    <3> QED
      BY <3>2, <3>5
  <2>6. \A T : s \in T => d \in RangeStarts(program, instruction_remap_, T, n)
    BY DEF RangeStarts
  <2>7. d \in From(q)
    <3>1. CASE /\ program.code[s].category \in {"OTHER", "COND_BR"} /\ a = EndOf(program, s)
               /\ \A fn \in FunctionsContaining(program, a) : InStep(program, fn, breakpoints, a)
      <4>1. s \in fallthrough_predecessor(program, breakpoints, q.start)
        BY <2>1, <2>3, <3>1, FallsThrough
      <4> QED
        BY <2>6, <4>1
    <3>2. CASE a \in leaders /\ program.code[s].category # "OTHER" /\ a = program.code[s].target
      <4>1. s \in branch_sources_targeting(program, q.start)
        BY <2>1, <2>3, <3>2, IsSource
      <4> QED
        BY <2>4, <2>6, <3>2, <4>1
    <3> QED
      BY <2>1, <3>1, <3>2
  <2> HIDE DEF From, ranges, d, n
  <2> QED
    BY <2>2, <2>4, <2>5, <2>7, <2>8
<1> QED
  BY <1>1, LedAlways, PTL

----------------------------------------------------------------------------
(* Stepping over a line.                                                   *)

\* At o a step of the line is where it should be, or about to stop.
OnLine(o) ==
    address_in_line_ranges(step.ranges, o) \/ get_true_instruction_address(o) \in step.stops

\* The breakpoints are those planned where the step began.
Planned ==
    \E o \in DOMAIN program.code, mode \in {"Line", "Into"} :
        /\ step.ranges = LineRanges(program, o)
        /\ address_in_line_ranges(step.ranges, o)
        /\ step.stops = {get_true_instruction_address(b.address) :
                            b \in get_breakpoints_for_step(program, o, mode)}

\* Where the thread is in the frame that is stepped, or will be when it has
\* returned to it.
InFrame(frames, o) == IF Len(frames) = step.depth THEN o ELSE frames[step.depth + 1]

Stepping ==
    /\ step.under_way => ready
    /\ step.under_way /\ analysis # {} /\ InOneFunction(step.ranges) =>
          /\ Planned
          /\ step.depth \in Nat /\ Depth >= step.depth
          /\ OnLine(InFrame(ReturnAddresses(stack), get_original_instruction_address(pc)))

\* Two instructions that end at the same place are the same.
LEMMA EndsApart ==
  ASSUME NEW p \in Programs, NEW a \in DOMAIN p.code, NEW b \in DOMAIN p.code
  PROVE  /\ EndOf(p, a) = EndOf(p, b) => a = b
         /\ EndOf(p, a) <= b \/ EndOf(p, b) <= a \/ a = b
<1>1. /\ a \in Nat /\ EndOf(p, a) \in Nat /\ a < EndOf(p, a) /\ (a < b => EndOf(p, a) <= b)
      /\ b \in Nat /\ EndOf(p, b) \in Nat /\ b < EndOf(p, b) /\ (b < a => EndOf(p, b) <= a)
  BY Instructions
<1> QED
  BY <1>1

\* An instruction of a range ends in it.
LEMMA EndsInRange ==
  ASSUME NEW p \in Programs, NEW o \in DOMAIN p.code, NEW r \in LineRanges(p, o),
         NEW a \in DOMAIN p.code, r.start <= a, a < r.end
  PROVE  EndOf(p, a) <= r.end /\ r.start <= EndOf(p, a) /\ EndOf(p, a) \in Nat
<1>1. PICK x \in SameLine(p, o) : r.end = EndOf(p, x)
  BY LineRangeIs
<1>2. x \in DOMAIN p.code
  BY <1>1 DEF SameLine
<1>3. EndOf(p, x) <= a \/ EndOf(p, a) <= x \/ a = x
  BY <1>2, EndsApart
<1>4. /\ a \in Nat /\ EndOf(p, a) \in Nat /\ a < EndOf(p, a)
      /\ x \in Nat /\ EndOf(p, x) \in Nat /\ x < EndOf(p, x) /\ r.start \in Nat
  BY <1>2, Instructions, LineRangeIs
<1> QED
  BY <1>1, <1>3, <1>4

\* An instruction that has a line is in a range of it.
LEMMA InLineRanges ==
  ASSUME NEW p \in Programs, NEW o, LineRanges(p, o) # {}
  PROVE  o \in DOMAIN p.code /\ address_in_line_ranges(LineRanges(p, o), o)
<1> DEFINE S == SameLine(p, o)
           starts == {a \in S : \A b \in S : EndOf(p, b) # a}
           ends == {EndOf(p, a) : a \in S} \ S
<1>1. /\ o \in DOMAIN p.code
      /\ LineRanges(p, o) = {[start |-> s, end |-> SmallestOf({e \in ends : e > s})] : s \in starts}
  BY DEF LineRanges
<1>2. o \in S
  BY <1>1 DEF SameLine
<1>3. \A x \in S : /\ x \in DOMAIN p.code /\ x \in Nat /\ EndOf(p, x) \in Nat /\ x < EndOf(p, x)
  BY Instructions DEF SameLine
<1>4. \A x, y \in S : EndOf(p, x) <= y \/ EndOf(p, y) <= x \/ x = y
  BY <1>3, EndsApart
<1> HIDE DEF S
\* The least member of the line from any address up to o begins a range, unless
\* an instruction of the line ends there.
<1>5. ASSUME NEW e \in Nat, e <= o, \A x \in S : x < e => EndOf(p, x) < e \/ (EndOf(p, x) = e /\ e \notin S)
      PROVE  \E k \in starts : e <= k /\ k <= o
  <2> DEFINE T == {x \in S : e <= x}
  <2>1. T \in SUBSET Nat /\ T # {}
    BY <1>2, <1>3, <1>5
  <2>2. PICK m \in T : \A x \in T : m <= x
    BY <2>1, LeastMember
  <2>3. m <= o /\ e <= m /\ m \in S /\ m \in Nat
    BY <1>2, <1>3, <1>5, <2>2
  <2>4. ASSUME NEW y \in S, EndOf(p, y) = m PROVE FALSE
    <3>1. y \in Nat /\ y < m
      BY <1>3, <2>4
    <3>2. y < e
      <4>1. y \notin T
        BY <2>2, <2>3, <3>1
      <4> QED
        BY <1>5, <3>1, <4>1
    <3>3. m < e \/ (m = e /\ e \notin S)
      BY <1>5, <2>4, <3>2
    <3> QED
      BY <1>5, <2>3, <3>3
  <2> QED
    BY <2>3, <2>4
<1>6. \E k \in starts : k <= o
  <2>1. 0 \in Nat /\ 0 <= o /\ \A x \in S : ~(x < 0)
    BY <1>2, <1>3
  <2> QED
    BY <1>5, <2>1
<1> DEFINE M == {o - k : k \in {x \in starts : x <= o}}
<1>7. M \in SUBSET Nat /\ M # {}
  BY <1>2, <1>3, <1>6
<1>8. PICK m \in M : \A k \in M : m <= k
  BY <1>7, LeastMember
<1>9. PICK s \in starts : s <= o /\ m = o - s
  BY <1>8
<1>10. \A k \in starts : k <= o => k <= s
  <2> SUFFICES ASSUME NEW k \in starts, k <= o PROVE k <= s
    OBVIOUS
  <2>1. o - s <= o - k
    BY <1>8, <1>9
  <2>2. o \in Nat /\ s \in Nat /\ k \in Nat
    BY <1>2, <1>3
  <2> QED
    BY <2>1, <2>2
<1>11. PICK r \in LineRanges(p, o) : r.start = s
  <2> DEFINE q == [start |-> s, end |-> SmallestOf({e \in ends : e > s})]
  <2>1. q.start = s
    OBVIOUS
  <2>2. s \in starts
    BY <1>9
  <2>3. q \in LineRanges(p, o)
    BY <1>1, <2>2
  <2> QED
    BY <2>1, <2>3
<1>12. ASSUME ~(o < r.end) PROVE FALSE
  <2>1. r.end \in Nat /\ s < r.end /\ o \in Nat /\ s \in Nat
    BY <1>1, <1>2, <1>3, <1>11, LineRangeIs
  <2>2. PICK x \in S : r.end = EndOf(p, x) /\ r.end \notin S
    BY <1>1, <1>11, LineRangeIs DEF S
  <2>3. ASSUME NEW y \in S, y < r.end
        PROVE  EndOf(p, y) < r.end \/ (EndOf(p, y) = r.end /\ r.end \notin S)
    <3>1. EndOf(p, y) <= x \/ EndOf(p, x) <= y \/ x = y
      BY <1>4
    <3>2. y \in Nat /\ EndOf(p, y) \in Nat /\ x \in Nat /\ EndOf(p, x) \in Nat /\ x < EndOf(p, x)
      BY <1>3
    <3> QED
      BY <2>2, <2>3, <3>1, <3>2
  <2>4. r.end <= o
    BY <1>12, <2>1
  <2>5. PICK k \in starts : r.end <= k /\ k <= o
    BY <1>5, <2>1, <2>3, <2>4
  <2>6. k <= s /\ k \in Nat
    BY <1>3, <1>10, <2>5
  <2> QED
    BY <2>1, <2>5, <2>6
<1> QED
  BY <1>1, <1>9, <1>11, <1>12 DEF address_in_line_ranges

\* A step's breakpoints: where control walks off the line,
LEMMA ExitPlanned ==
  ASSUME NEW p \in Programs, NEW o \in DOMAIN p.code, NEW mode, NEW fn \in FunctionsContaining(p, o),
         NEW a \in DOMAIN p.code, address_in_line_ranges(LineRanges(p, o), a),
         p.code[a].category \in {"OTHER", "COND_BR", "CALL"}
  PROVE  \/ address_in_line_ranges(LineRanges(p, o), EndOf(p, a))
         \/ \E b \in get_breakpoints_for_step(p, o, mode) : b.address = EndOf(p, a)
<1> DEFINE ranges == LineRanges(p, o)
           e == EndOf(p, a)
<1>1. PICK r \in ranges : r.start <= a /\ a < r.end
  BY DEF address_in_line_ranges
<1>2. e <= r.end /\ r.start <= e /\ e \in Nat
  BY <1>1, EndsInRange
<1>3. CASE e < r.end
  BY <1>1, <1>2, <1>3 DEF address_in_line_ranges
<1>4. CASE e = r.end
  <2>1. ASSUME NEW b \in Branches(p, fn), b.next_address = r.end
        PROVE  b.kind \notin {"UnconditionalJmp", "IndirectJump", "Return"}
    <3>1. PICK x \in DOMAIN p.code : /\ p.code[x].category # "OTHER" /\ b.next_address = EndOf(p, x)
                                     /\ b.kind = BranchKind(p.code[x])
      BY DEF Branches, Within
    <3>2. x = a
      BY <1>4, <2>1, <3>1, EndsApart
    <3>3. p.code[a].category \in {"COND_BR", "CALL"}
      BY <3>1, <3>2
    <3>4. b.kind \in {"Conditional", "IndirectCall", "Call"}
      BY <3>1, <3>2, <3>3 DEF BranchKind
    <3> QED
      BY <3>4
  <2> DEFINE b == StepBreakpoint(r.end, "Line")
  <2>2. b \in FallthroughExits(p, ranges, Branches(p, fn))
    BY <1>1, <2>1 DEF FallthroughExits
  <2>3. b \in get_breakpoints_for_step(p, o, mode)
    BY <2>2 DEF get_breakpoints_for_step
  <2>4. b.address = e
    BY <1>4 DEF StepBreakpoint
  <2> QED
    BY <2>3, <2>4
<1> QED
  BY <1>1, <1>2, <1>3, <1>4, LineRangeIs

\* where a jump leaves it, and where it cannot be told where control leaves to.
LEMMA TransferPlanned ==
  ASSUME NEW p \in Programs, NEW o \in DOMAIN p.code, NEW mode, NEW fn \in FunctionsContaining(p, o),
         NEW a \in Within(p, fn), address_in_line_ranges(LineRanges(p, o), a),
         NEW t, \/ /\ p.code[a].category \in {"COND_BR", "UNCOND_BR"} /\ p.code[a].target # Indirect
                   /\ t = p.code[a].target /\ ~address_in_line_ranges(LineRanges(p, o), t)
                \/ p.code[a].category = "UNCOND_BR" /\ p.code[a].target = Indirect /\ t = a
                \/ p.code[a].category = "RET" /\ t = a
  PROVE  \E b \in get_breakpoints_for_step(p, o, mode) : b.address = t
<1> DEFINE ranges == LineRanges(p, o)
           i == p.code[a]
           b == [address |-> a, next_address |-> EndOf(p, a), target |-> i.target,
                 kind |-> BranchKind(i)]
           inside == {c \in Branches(p, fn) : address_in_line_ranges(ranges, c.address)}
<1>1. b.address = a /\ b.target = i.target /\ b.kind = BranchKind(i)
  OBVIOUS
<1>2. b \in Branches(p, fn)
  BY DEF Branches
<1> HIDE DEF b
<1>3. b \in inside
  BY <1>1, <1>2
<1>4. /\ i.category = "COND_BR" => b.kind = "Conditional"
      /\ i.category = "UNCOND_BR" /\ i.target # Indirect => b.kind = "UnconditionalJmp"
      /\ i.category = "UNCOND_BR" /\ i.target = Indirect => b.kind = "IndirectJump"
      /\ i.category = "RET" => b.kind = "Return"
  BY <1>1 DEF BranchKind
<1>5. ASSUME NEW k, k \in Transfers(ranges, Branches(p, fn), mode)
      PROVE  k \in get_breakpoints_for_step(p, o, mode)
  BY <1>5 DEF get_breakpoints_for_step
<1>6. CASE t = i.target /\ b.kind \in {"Conditional", "UnconditionalJmp"}
           /\ ~address_in_line_ranges(ranges, t)
  <2>1. StepBreakpoint(b.target, "Line") \in Transfers(ranges, Branches(p, fn), mode)
    BY <1>1, <1>3, <1>6 DEF Transfers
  <2>2. StepBreakpoint(b.target, "Line").address = t
    BY <1>1, <1>6 DEF StepBreakpoint
  <2> QED
    BY <1>5, <2>1, <2>2
<1>7. CASE t = a /\ b.kind \in {"IndirectJump", "Return"}
  <2>1. StepBreakpoint(b.address, b.kind) \in Transfers(ranges, Branches(p, fn), mode)
    BY <1>1, <1>3, <1>7 DEF Transfers
  <2>2. StepBreakpoint(b.address, b.kind).address = t
    BY <1>1, <1>7 DEF StepBreakpoint
  <2> QED
    BY <1>5, <2>1, <2>2
<1> QED
  BY <1>4, <1>6, <1>7

\* A step of the thread, seen from where it leads.
LEMMA SteppingMove ==
  ASSUME Stepping, ready, UNCHANGED plugin, step' = step,
         NEW o, get_original_instruction_address(pc)' = o,
         NEW k, ReturnAddresses(stack)' = k,
         step.under_way /\ analysis # {} /\ InOneFunction(step.ranges) =>
            Len(k) >= step.depth /\ OnLine(InFrame(k, o))
  PROVE  Stepping'
<1>1. UNCHANGED <<program, ready, analysis, instruction_remap_>>
  BY DEF plugin
<1>2. /\ Planned' <=> Planned
      /\ InOneFunction(step.ranges)' <=> InOneFunction(step.ranges)
      /\ OnLine(InFrame(k, o))' <=> OnLine(InFrame(k, o))
  BY <1>1 DEF Planned, InOneFunction, OnLine, InFrame, get_true_instruction_address, Translate
<1>3. Depth' = Len(k)
  BY DEF Depth
<1>4. OnLine(InFrame(ReturnAddresses(stack), get_original_instruction_address(pc)))'
        <=> OnLine(InFrame(k, o))'
  BY DEF OnLine, InFrame
<1> QED
  BY <1>1, <1>2, <1>3, <1>4 DEF Stepping

\* What the program sees of a step of its thread alone.
LEMMA SteppingStutters ==
  ASSUME Stepping, ready, UNCHANGED plugin, step' = step, Stutters
  PROVE  Stepping'
<1>1. PICK o : o = get_original_instruction_address(pc)
  OBVIOUS
<1>2. PICK k : k = ReturnAddresses(stack)
  OBVIOUS
<1>3. get_original_instruction_address(pc)' = o /\ ReturnAddresses(stack)' = k
  BY <1>1, <1>2 DEF Stutters
<1>4. step.under_way /\ analysis # {} /\ InOneFunction(step.ranges) =>
         Len(k) >= step.depth /\ OnLine(InFrame(k, o))
  BY <1>1, <1>2 DEF Stepping, Depth
<1> QED
  BY <1>3, <1>4, SteppingMove

LEMMA SteppingKept ==
  ASSUME Stepping, UNCHANGED <<plugin, thread, step>>
  PROVE  Stepping'
BY DEF Stepping, Planned, InOneFunction, OnLine, InFrame, Depth, get_true_instruction_address,
       get_original_instruction_address, Translate, plugin, thread

\* In the frame that is stepped, an instruction of the line leads to the line or
\* to a breakpoint.
LEMMA LineGoesOn ==
  ASSUME Inv, Led, step.under_way, analysis # {}, InOneFunction(step.ranges), Planned,
         NEW a \in DOMAIN program.code, Execute(a), OnLine(a)
  PROVE  /\ address_in_line_ranges(step.ranges, a)
         /\ program.code[a].category # "RET"
         /\ program.code[a].category = "UNCOND_BR" => program.code[a].target # Indirect
         /\ program.code[a].category \in {"OTHER", "COND_BR", "CALL"} => OnLine(EndOf(program, a))
         /\ program.code[a].category \in {"COND_BR", "UNCOND_BR"} => OnLine(program.code[a].target)
<1>1. PICK o \in DOMAIN program.code, mode \in {"Line", "Into"} :
        /\ step.ranges = LineRanges(program, o)
        /\ address_in_line_ranges(step.ranges, o)
        /\ step.stops = {get_true_instruction_address(b.address) :
                            b \in get_breakpoints_for_step(program, o, mode)}
  BY DEF Planned
<1>2. program \in Programs /\ Remaps
  BY DEF Inv, BlocksKept, Led
<1>3. pc = get_true_instruction_address(a) /\ pc \notin step.stops
  <2>1. Executes(a) /\ ~Stopped
    BY DEF Execute, MayRun
  <2> QED
    BY <1>2, <2>1, ExecutesAt DEF Stopped
<1>4. address_in_line_ranges(step.ranges, a)
  BY <1>3 DEF OnLine
<1>5. PICK fn \in program.functions : \A r \in step.ranges : fn.start <= r.start /\ r.end <= fn.end
  BY DEF InOneFunction
<1>6. \A x \in DOMAIN program.code : address_in_line_ranges(step.ranges, x) => fn.start <= x /\ x < fn.end
  <2> SUFFICES ASSUME NEW x \in DOMAIN program.code, NEW r \in step.ranges, r.start <= x, x < r.end
               PROVE  fn.start <= x /\ x < fn.end
    BY DEF address_in_line_ranges
  <2>1. /\ x \in Nat /\ fn.start \in Nat /\ fn.end \in Nat /\ r.start \in Nat /\ r.end \in Nat
        /\ fn.start <= r.start /\ r.end <= fn.end
    BY <1>1, <1>2, <1>5, Instructions, FunctionsApart, LineRangeIs
  <2> QED
    BY <2>1
<1>7. fn \in FunctionsContaining(program, o) /\ a \in Within(program, fn)
  BY <1>1, <1>4, <1>6 DEF FunctionsContaining, Within
<1>8. \A x : (\E b \in get_breakpoints_for_step(program, o, mode) : b.address = x)
                => get_true_instruction_address(x) \in step.stops
  BY <1>1
<1>9. ~\E b \in get_breakpoints_for_step(program, o, mode) : b.address = a
  BY <1>3, <1>8
<1> DEFINE i == program.code[a]
<1>10. i.category # "RET" /\ (i.category = "UNCOND_BR" => i.target # Indirect)
  BY <1>1, <1>2, <1>4, <1>7, <1>9, TransferPlanned
<1>11. i.category \in {"OTHER", "COND_BR", "CALL"} => OnLine(EndOf(program, a))
  <2> SUFFICES ASSUME i.category \in {"OTHER", "COND_BR", "CALL"} PROVE OnLine(EndOf(program, a))
    OBVIOUS
  <2>1. \/ address_in_line_ranges(LineRanges(program, o), EndOf(program, a))
        \/ \E b \in get_breakpoints_for_step(program, o, mode) : b.address = EndOf(program, a)
    BY <1>1, <1>2, <1>4, <1>7, ExitPlanned
  <2> QED
    BY <1>1, <1>8, <2>1 DEF OnLine
<1>12. i.category \in {"COND_BR", "UNCOND_BR"} => OnLine(i.target)
  <2> SUFFICES ASSUME i.category \in {"COND_BR", "UNCOND_BR"},
                      ~address_in_line_ranges(LineRanges(program, o), i.target)
               PROVE  OnLine(i.target)
    BY <1>1 DEF OnLine
  <2>1. i.target # Indirect
    BY <1>2, <1>10, ProgramsAssumption
  <2>2. \E b \in get_breakpoints_for_step(program, o, mode) : b.address = i.target
    BY <1>1, <1>2, <1>4, <1>7, <2>1, TransferPlanned
  <2> QED
    BY <1>8, <2>2 DEF OnLine
<1> QED
  BY <1>4, <1>10, <1>11, <1>12

\* The program's step, from the instruction at a.
LEMMA ProgramSteps ==
  ASSUME Inv, NEW a \in DOMAIN program.code, Execute(a)
  PROVE  LET i == program.code[a]
             o == get_original_instruction_address(pc)'
             k == ReturnAddresses(stack)
             l == ReturnAddresses(stack)'
         IN  /\ k \in Seq(Nat) /\ EndOf(program, a) \in Nat
             /\ i.category \in {"OTHER", "COND_BR", "UNCOND_BR", "CALL", "RET"}
             /\ i.category = "OTHER" => o = EndOf(program, a)
             /\ i.category = "COND_BR" => o = i.target \/ o = EndOf(program, a)
             /\ i.category = "UNCOND_BR" /\ i.target # Indirect => o = i.target
             /\ i.category = "RET" /\ k # <<>> => o = k[Len(k)] /\ l = SubSeq(k, 1, Len(k) - 1)
             /\ i.category = "CALL" => l = Append(k, EndOf(program, a))
             /\ i.category \notin {"CALL", "RET"} => l = k
<1> DEFINE i == program.code[a]
           o == get_original_instruction_address(pc)'
           k == ReturnAddresses(stack)
           l == ReturnAddresses(stack)'
           e == EndOf(program, a)
<1>1. program \in Programs
  BY DEF Inv, BlocksKept
<1>2. get_original_instruction_address(pc) = a /\ k \in Seq(Nat)
  <2>1. Executes(a) /\ BlocksKept
    BY DEF Execute, Inv
  <2>2. get_original_instruction_address(pc) = a /\ Frames(stack, 0)
    BY <2>1, ExecutesCounted
  <2>3. k = stack
    BY <2>1, <2>2, FramesOnly
  <2> QED
    BY <2>2, <2>3 DEF Frames
<1>3. /\ o \in Original!Destinations(program, a, k)
      /\ l = Original!StackAfter(program, a, k, Original!InstructionEnd(program, a))
  <2>1. Original!Execute
    BY ExecuteInv
  <2> QED
    BY <1>2, <2>1 DEF Original!Execute
<1>4. Original!InstructionEnd(program, a) = e
  BY DEF Original!InstructionEnd, EndOf
<1>5. i.category = "COND_BR" => i.target # Indirect
  BY <1>1, ProgramsAssumption
<1>6. /\ e \in Nat
      /\ i.category \in {"OTHER", "COND_BR", "UNCOND_BR", "CALL", "RET"}
  BY <1>1, Instructions
<1>7. /\ i.category = "OTHER" => Original!Destinations(program, a, k) = {e}
      /\ i.category = "COND_BR" /\ i.target # Indirect =>
            Original!Destinations(program, a, k) = {i.target} \cup {e}
      /\ i.category = "UNCOND_BR" /\ i.target # Indirect =>
            Original!Destinations(program, a, k) = {i.target}
      /\ i.category = "RET" /\ k # <<>> => Original!Destinations(program, a, k) = {k[Len(k)]}
  BY <1>4 DEF Original!Destinations, Original!Indirect, Indirect
<1>8. /\ i.category = "CALL" => Original!StackAfter(program, a, k, e) = Append(k, e)
      /\ i.category = "RET" /\ k # <<>> => Original!StackAfter(program, a, k, e) = SubSeq(k, 1, Len(k) - 1)
      /\ i.category \notin {"CALL", "RET"} => Original!StackAfter(program, a, k, e) = k
  BY DEF Original!StackAfter
<1> HIDE DEF i, o, k, l, e
<1> QED
  BY <1>2, <1>3, <1>4, <1>5, <1>6, <1>7, <1>8 DEF i, o, k, l, e

LEMMA ExecuteStepping ==
  Inv /\ Led /\ Stepping /\ (\E a \in DOMAIN program.code : Execute(a)) => Stepping'
<1> SUFFICES ASSUME Inv, Led, Stepping, NEW a \in DOMAIN program.code, Execute(a)
             PROVE  Stepping'
  OBVIOUS
<1>1. ready /\ UNCHANGED plugin /\ step' = step /\ Executes(a)
  BY DEF Execute, MayRun, Running, debugger
<1>2. PICK o : o = get_original_instruction_address(pc)'
  OBVIOUS
<1>3. PICK l : l = ReturnAddresses(stack)'
  OBVIOUS
<1>4. PICK k : k = ReturnAddresses(stack)
  OBVIOUS
<1> DEFINE i == program.code[a]
           e == EndOf(program, a)
           d == step.depth
<1>5. /\ k \in Seq(Nat) /\ e \in Nat
      /\ i.category \in {"OTHER", "COND_BR", "UNCOND_BR", "CALL", "RET"}
      /\ i.category = "OTHER" => o = e
      /\ i.category = "COND_BR" => o = i.target \/ o = e
      /\ i.category = "UNCOND_BR" /\ i.target # Indirect => o = i.target
      /\ i.category = "RET" /\ k # <<>> => o = k[Len(k)] /\ l = SubSeq(k, 1, Len(k) - 1)
      /\ i.category = "CALL" => l = Append(k, e)
      /\ i.category \notin {"CALL", "RET"} => l = k
  BY <1>2, <1>3, <1>4, ProgramSteps
<1>6. ASSUME step.under_way, analysis # {}, InOneFunction(step.ranges)
      PROVE  Len(l) >= d /\ OnLine(InFrame(l, o))
  <2>1. /\ Planned /\ d \in Nat /\ Len(k) >= d
        /\ OnLine(InFrame(k, a))
    BY <1>1, <1>4, <1>6, ExecutesCounted DEF Stepping, Depth
  <2>2. Len(k) \in Nat /\ (i.category = "CALL" => Len(l) = Len(k) + 1 /\ \A j \in 1..Len(k) : l[j] = k[j])
    BY <1>5
  <2>3. i.category = "CALL" => l[Len(k) + 1] = e
    BY <1>5
  <2>4. i.category = "RET" /\ k # <<>> =>
           Len(k) > 0 /\ Len(l) = Len(k) - 1 /\ \A j \in 1..(Len(k) - 1) : l[j] = k[j]
    BY <1>5
  <2>5. CASE Len(k) = d
    <3>1. OnLine(a)
      BY <2>1, <2>5 DEF InFrame
    <3>2. /\ i.category # "RET"
          /\ i.category = "UNCOND_BR" => i.target # Indirect
          /\ i.category \in {"OTHER", "COND_BR", "CALL"} => OnLine(e)
          /\ i.category \in {"COND_BR", "UNCOND_BR"} => OnLine(i.target)
      BY <1>6, <2>1, <3>1, LineGoesOn
    <3>3. CASE i.category = "CALL"
      <4>1. Len(l) = d + 1 /\ l[d + 1] = e /\ Len(l) # d /\ Len(l) >= d
        BY <2>1, <2>2, <2>3, <2>5, <3>3
      <4> QED
        BY <3>2, <3>3, <4>1 DEF InFrame
    <3>4. CASE i.category # "CALL"
      <4>1. l = k /\ OnLine(o)
        BY <1>5, <3>2, <3>4
      <4> QED
        BY <2>1, <2>5, <4>1 DEF InFrame
    <3> QED
      BY <3>3, <3>4
  <2>6. CASE Len(k) # d
    <3>1. Len(k) > d /\ d + 1 \in 1..Len(k)
      BY <2>1, <2>2, <2>6
    <3>2. OnLine(k[d + 1])
      BY <2>1, <2>6 DEF InFrame
    <3>3. CASE i.category = "CALL"
      <4>1. Len(l) # d /\ Len(l) >= d
        BY <2>1, <2>2, <3>1, <3>3
      <4>2. l[d + 1] = k[d + 1]
        BY <2>2, <3>1, <3>3
      <4> QED
        BY <3>2, <4>1, <4>2 DEF InFrame
    <3>4. CASE i.category = "RET"
      <4>1. k # <<>>
        BY <2>1, <3>1
      <4>2. o = k[Len(k)] /\ Len(l) = Len(k) - 1 /\ \A j \in 1..(Len(k) - 1) : l[j] = k[j]
        BY <1>5, <2>4, <3>4, <4>1
      <4>3. CASE Len(k) = d + 1
        <5>1. Len(l) = d /\ o = k[d + 1]
          BY <2>1, <4>2, <4>3
        <5> QED
          BY <2>1, <3>2, <5>1 DEF InFrame
      <4>4. CASE Len(k) # d + 1
        <5>1. Len(l) # d /\ Len(l) >= d /\ d + 1 \in 1..(Len(k) - 1)
          <6>1. Len(l) = Len(k) - 1
            BY <4>2
          <6> QED
            BY <2>1, <2>2, <3>1, <4>4, <6>1
        <5>2. l[d + 1] = k[d + 1]
          BY <4>2, <5>1
        <5> QED
          BY <3>2, <5>1, <5>2 DEF InFrame
      <4> QED
        BY <4>3, <4>4
    <3>5. CASE i.category \notin {"CALL", "RET"}
      <4>1. l = k
        BY <1>5, <3>5
      <4> QED
        BY <2>1, <2>6, <3>2, <4>1 DEF InFrame
    <3> QED
      BY <3>3, <3>4, <3>5
  <2> QED
    BY <2>5, <2>6
<1> QED
  BY <1>1, <1>2, <1>3, <1>6, SteppingMove

\* A step begins on its line, with the breakpoints planned for it.
LEMMA BeginStepStepping ==
  ASSUME Inv, Led, Stepping, NEW mode \in {"Line", "Into"}, BeginStep(mode)
  PROVE  Stepping'
<1> DEFINE o == get_original_instruction_address(pc)
<1>1. /\ ready /\ LineRanges(program, o) # {} /\ UNCHANGED <<plugin, thread>>
      /\ step' = [under_way |-> TRUE, ranges |-> LineRanges(program, o),
                  stops |-> step_stops(mode), depth |-> Depth]
  BY DEF BeginStep, Running
<1>2. /\ step'.under_way /\ step'.ranges = LineRanges(program, o)
      /\ step'.stops = step_stops(mode) /\ step'.depth = Depth
  BY <1>1
<1>3. UNCHANGED <<program, ready, analysis, instruction_remap_, instruction_address_to_original_,
                  pc, stack>>
  BY <1>1 DEF plugin, thread
<1>4. program \in Programs
  BY DEF Inv, BlocksKept
<1>5. o \in DOMAIN program.code /\ address_in_line_ranges(LineRanges(program, o), o)
  BY <1>1, <1>4, InLineRanges
<1>6. Depth \in Nat
  <2>1. /\ BlocksKept /\ Frames(stack, address_rsp_fix_words(pc))
        /\ ReturnAddresses(stack) = SubSeq(stack, 1, Len(stack) - address_rsp_fix_words(pc))
    BY Framed DEF Inv, ThreadSomewhere
  <2>2. stack \in Seq(Nat) /\ Len(stack) - address_rsp_fix_words(pc) \in 0..Len(stack)
    BY <2>1 DEF Frames
  <2> QED
    BY <2>1, <2>2 DEF Depth
<1>7. o' = o /\ ReturnAddresses(stack)' = ReturnAddresses(stack) /\ Depth' = Depth
  BY <1>3 DEF get_original_instruction_address, Translate, Depth
<1>8. \A x : get_true_instruction_address(x)' = get_true_instruction_address(x)
  BY <1>3 DEF get_true_instruction_address, Translate
<1>9. ASSUME analysis # {}
      PROVE  Planned' /\ OnLine(InFrame(ReturnAddresses(stack), o))'
  <2>1. step'.stops = {get_true_instruction_address(b.address) :
                          b \in get_breakpoints_for_step(program, o, mode)}
    BY <1>2, <1>9, AnalysedIs DEF step_stops
  <2>2. Planned'
    BY <1>2, <1>3, <1>5, <1>8, <2>1 DEF Planned
  <2>3. InFrame(ReturnAddresses(stack), o)' = o
    BY <1>2, <1>7 DEF InFrame, Depth
  <2>4. OnLine(InFrame(ReturnAddresses(stack), o))'
    BY <1>2, <1>5, <2>3 DEF OnLine
  <2> QED
    BY <2>2, <2>4
<1> QED
  BY <1>1, <1>2, <1>3, <1>6, <1>7, <1>9 DEF Stepping

LEMMA StepStepping == Inv /\ Led /\ Stepping /\ [Next]_vars => Stepping'
<1> SUFFICES ASSUME Inv, Led, Stepping, [Next]_vars PROVE Stepping'
  OBVIOUS
<1>1. CASE InstrumentBlock \/ SkipBlock \/ Commit \/ GiveUp
  <2>1. ~ready /\ step' = step
    BY <1>1 DEF InstrumentBlock, SkipBlock, Commit, GiveUp, Untouched, debugger, Inv, BlocksKept
  <2> QED
    BY <2>1 DEF Stepping
<1>2. CASE Detour \/ RunPrologue \/ JumpBack
  <2>1. ready /\ UNCHANGED plugin /\ step' = step
    BY <1>2 DEF Detour, RunPrologue, JumpBack, MayRun, Running, debugger
  <2> QED
    BY <1>2, <2>1, DetourInv, RunPrologueInv, JumpBackInv, SteppingStutters
<1>3. CASE \E a \in DOMAIN program.code : Execute(a)
  BY <1>3, ExecuteStepping
<1>4. CASE \E mode \in {"Line", "Into"} : BeginStep(mode)
  BY <1>4, BeginStepStepping
<1>5. CASE EndStep
  BY <1>5 DEF EndStep, NoStep, Stepping
<1>6. CASE UNCHANGED vars
  BY <1>6, SteppingKept DEF vars, debugger
<1> QED
  BY <1>1, <1>2, <1>3, <1>4, <1>5, <1>6 DEF Next

\* While a line of one function is stepped, its frame executes no instruction of
\* another line and does not return before the step has stopped, whatever calls
\* are made and however deep a recursion goes.
THEOREM StepsStay == Spec => []StepStaysOnLine
<1>1. Inv /\ Led /\ Stepping => StepStaysOnLine
  <2> SUFFICES ASSUME Inv, Led, Stepping, step.under_way, ~Stopped, analysis # {},
                      InOneFunction(step.ranges), Depth = step.depth,
                      NEW a \in DOMAIN program.code, Executes(a)
               PROVE  address_in_line_ranges(step.ranges, a)
    BY DEF StepStaysOnLine, Stepping
  <2>1. OnLine(a)
    BY ExecutesCounted DEF Stepping, InFrame, Depth
  <2>2. pc = get_true_instruction_address(a) /\ pc \notin step.stops
    BY ExecutesAt DEF Stopped, Led
  <2> QED
    BY <2>1, <2>2 DEF OnLine
<1>2. Init => Stepping
  BY DEF Init, NoStep, Stepping
<1> QED
  BY <1>1, <1>2, StepStepping, LedAlways, PTL DEF Spec

----------------------------------------------------------------------------
(* Stepping back into calls.                                               *)

\* A line whose predecessors a reverse step into finds.
Good(r) ==
    /\ Straight(r)
    /\ \A b \in CallsFrom(r) : \A fn \in FunctionsContaining(program, b.target) : ReturnsStraight(fn)

\* l is the line that ran last, in the functions called too, where a thread has
\* come from the start of r as far as x; it was begun with the count c.
LineRan(r, x, l, c) ==
    /\ l.branch_counter = c
    /\ (\A b \in CallsFrom(r) : x <= b.address) =>
          l.true_address = get_true_instruction_address(r.start)
    /\ \A b \in CallsFrom(r) :
          /\ b.address < x
          /\ \A d \in CallsFrom(r) : d.address < x => d.address <= b.address
          => \A fn \in FunctionsContaining(program, b.target) : \A y \in ReturnLine(program, fn) :
                l.true_address = get_true_instruction_address(y)

\* A frame that returns to t was called there, and its function, if called by
\* name and left by no jump, is the one that w is in.
CalledFor(t, w) ==
    \E c \in DOMAIN program.code :
        /\ program.code[c].category = "CALL" /\ EndOf(program, c) = t
        /\ program.code[c].target # Indirect =>
              \A fn \in FunctionsContaining(program, program.code[c].target) : StaysInside(fn) =>
                  fn \in FunctionsContaining(program, w)
Callers(k, o) == \A n \in 1..Len(k) : CalledFor(k[n], IF n = Len(k) THEN o ELSE k[n + 1])

Arrived(o, l, c) ==
    \A r \in LineRanges(program, o) : Good(r) /\ r.start < o => LineRan(r, o, l, c)
Left(s, l, c) ==
    \A r \in LineRanges(program, s) : Good(r) => LineRan(r, s, l, c)

\* What was moved is in a stub.
MapsBack ==
    \A x \in DOMAIN instruction_remap_ : \E i \in 1..Len(code_) :
        code_[i].op = "displaced" /\ code_[i].address = x

Lines ==
    /\ MapsBack
    /\ Callers(ReturnAddresses(stack), get_original_instruction_address(pc))
    /\ Arrived(get_original_instruction_address(pc), line, counter)
    /\ prev.direct => Left(Source, line, prev.counter)

LEMMA BranchAt ==
  ASSUME NEW p \in Programs, NEW a \in DOMAIN p.code, p.code[a].category # "OTHER",
         NEW fn \in FunctionsContaining(p, a)
  PROVE  \E b \in Branches(p, fn) :
            /\ b \in AllBranches(p) /\ b.address = a /\ b.next_address = EndOf(p, a)
            /\ b.target = p.code[a].target /\ b.kind = BranchKind(p.code[a])
<1> DEFINE b == [address |-> a, next_address |-> EndOf(p, a), target |-> p.code[a].target,
                 kind |-> BranchKind(p.code[a])]
<1>1. fn \in p.functions /\ a \in Within(p, fn)
  BY DEF FunctionsContaining, Within
<1>2. b \in Branches(p, fn)
  BY <1>1 DEF Branches
<1>3. b \in AllBranches(p)
  BY <1>1, <1>2 DEF AllBranches
<1>4. /\ b.address = a /\ b.next_address = EndOf(p, a)
      /\ b.target = p.code[a].target /\ b.kind = BranchKind(p.code[a])
  OBVIOUS
<1> HIDE DEF b
<1> QED
  BY <1>2, <1>3, <1>4

LEMMA BranchIs ==
  ASSUME NEW p \in Programs, NEW fn \in p.functions, NEW b \in Branches(p, fn)
  PROVE  /\ b.address \in DOMAIN p.code /\ fn \in FunctionsContaining(p, b.address)
         /\ p.code[b.address].category # "OTHER"
         /\ b.next_address = EndOf(p, b.address)
         /\ b.target = p.code[b.address].target /\ b.kind = BranchKind(p.code[b.address])
<1>1. PICK a \in Within(p, fn) :
        /\ p.code[a].category # "OTHER"
        /\ b = [address |-> a, next_address |-> EndOf(p, a), target |-> p.code[a].target,
                kind |-> BranchKind(p.code[a])]
  BY DEF Branches
<1>2. /\ b.address = a /\ b.next_address = EndOf(p, a)
      /\ b.target = p.code[a].target /\ b.kind = BranchKind(p.code[a])
  BY <1>1
<1>3. a \in DOMAIN p.code /\ fn \in FunctionsContaining(p, a)
  BY DEF Within, FunctionsContaining
<1> QED
  BY <1>1, <1>2, <1>3

LEMMA KindIs ==
  ASSUME NEW i
  PROVE  /\ i.category = "COND_BR" => BranchKind(i) = "Conditional"
         /\ i.category = "UNCOND_BR" /\ i.target = Indirect => BranchKind(i) = "IndirectJump"
         /\ i.category = "UNCOND_BR" /\ i.target # Indirect => BranchKind(i) = "UnconditionalJmp"
         /\ i.category = "CALL" /\ i.target = Indirect => BranchKind(i) = "IndirectCall"
         /\ i.category = "CALL" /\ i.target # Indirect => BranchKind(i) = "Call"
         /\ i.category = "RET" => BranchKind(i) = "Return"
BY DEF BranchKind

LEMMA OneFunction ==
  ASSUME NEW p \in Programs, NEW a \in DOMAIN p.code,
         NEW fn \in FunctionsContaining(p, a), NEW gn \in FunctionsContaining(p, a)
  PROVE  fn = gn
<1>1. /\ fn \in p.functions /\ fn.start <= a /\ a < fn.end
      /\ gn \in p.functions /\ gn.start <= a /\ a < gn.end
  BY DEF FunctionsContaining
<1>2. fn # gn => fn.end <= gn.start \/ gn.end <= fn.start
  BY <1>1, FunctionsApart
<1>3. a \in Nat /\ fn.start \in Nat /\ fn.end \in Nat /\ gn.start \in Nat /\ gn.end \in Nat
  BY <1>1, FunctionsApart, Instructions
<1> QED
  BY <1>1, <1>2, <1>3

\* An instruction but a jump or a return goes on in its function.
LEMMA GoesOnInFunction ==
  ASSUME NEW p \in Programs, NEW a \in DOMAIN p.code, p.code[a].category \notin {"UNCOND_BR", "RET"},
         NEW fn \in FunctionsContaining(p, a)
  PROVE  /\ EndOf(p, a) \in DOMAIN p.code
         /\ fn \in FunctionsContaining(p, EndOf(p, a)) /\ EndOf(p, a) # fn.start
<1>1. fn \in p.functions /\ fn.start <= a /\ a < fn.end
  BY DEF FunctionsContaining
<1>2. EndOf(p, a) < fn.end /\ EndOf(p, a) \in DOMAIN p.code
  BY <1>1, InFunction
<1>3. a \in Nat /\ EndOf(p, a) \in Nat /\ a < EndOf(p, a) /\ fn.start \in Nat
  BY <1>1, FunctionsApart, Instructions
<1>4. fn.start <= EndOf(p, a) /\ EndOf(p, a) # fn.start
  BY <1>1, <1>3
<1> QED
  BY <1>1, <1>2, <1>4 DEF FunctionsContaining

\* A range is a row of instructions of its line.
LEMMA RangeIsARow ==
  ASSUME NEW p \in Programs, NEW o \in DOMAIN p.code, NEW r \in LineRanges(p, o)
  PROVE  /\ r.start \in SameLine(p, o)
         /\ \A x \in Within(p, r) :
               /\ x \in SameLine(p, o)
               /\ x # r.start => \E c \in Within(p, r) : EndOf(p, c) = x
<1> DEFINE S == SameLine(p, o)
           ends == {EndOf(p, a) : a \in S} \ S
<1>1. PICK s \in S : r = [start |-> s, end |-> SmallestOf({e \in ends : e > s})]
  BY DEF LineRanges
<1>2. r.start = s /\ r.end = SmallestOf({e \in ends : e > s})
  BY <1>1
<1>3. \A x \in S : /\ x \in DOMAIN p.code /\ x \in Nat /\ EndOf(p, x) \in Nat /\ x < EndOf(p, x)
  BY Instructions DEF SameLine
<1>4. \A e \in ends : e > s => r.end <= e
  <2> DEFINE T == {e \in ends : e > s}
  <2> SUFFICES ASSUME NEW e \in T PROVE r.end <= e
    OBVIOUS
  <2>1. T \in SUBSET Nat /\ T # {}
    BY <1>3
  <2> HIDE DEF T
  <2>2. \A j \in T : SmallestOf(T) <= j
    BY <2>1, SmallestOfIs
  <2> QED
    BY <1>2, <2>2 DEF T
<1>5. r.start \in Nat /\ r.end \in Nat /\ r.start < r.end
  BY LineRangeIs
<1> HIDE DEF S
<1>6. ASSUME NEW x \in Within(p, r), x # r.start
      PROVE  x \in S /\ \E c \in Within(p, r) : EndOf(p, c) = x
  <2>1. x \in DOMAIN p.code /\ x \in Nat /\ s <= x /\ x < r.end /\ s < x
    <3>1. x \in DOMAIN p.code /\ s <= x /\ x < r.end /\ x # s
      BY <1>2, <1>6 DEF Within
    <3> QED
      BY <1>2, <1>5, <3>1, Instructions
  <2> DEFINE M == {x - y : y \in {z \in S : s <= z /\ z < x}}
  <2>2. M \in SUBSET Nat /\ M # {}
    BY <1>2, <1>3, <1>5, <2>1
  <2>3. PICK m \in M : \A k \in M : m <= k
    BY <2>2, LeastMember
  <2>4. PICK c \in S : s <= c /\ c < x /\ m = x - c
    BY <2>3
  <2>5. \A y \in S : s <= y /\ y < x => y <= c
    <3> SUFFICES ASSUME NEW y \in S, s <= y, y < x PROVE y <= c
      OBVIOUS
    <3>1. x - c <= x - y
      BY <2>3, <2>4
    <3>2. x \in Nat /\ y \in Nat /\ c \in Nat
      BY <1>3, <2>1
    <3> QED
      BY <3>1, <3>2
  <2>6. /\ c \in DOMAIN p.code /\ c \in Nat /\ EndOf(p, c) \in Nat /\ c < EndOf(p, c)
        /\ EndOf(p, c) <= x
    BY <1>3, <2>1, <2>4, Instructions
  <2>7. EndOf(p, c) \in S
    <3>1. SUFFICES ASSUME EndOf(p, c) \notin S PROVE FALSE
      OBVIOUS
    <3>2. EndOf(p, c) \in ends
      BY <3>1
    <3>3. EndOf(p, c) > s
      BY <1>2, <1>5, <2>4, <2>6
    <3>4. r.end <= EndOf(p, c)
      BY <1>4, <3>2, <3>3
    <3> QED
      BY <1>5, <2>1, <2>6, <3>4
  <2>8. EndOf(p, c) = x
    <3>1. ~(EndOf(p, c) < x)
      <4>1. s <= EndOf(p, c)
        BY <1>2, <1>5, <2>4, <2>6
      <4>2. EndOf(p, c) < x => EndOf(p, c) <= c
        BY <2>5, <2>7, <4>1
      <4> QED
        BY <2>6, <4>2
    <3> QED
      BY <2>1, <2>6, <3>1
  <2>9. c \in Within(p, r)
    BY <1>2, <1>5, <2>1, <2>4, <2>6 DEF Within
  <2> QED
    BY <2>7, <2>8, <2>9
<1> QED
  BY <1>1, <1>2, <1>6 DEF S

\* The only range of its line that is left at its end and at calls by name.
LEMMA StraightRange ==
  ASSUME program \in Programs, NEW o, NEW r \in LineRanges(program, o), Straight(r)
  PROVE  /\ o \in DOMAIN program.code /\ o \in Within(program, r)
         /\ r.start \in Within(program, r)
         /\ r.start \in Nat /\ r.end \in Nat /\ r.start < r.end
         /\ \A x \in Within(program, r) : LineRanges(program, x) = {r}
<1>1. o \in DOMAIN program.code /\ address_in_line_ranges(LineRanges(program, o), o)
  BY InLineRanges
<1>2. \A x \in SameLine(program, o) : LineRanges(program, x) = LineRanges(program, o)
  BY <1>1 DEF LineRanges, SameLine
<1>3. r.start \in SameLine(program, o) /\ \A x \in Within(program, r) : x \in SameLine(program, o)
  BY <1>1, RangeIsARow
<1>4. LineRanges(program, o) = {r}
  BY <1>2, <1>3 DEF Straight
<1>5. o \in Within(program, r)
  BY <1>1, <1>4 DEF address_in_line_ranges, Within
<1>6. r.start \in Nat /\ r.end \in Nat /\ r.start < r.end
  BY <1>1, LineRangeIs
<1>7. r.start \in Within(program, r)
  BY <1>3, <1>6 DEF Within, SameLine
<1> QED
  BY <1>1, <1>2, <1>3, <1>4, <1>5, <1>6, <1>7

\* How a thread comes to an instruction of it but the first: from the one before
\* it, or back from a call.
LEMMA StraightOn ==
  ASSUME program \in Programs, NEW o, NEW r \in LineRanges(program, o), Straight(r),
         NEW x \in Within(program, r), x # r.start
  PROVE  /\ \E c \in Within(program, r) :
               /\ EndOf(program, c) = x
               /\ \/ program.code[c].category = "OTHER"
                  \/ program.code[c].category = "CALL" /\ program.code[c].target # Indirect
         /\ \A a \in DOMAIN program.code : program.code[a].category # "OTHER" => program.code[a].target # x
         /\ \A fn \in program.functions : x \notin Leaders(program, fn)
<1>1. o \in DOMAIN program.code /\ r.start \in Nat /\ r.end \in Nat
  BY StraightRange
<1>2. PICK c \in Within(program, r) : EndOf(program, c) = x
  BY <1>1, RangeIsARow
<1>3. /\ x \in DOMAIN program.code /\ c \in DOMAIN program.code
      /\ x \in Nat /\ r.start <= x /\ x < r.end /\ x # r.end
  <2>1. x \in DOMAIN program.code /\ c \in DOMAIN program.code /\ r.start <= x /\ x < r.end
    BY DEF Within
  <2> QED
    BY <1>1, <2>1, Instructions
<1>4. PICK gn \in FunctionsContaining(program, c) : TRUE
  BY <1>3, InFunction DEF FunctionsContaining
<1>5. gn \in program.functions
  BY DEF FunctionsContaining
<1> DEFINE i == program.code[c]
<1>6. i.category # "OTHER" => i.category = "CALL" /\ i.target # Indirect
  <2> SUFFICES ASSUME i.category # "OTHER" PROVE i.category = "CALL" /\ i.target # Indirect
    OBVIOUS
  <2>1. PICK b \in AllBranches(program) : b.address = c /\ b.next_address = x /\ b.kind = BranchKind(i)
    BY <1>2, <1>3, <1>4, BranchAt
  <2>2. b.kind = "Call"
    BY <1>3, <2>1 DEF Straight
  <2>3. i.category \in {"OTHER", "COND_BR", "UNCOND_BR", "CALL", "RET"}
    BY <1>3, Instructions
  <2> HIDE DEF i
  <2> QED
    BY <2>1, <2>2, <2>3, KindIs
<1>7. \A b \in AllBranches(program) : b.target # x
  BY DEF Straight
<1>8. ASSUME NEW a \in DOMAIN program.code, program.code[a].category # "OTHER"
      PROVE  program.code[a].target # x
  <2>1. PICK fn \in FunctionsContaining(program, a) : TRUE
    BY <1>8, InFunction DEF FunctionsContaining
  <2>2. \E b \in AllBranches(program) : b.target = program.code[a].target
    BY <1>8, BranchAt
  <2> QED
    BY <1>7, <2>2
<1>9. ASSUME NEW fn \in program.functions, x \in Leaders(program, fn) PROVE FALSE
  <2>1. fn \in FunctionsContaining(program, x)
    BY <1>9, LeaderIs DEF FunctionsContaining
  <2>2. i.category \notin {"UNCOND_BR", "RET"}
    BY <1>6
  <2>3. gn \in FunctionsContaining(program, x) /\ x # gn.start
    BY <1>2, <1>3, <2>2, GoesOnInFunction
  <2>4. fn = gn
    BY <1>3, <2>1, <2>3, OneFunction
  <2>5. \A b \in Branches(program, fn) : b \in AllBranches(program)
    BY DEF AllBranches
  <2>6. PICK b \in Branches(program, fn) :
           b.next_address = x /\ b.kind \in {"Conditional", "UnconditionalJmp", "IndirectJump"}
    BY <1>7, <1>9, <2>3, <2>4, <2>5 DEF Leaders
  <2>7. b.address \in DOMAIN program.code /\ EndOf(program, b.address) = x
    BY <2>6, BranchIs
  <2>8. b.address = c
    BY <1>2, <1>3, <2>7, EndsApart
  <2>9. b.kind = "Call"
    BY <1>3, <2>5, <2>6, <2>8 DEF Straight
  <2> QED
    BY <2>6, <2>9
<1> QED
  BY <1>2, <1>6, <1>8, <1>9

LEMMA GoodIsStraight == \A r : Good(r) => Straight(r)
BY DEF Good

\* Where control returns to from a function called by a line that runs straight.
LEMMA OneReturn ==
  ASSUME program \in Programs, NEW fn \in program.functions, ReturnsStraight(fn)
  PROVE  \E a \in DOMAIN program.code : \E r \in LineRanges(program, a) :
            /\ Good(r) /\ CallsFrom(r) = {}
            /\ ReturnLine(program, fn) = {r.start}
            /\ \A c \in DOMAIN program.code :
                  fn \in FunctionsContaining(program, c) /\ program.code[c].category = "RET" => c = a
<1>1. PICK b \in Branches(program, fn) :
        /\ {c \in Branches(program, fn) : c.kind = "Return"} = {b}
        /\ LineRanges(program, b.address) # {}
        /\ \A r \in LineRanges(program, b.address) : Straight(r) /\ CallsFrom(r) = {}
  BY DEF ReturnsStraight
<1>2. PICK a : a = b.address
  OBVIOUS
<1>3. PICK r : r \in LineRanges(program, a)
  BY <1>1, <1>2
<1>4. Straight(r) /\ CallsFrom(r) = {} /\ Good(r)
  BY <1>1, <1>2, <1>3 DEF Good
<1>5. a \in DOMAIN program.code /\ a \in Nat /\ a \in Within(program, r) /\ LineRanges(program, a) = {r}
  <2>1. a \in DOMAIN program.code /\ a \in Within(program, r)
    BY <1>3, <1>4, StraightRange
  <2>2. LineRanges(program, a) = {r}
    BY <1>3, <1>4, <2>1, StraightRange
  <2> QED
    BY <2>1, <2>2, Instructions
<1>6. ASSUME NEW c \in DOMAIN program.code, fn \in FunctionsContaining(program, c),
             program.code[c].category = "RET"
      PROVE  c = a
  <2>1. program.code[c].category # "OTHER" /\ BranchKind(program.code[c]) = "Return"
    BY <1>6, KindIs
  <2>2. PICK d \in Branches(program, fn) : d.address = c /\ d.kind = BranchKind(program.code[c])
    BY <1>6, <2>1, BranchAt
  <2>3. d = b
    BY <1>1, <2>1, <2>2
  <2> QED
    BY <1>2, <2>2, <2>3
<1>7. ReturnLine(program, fn) = {r.start}
  <2> DEFINE R == {c.address : c \in {d \in Branches(program, fn) :
                      d.kind = "Return" /\ program.line[d.address] # NoLine}}
             Q == {s \in UNION {LineRanges(program, x) : x \in R} :
                      \E x \in R : /\ \A y \in R : y <= x
                                   /\ s.start <= x /\ x < s.end}
  <2>1. program.line[a] # NoLine
    BY <1>3, <1>5 DEF LineRanges
  <2>2. R = {a}
    BY <1>1, <1>2, <2>1
  <2>3. r.start <= a /\ a < r.end /\ a <= a
    BY <1>5 DEF Within
  <2>4. ReturnLine(program, fn) = {s.start : s \in Q}
    BY DEF ReturnLine
  <2> HIDE DEF R
  <2>5. Q = {r}
    <3>1. UNION {LineRanges(program, x) : x \in R} = {r}
      BY <1>5, <2>2
    <3>2. \E x \in R : /\ \A y \in R : y <= x
                       /\ r.start <= x /\ x < r.end
      BY <2>2, <2>3
    <3> QED
      BY <3>1, <3>2
  <2> HIDE DEF Q
  <2> QED
    BY <2>4, <2>5
<1> QED
  BY <1>3, <1>4, <1>5, <1>6, <1>7

LEMMA CallIs ==
  ASSUME program \in Programs, NEW r, NEW b \in CallsFrom(r)
  PROVE  /\ b \in AllBranches(program) /\ b.kind = "Call"
         /\ b.address \in Within(program, r) /\ b.address \in DOMAIN program.code
         /\ b.address \in Nat /\ b.address < Region /\ Region \in Nat
         /\ program.code[b.address].category = "CALL"
         /\ b.target = program.code[b.address].target /\ b.target # Indirect
<1>1. b \in AllBranches(program) /\ b.kind = "Call" /\ b.address \in Within(program, r)
  BY DEF CallsFrom
<1>2. PICK fn \in program.functions : b \in Branches(program, fn)
  BY <1>1 DEF AllBranches
<1>3. /\ b.address \in DOMAIN program.code
      /\ program.code[b.address].category # "OTHER"
      /\ b.target = program.code[b.address].target
      /\ b.kind = BranchKind(program.code[b.address])
  BY <1>2, BranchIs
<1> DEFINE i == program.code[b.address]
<1>4. i.category = "CALL" /\ i.target # Indirect
  <2>1. i.category \in {"OTHER", "COND_BR", "UNCOND_BR", "CALL", "RET"} /\ i.category # "OTHER"
    BY <1>3, Instructions
  <2>2. BranchKind(i) = "Call"
    BY <1>1, <1>3
  <2> HIDE DEF i
  <2> QED
    BY <2>1, <2>2, KindIs
<1> QED
  BY <1>1, <1>3, <1>4, Instructions

LEMMA GreatestCall ==
  ASSUME program \in Programs, NEW r, NEW C \in SUBSET CallsFrom(r), C # {}
  PROVE  LastCall(C) \in C /\ \A d \in C : d.address <= LastCall(C).address
<1>1. \A b \in C : b.address \in Nat /\ b.address < Region /\ Region \in Nat
  BY CallIs
<1> DEFINE M == {Region - b.address : b \in C}
<1>2. M \in SUBSET Nat /\ M # {}
  BY <1>1
<1>3. PICK m \in M : \A n \in M : m <= n
  BY <1>2, LeastMember
<1>4. PICK b \in C : m = Region - b.address
  BY <1>3
<1>5. \A d \in C : d.address <= b.address
  <2> TAKE d \in C
  <2>1. Region - b.address <= Region - d.address
    BY <1>3, <1>4
  <2>2. b.address \in Nat /\ d.address \in Nat /\ Region \in Nat
    BY <1>1
  <2> DEFINE x == b.address
             y == d.address
  <2> HIDE DEF x, y
  <2>3. x \in Nat /\ y \in Nat /\ Region \in Nat /\ Region - x <= Region - y
    BY <2>1, <2>2 DEF x, y
  <2>4. y <= x
    BY <2>3
  <2> QED
    BY <2>4 DEF x, y
<1> QED
  BY <1>5 DEF LastCall

\* What is left to know of the program's step.
LEMMA ProgramLeads ==
  ASSUME Inv, NEW a \in DOMAIN program.code, Execute(a)
  PROVE  LET i == program.code[a]
             o == get_original_instruction_address(pc)'
             k == ReturnAddresses(stack)
             l == ReturnAddresses(stack)'
         IN  /\ get_original_instruction_address(pc) = a
             /\ i.category \in {"UNCOND_BR", "CALL"} =>
                   IF i.target = Indirect THEN o \in program.taken ELSE o = i.target
             /\ i.category = "RET" /\ k = <<>> => o = Exited /\ l = <<>>
<1> DEFINE i == program.code[a]
           o == get_original_instruction_address(pc)'
           k == ReturnAddresses(stack)
           l == ReturnAddresses(stack)'
           e == Original!InstructionEnd(program, a)
<1>1. get_original_instruction_address(pc) = a
  BY ExecutesCounted DEF Execute
<1>2. o \in Original!Destinations(program, a, k) /\ l = Original!StackAfter(program, a, k, e)
  <2>1. Original!Execute
    BY ExecuteInv
  <2> QED
    BY <1>1, <2>1 DEF Original!Execute
<1>3. /\ i.category = "UNCOND_BR" =>
            Original!Destinations(program, a, k) = IF i.target = Indirect THEN program.taken ELSE {i.target}
      /\ i.category = "CALL" =>
            Original!Destinations(program, a, k) = IF i.target = Indirect THEN program.taken ELSE {i.target}
      /\ i.category = "RET" /\ k = <<>> => Original!Destinations(program, a, k) = {Exited}
  BY DEF Original!Destinations, Original!Indirect, Indirect, Original!Exited, Exited
<1>4. i.category = "RET" /\ k = <<>> => Original!StackAfter(program, a, k, e) = <<>>
  BY DEF Original!StackAfter
<1> HIDE DEF i, o, k, l, e
<1>5. i.category \in {"UNCOND_BR", "CALL"} =>
         IF i.target = Indirect THEN o \in program.taken ELSE o = i.target
  BY <1>2, <1>3
<1>6. i.category = "RET" /\ k = <<>> => o = Exited /\ l = <<>>
  BY <1>2, <1>3, <1>4
<1> QED
  BY <1>1, <1>5, <1>6 DEF i, o, k, l

\* An instruction of a line extends what ran of it.
LEMMA RunsLine ==
  ASSUME Inv, Remaps, NEW a \in DOMAIN program.code, Execute(a), Arrived(a, line, counter),
         NEW r \in LineRanges(program, a), Good(r), NEW l, l = line'
  PROVE  LineRan(r, a, l, counter)
<1>1. program \in Programs /\ Straight(r) /\ Executes(a)
  BY DEF Inv, BlocksKept, Good, Execute
<1>2. /\ a \in Within(program, r) /\ LineRanges(program, a) = {r}
      /\ r.start \in Nat /\ a \in Nat /\ r.start <= a
  <2>1. a \in Within(program, r) /\ r.start \in Nat
    BY <1>1, StraightRange
  <2>2. LineRanges(program, a) = {r}
    BY <1>1, <2>1, StraightRange
  <2>3. r.start <= a
    BY <2>1 DEF Within
  <2> QED
    BY <1>1, <2>1, <2>2, <2>3, Instructions
<1>3. StartsLine(a) <=> r.start = a
  BY <1>2 DEF StartsLine
<1>4. pc = get_true_instruction_address(a)
  BY <1>1, ExecutesAt
<1>5. l = IF StartsLine(a) THEN Candidate(pc, counter) ELSE line
  BY DEF Execute
<1>6. CASE r.start = a
  <2>1. l.true_address = get_true_instruction_address(r.start) /\ l.branch_counter = counter
    BY <1>3, <1>4, <1>5, <1>6 DEF Candidate
  <2>2. \A b \in CallsFrom(r) : ~(b.address < a)
    <3> TAKE b \in CallsFrom(r)
    <3>1. b.address \in Within(program, r) /\ b.address \in Nat
      BY <1>1, CallIs
    <3>2. a <= b.address
      BY <1>6, <3>1 DEF Within
    <3> QED
      BY <1>2, <3>1, <3>2
  <2> QED
    BY <2>1, <2>2 DEF LineRan
<1>7. CASE r.start # a
  <2>1. l = line /\ r.start < a
    BY <1>2, <1>3, <1>5, <1>7
  <2> QED
    BY <2>1 DEF Arrived
<1> QED
  BY <1>6, <1>7

\* Past an instruction that calls nothing, the same has run of the line.
LEMMA RanOn ==
  ASSUME program \in Programs, NEW r, NEW a \in DOMAIN program.code, program.code[a].category # "CALL",
         NEW l, NEW c, LineRan(r, a, l, c)
  PROVE  LineRan(r, EndOf(program, a), l, c)
<1>1. \A b \in CallsFrom(r) : b.address < EndOf(program, a) <=> b.address < a
  <2> TAKE b \in CallsFrom(r)
  <2>1. b.address \in DOMAIN program.code /\ b.address # a /\ b.address \in Nat
    BY CallIs
  <2>2. a < b.address => EndOf(program, a) <= b.address
    BY <2>1, Instructions
  <2>3. a \in Nat /\ EndOf(program, a) \in Nat /\ a < EndOf(program, a)
    BY Instructions
  <2> QED
    BY <2>1, <2>2, <2>3
<1>2. \A b \in CallsFrom(r) : EndOf(program, a) <= b.address <=> a <= b.address
  <2> TAKE b \in CallsFrom(r)
  <2>1. b.address \in Nat /\ a \in Nat /\ EndOf(program, a) \in Nat
    BY CallIs, Instructions
  <2> QED
    BY <1>1, <2>1
<1> QED
  BY <1>1, <1>2 DEF LineRan

\* Where the program goes, its line has run as far as there.
LEMMA ArrivesOnLine ==
  ASSUME Inv, Remaps, NEW a \in DOMAIN program.code, Execute(a),
         Arrived(a, line, counter), Callers(ReturnAddresses(stack), a),
         NEW o, o = get_original_instruction_address(pc)', NEW l, l = line'
  PROVE  Arrived(o, l, counter)
<1> SUFFICES ASSUME NEW r \in LineRanges(program, o), Good(r), r.start < o
             PROVE  LineRan(r, o, l, counter)
  BY DEF Arrived
<1>1. program \in Programs /\ Straight(r)
  BY DEF Inv, BlocksKept, Good
<1>2. /\ o \in Within(program, r) /\ o # r.start /\ o \in DOMAIN program.code /\ o \in Nat /\ o # Exited
      /\ \A x \in Within(program, r) : LineRanges(program, x) = {r}
  <2>1. o \in DOMAIN program.code /\ o \in Within(program, r) /\ r.start \in Nat
    BY <1>1, StraightRange
  <2>2. o \in Nat /\ 0 < o
    BY <1>1, <2>1, Instructions
  <2>3. o # r.start /\ o # Exited
    BY <2>1, <2>2 DEF Exited
  <2> QED
    BY <1>1, <2>1, <2>2, <2>3, StraightRange
<1>3. PICK c \in Within(program, r) :
        /\ EndOf(program, c) = o
        /\ \/ program.code[c].category = "OTHER"
           \/ program.code[c].category = "CALL" /\ program.code[c].target # Indirect
  BY <1>1, <1>2, StraightOn
<1>4. c \in DOMAIN program.code
  BY DEF Within
<1>5. \A x \in DOMAIN program.code : program.code[x].category # "OTHER" => program.code[x].target # o
  BY <1>1, <1>2, StraightOn
<1>6. \A fn \in program.functions : o \notin Leaders(program, fn)
  BY <1>1, <1>2, StraightOn
<1>7. PICK k : k = ReturnAddresses(stack)
  OBVIOUS
<1> DEFINE i == program.code[a]
<1>8. /\ k \in Seq(Nat)
      /\ i.category \in {"OTHER", "COND_BR", "UNCOND_BR", "CALL", "RET"}
      /\ i.category = "OTHER" => o = EndOf(program, a)
      /\ i.category = "COND_BR" => o = i.target \/ o = EndOf(program, a)
      /\ i.category = "RET" /\ k # <<>> => o = k[Len(k)]
  BY <1>7, ProgramSteps
<1>9. /\ i.category \in {"UNCOND_BR", "CALL"} =>
            IF i.target = Indirect THEN o \in program.taken ELSE o = i.target
      /\ i.category = "RET" /\ k = <<>> => o = Exited
  BY <1>7, ProgramLeads
<1>10. i.category \notin {"UNCOND_BR", "CALL"}
  <2> SUFFICES ASSUME i.category \in {"UNCOND_BR", "CALL"} PROVE FALSE
    OBVIOUS
  <2>1. i.target = Indirect /\ o \in program.taken
    BY <1>5, <1>9
  <2>2. PICK fn \in FunctionsContaining(program, o) : TRUE
    BY <1>1, <1>2, InFunction DEF FunctionsContaining
  <2>3. fn \in program.functions /\ o \in Leaders(program, fn)
    BY <1>1, <2>1, ProgramsAssumption DEF Entries, FunctionsContaining
  <2> QED
    BY <1>6, <2>3
<1>11. i.category # "COND_BR"
  <2> SUFFICES ASSUME i.category = "COND_BR" PROVE FALSE
    OBVIOUS
  <2>1. o = EndOf(program, a)
    BY <1>5, <1>8
  <2>2. a = c
    BY <1>1, <1>3, <1>4, <2>1, EndsApart
  <2> QED
    BY <1>3, <2>2
<1>12. CASE i.category = "OTHER"
  <2>1. o = EndOf(program, a) /\ a = c
    BY <1>1, <1>3, <1>4, <1>8, <1>12, EndsApart
  <2>2. r \in LineRanges(program, a)
    BY <1>2, <1>3, <2>1
  <2>3. LineRan(r, a, l, counter)
    BY <2>2, RunsLine
  <2> QED
    BY <1>1, <1>12, <2>1, <2>3, RanOn
<1>13. CASE i.category = "RET"
  <2>1. k # <<>> /\ o = k[Len(k)]
    BY <1>2, <1>8, <1>9, <1>13
  <2>2. Len(k) \in 1..Len(k)
    BY <1>8, <2>1
  <2>3. PICK d \in DOMAIN program.code :
          /\ program.code[d].category = "CALL" /\ EndOf(program, d) = k[Len(k)]
          /\ program.code[d].target # Indirect =>
                \A fn \in FunctionsContaining(program, program.code[d].target) : StaysInside(fn) =>
                    fn \in FunctionsContaining(program, a)
    BY <1>7, <2>2 DEF Callers, CalledFor
  <2>4. d = c
    BY <1>1, <1>3, <1>4, <2>1, <2>3, EndsApart
  <2>5. program.code[c].category = "CALL" /\ program.code[c].target # Indirect
    BY <1>3, <2>3, <2>4
  <2>6. PICK hn \in FunctionsContaining(program, c) : TRUE
    BY <1>1, <1>4, InFunction DEF FunctionsContaining
  <2>7. PICK e \in CallsFrom(r) : e.address = c /\ e.target = program.code[c].target
    <3>1. program.code[c].category # "OTHER" /\ BranchKind(program.code[c]) = "Call"
      BY <2>5, KindIs
    <3>2. PICK e \in AllBranches(program) :
            e.address = c /\ e.target = program.code[c].target /\ e.kind = BranchKind(program.code[c])
      BY <1>1, <1>4, <2>6, <3>1, BranchAt
    <3>3. e \in CallsFrom(r)
      BY <3>1, <3>2 DEF CallsFrom
    <3> QED
      BY <3>2, <3>3
  <2>8. c \in Nat /\ c < o
    BY <1>1, <1>3, <1>4, Instructions
  <2>9. \A b \in CallsFrom(r) : b.address < o => b.address <= c
    <3> SUFFICES ASSUME NEW b \in CallsFrom(r), b.address < o PROVE b.address <= c
      OBVIOUS
    <3>1. b.address \in DOMAIN program.code /\ b.address \in Nat
      BY <1>1, CallIs
    <3>2. c < b.address => o <= b.address
      BY <1>1, <1>3, <1>4, <3>1, Instructions
    <3> QED
      BY <1>2, <2>8, <3>1, <3>2
  <2>10. ASSUME NEW fn \in FunctionsContaining(program, e.target), NEW y \in ReturnLine(program, fn)
         PROVE  l.true_address = get_true_instruction_address(y) /\ l.branch_counter = counter
    <3>1. fn \in program.functions /\ ReturnsStraight(fn) /\ StaysInside(fn)
      BY DEF Good, ReturnsStraight, FunctionsContaining
    <3>2. fn \in FunctionsContaining(program, a)
      BY <2>3, <2>4, <2>5, <2>7, <3>1
    <3>3. PICK x \in DOMAIN program.code : \E q \in LineRanges(program, x) :
            /\ Good(q) /\ CallsFrom(q) = {}
            /\ ReturnLine(program, fn) = {q.start}
            /\ \A z \in DOMAIN program.code :
                  fn \in FunctionsContaining(program, z) /\ program.code[z].category = "RET" => z = x
      BY <1>1, <3>1, OneReturn
    <3>4. PICK q \in LineRanges(program, x) :
            Good(q) /\ CallsFrom(q) = {} /\ ReturnLine(program, fn) = {q.start} /\ a = x
      BY <1>13, <3>2, <3>3
    <3>5. LineRan(q, a, l, counter)
      BY <3>4, RunsLine
    <3>6. l.true_address = get_true_instruction_address(q.start) /\ l.branch_counter = counter
      BY <3>4, <3>5 DEF LineRan
    <3> QED
      BY <3>4, <3>6
  <2>11. ~\A b \in CallsFrom(r) : o <= b.address
    BY <1>2, <2>7, <2>8
  <2>12. ASSUME NEW b \in CallsFrom(r), b.address < o,
                \A z \in CallsFrom(r) : z.address < o => z.address <= b.address
         PROVE  b.target = e.target
    <3>1. b.address <= c /\ c <= b.address
      BY <2>7, <2>8, <2>9, <2>12
    <3>2. b.address \in Nat /\ b.target = program.code[b.address].target
      BY <1>1, CallIs
    <3>3. b.address = c
      BY <2>8, <3>1, <3>2
    <3> QED
      BY <2>7, <3>2, <3>3
  <2>13. l.branch_counter = counter
    <3>1. program.code[c].target \in DOMAIN program.code
      BY <1>1, <1>4, <2>5, ProgramsAssumption DEF Leads
    <3>2. PICK fn \in FunctionsContaining(program, e.target) : TRUE
      BY <1>1, <2>7, <3>1, InFunction DEF FunctionsContaining
    <3>3. fn \in program.functions /\ ReturnsStraight(fn)
      BY <2>7, <3>2 DEF Good, FunctionsContaining
    <3>4. PICK y : y \in ReturnLine(program, fn)
      BY <1>1, <3>3, OneReturn
    <3> QED
      BY <2>10, <3>2, <3>4
  <2> QED
    BY <2>10, <2>11, <2>12, <2>13 DEF LineRan
<1> QED
  BY <1>8, <1>10, <1>11, <1>12, <1>13

\* A function that is left by no jump is left by returns.
LEMMA StaysInFunction ==
  ASSUME program \in Programs, NEW a \in DOMAIN program.code, NEW fn \in FunctionsContaining(program, a),
         StaysInside(fn), program.code[a].category \notin {"CALL", "RET"},
         NEW o, program.code[a].category = "OTHER" => o = EndOf(program, a),
         program.code[a].category = "COND_BR" => o = program.code[a].target \/ o = EndOf(program, a),
         program.code[a].category = "UNCOND_BR" /\ program.code[a].target # Indirect =>
            o = program.code[a].target
  PROVE  fn \in FunctionsContaining(program, o)
<1> DEFINE i == program.code[a]
<1>1. i.category \in {"OTHER", "COND_BR", "UNCOND_BR", "CALL", "RET"}
  BY Instructions
<1>2. i.category \notin {"UNCOND_BR", "RET"} => fn \in FunctionsContaining(program, EndOf(program, a))
  BY GoesOnInFunction
<1>3. fn \in program.functions
  BY DEF FunctionsContaining
<1>4. ASSUME i.category \in {"COND_BR", "UNCOND_BR"}
      PROVE  /\ i.category = "UNCOND_BR" => i.target # Indirect
             /\ fn \in FunctionsContaining(program, i.target)
  <2>1. PICK b \in Branches(program, fn) : b.kind = BranchKind(i) /\ b.target = i.target
    BY <1>4, BranchAt
  <2>2. /\ b.kind # "IndirectJump"
        /\ b.kind \in {"Conditional", "UnconditionalJmp"} => fn.start <= b.target /\ b.target < fn.end
    BY DEF StaysInside
  <2> DEFINE t == i.target
  <2> HIDE DEF i
  <2>3. i.category = "UNCOND_BR" => t # Indirect
    BY <2>1, <2>2, KindIs
  <2>4. b.kind \in {"Conditional", "UnconditionalJmp"}
    BY <1>4, <2>1, <2>3, KindIs
  <2> QED
    BY <1>3, <2>1, <2>2, <2>3, <2>4 DEF FunctionsContaining
<1> QED
  BY <1>1, <1>2, <1>4

LEMMA CallerStays ==
  ASSUME NEW t, NEW a, NEW o, CalledFor(t, a),
         \A fn \in FunctionsContaining(program, a) : StaysInside(fn) => fn \in FunctionsContaining(program, o)
  PROVE  CalledFor(t, o)
BY DEF CalledFor

LEMMA Popped ==
  ASSUME NEW T, NEW k \in Seq(T), k # <<>>, NEW m, m = SubSeq(k, 1, Len(k) - 1)
  PROVE  Len(k) > 0 /\ Len(m) = Len(k) - 1 /\ \A n \in 1..(Len(k) - 1) : m[n] = k[n]
<1>1. m = Front(k)
  BY DEF Front
<1> QED
  BY <1>1, FrontIs

\* The program's step, as its frames see it.
LEMMA ExecuteCallers ==
  ASSUME Inv, NEW a \in DOMAIN program.code, Execute(a), Callers(ReturnAddresses(stack), a),
         NEW o, o = get_original_instruction_address(pc)', NEW l, l = ReturnAddresses(stack)'
  PROVE  Callers(l, o)
<1>1. program \in Programs
  BY DEF Inv, BlocksKept
<1>2. PICK k : k = ReturnAddresses(stack)
  OBVIOUS
<1> DEFINE i == program.code[a]
           e == EndOf(program, a)
<1>3. /\ k \in Seq(Nat) /\ e \in Nat
      /\ i.category = "OTHER" => o = e
      /\ i.category = "COND_BR" => o = i.target \/ o = e
      /\ i.category = "UNCOND_BR" /\ i.target # Indirect => o = i.target
      /\ i.category = "RET" /\ k # <<>> => o = k[Len(k)] /\ l = SubSeq(k, 1, Len(k) - 1)
      /\ i.category = "CALL" => l = Append(k, e)
      /\ i.category \notin {"CALL", "RET"} => l = k
  BY <1>2, ProgramSteps
<1>4. /\ i.category = "CALL" => IF i.target = Indirect THEN o \in program.taken ELSE o = i.target
      /\ i.category = "RET" /\ k = <<>> => l = <<>>
  BY <1>2, ProgramLeads
<1>5. /\ Len(k) \in Nat
      /\ \A n \in 1..Len(k) : CalledFor(k[n], IF n = Len(k) THEN a ELSE k[n + 1])
  BY <1>2, <1>3 DEF Callers
<1>6. CASE i.category \notin {"CALL", "RET"}
  <2>1. \A fn \in FunctionsContaining(program, a) : StaysInside(fn) => fn \in FunctionsContaining(program, o)
    BY <1>1, <1>3, <1>6, StaysInFunction
  <2>2. \A t : CalledFor(t, a) => CalledFor(t, o)
    BY <2>1, CallerStays
  <2>3. l = k
    BY <1>3, <1>6
  <2> QED
    BY <1>5, <2>2, <2>3 DEF Callers
<1>7. CASE i.category = "CALL"
  <2>1. l = Append(k, e)
    BY <1>3, <1>7
  <2>2. /\ Len(l) = Len(k) + 1 /\ l[Len(k) + 1] = e
        /\ \A n \in 1..Len(k) : l[n] = k[n]
    BY <1>3, <2>1
  <2>3. \A fn \in FunctionsContaining(program, a) : fn \in FunctionsContaining(program, e)
    BY <1>1, <1>7, GoesOnInFunction
  <2>4. \A t : CalledFor(t, a) => CalledFor(t, e)
    BY <2>3, CallerStays
  <2>5. CalledFor(e, o)
    <3>1. i.target # Indirect => o = i.target
      BY <1>4, <1>7
    <3> QED
      BY <1>7, <3>1 DEF CalledFor
  <2> SUFFICES ASSUME NEW n \in 1..Len(l) PROVE CalledFor(l[n], IF n = Len(l) THEN o ELSE l[n + 1])
    BY DEF Callers
  <2>6. CASE n = Len(k) + 1
    BY <2>2, <2>5, <2>6
  <2>7. CASE n = Len(k)
    <3>1. n \in 1..Len(k) /\ n # Len(l) /\ l[n] = k[n] /\ l[n + 1] = e
      BY <1>5, <2>2, <2>7
    <3>2. CalledFor(k[n], a)
      BY <1>5, <2>7, <3>1
    <3> QED
      BY <2>4, <3>1, <3>2
  <2>8. CASE n # Len(k) + 1 /\ n # Len(k)
    <3>1. n \in 1..Len(k) /\ n + 1 \in 1..Len(k) /\ n # Len(l)
      BY <1>5, <2>2, <2>8
    <3>2. l[n] = k[n] /\ l[n + 1] = k[n + 1]
      BY <2>2, <3>1
    <3>3. CalledFor(k[n], k[n + 1])
      BY <1>5, <2>8, <3>1
    <3> QED
      BY <3>1, <3>2, <3>3
  <2> QED
    BY <2>6, <2>7, <2>8
<1>8. CASE i.category = "RET" /\ k # <<>>
  <2>1. o = k[Len(k)] /\ l = SubSeq(k, 1, Len(k) - 1)
    BY <1>3, <1>8
  <2>2. /\ Len(k) > 0 /\ Len(l) = Len(k) - 1
        /\ \A n \in 1..(Len(k) - 1) : l[n] = k[n]
    <3>1. k \in Seq(Nat) /\ k # <<>>
      BY <1>3, <1>8
    <3> QED
      BY <2>1, <3>1, Popped
  <2> SUFFICES ASSUME NEW n \in 1..Len(l) PROVE CalledFor(l[n], IF n = Len(l) THEN o ELSE l[n + 1])
    BY DEF Callers
  <2>3. n \in 1..Len(k) /\ n # Len(k) /\ l[n] = k[n]
    BY <1>5, <2>2
  <2>4. CalledFor(k[n], k[n + 1])
    BY <1>5, <2>3
  <2>5. n = Len(l) => k[n + 1] = o
    <3>1. n = Len(l) => n + 1 = Len(k)
      BY <1>5, <2>2
    <3> QED
      BY <2>1, <3>1
  <2>6. n # Len(l) => l[n + 1] = k[n + 1]
    <3>1. n # Len(l) => n + 1 \in 1..(Len(k) - 1)
      BY <1>5, <2>2
    <3> QED
      BY <2>2, <3>1
  <2> QED
    BY <2>3, <2>4, <2>5, <2>6
<1>9. CASE i.category = "RET" /\ k = <<>>
  BY <1>4, <1>9 DEF Callers
<1> QED
  BY <1>6, <1>7, <1>8, <1>9

\* A step of the thread, seen from where it leads.
LEMMA LinesMove ==
  ASSUME Lines, UNCHANGED <<program, code_, instruction_remap_, instruction_address_to_original_>>,
         NEW o, get_original_instruction_address(pc)' = o,
         NEW k, ReturnAddresses(stack)' = k,
         NEW l, line' = l, NEW v, prev' = v, NEW c, counter' = c,
         Callers(k, o), Arrived(o, l, c),
         v.direct => Left(get_original_instruction_address(v.address), l, v.counter)
  PROVE  Lines'
<1>1. MapsBack'
  BY DEF Lines, MapsBack
<1>2. Callers(ReturnAddresses(stack), get_original_instruction_address(pc))'
  <2>1. Callers(k, o)' <=> Callers(k, o)
    BY DEF Callers, CalledFor, StaysInside
  <2> QED
    BY <2>1 DEF Callers
<1>3. \A r, x, m, n : LineRan(r, x, m, n)' <=> LineRan(r, x, m, n)
  BY DEF LineRan, CallsFrom, get_true_instruction_address, Translate
<1>4. \A r : Good(r)' <=> Good(r)
  BY DEF Good, Straight, CallsFrom, ReturnsStraight, StaysInside
<1>5. Arrived(get_original_instruction_address(pc), line, counter)'
  BY <1>3, <1>4 DEF Arrived
<1>6. \A s, m, n : Left(s, m, n)' <=> Left(s, m, n)
  BY <1>3, <1>4 DEF Left
<1>7. Source' = get_original_instruction_address(v.address)
  BY DEF Source, get_original_instruction_address, Translate
<1>8. prev'.direct => Left(Source, line, prev.counter)'
  <2> SUFFICES ASSUME v.direct PROVE Left(Source, line, prev.counter)'
    OBVIOUS
  <2>1. PICK s : s = get_original_instruction_address(v.address)
    OBVIOUS
  <2>2. Left(s, l, v.counter)'
    BY <1>6, <2>1
  <2> QED
    BY <1>7, <2>1, <2>2 DEF Left
<1> QED
  BY <1>1, <1>2, <1>5, <1>8 DEF Lines

\* What the program does not see.
LEMMA LinesStutter ==
  ASSUME Lines, UNCHANGED <<code_, instruction_remap_, instruction_address_to_original_, line, prev>>,
         Stutters,
         \/ counter' = counter
         \/ \A r \in LineRanges(program, get_original_instruction_address(pc)) :
               Good(r) => ~(r.start < get_original_instruction_address(pc))
  PROVE  Lines'
<1>1. PICK o : o = get_original_instruction_address(pc)
  OBVIOUS
<1>2. PICK k : k = ReturnAddresses(stack)
  OBVIOUS
<1>3. PICK l : l = line
  OBVIOUS
<1>4. PICK v : v = prev
  OBVIOUS
<1>5. get_original_instruction_address(pc)' = o /\ ReturnAddresses(stack)' = k /\ program' = program
  BY <1>1, <1>2 DEF Stutters
<1>6. Callers(k, o) /\ (v.direct => Left(get_original_instruction_address(v.address), l, v.counter))
  BY <1>1, <1>2, <1>3, <1>4 DEF Lines, Source
<1>7. line' = l /\ prev' = v
  BY <1>3, <1>4
<1>8. PICK c : c = counter'
  OBVIOUS
<1>9. Arrived(o, l, c)
  <2>1. Arrived(o, l, counter)
    BY <1>1, <1>3 DEF Lines
  <2> QED
    BY <1>1, <1>8, <2>1 DEF Arrived
<1> QED
  BY <1>5, <1>6, <1>7, <1>8, <1>9, LinesMove

LEMMA ExecuteLines ==
  Inv /\ Led /\ Lines /\ (\E a \in DOMAIN program.code : Execute(a)) => Lines'
<1> SUFFICES ASSUME Inv, Led, Lines, NEW a \in DOMAIN program.code, Execute(a)
             PROVE  Lines'
  OBVIOUS
<1>1. UNCHANGED <<program, code_, instruction_remap_, instruction_address_to_original_>> /\ Remaps
  BY DEF Execute, plugin, Led
<1>2. get_original_instruction_address(pc) = a
  BY ProgramLeads
<1>3. PICK o : o = get_original_instruction_address(pc)'
  OBVIOUS
<1>4. PICK k : k = ReturnAddresses(stack)'
  OBVIOUS
<1>5. PICK l : l = line'
  OBVIOUS
<1>6. PICK v : v = prev'
  OBVIOUS
<1>7. Arrived(a, line, counter) /\ Callers(ReturnAddresses(stack), a)
  BY <1>2 DEF Lines
<1>8. Callers(k, o)
  BY <1>3, <1>4, <1>7, ExecuteCallers
<1>9. Arrived(o, l, counter)
  BY <1>1, <1>3, <1>5, <1>7, ArrivesOnLine
<1>10. get_original_instruction_address(v.address) = a
  <2>1. v.address = pc
    BY <1>6 DEF Execute
  <2> QED
    BY <1>2, <2>1
<1>11. Left(a, l, counter)
  BY <1>1, <1>5, <1>7, RunsLine DEF Left
<1>12. counter' = counter /\ v.counter = counter
  BY <1>6 DEF Execute
<1>13. PICK c : c = counter
  OBVIOUS
<1>14. counter' = c /\ Arrived(o, l, c) /\ Left(a, l, v.counter)
  BY <1>9, <1>11, <1>12, <1>13
<1> QED
  BY <1>1, <1>3, <1>4, <1>5, <1>6, <1>8, <1>10, <1>14, LinesMove

\* Before the plugin is ready the thread has not run.
LEMMA NoLines == Inv /\ Led /\ ~ready /\ MapsBack => Lines
<1> SUFFICES ASSUME Inv, Led, ~ready, MapsBack PROVE Lines
  OBVIOUS
<1>1. program \in Programs /\ ~prev.direct /\ pc = program.entry /\ stack = <<>>
  BY DEF Inv, BlocksKept, Led, ThreadSomewhere
<1>2. get_original_instruction_address(pc) = program.entry
  <2>1. program.entry \in DOMAIN program.code
    BY <1>1, ProgramsAssumption DEF Entries
  <2>2. program.entry \in Nat /\ program.entry < Region
    BY <1>1, <2>1, Instructions
  <2>3. ~InStub(pc)
    BY <1>1, <2>2, InstrumentationAssumption DEF InStub
  <2>4. Known(pc)
    BY <1>1, <2>2, WhereIs DEF Inv
  <2> QED
    BY <1>1, <2>3, <2>4 DEF Known
<1>3. ReturnAddresses(stack) = <<>>
  <2>1. BlocksKept /\ Frames(stack, 0)
    BY <1>1 DEF Inv, Frames
  <2> QED
    BY <1>1, <2>1, FramesOnly
<1>4. Callers(ReturnAddresses(stack), get_original_instruction_address(pc))
  BY <1>3 DEF Callers
<1>5. Arrived(program.entry, line, counter)
  <2> SUFFICES ASSUME NEW r \in LineRanges(program, program.entry), Good(r), r.start < program.entry
               PROVE  FALSE
    BY DEF Arrived
  <2>1. /\ program.entry \in DOMAIN program.code /\ program.entry \in Within(program, r)
        /\ Straight(r) /\ r.start \in Nat
    BY <1>1, GoodIsStraight, StraightRange
  <2>2. r.start # program.entry
    BY <1>1, <2>1, Instructions
  <2>3. PICK fn \in FunctionsContaining(program, program.entry) : TRUE
    BY <1>1, <2>1, InFunction DEF FunctionsContaining
  <2>4. fn \in program.functions /\ program.entry \in Leaders(program, fn)
    BY <1>1, <2>3, ProgramsAssumption DEF Entries, FunctionsContaining
  <2> QED
    BY <1>1, <2>1, <2>2, <2>4, StraightOn
<1> QED
  BY <1>1, <1>2, <1>4, <1>5 DEF Lines

LEMMA NoLinesNext == Inv' /\ Led' /\ ~ready' /\ MapsBack' => Lines'
BY NoLines, PTL

LEMMA InstrumentBlockMapsBack == Inv /\ MapsBack /\ InstrumentBlock => MapsBack'
<1> SUFFICES ASSUME Inv, MapsBack, InstrumentBlock PROVE MapsBack'
  OBVIOUS
<1> DEFINE stub == Stub(program, NextBlock)
           L == Len(code_)
           moved == {i \in 1..Len(stub) : stub[i].op = "displaced"}
           g == [a \in {stub[i].address : i \in moved} |->
                    NewAddress(CHOOSE i \in moved : stub[i].address = a)]
<1>1. instruction_remap_' = Override(instruction_remap_, g) /\ code_' = code_ \o stub
  BY DEF InstrumentBlock
<1>2. stub \in Seq(SlotType) /\ code_ \in Seq(SlotType)
  BY InstrumentBlockTables DEF Inv, StubsRun, Runs
<1> HIDE DEF stub
<1>3. DOMAIN g = {stub[i].address : i \in moved}
  OBVIOUS
<1> HIDE DEF g
<1>4. DOMAIN instruction_remap_' = DOMAIN instruction_remap_ \cup DOMAIN g
  <2>1. DOMAIN Override(instruction_remap_, g) = DOMAIN instruction_remap_ \cup DOMAIN g
    BY OverrideIs
  <2> QED
    BY <1>1, <2>1
<1>5. /\ L \in Nat /\ Len(stub) \in Nat /\ Len(code_') = L + Len(stub)
      /\ \A i \in 1..L : code_'[i] = code_[i]
      /\ \A i \in 1..Len(stub) : code_'[L + i] = stub[i]
  <2>1. /\ Len(code_ \o stub) = L + Len(stub)
        /\ \A i \in 1..L : (code_ \o stub)[i] = code_[i]
        /\ \A i \in 1..Len(stub) : (code_ \o stub)[L + i] = stub[i]
    BY <1>2, Joined
  <2>2. L \in Nat /\ Len(stub) \in Nat
    BY <1>2, LenProperties
  <2> QED
    BY <1>1, <2>1, <2>2
<1>6. ASSUME NEW x \in DOMAIN instruction_remap_
      PROVE  \E i \in 1..Len(code_') : code_'[i].op = "displaced" /\ code_'[i].address = x
  <2>1. PICK i \in 1..L : code_[i].op = "displaced" /\ code_[i].address = x
    BY DEF MapsBack
  <2>2. i \in 1..Len(code_') /\ code_'[i] = code_[i]
    BY <1>5
  <2> QED
    BY <2>1, <2>2
<1>7. ASSUME NEW x \in DOMAIN g
      PROVE  \E i \in 1..Len(code_') : code_'[i].op = "displaced" /\ code_'[i].address = x
  <2>1. PICK i \in 1..Len(stub) : stub[i].op = "displaced" /\ stub[i].address = x
    BY <1>3
  <2>2. L + i \in 1..Len(code_') /\ code_'[L + i] = stub[i]
    BY <1>5
  <2> QED
    BY <2>1, <2>2
<1> QED
  BY <1>4, <1>6, <1>7 DEF MapsBack

LEMMA InstrumentBlockLines == Inv /\ Led /\ Lines /\ InstrumentBlock => Lines'
<1> SUFFICES ASSUME Inv, Led, Lines, InstrumentBlock PROVE Lines'
  OBVIOUS
<1>1. Inv' /\ Led'
  BY InstrumentBlockInv, InstrumentBlockLed
<1>2. ~ready'
  BY DEF InstrumentBlock, Inv, BlocksKept
<1>3. MapsBack'
  BY InstrumentBlockMapsBack DEF Lines
<1> QED
  BY <1>1, <1>2, <1>3, NoLinesNext

\* A prologue belongs to the start of a block, which no line of this kind has
\* but at its own.
LEMMA CountsAtStart ==
  ASSUME Inv, RunPrologue, NEW r \in LineRanges(program, get_original_instruction_address(pc)), Good(r)
  PROVE  ~(r.start < get_original_instruction_address(pc))
<1>1. program \in Programs /\ InStub(pc) /\ SlotAt(pc).op \in Range(Prologue) /\ pc \in Nat
  BY DEF Inv, BlocksKept, RunPrologue, ThreadSomewhere
<1>2. PICK i \in 1..Len(code_) : pc = Region + i /\ SlotAt(pc) = code_[i]
  <2>0. code_ \in Seq(SlotType)
    BY DEF Inv, StubsRun, Runs
  <2>1. Region \in Nat /\ Len(code_) \in Nat
    BY <2>0, LenProperties, InstrumentationAssumption
  <2> DEFINE n == Len(code_)
  <2> HIDE DEF n
  <2>2. n \in Nat /\ pc \in Nat /\ Region < pc /\ pc <= Region + n
    BY <1>1, <2>1 DEF InStub, n
  <2>3. pc - Region \in 1..n /\ pc = Region + (pc - Region)
    BY <2>1, <2>2
  <2> QED
    BY <2>3 DEF SlotAt, n
<1>3. code_[i].op \notin {"displaced", "jump back"}
  BY <1>1, <1>2, PrologueOps
<1>4. PICK b \in patches_ : code_[i].address = b.start
  BY <1>3 DEF Inv, StubsRun, Runs, Follows
<1>5. get_original_instruction_address(pc) = b.start
  BY <1>2, <1>4 DEF Inv, TablesTell, get_original_instruction_address, Translate
<1>6. PICK fn \in program.functions : b \in Blocks(program, fn)
  BY DEF Inv, BlocksKept, AllBlocks
<1>7. b.start \in Leaders(program, fn) /\ b.start \in Nat
  BY <1>1, <1>6, BlockIs
<1>8. Straight(r) /\ b.start \in Within(program, r) /\ r.start \in Nat
  BY <1>1, <1>5, GoodIsStraight, StraightRange
<1>9. b.start = r.start
  BY <1>1, <1>6, <1>7, <1>8, StraightOn
<1> QED
  BY <1>5, <1>8, <1>9

LEMMA StepLines == Inv /\ Led /\ Lines /\ [Next]_vars => Lines'
<1> SUFFICES ASSUME Inv, Led, Lines, [Next]_vars PROVE Lines'
  OBVIOUS
<1>1. CASE InstrumentBlock
  BY <1>1, InstrumentBlockLines
<1>2. CASE SkipBlock \/ Commit \/ GiveUp
  <2>1. Stutters
    BY <1>2, SkipBlockInv, CommitInv, GiveUpInv
  <2>2. UNCHANGED <<code_, instruction_remap_, instruction_address_to_original_, line, prev, counter>>
    BY <1>2 DEF SkipBlock, Commit, GiveUp, Untouched, thread, history
  <2> QED
    BY <2>1, <2>2, LinesStutter
<1>3. CASE Detour \/ JumpBack
  <2>1. Stutters
    BY <1>3, DetourInv, JumpBackInv
  <2>2. UNCHANGED <<code_, instruction_remap_, instruction_address_to_original_, line, prev, counter>>
    BY <1>3 DEF Detour, JumpBack, plugin, history
  <2> QED
    BY <2>1, <2>2, LinesStutter
<1>7. CASE RunPrologue
  <2>1. Stutters
    BY <1>7, RunPrologueInv
  <2>2. UNCHANGED <<code_, instruction_remap_, instruction_address_to_original_, line, prev>>
    BY <1>7 DEF RunPrologue, plugin, history
  <2>3. \A r \in LineRanges(program, get_original_instruction_address(pc)) :
           Good(r) => ~(r.start < get_original_instruction_address(pc))
    BY <1>7, CountsAtStart
  <2> QED
    BY <2>1, <2>2, <2>3, LinesStutter
<1>4. CASE \E a \in DOMAIN program.code : Execute(a)
  BY <1>4, ExecuteLines
<1>5. CASE (\E mode \in {"Line", "Into"} : BeginStep(mode)) \/ EndStep
  <2>1. Stutters
    BY <1>5, BeginStepInv, EndStepInv
  <2>2. UNCHANGED <<code_, instruction_remap_, instruction_address_to_original_, line, prev, counter>>
    BY <1>5 DEF BeginStep, EndStep, plugin, thread, history
  <2> QED
    BY <2>1, <2>2, LinesStutter
<1>6. CASE UNCHANGED vars
  <2>1. UNCHANGED <<program, code_, instruction_remap_, instruction_address_to_original_, line, prev,
                    pc, stack, counter>>
    BY <1>6 DEF vars, plugin, thread, history
  <2>2. Stutters
    BY <2>1 DEF Stutters, get_original_instruction_address, Translate
  <2> QED
    BY <2>1, <2>2, LinesStutter
<1> QED
  BY <1>1, <1>2, <1>3, <1>4, <1>5, <1>6, <1>7 DEF Next

\* An instruction that was moved is known by its address of before.
LEMMA OriginalOfTrue ==
  ASSUME Inv, Remaps, MapsBack, NEW x \in DOMAIN program.code
  PROVE  get_original_instruction_address(get_true_instruction_address(x)) = x
<1>1. CASE x \in DOMAIN instruction_remap_
  <2>1. PICK i \in 1..Len(code_) : code_[i].op = "displaced" /\ code_[i].address = x
    BY <1>1 DEF MapsBack
  <2>2. instruction_remap_[x] = Region + i
    BY <2>1 DEF Remaps
  <2>3. /\ Region + i \in DOMAIN instruction_address_to_original_
        /\ instruction_address_to_original_[Region + i] = x
    BY <2>1 DEF Inv, TablesTell
  <2> QED
    BY <1>1, <2>2, <2>3 DEF get_original_instruction_address, get_true_instruction_address, Translate
<1>2. CASE x \notin DOMAIN instruction_remap_
  <2>1. x \in Nat /\ x < Region /\ Region \in Nat
    BY Instructions DEF Inv, BlocksKept
  <2>2. Known(x) /\ ~InStub(x)
    BY <2>1, WhereIs DEF Inv, InStub
  <2> QED
    BY <1>2, <2>2 DEF get_true_instruction_address, Translate, Known
<1> QED
  BY <1>1, <1>2

\* A line that runs straight is in one function.
LEMMA StraightInFunction ==
  ASSUME program \in Programs, NEW o, NEW r \in LineRanges(program, o), Straight(r),
         NEW b \in Within(program, r), NEW s \in Within(program, r), b <= s,
         NEW fn \in FunctionsContaining(program, b)
  PROVE  fn \in FunctionsContaining(program, s)
<1>1. b \in DOMAIN program.code /\ s \in DOMAIN program.code /\ b \in Nat /\ s \in Nat /\ r.start \in Nat
  <2>1. b \in DOMAIN program.code /\ s \in DOMAIN program.code /\ r.start \in Nat
    BY StraightRange DEF Within
  <2> QED
    BY <2>1, Instructions
<1> SUFFICES ASSUME fn \notin FunctionsContaining(program, s) PROVE FALSE
  OBVIOUS
<1> DEFINE T == {x \in Within(program, r) : b < x /\ fn \notin FunctionsContaining(program, x)}
<1>2. T \in SUBSET Nat /\ T # {}
  <2>1. s # b /\ b < s
    BY <1>1
  <2>2. \A x \in Within(program, r) : x \in Nat
    BY Instructions DEF Within
  <2> QED
    BY <2>1, <2>2
<1>3. PICK x \in T : \A y \in T : x <= y
  BY <1>2, LeastMember
<1>4. x \in Within(program, r) /\ x \in Nat /\ b < x /\ x # r.start
  <2>1. r.start <= b
    BY DEF Within
  <2> QED
    BY <1>1, <1>2, <2>1
<1>5. PICK c \in Within(program, r) :
        /\ EndOf(program, c) = x
        /\ program.code[c].category \in {"OTHER", "CALL"}
  BY <1>4, StraightOn
<1>6. c \in DOMAIN program.code /\ c \in Nat /\ c < x
  BY <1>5, Instructions DEF Within
<1>7. fn \in FunctionsContaining(program, c)
  <2>1. c = b \/ b < c
    <3>1. c < b => x <= b
      BY <1>1, <1>5, <1>6, Instructions
    <3> QED
      BY <1>1, <1>4, <1>6, <3>1
  <2>2. c \notin T
    BY <1>3, <1>4, <1>6
  <2> QED
    BY <2>1, <2>2
<1>8. fn \in FunctionsContaining(program, x)
  BY <1>5, <1>6, <1>7, GoesOnInFunction
<1> QED
  BY <1>3, <1>8

\* The line that ran last is among the predecessors a reverse step into finds,
\* in the function called last when the line before made calls.
THEOREM IntoPredecessorFound == Spec => []IntoPredecessorsComplete
<1>1. Inv /\ Moments /\ Led /\ Lines /\ LinePredecessorsComplete => IntoPredecessorsComplete
  <2> SUFFICES ASSUME Inv, Moments, Led, Lines, LinePredecessorsComplete,
                      NEW a \in DOMAIN program.code, analysis # {},
                      NEW breakpoints \in Breakpoints, LedHere(a, breakpoints), StartsLine(a),
                      program.code[Source].category # "CALL",
                      FunctionsContaining(program, Source) = FunctionsContaining(program, a),
                      \A r \in LineRanges(program, Source) : Straight(r) /\ r.end <= a,
                      \A r \in LineRanges(program, Source) : \A b \in CallsFrom(r) :
                         \A fn \in FunctionsContaining(program, b.target) : ReturnsStraight(fn),
                      LineRanges(program, Source) # {}
               PROVE  \E c \in get_address_predecesors(breakpoints, "Into") :
                         /\ c.true_address = line.true_address
                         /\ OnlyLeader(a) => c.branch_counter = line.branch_counter
    BY DEF IntoPredecessorsComplete
  <2>1. PICK s : s = Source
    OBVIOUS
  <2>2. PICK r : r \in LineRanges(program, s)
    BY <2>1
  <2>3. Straight(r) /\ Good(r) /\ r.end <= a
    BY <2>1, <2>2 DEF Good
  <2>4. /\ Analysed = program /\ program \in Programs
        /\ get_original_instruction_address(pc) = a
        /\ s \in DOMAIN program.code
        /\ \/ program.code[s].category \in {"OTHER", "COND_BR"} /\ a = EndOf(program, s)
           \/ program.code[s].category # "OTHER"
    BY <2>1, SourceIs
  <2>5. LineRan(r, s, line, prev.counter)
    BY <2>1, <2>2, <2>3, SourceIs DEF Lines, Left
  <2>6. /\ s \in Within(program, r) /\ r.start \in Within(program, r)
        /\ LineRanges(program, r.start) = {r}
        /\ r.start \in DOMAIN program.code /\ r.end \in Nat
    <3>1. s \in Within(program, r) /\ r.start \in Within(program, r) /\ r.end \in Nat
      BY <2>2, <2>3, <2>4, StraightRange
    <3>2. LineRanges(program, r.start) = {r}
      BY <2>2, <2>3, <2>4, <3>1, StraightRange
    <3> QED
      BY <3>1, <3>2 DEF Within
  \* The calls of the line are all behind it.
  <2>7. \A b \in CallsFrom(r) : b.address < s /\ b.address < a
    <3> TAKE b \in CallsFrom(r)
    <3>1. /\ b.address \in DOMAIN program.code /\ b.address \in Within(program, r) /\ b.address \in Nat
          /\ program.code[b.address].category = "CALL"
      BY <2>4, CallIs
    <3>2. b.address < r.end /\ b.address # s
      BY <2>1, <3>1 DEF Within
    <3>3. EndOf(program, s) \in Nat /\ s \in Nat /\ a \in Nat
          /\ (s < b.address => EndOf(program, s) <= b.address)
      BY <2>4, <3>1, Instructions
    <3>4. ~(EndOf(program, s) < r.end)
      <4>1. CASE program.code[s].category \in {"OTHER", "COND_BR"} /\ a = EndOf(program, s)
        BY <2>3, <2>6, <3>3, <4>1
      <4>2. CASE program.code[s].category # "OTHER"
        <5>1. PICK fn \in FunctionsContaining(program, s) : TRUE
          BY <2>4, InFunction DEF FunctionsContaining
        <5> DEFINE i == program.code[s]
        <5>2. PICK d \in AllBranches(program) :
                d.address = s /\ d.next_address = EndOf(program, s) /\ d.kind = BranchKind(i)
          BY <2>4, <4>2, <5>1, BranchAt
        <5>3. BranchKind(i) # "Call"
          <6>1. i.category \in {"OTHER", "COND_BR", "UNCOND_BR", "CALL", "RET"}
            BY <2>4, Instructions
          <6>2. i.category \in {"COND_BR", "UNCOND_BR", "RET"}
            BY <2>1, <4>2, <6>1
          <6> HIDE DEF i
          <6> QED
            BY <6>2, KindIs
        <5>4. d.next_address = r.end
          BY <2>3, <2>6, <5>2, <5>3 DEF Straight
        <5> QED
          BY <2>6, <5>2, <5>4
      <4> QED
        BY <2>4, <4>1, <4>2
    <3>5. b.address < s
      BY <2>6, <3>1, <3>2, <3>3, <3>4
    <3> QED
      BY <2>3, <2>6, <3>1, <3>2, <3>3, <3>5
  <2> DEFINE own == UNION {Branches(program, fn) : fn \in FunctionsContaining(program, a)}
             returns(b) == UNION {ReturnLine(program, fn) : fn \in FunctionsContaining(program, b.target)}
             calls(k) == {b \in own :
                 /\ b.kind = "Call" /\ b.address < a
                 /\ address_in_line_ranges(
                       LineRanges(program, Translate(instruction_address_to_original_, k.true_address)),
                       b.address)
                 /\ returns(b) # {}}
             lines == get_line_predecessors_of_address(program, leaders, instruction_remap_, breakpoints, a, counter)
             inside(k) == {Candidate(Translate(instruction_remap_, x), k.branch_counter) :
                              x \in returns(LastCall(calls(k)))}
  <2>8. /\ get_address_predecesors(breakpoints, "Line") = lines
        /\ get_address_predecesors(breakpoints, "Into") =
              {k \in lines : calls(k) = {}} \cup UNION {inside(k) : k \in {j \in lines : calls(j) # {}}}
    BY <2>4 DEF get_address_predecesors, get_predecessors_of_address, get_into_predecessors_of_address
  <2>9. PICK k \in lines :
          /\ k.true_address = get_true_instruction_address(r.start)
          /\ OnlyLeader(a) => k.branch_counter = prev.counter
    BY <2>1, <2>2, <2>8 DEF LinePredecessorsComplete
  <2>15. line.branch_counter = prev.counter
    BY <2>5 DEF LineRan
  <2>10. LineRanges(program, Translate(instruction_address_to_original_, k.true_address)) = {r}
    <3>1. get_original_instruction_address(k.true_address) = r.start
      BY <2>6, <2>9, OriginalOfTrue DEF Led, Lines
    <3> QED
      BY <2>6, <3>1 DEF get_original_instruction_address
  <2>11. \A b \in CallsFrom(r) : returns(b) # {}
    <3> TAKE b \in CallsFrom(r)
    <3>1. /\ b.address \in DOMAIN program.code
          /\ b.target = program.code[b.address].target /\ b.target # Indirect
      BY <2>4, CallIs
    <3>2. b.target \in DOMAIN program.code
      BY <2>4, <3>1, ProgramsAssumption DEF Leads
    <3>3. PICK fn \in FunctionsContaining(program, b.target) : TRUE
      BY <2>4, <3>2, InFunction DEF FunctionsContaining
    <3>4. fn \in program.functions /\ ReturnsStraight(fn)
      BY <2>1, <2>2 DEF FunctionsContaining
    <3>5. ReturnLine(program, fn) # {}
      <4>1. PICK x \in DOMAIN program.code : \E q \in LineRanges(program, x) :
              ReturnLine(program, fn) = {q.start}
        BY <2>4, <3>4, OneReturn
      <4> QED
        BY <4>1
    <3> QED
      BY <3>5
  <2>12. calls(k) = CallsFrom(r)
    <3>1. \A x : address_in_line_ranges({r}, x) <=> r.start <= x /\ x < r.end
      BY DEF address_in_line_ranges
    <3>2. ASSUME NEW b \in calls(k) PROVE b \in CallsFrom(r)
      <4>1. PICK fn \in FunctionsContaining(program, a) : b \in Branches(program, fn)
        OBVIOUS
      <4>2. fn \in program.functions
        BY DEF FunctionsContaining
      <4>3. b \in AllBranches(program) /\ b.address \in DOMAIN program.code
        BY <2>4, <4>1, <4>2, BranchIs DEF AllBranches
      <4>4. b.kind = "Call" /\ r.start <= b.address /\ b.address < r.end
        BY <2>10, <3>1
      <4> QED
        BY <4>3, <4>4 DEF CallsFrom, Within
    <3>3. ASSUME NEW b \in CallsFrom(r) PROVE b \in calls(k)
      <4>1. /\ b \in AllBranches(program) /\ b.kind = "Call" /\ b.address \in Within(program, r)
            /\ b.address \in Nat
        BY <2>4, CallIs
      <4>2. PICK fn \in program.functions : b \in Branches(program, fn)
        BY <4>1 DEF AllBranches
      <4>3. fn \in FunctionsContaining(program, b.address)
        BY <2>4, <4>2, BranchIs
      <4>4. b.address <= s
        <5>1. b.address < s /\ s \in Nat
          BY <2>4, <2>7, Instructions
        <5> QED
          BY <4>1, <5>1
      <4>5. fn \in FunctionsContaining(program, s)
        BY <2>2, <2>3, <2>4, <2>6, <4>1, <4>3, <4>4, StraightInFunction
      <4>6. b \in own
        BY <2>1, <4>2, <4>5
      <4>7. address_in_line_ranges({r}, b.address)
        BY <3>1, <4>1 DEF Within
      <4> HIDE DEF own, returns
      <4> QED
        BY <2>7, <2>10, <2>11, <4>1, <4>6, <4>7
    <3> HIDE DEF calls
    <3> QED
      BY <3>2, <3>3
  <2> HIDE DEF own, calls, lines
  <2>13. CASE CallsFrom(r) = {}
    <3>1. line.true_address = get_true_instruction_address(r.start)
      BY <2>5, <2>13 DEF LineRan
    <3>2. k \in get_address_predecesors(breakpoints, "Into")
      BY <2>8, <2>9, <2>12, <2>13
    <3> QED
      BY <2>9, <2>15, <3>1, <3>2
  <2>14. CASE CallsFrom(r) # {}
    <3> DEFINE b == LastCall(calls(k))
    <3>1. b \in CallsFrom(r) /\ \A d \in CallsFrom(r) : d.address <= b.address
      BY <2>4, <2>12, <2>14, GreatestCall
    <3>2. returns(b) # {}
      BY <2>11, <3>1
    <3>3. PICK fn \in FunctionsContaining(program, b.target) : \E x \in ReturnLine(program, fn) : TRUE
      BY <3>2
    <3>4. PICK x \in ReturnLine(program, fn) : TRUE
      BY <3>3
    <3>5. line.true_address = get_true_instruction_address(x)
      BY <2>5, <2>7, <3>1, <3>3, <3>4 DEF LineRan
    <3> DEFINE c == Candidate(Translate(instruction_remap_, x), k.branch_counter)
    <3>6. c \in inside(k)
      <4>1. x \in returns(b)
        BY <3>3, <3>4
      <4> HIDE DEF returns
      <4> QED
        BY <4>1
    <3>7. c.true_address = line.true_address /\ c.branch_counter = k.branch_counter
      BY <3>5 DEF Candidate, get_true_instruction_address
    <3> HIDE DEF c, inside
    <3>8. c \in get_address_predecesors(breakpoints, "Into")
      BY <2>8, <2>9, <2>12, <2>14, <3>6
    <3> QED
      BY <2>9, <2>15, <3>7, <3>8
  <2> QED
    BY <2>13, <2>14
<1>2. Init => Lines
  <2> SUFFICES ASSUME Init PROVE Lines
    OBVIOUS
  <2>1. instruction_remap_ = << >> /\ ~ready /\ analysis = {} /\ code_ = <<>> /\ prev = NoPrev
    BY DEF Init
  <2>2. MapsBack
    BY <2>1 DEF MapsBack
  <2>3. Led
    BY <2>1 DEF Led, Remaps, NoPrev
  <2> QED
    BY <2>1, <2>2, <2>3, InitInv, NoLines
<1> QED
  BY <1>1, <1>2, StepLines, LedAlways, LinePredecessorFound, PTL DEF Spec
=============================================================================
