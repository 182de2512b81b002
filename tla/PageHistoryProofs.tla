-------------------------- MODULE PageHistoryProofs --------------------------
(***************************************************************************)
(* Theorems about PageHistory, for any contents and any number of runs,    *)
(* versions and branches: the cached cursor is never stale, and the        *)
(* history implements the versioned register.                              *)
(*                                                                         *)
(* Both need to know what a search does after the history has changed.  A  *)
(* search only climbs to earlier runs, so it ends (ClimbedFrom), and what  *)
(* it finds depends only on the branches it passes (ClimbedSame): nodes    *)
(* are added at the clock, and every search for a version before the clock *)
(* passes only what was there before it.                                   *)
(***************************************************************************)
EXTENDS PageHistory, SequenceTheorems, WellFoundedInduction, TLAPS

NodeType == [seq : 0..MaxSeq, content : Content]
Sorted(b) == \A i, j \in 1..Len(b) : i < j => b[i].seq < b[j].seq

\* A set of natural numbers has a least member.
LEMMA LeastMember ==
  ASSUME NEW T \in SUBSET Nat, T # {}
  PROVE  \E i \in T : \A j \in T : i <= j
<1>1. PICK i \in T : \A j \in T : <<j, i>> \notin OpToRel(<, Nat)
  BY NatLessThanWellFounded, WFMin
<1>2. \A j \in T : ~(j < i)
  BY <1>1 DEF OpToRel
<1> QED
  BY <1>2

----------------------------------------------------------------------------
(* upper_bound.                                                            *)

Bounds(b, s, n) == /\ \A i \in 1..n : b[i].seq <= s
                   /\ \A i \in (n + 1)..Len(b) : s < b[i].seq
UpTo(b, s) == CHOOSE n \in 0..Len(b) : Bounds(b, s, n)

LEMMA NodesTyped ==
  ASSUME NEW b \in Seq(NodeType)
  PROVE  Len(b) \in Nat /\ \A i \in 1..Len(b) : b[i] \in NodeType /\ b[i].seq \in Nat
<1>1. \A i \in 1..Len(b) : b[i] \in NodeType
  OBVIOUS
<1>2. \A e \in NodeType : e.seq \in Nat
  BY PageHistoryAssumption DEF NodeType
<1> QED
  BY <1>1, <1>2

\* In a sorted branch there is one place between the nodes at or before a version
\* and those after it.
LEMMA UpToBounds ==
  ASSUME NEW b \in Seq(NodeType), Sorted(b), NEW s \in Nat
  PROVE  UpTo(b, s) \in 0..Len(b) /\ Bounds(b, s, UpTo(b, s))
<1>1. Len(b) \in Nat /\ \A i \in 1..Len(b) : b[i].seq \in Nat
  BY NodesTyped
<1> DEFINE T == {i \in 1..Len(b) : s < b[i].seq}
<1>2. \E n \in 0..Len(b) : Bounds(b, s, n)
  <2>1. CASE T = {}
    <3>1. \A i \in 1..Len(b) : b[i].seq <= s
      BY <1>1, <2>1
    <3>2. Len(b) \in 0..Len(b) /\ Bounds(b, s, Len(b))
      BY <1>1, <3>1 DEF Bounds
    <3> QED
      BY <3>2
  <2>2. CASE T # {}
    <3>1. PICK m \in T : \A j \in T : m <= j
      <4>1. T \in SUBSET Nat
        OBVIOUS
      <4> HIDE DEF T
      <4> QED
        BY <2>2, <4>1, LeastMember
    <3>2. m \in 1..Len(b) /\ s < b[m].seq
      BY <3>1
    <3>3. ASSUME NEW i \in 1..(m - 1) PROVE b[i].seq <= s
      <4>1. i \in 1..Len(b) /\ i \notin T
        BY <1>1, <3>1, <3>2
      <4> QED
        BY <1>1, <4>1
    <3>4. ASSUME NEW i \in ((m - 1) + 1)..Len(b) PROVE s < b[i].seq
      <4>1. i = m \/ m < i
        BY <3>2
      <4>2. m < i => b[m].seq < b[i].seq
        BY <1>1, <3>2 DEF Sorted
      <4>3. b[m].seq \in Nat /\ b[i].seq \in Nat
        BY <1>1, <3>2
      <4> QED
        BY <3>2, <4>1, <4>2, <4>3
    <3>5. m - 1 \in 0..Len(b) /\ Bounds(b, s, m - 1)
      BY <1>1, <3>2, <3>3, <3>4 DEF Bounds
    <3> QED
      BY <3>5
  <2> QED
    BY <2>1, <2>2
<1> QED
  BY <1>2 DEF UpTo

LEMMA BoundsUnique ==
  ASSUME NEW b \in Seq(NodeType), NEW s \in Nat,
         NEW m \in 0..Len(b), NEW n \in 0..Len(b), Bounds(b, s, m), Bounds(b, s, n)
  PROVE  m = n
<1>1. Len(b) \in Nat /\ \A i \in 1..Len(b) : b[i].seq \in Nat
  BY NodesTyped
<1>2. CASE m < n
  <2>1. n \in 1..n /\ n \in (m + 1)..Len(b) /\ n \in 1..Len(b)
    BY <1>1, <1>2
  <2> QED
    BY <1>1, <2>1 DEF Bounds
<1>3. CASE n < m
  <2>1. m \in 1..m /\ m \in (n + 1)..Len(b) /\ m \in 1..Len(b)
    BY <1>1, <1>3
  <2> QED
    BY <1>1, <2>1 DEF Bounds
<1> QED
  BY <1>1, <1>2, <1>3

\* After the last node of a branch.
LEMMA UpToEnd ==
  ASSUME NEW b \in Seq(NodeType), Sorted(b), NEW s \in Nat,
         \A i \in 1..Len(b) : b[i].seq <= s
  PROVE  UpTo(b, s) = Len(b)
<1>1. Len(b) \in Nat /\ Len(b) \in 0..Len(b) /\ Bounds(b, s, Len(b))
  BY DEF Bounds
<1> QED
  BY <1>1, UpToBounds, BoundsUnique

\* A node added at the end.
LEMMA UpToAppend ==
  ASSUME NEW b \in Seq(NodeType), Sorted(b), NEW e \in NodeType,
         \A i \in 1..Len(b) : b[i].seq < e.seq
  PROVE  LET c == Append(b, e)
         IN  /\ c \in Seq(NodeType) /\ Sorted(c) /\ Len(c) = Len(b) + 1
             /\ c[Len(b) + 1] = e /\ \A i \in 1..Len(b) : c[i] = b[i]
             /\ \A s \in Nat : UpTo(c, s) = IF e.seq <= s THEN Len(b) + 1 ELSE UpTo(b, s)
<1> DEFINE c == Append(b, e)
<1>1. Len(b) \in Nat /\ e.seq \in Nat /\ \A i \in 1..Len(b) : b[i].seq \in Nat
  <2>1. e.seq \in Nat
    BY PageHistoryAssumption DEF NodeType
  <2> QED
    BY <2>1, NodesTyped
<1>2. /\ c \in Seq(NodeType) /\ Len(c) = Len(b) + 1 /\ c[Len(b) + 1] = e
      /\ \A i \in 1..Len(b) : c[i] = b[i]
  BY AppendProperties
<1> HIDE DEF c
<1>3. \A i \in 1..Len(c) : i \in 1..Len(b) \/ i = Len(b) + 1
  BY <1>1, <1>2
<1>4. Sorted(c)
  <2>1. ASSUME NEW i \in 1..Len(c), NEW j \in 1..Len(c), i < j
        PROVE  c[i].seq < c[j].seq
    <3>1. i \in 1..Len(b)
      BY <1>1, <1>2, <2>1
    <3>2. CASE j \in 1..Len(b)
      BY <1>2, <2>1, <3>1, <3>2 DEF Sorted
    <3>3. CASE j = Len(b) + 1
      BY <1>2, <3>1, <3>3
    <3> QED
      BY <1>3, <3>2, <3>3
  <2> QED
    BY <2>1 DEF Sorted
<1>5. ASSUME NEW s \in Nat
      PROVE  UpTo(c, s) = IF e.seq <= s THEN Len(b) + 1 ELSE UpTo(b, s)
  <2>1. CASE e.seq <= s
    <3>1. \A i \in 1..Len(c) : c[i].seq <= s
      BY <1>1, <1>2, <1>3, <2>1
    <3> QED
      BY <1>2, <1>4, <2>1, <3>1, UpToEnd
  <2>2. CASE ~(e.seq <= s)
    <3>1. UpTo(b, s) \in 0..Len(b) /\ Bounds(b, s, UpTo(b, s))
      BY UpToBounds
    <3> DEFINE n == UpTo(b, s)
    <3> HIDE DEF n
    <3>2. \A i \in 1..n : c[i].seq <= s
      BY <1>1, <1>2, <3>1 DEF n, Bounds
    <3>3. \A i \in (n + 1)..Len(c) : s < c[i].seq
      BY <1>1, <1>2, <1>3, <2>2, <3>1 DEF n, Bounds
    <3>4. n \in 0..Len(c) /\ Bounds(c, s, n)
      BY <1>1, <1>2, <3>1, <3>2, <3>3 DEF n, Bounds
    <3>5. UpTo(c, s) \in 0..Len(c) /\ Bounds(c, s, UpTo(c, s))
      BY <1>2, <1>4, UpToBounds
    <3>6. UpTo(c, s) = n
      BY <1>2, <3>4, <3>5, BoundsUnique
    <3> QED
      BY <2>2, <3>6 DEF n
  <2> QED
    BY <2>1, <2>2
<1> QED
  BY <1>2, <1>4, <1>5 DEF c
----------------------------------------------------------------------------
(* Searching, for branches B and the versions H they were branched from.   *)

\* A branch comes from a version of an earlier run.
Rooted(B, H) ==
    \A r \in DOMAIN H : H[r] # None => /\ H[r] \in Version
                                       /\ H[r][1] < r /\ H[r][1] \in DOMAIN B

\* What a search for v finds, given what searches for other versions find.
From(f, v, B, H) ==
    IF UpTo(B[v[1]], v[2]) > 0
    THEN <<v[1], UpTo(B[v[1]], v[2])>>
    ELSE IF v[1] \notin DOMAIN H \/ H[v[1]] = None
    THEN None
    ELSE f[H[v[1]]]

Climbs(f, B, H) == f = [v \in Version |-> From(f, v, B, H)]
Climbed(B, H) == CHOOSE f : Climbs(f, B, H)

LEMMA ClimbIs == Climb = Climbed(branches, branch_history)
BY DEF Climb, Climbed, Climbs, From, NodesUpTo, UpTo, Bounds

LEMMA VersionType ==
  ASSUME NEW v \in Version
  PROVE  /\ v = <<v[1], v[2]>> /\ v[1] \in Nat /\ v[2] \in Nat
         /\ v[1] <= MaxRun /\ v[2] <= MaxSeq
BY PageHistoryAssumption DEF Version

\* A search ends: the function that searches exists for the first n runs, for
\* every n.
LEMMA ClimbExists ==
  ASSUME NEW B, NEW H, Rooted(B, H)
  PROVE  \E f : Climbs(f, B, H)
<1> DEFINE Upto(n) == \E f : /\ DOMAIN f = Version /\ f = [v \in Version |-> f[v]]
                             /\ \A v \in Version : v[1] < n => f[v] = From(f, v, B, H)
           Bad == {n \in Nat : ~Upto(n)}
<1>1. Upto(0)
  <2>1. \A v \in Version : ~(v[1] < 0)
    BY VersionType
  <2> DEFINE f == [v \in Version |-> None]
  <2>2. DOMAIN f = Version /\ f = [v \in Version |-> f[v]]
    OBVIOUS
  <2> HIDE DEF f
  <2> QED
    BY <2>1, <2>2
<1>2. ASSUME NEW n \in Nat, Upto(n)
      PROVE  Upto(n + 1)
  <2>1. PICK f : /\ DOMAIN f = Version
                 /\ \A v \in Version : v[1] < n => f[v] = From(f, v, B, H)
    BY <1>2
  <2> DEFINE g == [v \in Version |-> IF v[1] = n THEN From(f, v, B, H) ELSE f[v]]
  <2>2. DOMAIN g = Version /\ g = [v \in Version |-> g[v]]
    OBVIOUS
  <2>3. \A v \in Version : g[v] = IF v[1] = n THEN From(f, v, B, H) ELSE f[v]
    OBVIOUS
  <2> HIDE DEF g
  <2>4. ASSUME NEW v \in Version, v[1] < n + 1
        PROVE  g[v] = From(g, v, B, H)
    <3>1. v[1] \in Nat
      BY VersionType
    <3>2. From(g, v, B, H) = From(f, v, B, H)
      <4>1. CASE v[1] \notin DOMAIN H \/ H[v[1]] = None
        BY <4>1 DEF From
      <4>2. CASE v[1] \in DOMAIN H /\ H[v[1]] # None
        <5>1. H[v[1]] \in Version /\ H[v[1]][1] < v[1] /\ H[v[1]][1] \in Nat
          BY <4>2, VersionType DEF Rooted
        <5>2. H[v[1]][1] # n
          BY <2>4, <3>1, <5>1
        <5>3. g[H[v[1]]] = f[H[v[1]]]
          BY <2>3, <5>1, <5>2
        <5> QED
          BY <5>3 DEF From
      <4> QED
        BY <4>1, <4>2
    <3>3. v[1] = n \/ v[1] < n
      BY <2>4, <3>1
    <3> QED
      BY <2>1, <2>3, <3>2, <3>3
  <2> QED
    BY <2>2, <2>4
<1>3. \A n \in Nat : Upto(n)
  <2> HIDE DEF Upto
  <2> SUFFICES ASSUME Bad # {} PROVE FALSE
    OBVIOUS
  <2>1. PICK n \in Bad : \A m \in Bad : n <= m
    <3>1. Bad \in SUBSET Nat
      OBVIOUS
    <3> HIDE DEF Bad
    <3> QED
      BY <3>1, LeastMember
  <2>2. n \in Nat /\ n # 0 /\ ~Upto(n)
    BY <1>1, <2>1
  <2>3. n - 1 \in Nat /\ (n - 1) + 1 = n /\ n - 1 \notin Bad
    BY <2>1, <2>2
  <2>4. Upto(n - 1)
    BY <2>3
  <2>5. Upto((n - 1) + 1)
    BY <1>2, <2>3, <2>4
  <2> QED
    BY <2>2, <2>3, <2>5
<1>4. MaxRun + 1 \in Nat
  BY PageHistoryAssumption
<1>5. PICK f : /\ f = [v \in Version |-> f[v]]
               /\ \A v \in Version : v[1] < MaxRun + 1 => f[v] = From(f, v, B, H)
  BY <1>3, <1>4
<1>6. \A v \in Version : f[v] = From(f, v, B, H)
  BY <1>5, VersionType, PageHistoryAssumption
<1>7. f = [v \in Version |-> From(f, v, B, H)]
  BY <1>5, <1>6
<1> QED
  BY <1>7 DEF Climbs

LEMMA ClimbedFrom ==
  ASSUME NEW B, NEW H, Rooted(B, H), NEW v \in Version
  PROVE  Climbed(B, H)[v] = From(Climbed(B, H), v, B, H)
<1>1. Climbs(Climbed(B, H), B, H)
  BY ClimbExists DEF Climbed
<1> QED
  BY <1>1 DEF Climbs
\* A search finds nothing or a node, of the run it starts from or an earlier one.
Found(B, v, place) ==
    /\ place[1] \in DOMAIN B /\ place[1] \in 0..v[1]
    /\ place[2] \in 1..Len(B[place[1]]) /\ place = <<place[1], place[2]>>

LEMMA ClimbedPlace ==
  ASSUME NEW B, NEW H, Rooted(B, H),
         \A r \in DOMAIN B : B[r] \in Seq(NodeType) /\ Sorted(B[r])
  PROVE  \A v \in Version : v[1] \in DOMAIN B =>
             Climbed(B, H)[v] = None \/ Found(B, v, Climbed(B, H)[v])
<1> DEFINE c == Climbed(B, H)
           Good(v) == v[1] \in DOMAIN B => c[v] = None \/ Found(B, v, c[v])
           Bad == {r \in Nat : \E v \in Version : v[1] = r /\ ~Good(v)}
<1> HIDE DEF c
<1> SUFFICES ASSUME Bad # {} PROVE FALSE
  <2>1. ASSUME NEW v \in Version, ~Good(v) PROVE v[1] \in Bad
    BY <2>1, VersionType
  <2> HIDE DEF Bad
  <2> QED
    BY <2>1 DEF c
<1>1. PICK r \in Bad : \A m \in Bad : r <= m
  <2>1. Bad \in SUBSET Nat
    OBVIOUS
  <2> HIDE DEF Bad
  <2> QED
    BY <2>1, LeastMember
<1>2. PICK v \in Version : v[1] = r /\ ~Good(v)
  BY <1>1
<1>3. c[v] = From(c, v, B, H) /\ v[1] \in DOMAIN B /\ v[1] \in Nat /\ v[2] \in Nat
  BY <1>2, ClimbedFrom, VersionType DEF c
<1>4. UpTo(B[v[1]], v[2]) \in 0..Len(B[v[1]]) /\ Len(B[v[1]]) \in Nat
  BY <1>3, UpToBounds, NodesTyped
<1>5. CASE UpTo(B[v[1]], v[2]) > 0
  <2>1. c[v] = <<v[1], UpTo(B[v[1]], v[2])>>
    BY <1>3, <1>5 DEF From
  <2>2. UpTo(B[v[1]], v[2]) \in 1..Len(B[v[1]])
    BY <1>4, <1>5
  <2>3. Found(B, v, c[v])
    BY <1>3, <2>1, <2>2 DEF Found
  <2> QED
    BY <1>2, <2>3
<1>6. CASE ~(UpTo(B[v[1]], v[2]) > 0)
  <2>1. CASE v[1] \notin DOMAIN H \/ H[v[1]] = None
    <3>1. c[v] = None
      BY <1>3, <1>6, <2>1 DEF From
    <3> QED
      BY <1>2, <3>1
  <2>2. CASE v[1] \in DOMAIN H /\ H[v[1]] # None
    <3> DEFINE w == H[v[1]]
    <3>1. w \in Version /\ w[1] < v[1] /\ w[1] \in DOMAIN B /\ w[1] \in Nat
      BY <2>2, VersionType DEF Rooted
    <3>2. c[v] = c[w]
      BY <1>3, <1>6, <2>2 DEF From
    <3> HIDE DEF w
    <3>3. w[1] \notin Bad
      BY <1>1, <1>2, <1>3, <3>1
    <3>4. c[w] = None \/ Found(B, w, c[w])
      BY <3>1, <3>3
    <3>5. Found(B, w, c[w]) => Found(B, v, c[w])
      BY <1>3, <3>1 DEF Found
    <3> QED
      BY <1>2, <3>2, <3>4, <3>5
  <2> QED
    BY <2>1, <2>2
<1> QED
  BY <1>5, <1>6

\* Two histories that agree on a set of versions, and on the versions these were
\* branched from, are searched alike.
Agree(W, B, H, C, G) ==
    \A v \in W : /\ UpTo(B[v[1]], v[2]) = UpTo(C[v[1]], v[2])
                 /\ v[1] \in DOMAIN H <=> v[1] \in DOMAIN G
                 /\ v[1] \in DOMAIN H => /\ H[v[1]] = G[v[1]]
                                         /\ H[v[1]] # None => H[v[1]] \in W

LEMMA ClimbedSame ==
  ASSUME NEW B, NEW H, NEW C, NEW G, Rooted(B, H), Rooted(C, G),
         NEW W \in SUBSET Version, Agree(W, B, H, C, G)
  PROVE  \A v \in W : Climbed(B, H)[v] = Climbed(C, G)[v]
<1> DEFINE c == Climbed(B, H)
           d == Climbed(C, G)
           Bad == {r \in Nat : \E v \in W : v[1] = r /\ c[v] # d[v]}
<1> HIDE DEF c, d
<1> SUFFICES ASSUME Bad # {} PROVE FALSE
  <2>1. ASSUME NEW v \in W, c[v] # d[v] PROVE v[1] \in Bad
    BY <2>1, VersionType
  <2> HIDE DEF Bad
  <2> QED
    BY <2>1 DEF c, d
<1>1. PICK r \in Bad : \A m \in Bad : r <= m
  <2>1. Bad \in SUBSET Nat
    OBVIOUS
  <2> HIDE DEF Bad
  <2> QED
    BY <2>1, LeastMember
<1>2. PICK v \in W : v[1] = r /\ c[v] # d[v]
  BY <1>1
<1>3. c[v] = From(c, v, B, H) /\ d[v] = From(d, v, C, G)
  BY <1>2, ClimbedFrom DEF c, d
<1>4. From(c, v, B, H) = From(d, v, C, G)
  <2>1. CASE v[1] \notin DOMAIN H \/ H[v[1]] = None
    BY <2>1 DEF From, Agree
  <2>2. CASE v[1] \in DOMAIN H /\ H[v[1]] # None
    <3> DEFINE w == H[v[1]]
    <3>1. w \in W /\ G[v[1]] = w /\ v[1] \in DOMAIN G
      BY <2>2 DEF Agree
    <3>2. w[1] < v[1] /\ w[1] \in Nat /\ v[1] \in Nat
      BY <2>2, VersionType DEF Rooted
    <3>3. c[w] = d[w]
      <4> HIDE DEF w
      <4>1. w[1] \notin Bad
        BY <1>1, <1>2, <3>2
      <4> QED
        BY <3>1, <3>2, <4>1
    <3> QED
      BY <2>2, <3>1, <3>3 DEF From, Agree
  <2> QED
    BY <2>1, <2>2
<1> QED
  BY <1>2, <1>3, <1>4
----------------------------------------------------------------------------
(* The invariant.                                                          *)

Now == <<run_id, run_sequence>>
Earlier(v) == v[1] < run_id \/ (v[1] = run_id /\ v[2] < run_sequence)

ClockOK ==
    /\ page \in Content \cup {Absent}
    /\ run_id \in 0..MaxRun /\ run_sequence \in 0..MaxSeq
    /\ snapshots \subseteq Version /\ \A v \in snapshots : Earlier(v)
    /\ committed \subseteq snapshots

BranchesOK ==
    /\ \A r \in DOMAIN branches : branches[r] \in Seq(NodeType) /\ Sorted(branches[r])
    /\ run_id \in DOMAIN branches =>
           \A i \in 1..Len(branches[run_id]) : branches[run_id][i].seq < run_sequence
    /\ Rooted(branches, branch_history)

CreatedOK ==
    /\ created = None => /\ DOMAIN branches = {} /\ DOMAIN branch_history = {}
                         /\ cursor = None /\ committed = {}
    /\ created # None => /\ created \in Version /\ Earlier(created)
                         /\ DOMAIN branches = created[1]..run_id
                         /\ DOMAIN branch_history = (created[1] + 1)..run_id

HistoryOK == ClockOK /\ BranchesOK /\ CreatedOK
PageInv == HistoryOK /\ CursorIsNearest

LEMMA InitPage == Init => PageInv
<1> SUFFICES ASSUME Init PROVE PageInv
  OBVIOUS
<1>1. ClockOK
  BY PageHistoryAssumption DEF Init, ClockOK
<1>2. BranchesOK
  BY DEF Init, BranchesOK, Rooted
<1>3. CreatedOK /\ CursorIsNearest
  BY DEF Init, CreatedOK, CursorIsNearest
<1> QED
  BY <1>1, <1>2, <1>3 DEF PageInv, HistoryOK

LEMMA Clock ==
  ASSUME HistoryOK
  PROVE  /\ run_id \in Nat /\ run_sequence \in Nat
         /\ run_id <= MaxRun /\ run_sequence <= MaxSeq /\ MaxRun \in Nat /\ MaxSeq \in Nat
         /\ \A s \in 0..MaxSeq : /\ <<run_id, s>> \in Version
                                 /\ <<run_id, s>>[1] = run_id /\ <<run_id, s>>[2] = s
BY PageHistoryAssumption DEF HistoryOK, ClockOK, Version

----------------------------------------------------------------------------
(* Versions before the clock.                                              *)

BeforeNow == {v \in Version : v[1] \in DOMAIN branches /\ Earlier(v)}

\* What a step of the history leaves as it is.
Grown ==
    /\ DOMAIN branches \subseteq DOMAIN branches'
    /\ \A r \in DOMAIN branches :
          /\ \A i \in 1..Len(branches[r]) : branches'[r][i] = branches[r][i]
          /\ r \in DOMAIN branch_history' <=> r \in DOMAIN branch_history
          /\ r \in DOMAIN branch_history => branch_history'[r] = branch_history[r]
    /\ \A v \in BeforeNow : UpTo(branches'[v[1]], v[2]) = UpTo(branches[v[1]], v[2])

LEMMA GrownKeeps ==
  ASSUME PageInv, Grown, Rooted(branches', branch_history'), created' = created, created # None
  PROVE  /\ \A v \in BeforeNow : Climb'[v] = Climb[v]
         /\ \A v \in BeforeNow : Nearest(v[1], v[2])' = Nearest(v[1], v[2])
         /\ \A v \in BeforeNow : ContentAt(v[1], v[2])' = ContentAt(v[1], v[2])
<1> DEFINE B == branches
           H == branch_history
           C == branches'
           G == branch_history'
<1>1. Climb = Climbed(B, H) /\ Climb' = Climbed(C, G)
  BY ClimbIs DEF Climb, Climbed, Climbs, From, NodesUpTo, UpTo, Bounds
<1>2. Rooted(B, H)
  BY DEF PageInv, HistoryOK, BranchesOK
<1>3. Agree(BeforeNow, B, H, C, G)
  <2>1. ASSUME NEW v \in BeforeNow, v[1] \in DOMAIN H, H[v[1]] # None
        PROVE  H[v[1]] \in BeforeNow
    <3>1. /\ H[v[1]] \in Version /\ H[v[1]][1] < v[1] /\ H[v[1]][1] \in DOMAIN B
          /\ H[v[1]][1] \in Nat /\ v[1] \in Nat /\ run_id \in Nat
      BY <1>2, <2>1, VersionType, Clock DEF PageInv, Rooted, BeforeNow
    <3>2. v[1] <= run_id
      BY <3>1 DEF BeforeNow, Earlier
    <3> QED
      BY <3>1, <3>2 DEF BeforeNow, Earlier
  <2> QED
    BY <2>1 DEF Agree, Grown, BeforeNow
<1>4. \A v \in BeforeNow : Climb'[v] = Climb[v]
  <2>1. BeforeNow \in SUBSET Version
    BY DEF BeforeNow
  <2> HIDE DEF B, H, C, G
  <2>2. \A v \in BeforeNow : Climbed(B, H)[v] = Climbed(C, G)[v]
    BY <1>2, <1>3, <2>1, ClimbedSame DEF C, G
  <2> QED
    BY <1>1, <2>2
<1>5. ASSUME NEW v \in BeforeNow
      PROVE  Nearest(v[1], v[2])' = Nearest(v[1], v[2])
  <2>1. /\ v \in Version /\ v = <<v[1], v[2]>> /\ v[1] \in DOMAIN branches
        /\ v[1] \in DOMAIN branches'
    BY VersionType DEF BeforeNow, Grown
  <2> QED
    BY <1>4, <2>1 DEF Nearest, BeforeCreation
<1>6. ASSUME NEW v \in BeforeNow
      PROVE  ContentAt(v[1], v[2])' = ContentAt(v[1], v[2])
  <2>1. CASE Nearest(v[1], v[2]) = None
    BY <1>5, <2>1 DEF ContentAt
  <2>2. CASE Nearest(v[1], v[2]) # None
    <3>1. v \in Version /\ v = <<v[1], v[2]>> /\ v[1] \in DOMAIN branches
      BY VersionType DEF BeforeNow
    <3> DEFINE p == Nearest(v[1], v[2])
    <3>2. p = Climbed(B, H)[v]
      BY <1>1, <2>2, <3>1 DEF Nearest
    <3>3. Found(B, v, p)
      BY <1>2, <2>2, <3>1, <3>2, ClimbedPlace DEF PageInv, HistoryOK, BranchesOK
    <3>4. p[1] \in DOMAIN branches /\ p[2] \in 1..Len(branches[p[1]])
      BY <3>3 DEF Found
    <3>5. branches'[p[1]][p[2]] = branches[p[1]][p[2]]
      BY <3>4 DEF Grown
    <3>6. Nearest(v[1], v[2])' = p
      BY <1>5
    <3> QED
      BY <2>2, <3>5, <3>6 DEF ContentAt, NodeAt
  <2> QED
    BY <2>1, <2>2
<1> QED
  BY <1>4, <1>5, <1>6
----------------------------------------------------------------------------
(* The clock goes on.                                                      *)

\* At or after the last node of the run's branch a search finds this node or,
\* where there is none, what it finds for the version the run comes from.
EndsAt(s) ==
    /\ run_id \in DOMAIN branches /\ Len(branches[run_id]) \in Nat
    /\ UpTo(branches[run_id], s) = Len(branches[run_id])
    /\ Nearest(run_id, s) = Climb[<<run_id, s>>]
    /\ Climb[<<run_id, s>>] =
           IF Len(branches[run_id]) > 0 THEN <<run_id, Len(branches[run_id])>>
           ELSE IF run_id \notin DOMAIN branch_history \/ branch_history[run_id] = None
           THEN None ELSE Climb[branch_history[run_id]]

SearchEnds ==
    \A s \in 0..MaxSeq :
        /\ HistoryOK /\ created # None /\ ~BeforeCreation(run_id, s)
        /\ \A i \in 1..Len(branches[run_id]) : branches[run_id][i].seq <= s
        => EndsAt(s)

LEMMA SearchEndsThere == SearchEnds
<1> SUFFICES ASSUME NEW s \in 0..MaxSeq, HistoryOK, created # None, ~BeforeCreation(run_id, s),
                    \A i \in 1..Len(branches[run_id]) : branches[run_id][i].seq <= s
             PROVE  EndsAt(s)
  BY DEF SearchEnds
<1> DEFINE b == branches[run_id]
<1>1. run_id \in Nat /\ run_sequence \in Nat /\ s \in Nat /\ <<run_id, s>> \in Version
  BY Clock
<1>2. /\ created \in Version /\ Earlier(created) /\ DOMAIN branches = created[1]..run_id
      /\ created[1] \in Nat /\ created[2] \in Nat
  BY VersionType DEF HistoryOK, CreatedOK
<1>3. run_id \in DOMAIN branches
  BY <1>1, <1>2 DEF Earlier
<1>4. b \in Seq(NodeType) /\ Sorted(b) /\ Len(b) \in Nat
  BY <1>3 DEF HistoryOK, BranchesOK
<1>5. UpTo(b, s) = Len(b)
  <2>1. \A i \in 1..Len(b) : b[i].seq <= s
    OBVIOUS
  <2> HIDE DEF b
  <2> QED
    BY <1>1, <1>4, <2>1, UpToEnd
<1>6. Nearest(run_id, s) = Climb[<<run_id, s>>]
  BY <1>3 DEF Nearest
<1>7. Climb[<<run_id, s>>] = From(Climb, <<run_id, s>>, branches, branch_history)
  BY <1>1, ClimbIs, ClimbedFrom DEF HistoryOK, BranchesOK
<1>8. Climb[<<run_id, s>>] =
          IF Len(b) > 0 THEN <<run_id, Len(b)>>
          ELSE IF run_id \notin DOMAIN branch_history \/ branch_history[run_id] = None
          THEN None ELSE Climb[branch_history[run_id]]
  BY <1>5, <1>7 DEF From
<1> QED
  BY <1>3, <1>4, <1>5, <1>6, <1>8 DEF EndsAt

LEMMA SearchNow ==
  ASSUME PageInv, created # None, NEW s \in 0..MaxSeq, run_sequence <= s
  PROVE  EndsAt(s)
<1>1. run_id \in Nat /\ run_sequence \in Nat /\ s \in Nat
  BY Clock DEF PageInv
<1>2. /\ created \in Version /\ Earlier(created) /\ DOMAIN branches = created[1]..run_id
      /\ created[1] \in Nat /\ created[2] \in Nat
  BY VersionType DEF PageInv, HistoryOK, CreatedOK
<1>3. run_id \in DOMAIN branches /\ ~BeforeCreation(run_id, s)
  BY <1>1, <1>2 DEF Earlier, BeforeCreation
<1>4. \A i \in 1..Len(branches[run_id]) : branches[run_id][i].seq <= s
  <2>1. \A i \in 1..Len(branches[run_id]) :
           branches[run_id][i].seq < run_sequence /\ branches[run_id][i].seq \in Nat
    BY <1>3, NodesTyped DEF PageInv, HistoryOK, BranchesOK
  <2> QED
    BY <1>1, <2>1
<1> QED
  BY <1>3, <1>4, SearchEndsThere DEF SearchEnds, PageInv

\* The clock alone does not move the cursor.
LEMMA SearchNext ==
  ASSUME PageInv, created # None, run_sequence < MaxSeq
  PROVE  Nearest(run_id, run_sequence + 1) = Nearest(run_id, run_sequence)
<1>1. /\ run_sequence \in 0..MaxSeq /\ run_sequence + 1 \in 0..MaxSeq
      /\ run_sequence <= run_sequence /\ run_sequence <= run_sequence + 1
  BY Clock DEF PageInv
<1>2. EndsAt(run_sequence) /\ EndsAt(run_sequence + 1)
  BY <1>1, SearchNow
<1> QED
  BY <1>2 DEF EndsAt

\* The step adds no node: an event, a snapshot of a page that is not committed
\* or has not changed.
LEMMA TickPage ==
  ASSUME PageInv, UNCHANGED <<page, history, run_id>>, run_sequence < MaxSeq,
         run_sequence' = run_sequence + 1,
         snapshots' \subseteq snapshots \cup {Now}, committed' \subseteq snapshots',
         snapshots \subseteq snapshots',
         created = None => committed' = {}
  PROVE  PageInv' /\ \A v \in snapshots : ContentAt(v[1], v[2])' = ContentAt(v[1], v[2])
<1> USE DEF history
<1>1. /\ run_id \in Nat /\ run_sequence \in Nat /\ run_sequence + 1 \in 0..MaxSeq
      /\ Now \in Version /\ MaxSeq \in Nat
  BY Clock DEF Now, PageInv
<1>2. \A v \in Version : Earlier(v) => Earlier(v)'
  BY <1>1, VersionType DEF Earlier
<1>3. ASSUME NEW v, v = Now
      PROVE  Earlier(v)'
  <2>1. v[1] = run_id /\ v[2] = run_sequence
    BY <1>3 DEF Now
  <2> QED
    BY <1>1, <2>1 DEF Earlier
<1>4. ClockOK'
  BY <1>1, <1>2, <1>3 DEF PageInv, HistoryOK, ClockOK
<1>5. BranchesOK'
  <2>1. \A r \in DOMAIN branches : \A i \in 1..Len(branches[r]) : branches[r][i].seq \in Nat
    BY NodesTyped DEF PageInv, HistoryOK, BranchesOK
  <2> QED
    BY <1>1, <2>1 DEF PageInv, HistoryOK, BranchesOK
<1>6. CreatedOK'
  BY <1>2 DEF PageInv, HistoryOK, CreatedOK
<1>7. \A r, q : Nearest(r, q)' = Nearest(r, q)
  BY DEF Nearest, BeforeCreation, Climb, NodesUpTo
<1>8. \A v \in snapshots : ContentAt(v[1], v[2])' = ContentAt(v[1], v[2])
  BY <1>7 DEF ContentAt, NodeAt
<1>9. CursorIsNearest'
  <2> SUFFICES ASSUME created # None
               PROVE  /\ cursor = Nearest(run_id, run_sequence)'
                      /\ cursor # None => cursor[2] \in 1..Len(branches[cursor[1]])
    BY DEF CursorIsNearest
  <2>1. PICK r, q : r = run_id /\ q = run_sequence + 1
    OBVIOUS
  <2>2. Nearest(r, q)' = Nearest(r, q)
    BY <1>7
  <2>3. Nearest(run_id, run_sequence)' = Nearest(r, q)'
    BY <2>1 DEF Nearest, BeforeCreation
  <2>4. Nearest(r, q) = cursor
    BY <2>1, SearchNext DEF PageInv, CursorIsNearest
  <2> QED
    BY <2>2, <2>3, <2>4 DEF PageInv, CursorIsNearest
<1> QED
  BY <1>4, <1>5, <1>6, <1>8, <1>9 DEF PageInv, HistoryOK

----------------------------------------------------------------------------
(* A snapshot adds a node to the run's branch.                             *)

\* What the node adds: the branch ends with it and the cursor is on it.
NodeAdded(b) ==
    /\ branches' = [branches EXCEPT ![run_id] = Append(b, Node)]
    /\ b = branches[run_id] /\ run_id \in DOMAIN branches
    /\ created' = created
    /\ cursor' = <<run_id, Len(b) + 1>>

\* The cursor is lost, or in an earlier run, only while the run's branch is
\* empty.
LEMMA AddsNode ==
  ASSUME PageInv, created # None, run_sequence < MaxSeq, FirstNode \/ ChangedPage
  PROVE  NodeAdded(branches[run_id])
<1> DEFINE b == branches[run_id]
<1>1. EndsAt(run_sequence) /\ run_id \in Nat /\ run_sequence \in Nat /\ Now \in Version
  BY SearchNow, Clock DEF PageInv, Now
<1>2. cursor = Climb[Now] /\ run_id \in DOMAIN branches /\ Len(b) \in Nat
  BY <1>1 DEF PageInv, CursorIsNearest, EndsAt, Now
<1>3. Len(b) > 0 => cursor = <<run_id, Len(b)>>
  BY <1>1, <1>2 DEF EndsAt, Now
<1>4. CASE FirstNode
  <2>1. Len(b) = 0
    BY <1>2, <1>3, <1>4 DEF FirstNode, None
  <2>2. branches' = [branches EXCEPT ![run_id] = Append(b, Node)]
    BY <1>2, <1>4 DEF FirstNode, Extend
  <2>3. cursor' = <<run_id, Len(b) + 1>>
    BY <1>4, <2>1 DEF FirstNode
  <2> QED
    BY <1>2, <1>4, <2>2, <2>3 DEF NodeAdded, FirstNode
<1>5. CASE ChangedPage
  <2>1. CASE Len(b) > 0
    BY <1>2, <1>3, <1>5, <2>1 DEF NodeAdded, ChangedPage
  <2>2. CASE ~(Len(b) > 0)
    <3>1. Len(b) = 0
      BY <1>2, <2>2
    <3>2. /\ run_id \in DOMAIN branch_history /\ branch_history[run_id] # None
          /\ cursor = Climb[branch_history[run_id]]
      BY <1>1, <1>2, <1>5, <2>2 DEF EndsAt, Now, ChangedPage
    <3> DEFINE w == branch_history[run_id]
    <3>3. w \in Version /\ w[1] < run_id /\ w[1] \in DOMAIN branches /\ w[1] \in Nat
      BY <3>2, VersionType DEF PageInv, HistoryOK, BranchesOK, Rooted
    <3>4. cursor = Climbed(branches, branch_history)[w]
      BY <3>2, ClimbIs
    <3> HIDE DEF w
    <3>5. Found(branches, w, cursor)
      BY <1>5, <3>3, <3>4, ClimbedPlace DEF PageInv, HistoryOK, BranchesOK, ChangedPage
    <3>6. cursor[1] # run_id
      BY <1>1, <3>3, <3>5 DEF Found
    <3> QED
      BY <1>2, <1>5, <3>1, <3>6 DEF NodeAdded, ChangedPage
  <2> QED
    BY <2>1, <2>2
<1> QED
  BY <1>4, <1>5

\* The snapshot has recorded the clock's version and moved the clock on.
Recorded ==
    /\ run_sequence < MaxSeq /\ page # Absent
    /\ committed' = committed \cup {Now} /\ snapshots' = snapshots \cup {Now}
    /\ run_sequence' = run_sequence + 1
    /\ UNCHANGED <<page, branch_history, run_id>>

LEMMA RecordedClock ==
  ASSUME HistoryOK, Recorded
  PROVE  ClockOK' /\ (\A v \in Version : v = Now => Earlier(v)') /\ \A v \in Version : Earlier(v) => Earlier(v)'
<1>1. /\ run_id \in Nat /\ run_sequence \in Nat /\ run_sequence + 1 \in 0..MaxSeq
      /\ Now \in Version /\ MaxSeq \in Nat
  BY Clock DEF Now, Recorded
<1>2. \A v \in Version : Earlier(v) => Earlier(v)'
  BY <1>1, VersionType DEF Earlier, Recorded
<1>3. ASSUME NEW v, v = Now
      PROVE  Earlier(v)'
  <2>1. v[1] = run_id /\ v[2] = run_sequence
    BY <1>3 DEF Now
  <2> QED
    BY <1>1, <2>1 DEF Earlier, Recorded
<1>4. ClockOK'
  BY <1>1, <1>2, <1>3 DEF HistoryOK, ClockOK, Recorded
<1> QED
  BY <1>2, <1>3, <1>4

LEMMA NodeIs == page \in Content /\ run_sequence \in 0..MaxSeq =>
                    Node \in NodeType /\ Node.seq = run_sequence /\ Node.content = page
BY DEF Node, NodeType

LEMMA AddedGrows ==
  ASSUME PageInv, created # None, Recorded, NEW b, NodeAdded(b)
  PROVE  HistoryOK' /\ Grown /\ branches'[run_id] = Append(b, Node)
<1>1. /\ run_id \in Nat /\ run_sequence \in Nat /\ run_sequence + 1 \in 0..MaxSeq
      /\ run_sequence \in 0..MaxSeq /\ Now \in Version /\ MaxSeq \in Nat
  BY Clock DEF Now, PageInv, Recorded
<1>2. ClockOK' /\ \A v \in Version : Earlier(v) => Earlier(v)'
  BY RecordedClock DEF PageInv
<1>3. Node \in NodeType /\ Node.seq = run_sequence
  BY <1>1, NodeIs DEF PageInv, HistoryOK, ClockOK, Recorded
<1>4. b \in Seq(NodeType) /\ Sorted(b) /\ \A i \in 1..Len(b) : b[i].seq < Node.seq
  BY <1>3 DEF PageInv, HistoryOK, BranchesOK, NodeAdded
<1> DEFINE e == Node
           c == Append(b, e)
<1>5. /\ c \in Seq(NodeType) /\ Sorted(c) /\ Len(c) = Len(b) + 1
      /\ c[Len(b) + 1] = e /\ \A i \in 1..Len(b) : c[i] = b[i]
      /\ \A s \in Nat : UpTo(c, s) = IF e.seq <= s THEN Len(b) + 1 ELSE UpTo(b, s)
  <2> HIDE DEF e
  <2> QED
    BY <1>3, <1>4, UpToAppend DEF e
<1>6. /\ branches' = [branches EXCEPT ![run_id] = c] /\ b = branches[run_id]
      /\ run_id \in DOMAIN branches
  BY DEF NodeAdded
<1> HIDE DEF c
<1>7. /\ DOMAIN branches' = DOMAIN branches /\ branches'[run_id] = c
      /\ \A r \in DOMAIN branches : r # run_id => branches'[r] = branches[r]
  BY <1>6
<1>8. BranchesOK'
  <2>1. \A r \in DOMAIN branches' : branches'[r] \in Seq(NodeType) /\ Sorted(branches'[r])
    BY <1>5, <1>7 DEF PageInv, HistoryOK, BranchesOK
  <2>2. ASSUME NEW i \in 1..Len(c)
        PROVE  c[i].seq < run_sequence + 1
    <3>1. Len(b) \in Nat /\ \A j \in 1..Len(b) : b[j].seq \in Nat
      BY <1>4, NodesTyped
    <3>2. CASE i \in 1..Len(b)
      BY <1>1, <1>3, <1>4, <1>5, <3>1, <3>2
    <3>3. CASE i = Len(b) + 1
      BY <1>1, <1>3, <1>5, <3>3
    <3> QED
      BY <1>5, <3>1, <3>2, <3>3
  <2>3. Rooted(branches, branch_history)'
    BY <1>7 DEF PageInv, HistoryOK, BranchesOK, Rooted, Recorded
  <2>4. run_id' = run_id /\ run_sequence' = run_sequence + 1
    BY DEF Recorded
  <2> QED
    BY <1>7, <2>1, <2>2, <2>3, <2>4 DEF BranchesOK
<1>9. CreatedOK'
  BY <1>2, <1>7 DEF PageInv, HistoryOK, CreatedOK, Recorded, NodeAdded
<1>10. Grown
  <2>1. \A r \in DOMAIN branches : \A i \in 1..Len(branches[r]) :
           branches'[r][i] = branches[r][i]
    BY <1>5, <1>6, <1>7
  <2>2. ASSUME NEW v \in BeforeNow
        PROVE  UpTo(branches'[v[1]], v[2]) = UpTo(branches[v[1]], v[2])
    <3>1. v[1] \in DOMAIN branches /\ Earlier(v) /\ v[2] \in Nat
      BY VersionType DEF BeforeNow
    <3>2. CASE v[1] = run_id
      <4>1. ~(e.seq <= v[2])
        BY <1>1, <1>3, <3>1, <3>2 DEF Earlier
      <4>2. UpTo(c, v[2]) = UpTo(b, v[2])
        BY <1>5, <3>1, <4>1
      <4> QED
        BY <1>6, <1>7, <3>2, <4>2
    <3>3. CASE v[1] # run_id
      BY <1>7, <3>1, <3>3
    <3> QED
      BY <3>2, <3>3
  <2>3. branch_history' = branch_history
    BY DEF Recorded
  <2> QED
    BY <1>7, <2>1, <2>2, <2>3 DEF Grown
<1> QED
  BY <1>2, <1>7, <1>8, <1>9, <1>10 DEF HistoryOK, c

\* The next search finds the added node.
LEMMA AddedFound ==
  ASSUME HistoryOK, HistoryOK', Recorded, NEW b \in Seq(NodeType), run_id \in DOMAIN branches',
         branches'[run_id] = Append(b, Node), cursor' = <<run_id, Len(b) + 1>>, created' # None
  PROVE  CursorIsNearest' /\ NodeAt(cursor)' = Node
<1>1. SearchEnds'
  BY SearchEndsThere, PTL
<1>2. /\ run_id \in Nat /\ run_sequence \in Nat /\ run_sequence + 1 \in 0..MaxSeq
      /\ run_sequence \in 0..MaxSeq
  BY Clock DEF Recorded
<1>3. PICK r, q : r = run_id /\ q = run_sequence + 1
  OBVIOUS
<1>4. run_id' = r /\ run_sequence' = q /\ created' # None
  BY <1>3 DEF Recorded
<1>5. Node \in NodeType
  BY <1>2, NodeIs DEF HistoryOK, ClockOK, Recorded
<1>6. /\ branches'[r] = Append(b, Node) /\ Len(branches'[r]) = Len(b) + 1
      /\ branches'[r][Len(b) + 1] = Node /\ Len(b) \in Nat
  BY <1>3, <1>5, AppendProperties
<1>7. ~BeforeCreation(r, q)'
  <2>1. /\ created' \in Version
        /\ created'[1] < r \/ (created'[1] = r /\ created'[2] < q)
    BY <1>4 DEF HistoryOK, CreatedOK, Earlier
  <2>2. created'[1] \in Nat /\ created'[2] \in Nat
    BY <2>1, VersionType
  <2> QED
    BY <1>2, <1>3, <2>1, <2>2 DEF BeforeCreation
<1>8. \A i \in 1..Len(branches'[r]) : branches'[r][i].seq <= q
  <2>1. r \in DOMAIN branches'
    BY <1>3
  <2>2. \A i \in 1..Len(branches'[r]) : branches'[r][i].seq < q
    BY <1>4, <2>1 DEF HistoryOK, BranchesOK
  <2>3. branches'[r] \in Seq(NodeType)
    BY <1>4, <2>1 DEF HistoryOK, BranchesOK
  <2>4. \A i \in 1..Len(branches'[r]) : branches'[r][i].seq \in Nat
    <3> HIDE DEF NodeType
    <3> QED
      BY <2>3, NodesTyped
  <2> QED
    BY <1>2, <1>3, <2>2, <2>4
<1>9. EndsAt(q)'
  <2>1. q \in 0..MaxSeq /\ \A i \in 1..Len(branches'[run_id']) : branches'[run_id'][i].seq <= q
    BY <1>2, <1>3, <1>4, <1>8
  <2>2. ~(BeforeCreation(run_id, q)')
    BY <1>4, <1>7 DEF BeforeCreation
  <2> QED
    BY <1>1, <1>4, <2>1, <2>2 DEF SearchEnds
<1>10. Climb'[<<r, q>>] = <<r, Len(b) + 1>>
  BY <1>4, <1>6, <1>9 DEF EndsAt
<1>11. cursor' = <<r, Len(b) + 1>>
  BY <1>3
<1>12. Nearest(run_id, run_sequence)' = Climb'[<<r, q>>]
  BY <1>4, <1>9 DEF EndsAt, Nearest
<1>13. cursor'[1] = r /\ cursor'[2] = Len(b) + 1
  BY <1>11
<1>14. NodeAt(cursor)' = branches'[r][Len(b) + 1]
  BY <1>13 DEF NodeAt
<1> QED
  BY <1>6, <1>10, <1>11, <1>12, <1>13, <1>14 DEF CursorIsNearest

\* The first node of the history.
LEMMA FirstPage ==
  ASSUME PageInv, created = None, Recorded, FirstNode
  PROVE  PageInv' /\ NodeAt(cursor)' = Node
<1>1. /\ run_id \in Nat /\ run_sequence \in Nat /\ run_sequence + 1 \in 0..MaxSeq
      /\ run_sequence \in 0..MaxSeq /\ Now \in Version /\ MaxSeq \in Nat
  BY Clock DEF Now, PageInv, Recorded
<1>2. ClockOK' /\ \A v \in Version : v = Now => Earlier(v)'
  BY RecordedClock DEF PageInv
<1>3. Node \in NodeType /\ Node.seq = run_sequence
  BY <1>1, NodeIs DEF PageInv, HistoryOK, ClockOK, Recorded
<1>4. /\ DOMAIN branches = {} /\ DOMAIN branch_history = {} /\ branch_history' = branch_history
      /\ created' = Now /\ run_id' = run_id /\ run_sequence' = run_sequence + 1
  BY DEF PageInv, HistoryOK, CreatedOK, FirstNode, Recorded, Now
<1> DEFINE e == Node
<1>5. branches' = [r \in {run_id} |-> <<e>>]
  BY <1>4 DEF FirstNode, Extend
<1>6. /\ <<e>> \in Seq(NodeType) /\ Len(<<e>>) = 1 /\ <<e>>[1] = e
      /\ <<e>> = Append(<<>>, e) /\ Len(<<>>) = 0 /\ <<>> \in Seq(NodeType)
  <2> HIDE DEF e
  <2> QED
    BY <1>3 DEF e
<1>7. DOMAIN branches' = {run_id} /\ branches'[run_id] = <<e>>
  BY <1>5
<1>8. BranchesOK'
  <2>1. Sorted(<<e>>)
    <3> HIDE DEF e
    <3>1. \A i \in 1..Len(<<e>>) : i = 1
      BY <1>6
    <3> QED
      BY <3>1 DEF Sorted
  <2>2. \A i \in 1..Len(<<e>>) : <<e>>[i].seq < run_sequence + 1
    <3>1. \A i \in 1..Len(<<e>>) : <<e>>[i] = e
      BY <1>6
    <3>2. e.seq < run_sequence + 1
      BY <1>1, <1>3
    <3> HIDE DEF e
    <3> QED
      BY <3>1, <3>2
  <2>3. Rooted(branches, branch_history)'
    BY <1>4 DEF Rooted
  <2> HIDE DEF e
  <2> QED
    BY <1>4, <1>6, <1>7, <2>1, <2>2, <2>3 DEF BranchesOK
<1>9. CreatedOK'
  <2>1. created' # None
    BY <1>4 DEF Now, None
  <2>2. PICK v \in Version : v = Now
    BY <1>1
  <2>3. created' = v /\ Earlier(v)' /\ v[1] = run_id
    BY <1>2, <1>4, <2>2 DEF Now
  <2>4. Earlier(created)'
    BY <2>3 DEF Earlier
  <2>5. run_id..run_id = {run_id} /\ (run_id + 1)..run_id = {}
    BY <1>1
  <2> QED
    BY <1>4, <1>7, <2>1, <2>2, <2>3, <2>4, <2>5 DEF CreatedOK
<1>10. HistoryOK'
  BY <1>2, <1>8, <1>9 DEF HistoryOK
<1>11. CursorIsNearest' /\ NodeAt(cursor)' = Node
  <2>1. run_id \in DOMAIN branches' /\ branches'[run_id] = Append(<<>>, Node)
    BY <1>6, <1>7
  <2>2. cursor' = <<run_id, Len(<<>>) + 1>> /\ created' # None
    BY <1>4, <1>6 DEF FirstNode, Now, None
  <2> QED
    BY <1>6, <1>10, <2>1, <2>2, AddedFound DEF PageInv
<1> QED
  BY <1>10, <1>11 DEF PageInv

----------------------------------------------------------------------------
(* What a snapshot saw stays what a restore writes.                        *)

\* What the snapshots taken before the step restore.
SnapshotsKept == \A v \in snapshots : Restored(v)' = Restored(v)

LEMMA GrownKeepsSnapshots ==
  ASSUME PageInv, Grown, Rooted(branches', branch_history'), created' = created, created # None,
         \A v \in snapshots : v \in committed' <=> v \in committed,
         \A v \in snapshots : v[1] \in DOMAIN branches' => v[1] \in DOMAIN branches
  PROVE  SnapshotsKept
<1> SUFFICES ASSUME NEW v \in snapshots
             PROVE  Restored(v)' = Restored(v)
  BY DEF SnapshotsKept
<1>1. v \in Version /\ Earlier(v)
  BY DEF PageInv, HistoryOK, ClockOK
<1>2. ContentAt(v[1], v[2])' = ContentAt(v[1], v[2])
  <2>1. CASE v[1] \in DOMAIN branches
    BY <1>1, <2>1, GrownKeeps DEF BeforeNow
  <2>2. CASE v[1] \notin DOMAIN branches
    BY <2>2 DEF ContentAt, Nearest
  <2> QED
    BY <2>1, <2>2
<1> QED
  BY <1>2 DEF Restored

\* A search for the version just before the clock ends at the cursor.
LastVersion ==
    \A s \in 0..MaxSeq :
        PageInv /\ created # None /\ run_sequence = s + 1 => Nearest(run_id, s) = cursor

LEMMA LastVersionIs == LastVersion
<1> SUFFICES ASSUME NEW s \in 0..MaxSeq, PageInv, created # None, run_sequence = s + 1
             PROVE  Nearest(run_id, s) = cursor
  BY DEF LastVersion
<1>1. run_id \in Nat /\ s \in Nat /\ run_sequence \in 0..MaxSeq /\ run_sequence <= run_sequence
  BY Clock DEF PageInv
<1>2. EndsAt(run_sequence) /\ cursor = Nearest(run_id, run_sequence)
  BY <1>1, SearchNow DEF PageInv, CursorIsNearest
<1>3. /\ created[1] < run_id \/ (created[1] = run_id /\ created[2] < run_sequence)
      /\ created[1] \in Nat /\ created[2] \in Nat
  BY VersionType DEF PageInv, HistoryOK, CreatedOK, Earlier
<1>4. ~BeforeCreation(run_id, s)
  BY <1>1, <1>3 DEF BeforeCreation
<1>5. \A i \in 1..Len(branches[run_id]) : branches[run_id][i].seq <= s
  <2>1. \A i \in 1..Len(branches[run_id]) :
           branches[run_id][i].seq < run_sequence /\ branches[run_id][i].seq \in Nat
    BY <1>2, NodesTyped DEF PageInv, HistoryOK, BranchesOK, EndsAt
  <2> QED
    BY <1>1, <2>1
<1>6. EndsAt(s)
  BY <1>4, <1>5, SearchEndsThere DEF SearchEnds, PageInv
<1> QED
  BY <1>2, <1>6 DEF EndsAt

\* The version the clock was at is restored as the page the snapshot saw.
NowKept == \A v \in Version : v = Now => Restored(v)' = page

LEMMA RecordedNow ==
  ASSUME HistoryOK, Recorded, PageInv', created' # None, cursor' # None,
         NodeAt(cursor)'.content = page
  PROVE  NowKept
<1> SUFFICES ASSUME NEW v \in Version, v = Now
             PROVE  Restored(v)' = page
  BY DEF NowKept
<1>1. LastVersion'
  BY LastVersionIs, PTL
<1>2. v[1] = run_id /\ v[2] = run_sequence /\ run_sequence \in 0..MaxSeq
  BY Clock DEF Now
<1>3. v \in committed' /\ run_id' = v[1] /\ run_sequence' = v[2] + 1
  BY <1>2 DEF Recorded
<1>4. v[2] \in 0..MaxSeq
  BY <1>2
<1>5. Nearest(run_id, v[2])' = cursor'
  BY <1>1, <1>3, <1>4 DEF LastVersion
<1>6. Nearest(v[1], v[2])' = cursor'
  BY <1>3, <1>5 DEF Nearest, BeforeCreation
<1>7. ContentAt(v[1], v[2])' = NodeAt(cursor)'.content
  BY <1>6 DEF ContentAt, NodeAt
<1> QED
  BY <1>3, <1>7 DEF Restored

LEMMA SnapshotPage ==
  ASSUME PageInv, Snapshot
  PROVE  PageInv' /\ SnapshotsKept /\ NowKept
<1> USE DEF history
<1>1. /\ run_sequence < MaxSeq /\ run_sequence' = run_sequence + 1
      /\ snapshots' = snapshots \cup {Now} /\ UNCHANGED <<page, branch_history, run_id>>
  BY DEF Snapshot, Now
<1>2. /\ run_id \in Nat /\ run_sequence \in Nat /\ run_sequence \in 0..MaxSeq
      /\ Now \in Version /\ committed \subseteq snapshots
      /\ \A v \in snapshots : v \in Version /\ Earlier(v)
  BY Clock DEF Now, PageInv, HistoryOK, ClockOK
<1>3. \A v \in snapshots : v # Now
  <2>1. ASSUME NEW v \in snapshots, v = Now PROVE FALSE
    <3>1. v[1] = run_id /\ v[2] = run_sequence
      BY <2>1 DEF Now
    <3> QED
      BY <1>2, <3>1 DEF Earlier
  <2> QED
    BY <2>1
<1>4. CASE page = Absent
  <2>1. UNCHANGED <<history, committed>>
    BY <1>1, <1>4 DEF Snapshot
  <2>2. PageInv' /\ \A v \in snapshots : ContentAt(v[1], v[2])' = ContentAt(v[1], v[2])
    <3>1. created = None => committed' = {}
      BY <2>1 DEF PageInv, HistoryOK, CreatedOK
    <3> QED
      BY <1>1, <1>2, <2>1, <3>1, TickPage
  <2>3. SnapshotsKept
    BY <2>1, <2>2 DEF SnapshotsKept, Restored
  <2>4. NowKept
    BY <1>2, <1>3, <1>4, <2>1 DEF NowKept, Restored
  <2> QED
    BY <2>2, <2>3, <2>4
<1>5. CASE page # Absent
  <2>1. Recorded /\ (FirstNode \/ SamePage \/ ChangedPage)
    BY <1>1, <1>5 DEF Snapshot, Recorded, Now
  <2>2. \A v \in snapshots : v \in committed' <=> v \in committed
    BY <1>3, <2>1 DEF Recorded
  <2>3. page \in Content /\ Node.content = page
    BY <1>2, <1>5, NodeIs DEF PageInv, HistoryOK, ClockOK
  <2>4. CASE created = None
    <3>1. FirstNode /\ committed = {}
      BY <2>1, <2>4 DEF PageInv, HistoryOK, CreatedOK, SamePage, ChangedPage
    <3>2. PageInv' /\ NodeAt(cursor)' = Node
      BY <2>1, <2>4, <3>1, FirstPage
    <3>3. created' # None /\ cursor' # None
      BY <2>4, <3>1 DEF FirstNode, None
    <3>4. NowKept
      BY <2>1, <2>3, <3>2, <3>3, RecordedNow DEF PageInv
    <3>5. SnapshotsKept
      BY <2>2, <3>1 DEF SnapshotsKept, Restored
    <3> QED
      BY <3>2, <3>4, <3>5
  <2>5. CASE created # None /\ (FirstNode \/ ChangedPage)
    <3> DEFINE b == branches[run_id]
    <3>1. NodeAdded(b)
      BY <1>1, <2>5, AddsNode
    <3>2. b \in Seq(NodeType)
      BY <3>1 DEF PageInv, HistoryOK, BranchesOK, NodeAdded
    <3> HIDE DEF b
    <3>3. HistoryOK' /\ Grown /\ branches'[run_id] = Append(b, Node)
      BY <2>1, <2>5, <3>1, AddedGrows
    <3>4. /\ run_id \in DOMAIN branches' /\ created' = created /\ DOMAIN branches' = DOMAIN branches
          /\ cursor' = <<run_id, Len(b) + 1>> /\ cursor' # None
      BY <3>1 DEF NodeAdded, None
    <3>5. CursorIsNearest' /\ NodeAt(cursor)' = Node
      BY <2>1, <2>5, <3>2, <3>3, <3>4, AddedFound DEF PageInv
    <3>6. PageInv'
      BY <3>3, <3>5 DEF PageInv
    <3>7. NowKept
      BY <2>1, <2>3, <2>5, <3>4, <3>5, <3>6, RecordedNow DEF PageInv
    <3>8. SnapshotsKept
      <4>1. Rooted(branches', branch_history')
        BY <3>3 DEF HistoryOK, BranchesOK
      <4> QED
        BY <2>2, <2>5, <3>3, <3>4, <4>1, GrownKeepsSnapshots
    <3> QED
      BY <3>6, <3>7, <3>8
  <2>6. CASE created # None /\ SamePage
    <3>1. UNCHANGED history /\ cursor # None /\ NodeAt(cursor).content = page
      BY <1>1, <2>6 DEF SamePage
    <3>2. PageInv' /\ \A v \in snapshots : ContentAt(v[1], v[2])' = ContentAt(v[1], v[2])
      <4>1. committed' \subseteq snapshots' /\ snapshots \subseteq snapshots'
        BY <1>1, <1>2, <2>1 DEF Recorded
      <4> QED
        BY <1>1, <2>6, <3>1, <4>1, TickPage
    <3>3. NodeAt(cursor)' = NodeAt(cursor)
      BY <3>1 DEF NodeAt
    <3>4. NowKept
      BY <2>1, <2>6, <3>1, <3>2, <3>3, RecordedNow DEF PageInv
    <3>5. SnapshotsKept
      BY <2>2, <3>2 DEF SnapshotsKept, Restored
    <3> QED
      BY <3>2, <3>4, <3>5
  <2> QED
    BY <2>1, <2>4, <2>5, <2>6
<1> QED
  BY <1>4, <1>5

----------------------------------------------------------------------------
(* The other steps.                                                        *)

LEMMA FoundPlace ==
  ASSUME HistoryOK, NEW v \in Version, Nearest(v[1], v[2]) # None
  PROVE  /\ v[1] \in DOMAIN branches /\ Nearest(v[1], v[2]) = Climb[v]
         /\ Found(branches, v, Nearest(v[1], v[2]))
<1>1. v = <<v[1], v[2]>>
  BY VersionType
<1>2. v[1] \in DOMAIN branches /\ Nearest(v[1], v[2]) = Climb[v]
  BY <1>1 DEF Nearest
<1>3. Nearest(v[1], v[2]) = Climbed(branches, branch_history)[v]
  BY <1>2, ClimbIs
<1> QED
  BY <1>2, <1>3, ClimbedPlace DEF HistoryOK, BranchesOK

LEMMA ContentTyped ==
  ASSUME HistoryOK, NEW v \in Version
  PROVE  ContentAt(v[1], v[2]) \in Content
<1>1. CASE Nearest(v[1], v[2]) = None
  BY <1>1, PageHistoryAssumption DEF ContentAt
<1>2. CASE Nearest(v[1], v[2]) # None
  <2> DEFINE p == Nearest(v[1], v[2])
  <2>1. p[1] \in DOMAIN branches /\ p[2] \in 1..Len(branches[p[1]])
    BY <1>2, FoundPlace DEF Found
  <2>2. branches[p[1]] \in Seq(NodeType)
    BY <2>1 DEF HistoryOK, BranchesOK
  <2>3. branches[p[1]][p[2]] \in NodeType
    BY <2>1, <2>2
  <2>4. branches[p[1]][p[2]].content \in Content
    BY <2>3 DEF NodeType
  <2> QED
    BY <1>2, <2>4 DEF ContentAt, NodeAt
<1> QED
  BY <1>1, <1>2

\* The debuggee writes, commits or decommits; the history is as it was.
LEMMA ChangePage ==
  ASSUME PageInv, NEW c \in Content \cup {Absent}, Change(c)
  PROVE  PageInv' /\ SnapshotsKept
<1> USE DEF history, Change
<1>1. ClockOK' /\ BranchesOK' /\ CreatedOK'
  BY DEF PageInv, HistoryOK, ClockOK, BranchesOK, CreatedOK, Earlier
<1>2. \A r, q : Nearest(r, q)' = Nearest(r, q)
  BY DEF Nearest, BeforeCreation, Climb, NodesUpTo
<1>3. Nearest(run_id, run_sequence)' = Nearest(run_id, run_sequence)
  BY DEF Nearest, BeforeCreation, Climb, NodesUpTo
<1>4. CursorIsNearest'
  BY <1>3 DEF PageInv, CursorIsNearest
<1>5. SnapshotsKept
  BY <1>2 DEF SnapshotsKept, Restored, ContentAt, NodeAt
<1> QED
  BY <1>1, <1>4, <1>5 DEF PageInv, HistoryOK

LEMMA RestoreClock ==
  ASSUME PageInv, NEW v \in snapshots, Restore(v)
  PROVE  ClockOK' /\ (\A w \in Version : Earlier(w) => Earlier(w)' /\ w[1] < run_id + 1)
<1>1. /\ run_id \in Nat /\ run_sequence \in Nat /\ run_id + 1 \in 0..MaxRun /\ 0 \in 0..MaxSeq
      /\ run_id' = run_id + 1 /\ run_sequence' = 0
  BY Clock DEF PageInv, Restore
<1>2. \A w \in Version : Earlier(w) => Earlier(w)' /\ w[1] < run_id + 1
  BY <1>1, VersionType DEF Earlier
<1>3. page' \in Content \cup {Absent}
  BY ContentTyped DEF PageInv, HistoryOK, ClockOK, Restore, Restored
<1> QED
  BY <1>1, <1>2, <1>3 DEF PageInv, HistoryOK, ClockOK, Restore

\* A restore before the page was first seen.
LEMMA RestoreNothing ==
  ASSUME PageInv, NEW v \in snapshots, Restore(v), created = None
  PROVE  PageInv' /\ SnapshotsKept
<1> USE DEF history
<1>1. ClockOK'
  BY RestoreClock
<1>2. UNCHANGED <<history, snapshots, committed>>
  BY DEF Restore
<1>3. BranchesOK' /\ CreatedOK' /\ CursorIsNearest'
  BY <1>2 DEF PageInv, HistoryOK, BranchesOK, CreatedOK, CursorIsNearest
<1>4. SnapshotsKept
  BY <1>2 DEF PageInv, HistoryOK, CreatedOK, SnapshotsKept, Restored
<1> QED
  BY <1>1, <1>3, <1>4 DEF PageInv, HistoryOK

\* make_branch: the new run's branch is empty and comes from the restored version
\* or, where that has no node, from none.
LEMMA RestoreGrows ==
  ASSUME PageInv, NEW v \in snapshots, Restore(v), created # None
  PROVE  /\ HistoryOK' /\ Grown /\ created' = created /\ cursor' = Nearest(v[1], v[2])
         /\ DOMAIN branches' = DOMAIN branches \cup {run_id + 1} /\ branches'[run_id + 1] = <<>>
         /\ \A r \in DOMAIN branches : branches'[r] = branches[r]
         /\ run_id + 1 \in DOMAIN branch_history'
         /\ branch_history'[run_id + 1] = IF cursor' = None THEN None ELSE v
<1>1. /\ run_id \in Nat /\ run_id + 1 \in Nat /\ run_id' = run_id + 1 /\ run_sequence' = 0
      /\ v \in Version /\ Earlier(v)
  BY Clock DEF PageInv, HistoryOK, ClockOK, Restore
<1>2. /\ cursor' = Nearest(v[1], v[2]) /\ created' = created
      /\ branches' = Extend(branches, run_id + 1, <<>>)
      /\ branch_history' = Extend(branch_history, run_id + 1, IF cursor' = None THEN None ELSE v)
  BY DEF Restore
<1>3. ClockOK' /\ (\A w \in Version : Earlier(w) => Earlier(w)' /\ w[1] < run_id + 1)
  BY RestoreClock
<1>4. /\ created \in Version /\ Earlier(created) /\ created[1] \in Nat /\ created[1] < run_id + 1
      /\ DOMAIN branches = created[1]..run_id /\ DOMAIN branch_history = (created[1] + 1)..run_id
  BY <1>3, VersionType DEF PageInv, HistoryOK, CreatedOK
<1>5. /\ DOMAIN branches' = DOMAIN branches \cup {run_id + 1} /\ branches'[run_id + 1] = <<>>
      /\ \A r \in DOMAIN branches : branches'[r] = branches[r] /\ r # run_id + 1
      /\ DOMAIN branch_history' = DOMAIN branch_history \cup {run_id + 1}
      /\ branch_history'[run_id + 1] = IF cursor' = None THEN None ELSE v
      /\ \A r \in DOMAIN branch_history : branch_history'[r] = branch_history[r] /\ r # run_id + 1
  BY <1>1, <1>2, <1>4 DEF Extend
<1>6. BranchesOK'
  <2>1. \A r \in DOMAIN branches' : branches'[r] \in Seq(NodeType) /\ Sorted(branches'[r])
    <3>1. <<>> \in Seq(NodeType) /\ Sorted(<<>>) /\ Len(<<>>) = 0
      BY DEF Sorted
    <3> QED
      BY <1>5, <3>1 DEF PageInv, HistoryOK, BranchesOK
  <2>2. \A i \in 1..Len(branches'[run_id + 1]) : branches'[run_id + 1][i].seq < 0
    <3>1. 1..Len(<<>>) = {}
      OBVIOUS
    <3> QED
      BY <1>5, <3>1
  <2>3. ASSUME NEW r \in DOMAIN branch_history', branch_history'[r] # None
        PROVE  /\ branch_history'[r] \in Version
               /\ branch_history'[r][1] < r /\ branch_history'[r][1] \in DOMAIN branches'
    <3>1. CASE r = run_id + 1
      <4>1. cursor' # None /\ branch_history'[r] = v
        BY <1>5, <2>3, <3>1
      <4>2. v[1] \in DOMAIN branches
        BY <1>1, <1>2, <4>1, FoundPlace DEF PageInv
      <4> QED
        BY <1>1, <1>3, <1>5, <3>1, <4>1, <4>2
    <3>2. CASE r # run_id + 1
      BY <1>5, <2>3, <3>2 DEF PageInv, HistoryOK, BranchesOK, Rooted
    <3> QED
      BY <3>1, <3>2
  <2>4. Rooted(branches', branch_history')
    BY <2>3 DEF Rooted
  <2> QED
    BY <1>1, <2>1, <2>2, <2>4 DEF BranchesOK
<1>7. CreatedOK'
  <2>1. DOMAIN branches' = created[1]..(run_id + 1)
    BY <1>1, <1>4, <1>5
  <2>2. DOMAIN branch_history' = (created[1] + 1)..(run_id + 1)
    BY <1>1, <1>4, <1>5
  <2>3. Earlier(created)'
    BY <1>1, <1>2, <1>4 DEF Earlier
  <2> QED
    BY <1>1, <1>2, <1>4, <2>1, <2>2, <2>3 DEF CreatedOK
<1>8. Grown
  <2>1. ASSUME NEW r \in DOMAIN branches
        PROVE  r \in DOMAIN branch_history' <=> r \in DOMAIN branch_history
    BY <1>5
  <2> QED
    BY <1>5, <2>1 DEF Grown, BeforeNow
<1> QED
  BY <1>2, <1>3, <1>5, <1>6, <1>7, <1>8 DEF HistoryOK

LEMMA RestorePage ==
  ASSUME PageInv, NEW v \in snapshots, Restore(v)
  PROVE  PageInv' /\ SnapshotsKept
<1>1. CASE created = None
  BY <1>1, RestoreNothing
<1>2. CASE created # None
  <2>1. /\ HistoryOK' /\ Grown /\ created' = created /\ cursor' = Nearest(v[1], v[2])
        /\ DOMAIN branches' = DOMAIN branches \cup {run_id + 1} /\ branches'[run_id + 1] = <<>>
        /\ \A r \in DOMAIN branches : branches'[r] = branches[r]
        /\ run_id + 1 \in DOMAIN branch_history'
        /\ branch_history'[run_id + 1] = IF cursor' = None THEN None ELSE v
    BY <1>2, RestoreGrows
  <2>2. /\ run_id' = run_id + 1 /\ run_sequence' = 0 /\ UNCHANGED <<snapshots, committed>>
        /\ run_id \in Nat /\ v \in Version /\ Earlier(v) /\ 0 \in 0..MaxSeq
    BY Clock DEF PageInv, HistoryOK, ClockOK, Restore
  <2>3. Rooted(branches', branch_history')
    BY <2>1 DEF HistoryOK, BranchesOK
  <2>4. SnapshotsKept
    <3>1. ASSUME NEW w \in snapshots, w[1] \in DOMAIN branches'
          PROVE  w[1] \in DOMAIN branches
      <4>1. w \in Version /\ Earlier(w)
        BY DEF PageInv, HistoryOK, ClockOK
      <4>2. w[1] < run_id + 1 /\ w[1] \in Nat
        BY <4>1, RestoreClock, VersionType
      <4> QED
        BY <2>1, <2>2, <3>1, <4>2
    <3> QED
      BY <1>2, <2>1, <2>2, <2>3, <3>1, GrownKeepsSnapshots
  <2>5. CursorIsNearest'
    <3>1. SearchEnds'
      BY SearchEndsThere, PTL
    <3>2. PICK r : r = run_id + 1
      OBVIOUS
    <3>3. ~(BeforeCreation(run_id, 0)')
      <4>1. created'[1] < r \/ (created'[1] = r /\ created'[2] < 0)
        BY <1>2, <2>1, <2>2, <3>2 DEF HistoryOK, CreatedOK, Earlier
      <4>2. created' \in Version
        BY <1>2, <2>1 DEF HistoryOK, CreatedOK
      <4>3. created'[1] \in Nat /\ created'[2] \in Nat
        BY <4>2, VersionType
      <4> QED
        BY <2>2, <3>2, <4>1, <4>3 DEF BeforeCreation
    <3>4. Len(<<>>) = 0 /\ 1..Len(<<>>) = {}
      OBVIOUS
    <3>5. EndsAt(0)'
      BY <1>2, <2>1, <2>2, <3>1, <3>3, <3>4 DEF SearchEnds
    <3>6. Nearest(run_id, 0)' = IF branch_history'[r] = None THEN None ELSE Climb'[branch_history'[r]]
      BY <2>1, <2>2, <3>2, <3>4, <3>5 DEF EndsAt
    <3>7. Nearest(run_id, run_sequence)' = Nearest(run_id, 0)'
      BY <2>2 DEF Nearest, BeforeCreation
    <3>8. CASE cursor' = None
      <4>1. Nearest(run_id, run_sequence)' = None
        BY <2>1, <3>2, <3>6, <3>7, <3>8
      <4> QED
        BY <3>8, <4>1 DEF CursorIsNearest
    <3>9. CASE cursor' # None
      <4>1. /\ v[1] \in DOMAIN branches /\ cursor' = Climb[v] /\ Found(branches, v, cursor')
        BY <2>1, <2>2, <3>9, FoundPlace DEF PageInv
      <4>2. Climb'[v] = Climb[v]
        BY <1>2, <2>1, <2>2, <2>3, <4>1, GrownKeeps DEF BeforeNow
      <4>3. v # None
        BY <2>2, VersionType DEF None
      <4>4. Nearest(run_id, run_sequence)' = cursor'
        BY <2>1, <3>2, <3>6, <3>7, <3>9, <4>1, <4>2, <4>3
      <4>5. cursor'[2] \in 1..Len(branches'[cursor'[1]])
        BY <2>1, <4>1 DEF Found
      <4> QED
        BY <4>4, <4>5 DEF CursorIsNearest
    <3> QED
      BY <3>8, <3>9
  <2> QED
    BY <2>1, <2>4, <2>5 DEF PageInv
<1> QED
  BY <1>1, <1>2

LEMMA EventPage ==
  ASSUME PageInv, Event
  PROVE  PageInv' /\ SnapshotsKept
<1>1. UNCHANGED <<page, history, run_id, snapshots, committed>>
  BY DEF Event
<1>2. PageInv' /\ \A v \in snapshots : ContentAt(v[1], v[2])' = ContentAt(v[1], v[2])
  <2>1. run_sequence < MaxSeq /\ run_sequence' = run_sequence + 1
    BY DEF Event
  <2>2. /\ snapshots' \subseteq snapshots \cup {Now} /\ committed' \subseteq snapshots'
        /\ snapshots \subseteq snapshots' /\ created = None => committed' = {}
    BY <1>1 DEF PageInv, HistoryOK, ClockOK, CreatedOK
  <2> QED
    BY <1>1, <2>1, <2>2, TickPage
<1>3. SnapshotsKept
  BY <1>1, <1>2 DEF SnapshotsKept, Restored
<1> QED
  BY <1>2, <1>3

LEMMA StutterPage ==
  ASSUME PageInv, UNCHANGED vars
  PROVE  PageInv'
<1>1. Nearest(run_id, run_sequence)' = Nearest(run_id, run_sequence)
  BY DEF vars, history, Nearest, BeforeCreation, Climb, NodesUpTo
<1>2. HistoryOK'
  BY DEF vars, history, PageInv, HistoryOK, ClockOK, BranchesOK, CreatedOK, Earlier
<1> QED
  BY <1>1, <1>2 DEF vars, history, PageInv, CursorIsNearest

LEMMA NextPage == PageInv /\ [Next]_vars => PageInv'
<1> SUFFICES ASSUME PageInv, [Next]_vars PROVE PageInv'
  OBVIOUS
<1>1. ASSUME NEW c \in Content \cup {Absent}, Change(c) PROVE PageInv'
  BY <1>1, ChangePage
<1>2. CASE Event
  BY <1>2, EventPage
<1>3. CASE Snapshot
  BY <1>3, SnapshotPage
<1>4. ASSUME NEW v \in snapshots, Restore(v) PROVE PageInv'
  BY <1>4, RestorePage
<1>5. CASE UNCHANGED vars
  BY <1>5, StutterPage
<1> QED
  BY <1>1, <1>2, <1>3, <1>4, <1>5 DEF Next

----------------------------------------------------------------------------
(* The cursor is never stale.                                              *)

LEMMA PageInvHolds == Spec => []PageInv
<1>1. Init => PageInv
  BY InitPage
<1>2. PageInv /\ [Next]_vars => PageInv'
  BY NextPage
<1> QED
  BY <1>1, <1>2, PTL DEF Spec

\* For any contents and any number of runs and versions, the node under the
\* cached cursor is the one a search for the current version would find, in
\* whatever order snapshots, restores, writes and decommits come: the page is
\* compared with the right node (fully_persistent_region.h:111-132, 145-147).
THEOREM CursorNeverStale == Spec => []CursorIsNearest
<1>1. PageInv => CursorIsNearest
  BY DEF PageInv
<1> QED
  BY <1>1, PageInvHolds, PTL

\* The contents, versions and runs of the history are what they should be.
THEOREM PageTyped == Spec => []TypeOK
<1>1. ASSUME PageInv PROVE TypeOK
  <2>1. HistoryOK
    BY <1>1 DEF PageInv
  <2>2. DOMAIN branches \subseteq 0..MaxRun /\ DOMAIN branch_history \subseteq DOMAIN branches
    <3>1. CASE created = None
      BY <2>1, <3>1 DEF HistoryOK, CreatedOK
    <3>2. CASE created # None
      <4>1. created[1] \in Nat
        BY <2>1, <3>2, VersionType DEF HistoryOK, CreatedOK
      <4> QED
        BY <2>1, <3>2, <4>1, Clock DEF HistoryOK, CreatedOK
    <3> QED
      BY <3>1, <3>2
  <2> QED
    BY <2>1, <2>2 DEF TypeOK, HistoryOK, ClockOK, BranchesOK, NodeType
<1> QED
  BY <1>1, PageInvHolds, PTL

----------------------------------------------------------------------------
(* The history implements the register.                                    *)

Past == [v \in snapshots |-> Restored(v)]

LEMMA PastKept ==
  ASSUME SnapshotsKept, snapshots' = snapshots
  PROVE  Past' = Past
<1>1. Past' = [v \in snapshots |-> Restored(v)']
  BY DEF Past
<1> QED
  BY <1>1 DEF Past, SnapshotsKept

LEMMA PastGrows ==
  ASSUME PageInv, SnapshotsKept, NowKept, snapshots' = snapshots \cup {Now}
  PROVE  Past' = [v \in DOMAIN Past \cup {Now} |-> IF v = Now THEN page ELSE Past[v]]
<1>1. Past' = [v \in snapshots' |-> Restored(v)']
  BY DEF Past
<1>2. DOMAIN Past = snapshots /\ \A v \in snapshots : Past[v] = Restored(v)
  BY DEF Past
<1>3. Now \in Version
  BY Clock DEF Now, PageInv
<1>4. \A v \in snapshots' : Restored(v)' = IF v = Now THEN page ELSE Past[v]
  BY <1>2, <1>3 DEF SnapshotsKept, NowKept
<1> QED
  BY <1>1, <1>2, <1>4

LEMMA InitRegister == Init => Register!Init
BY DEF Init, Register!Init

LEMMA StepRegister == PageInv /\ [Next]_vars => [Register!Next]_(Register!vars)
<1> SUFFICES ASSUME PageInv, [Next]_vars PROVE [Register!Next]_(Register!vars)
  OBVIOUS
<1>1. ASSUME NEW c \in Content \cup {Absent}, Change(c) PROVE Register!Change(c)
  <2>1. Past' = Past
    BY <1>1, ChangePage, PastKept DEF Change
  <2> QED
    BY <1>1, <2>1 DEF Change, Register!Change, Past
<1>2. ASSUME Event PROVE Register!Advance
  <2>1. Past' = Past
    BY <1>2, EventPage, PastKept DEF Event
  <2> QED
    BY <1>2, <2>1 DEF Event, Register!Advance, Past
<1>3. ASSUME Snapshot PROVE Register!Snapshot
  <2>1. Past' = [v \in DOMAIN Past \cup {Now} |-> IF v = Now THEN page ELSE Past[v]]
    <3>1. snapshots' = snapshots \cup {Now}
      BY <1>3 DEF Snapshot, Now
    <3> QED
      BY <1>3, <3>1, SnapshotPage, PastGrows
  <2> QED
    BY <1>3, <2>1 DEF Snapshot, Register!Snapshot, Past, Now
<1>4. ASSUME NEW v \in snapshots, Restore(v) PROVE v \in DOMAIN Past /\ Register!GoBack(v)
  <2>1. Past' = Past
    BY <1>4, RestorePage, PastKept DEF Restore
  <2>2. DOMAIN Past = snapshots /\ Past[v] = Restored(v)
    BY DEF Past
  <2>3. page' = Past[v]
    BY <1>4, <2>2 DEF Restore
  <2> QED
    BY <1>4, <2>1, <2>2, <2>3 DEF Restore, Register!GoBack, Past
<1>5. ASSUME UNCHANGED vars PROVE UNCHANGED Register!vars
  <2>1. \A v : Restored(v)' = Restored(v)
    BY <1>5 DEF vars, history, Restored, ContentAt, Nearest, BeforeCreation, Climb, NodesUpTo, NodeAt
  <2>2. Past' = Past
    BY <1>5, <2>1 DEF vars, Past
  <2> QED
    BY <1>5, <2>2 DEF vars, Register!vars, Past
<1> QED
  BY <1>1, <1>2, <1>3, <1>4, <1>5 DEF Next, Register!Next, Past

\* The fat-node history of a page is a versioned register, for any contents and
\* any number of runs, versions and nodes: a restore writes exactly the page the
\* snapshot saw, whatever was recorded since, in whatever run
\* (fully_persistent_region.h:50-143, memory_manager.cpp:52-112).
THEOREM PageIsRegister == Spec => ImplementsRegister
<1>1. Init => PageInv /\ Register!Init
  BY InitPage, InitRegister
<1>2. PageInv /\ [Next]_vars => PageInv' /\ [Register!Next]_(Register!vars)
  BY NextPage, StepRegister
<1> QED
  BY <1>1, <1>2, PTL DEF Spec, ImplementsRegister, Register!Spec
=============================================================================
