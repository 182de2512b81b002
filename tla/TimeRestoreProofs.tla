------------------------ MODULE TimeRestoreProofs ------------------------
(***************************************************************************)
(* Two results about going back.  An ExecutionTree, used the way the       *)
(* managers use it, implements a versioned register: a snapshot's version  *)
(* goes on answering with the state the object had when the snapshot was   *)
(* taken.  And a restore that goes by such trees leaves of the process     *)
(* only what the snapshot saved: no thread or DLL it did not have, and     *)
(* every thread with the registers it had, for any number of threads,      *)
(* DLLs, events, runs and snapshots.                                       *)
(***************************************************************************)
EXTENDS TimeRestore, TreeHistory, SequenceTheorems, WellFoundedInduction, TLAPS

----------------------------------------------------------------------------
ExecutionNode(S) == [state : S, run : Nat, seq : Nat, parent : Nat]

ExecutionTreeType(S) ==
    [nodes : Seq(ExecutionNode(S)), branches : SUBSET (Nat \X Nat), cursor : Nat]

\* The nodes of one run hang off one node; in the run of the creation, which
\* has no node to start from, they hang off the creation.
OneParent(t) ==
    \A i, j \in 1..Len(t.nodes) :
        t.nodes[i].run = t.nodes[j].run /\ i > 1 =>
            t.nodes[i].parent = IF j = 1 THEN 1 ELSE t.nodes[j].parent

TreeOK(S, t) ==
    /\ t \in ExecutionTreeType(S)
    /\ Len(t.nodes) >= 1
    /\ t.cursor <= Len(t.nodes)
    /\ \A i \in 1..Len(t.nodes) : t.nodes[i].parent < i
    /\ OneParent(t)

\* What a run and a version of it mean for the tree while the clock stands at
\* <<run, seq>>: nothing is recorded later than that, the nodes of the run
\* hang off the cursor, and the branch they form is that of the node the run
\* was started from.
ClockOK(t, run, seq) ==
    /\ \A i \in 1..Len(t.nodes) :
          /\ t.nodes[i].run <= run
          /\ t.nodes[i].run = run =>
                /\ t.nodes[i].seq <= seq
                /\ IF i = 1 THEN t.cursor = 1 ELSE t.nodes[i].parent = t.cursor
    /\ \A b \in t.branches : b[1] <= Len(t.nodes) /\ b[2] <= run
    /\ t.cursor # Root =>
          \/ t.nodes[t.cursor].run = run
          \/ <<t.cursor, run>> \in t.branches

----------------------------------------------------------------------------
(* Searching a tree.                                                       *)

\* A set of natural numbers with a bound has a greatest member.
LEMMA GreatestMember ==
  ASSUME NEW T \in SUBSET Nat, T # {}, NEW b \in Nat, \A i \in T : i <= b
  PROVE  \E i \in T : \A j \in T : j <= i
<1> DEFINE D == {k \in Nat : \E i \in T : k = b - i}
<1>1. D \in SUBSET Nat /\ D # {}
  <2>1. PICK i \in T : TRUE
    OBVIOUS
  <2>2. b - i \in Nat
    BY <2>1
  <2> QED
    BY <2>1, <2>2
<1> HIDE DEF D
<1>2. PICK k \in D : \A d \in D : <<d, k>> \notin OpToRel(<, Nat)
  BY <1>1, NatLessThanWellFounded, WFMin
<1>3. PICK i \in T : k = b - i
  BY <1>2 DEF D
<1>4. ASSUME NEW j \in T PROVE j <= i
  <2>1. b - j \in D
    BY DEF D
  <2>2. ~(b - j < k)
    BY <1>1, <1>2, <2>1 DEF OpToRel
  <2> QED
    BY <1>3, <2>2
<1> QED
  BY <1>4

\* What is visited first depends on nothing but the parents of the nodes.
LEMMA SameVisit ==
  ASSUME NEW t, NEW u, NEW C,
         \A n \in C : t.nodes[n].parent = u.nodes[n].parent
  PROVE  FirstVisited(t, C) = FirstVisited(u, C)
<1> DEFINE P(w, n) == \A m \in C \ {n} :
               \/ w.nodes[m].parent = n
               \/ w.nodes[m].parent = w.nodes[n].parent /\ m < n
<1>1. \A n \in C : P(t, n) <=> P(u, n)
  BY Zenon
<1> HIDE DEF P
<1>2. (CHOOSE n \in C : P(t, n)) = (CHOOSE n \in C : P(u, n))
  BY <1>1, Zenon
<1> QED
  BY <1>2 DEF FirstVisited, P

\* The search of a version gives the same node in two trees that have the
\* same nodes up to it and the same origin for its run.
LEMMA SameNode ==
  ASSUME NEW t, NEW u, NEW run, NEW seq,
         UpTo(t, run, seq) = UpTo(u, run, seq),
         Origin(t, run) = Origin(u, run),
         \A n \in UpTo(t, run, seq) : t.nodes[n] = u.nodes[n]
  PROVE  FindNode(t, run, seq) = FindNode(u, run, seq)
<1> DEFINE C == UpTo(t, run, seq)
<1>1. Latest(t, C) = Latest(u, C)
  BY DEF Latest
<1>2. FirstVisited(t, Latest(t, C)) = FirstVisited(u, Latest(t, C))
  <2>1. \A n \in Latest(t, C) : t.nodes[n].parent = u.nodes[n].parent
    BY DEF Latest
  <2> QED
    BY <2>1, SameVisit
<1> QED
  BY <1>1, <1>2 DEF FindNode

LEMMA NodeTyped ==
  ASSUME NEW S, NEW t, TreeOK(S, t), NEW n \in 1..Len(t.nodes)
  PROVE  /\ t.nodes[n] \in ExecutionNode(S)
         /\ t.nodes[n].seq \in Nat /\ t.nodes[n].run \in Nat
         /\ t.nodes[n].parent \in Nat
<1>1. t.nodes \in Seq(ExecutionNode(S))
  BY DEF TreeOK, ExecutionTreeType
<1>2. t.nodes[n] \in ExecutionNode(S)
  BY <1>1, ElementOfSeq
<1> QED
  BY <1>2 DEF ExecutionNode

\* A version that has nodes has a latest one.
LEMMA LatestExists ==
  ASSUME NEW S, NEW t, TreeOK(S, t), NEW run, NEW seq \in Nat,
         UpTo(t, run, seq) # {}
  PROVE  Latest(t, UpTo(t, run, seq)) # {}
<1> DEFINE C == UpTo(t, run, seq)
           T == {t.nodes[n].seq : n \in C}
<1>0. \A n \in C : t.nodes[n].seq \in Nat /\ t.nodes[n].seq <= seq
  BY NodeTyped DEF UpTo
<1>1. /\ T \in SUBSET Nat /\ T # {}
      /\ \A k \in T : k <= seq
  BY <1>0
<1> HIDE DEF T
<1>2. PICK k \in T : \A j \in T : j <= k
  BY <1>1, GreatestMember
<1>3. PICK n \in C : t.nodes[n].seq = k
  BY <1>2 DEF T
<1>4. \A m \in C : t.nodes[m].seq <= t.nodes[n].seq
  BY <1>2, <1>3 DEF T
<1> QED
  BY <1>4 DEF Latest

\* Among nodes of one run there is one that is visited before the others: the
\* creation when it is among them, else the youngest.
LEMMA VisitedIsThere ==
  ASSUME NEW S, NEW t, TreeOK(S, t), NEW C \in SUBSET (1..Len(t.nodes)), C # {},
         \A m, n \in C : t.nodes[m].run = t.nodes[n].run
  PROVE  /\ FirstVisited(t, C) \in C
         /\ \A m \in C \ {FirstVisited(t, C)} :
               \/ t.nodes[m].parent = FirstVisited(t, C)
               \/ /\ t.nodes[m].parent = t.nodes[FirstVisited(t, C)].parent
                  /\ m < FirstVisited(t, C)
<1> DEFINE P(n) == \A m \in C \ {n} :
               \/ t.nodes[m].parent = n
               \/ t.nodes[m].parent = t.nodes[n].parent /\ m < n
<1>0. Len(t.nodes) \in Nat
  BY DEF TreeOK, ExecutionTreeType
<1>1. \E n \in C : P(n)
  <2>1. CASE 1 \in C
    <3>1. \A m \in C \ {1} : m \in 1..Len(t.nodes) /\ m > 1
      BY <1>0
    <3>2. P(1)
      BY <2>1, <3>1 DEF TreeOK, OneParent
    <3> QED
      BY <2>1, <3>2
  <2>2. CASE 1 \notin C
    <3>0. C \in SUBSET Nat /\ \A m \in C : m <= Len(t.nodes)
      BY <1>0
    <3>1. PICK n \in C : \A m \in C : m <= n
      BY <1>0, <3>0, GreatestMember
    <3>2. \A m \in C : m \in 1..Len(t.nodes) /\ m > 1
      BY <1>0, <2>2
    <3>3. P(n)
      BY <1>0, <3>1, <3>2 DEF TreeOK, OneParent
    <3> QED
      BY <3>3
  <2> QED
    BY <2>1, <2>2
<1> HIDE DEF P
<1>2. (CHOOSE n \in C : P(n)) \in C /\ P(CHOOSE n \in C : P(n))
  BY <1>1
<1>3. FirstVisited(t, C) = CHOOSE n \in C : P(n)
  BY DEF FirstVisited, P
<1>4. FirstVisited(t, C) \in C /\ P(FirstVisited(t, C))
  BY <1>2, <1>3
<1> QED
  BY <1>4 DEF P

\* The search ends at a node of the tree, or at none.
LEMMA NodeIsThere ==
  ASSUME NEW S, NEW t, TreeOK(S, t), NEW run, NEW seq \in Nat
  PROVE  FindNode(t, run, seq) \in 0..Len(t.nodes)
<1> DEFINE C == UpTo(t, run, seq)
<1>0. Len(t.nodes) \in Nat
  BY DEF TreeOK, ExecutionTreeType
<1>1. CASE C # {}
  <2>0. Latest(t, C) # {}
    BY <1>1, LatestExists
  <2>1. Latest(t, C) # {} /\ Latest(t, C) \in SUBSET (1..Len(t.nodes))
    BY <2>0 DEF Latest, UpTo
  <2>2. \A m, n \in Latest(t, C) : t.nodes[m].run = t.nodes[n].run
    BY DEF Latest, UpTo
  <2>3. FirstVisited(t, Latest(t, C)) \in 1..Len(t.nodes)
    BY <2>1, <2>2, VisitedIsThere
  <2> QED
    BY <1>0, <1>1, <2>3 DEF FindNode
<1>2. CASE C = {}
  <2>1. CASE Origin(t, run) # {}
    <3>1. (CHOOSE n \in Origin(t, run) : TRUE) \in Origin(t, run)
      BY <2>1
    <3>2. FindNode(t, run, seq) \in Origin(t, run)
      BY <1>2, <2>1, <3>1 DEF FindNode
    <3> QED
      BY <1>0, <3>2 DEF Origin
  <2>2. CASE Origin(t, run) = {}
    BY <1>0, <1>2, <2>2 DEF FindNode, NotFound
  <2> QED
    BY <2>1, <2>2
<1> QED
  BY <1>1, <1>2

\* Two trees that give one node, with one state, give one answer.
LEMMA SameAnswer ==
  ASSUME NEW S, NEW missing, NEW t, TreeOK(S, t), NEW u, NEW run, NEW seq \in Nat,
         FindNode(t, run, seq) = FindNode(u, run, seq),
         \A n \in 1..Len(t.nodes) : t.nodes[n] = u.nodes[n]
  PROVE  GetState(t, run, seq, missing) = GetState(u, run, seq, missing)
<1>1. FindNode(t, run, seq) \in 0..Len(t.nodes)
  BY NodeIsThere
<1>2. FindNode(t, run, seq) # NotFound => FindNode(t, run, seq) \in 1..Len(t.nodes)
  BY <1>1 DEF NotFound, TreeOK, ExecutionTreeType
<1> QED
  BY <1>2 DEF GetState

\* What is recorded about an object is a state or nothing.
LEMMA AnswerTyped ==
  ASSUME NEW S, NEW missing, NEW t, TreeOK(S, t), NEW run, NEW seq \in Nat
  PROVE  GetState(t, run, seq, missing) \in S \cup {missing}
<1>1. FindNode(t, run, seq) # NotFound => FindNode(t, run, seq) \in 1..Len(t.nodes)
  BY NodeIsThere DEF NotFound, TreeOK, ExecutionTreeType
<1>2. \A n \in 1..Len(t.nodes) : t.nodes[n].state \in S
  BY NodeTyped DEF ExecutionNode
<1> QED
  BY <1>1, <1>2 DEF GetState

----------------------------------------------------------------------------
(* Recording.                                                              *)

LEMMA AddChildShape ==
  ASSUME NEW S, NEW t, TreeOK(S, t), NEW s \in S, NEW run \in Nat, NEW seq \in Nat
  PROVE  LET u == AddChild(t, s, run, seq)
         IN  /\ u \in ExecutionTreeType(S)
             /\ Len(u.nodes) = Len(t.nodes) + 1
             /\ \A n \in 1..Len(t.nodes) : u.nodes[n] = t.nodes[n]
             /\ u.nodes[Len(t.nodes) + 1] = Node(s, run, seq, t.cursor)
             /\ u.branches = t.branches \cup {<<t.cursor, run>>}
             /\ u.cursor = t.cursor
<1> DEFINE u == AddChild(t, s, run, seq)
           new == Node(s, run, seq, t.cursor)
<1>1. /\ t.nodes \in Seq(ExecutionNode(S))
      /\ t.branches \in SUBSET (Nat \X Nat)
      /\ t.cursor \in Nat
  BY DEF TreeOK, ExecutionTreeType
<1>2. new \in ExecutionNode(S)
  BY <1>1 DEF Node, ExecutionNode
<1>3. /\ u.nodes = Append(t.nodes, new)
      /\ u.branches = t.branches \cup {<<t.cursor, run>>}
      /\ u.cursor = t.cursor
      /\ u = [nodes |-> u.nodes, branches |-> u.branches, cursor |-> u.cursor]
  <2> DEFINE nodes == Append(t.nodes, new)
             branches == t.branches \cup {<<t.cursor, run>>}
  <2>1. u = [t EXCEPT !.nodes = nodes, !.branches = branches]
    BY DEF AddChild
  <2>2. t \in ExecutionTreeType(S)
    BY DEF TreeOK
  <2> HIDE DEF nodes, branches, u
  <2>3. /\ u.nodes = nodes /\ u.branches = branches /\ u.cursor = t.cursor
        /\ u = [nodes |-> u.nodes, branches |-> u.branches, cursor |-> u.cursor]
    BY <2>1, <2>2 DEF ExecutionTreeType
  <2> QED
    BY <2>3 DEF nodes, branches
<1> HIDE DEF u, new
<1>4. /\ u.nodes \in Seq(ExecutionNode(S))
      /\ Len(u.nodes) = Len(t.nodes) + 1
      /\ \A n \in 1..Len(t.nodes) : u.nodes[n] = t.nodes[n]
      /\ u.nodes[Len(t.nodes) + 1] = new
  BY <1>1, <1>2, <1>3, AppendProperties
<1>5. u.branches \in SUBSET (Nat \X Nat)
  BY <1>1, <1>3
<1>6. u \in ExecutionTreeType(S)
  BY <1>1, <1>3, <1>4, <1>5 DEF ExecutionTreeType
<1> QED
  BY <1>3, <1>4, <1>6 DEF u, new

LEMMA AddChildOK ==
  ASSUME NEW S, NEW t, NEW s \in S, NEW run \in Nat, NEW seq \in Nat,
         TreeOK(S, t), ClockOK(t, run, seq)
  PROVE  LET u == AddChild(t, s, run, seq)
         IN  TreeOK(S, u) /\ ClockOK(u, run, seq)
<1> DEFINE u == AddChild(t, s, run, seq)
           new == Len(t.nodes) + 1
<1>1. /\ u \in ExecutionTreeType(S)
      /\ Len(u.nodes) = new
      /\ \A n \in 1..Len(t.nodes) : u.nodes[n] = t.nodes[n]
      /\ u.nodes[new] = Node(s, run, seq, t.cursor)
      /\ u.branches = t.branches \cup {<<t.cursor, run>>}
      /\ u.cursor = t.cursor
  BY AddChildShape
<1>2. /\ Len(t.nodes) \in Nat /\ Len(t.nodes) >= 1
      /\ t.cursor \in Nat /\ t.cursor <= Len(t.nodes)
  BY DEF TreeOK, ExecutionTreeType
<1> HIDE DEF u
<1>3. /\ u.nodes[new].run = run
      /\ u.nodes[new].seq = seq
      /\ u.nodes[new].parent = t.cursor
  BY <1>1 DEF Node
<1>4. \A n \in 1..Len(u.nodes) : n \in 1..Len(t.nodes) \/ n = new
  BY <1>1, <1>2
<1>5. ASSUME NEW i \in 1..Len(u.nodes) PROVE u.nodes[i].parent < i
  <2>1. CASE i \in 1..Len(t.nodes)
    <3>1. u.nodes[i] = t.nodes[i]
      BY <1>1, <2>1
    <3> QED
      BY <2>1, <3>1 DEF TreeOK
  <2>2. CASE i = new
    <3>1. u.nodes[i].parent = t.cursor /\ t.cursor < new
      BY <1>1, <1>2, <1>3, <2>2
    <3> QED
      BY <2>2, <3>1
  <2> QED
    BY <1>4, <2>1, <2>2
<1>6. OneParent(u)
  <2> SUFFICES ASSUME NEW i \in 1..Len(u.nodes), NEW j \in 1..Len(u.nodes),
                      u.nodes[i].run = u.nodes[j].run, i > 1
               PROVE  u.nodes[i].parent = IF j = 1 THEN 1 ELSE u.nodes[j].parent
    BY DEF OneParent
  <2>1. CASE i \in 1..Len(t.nodes) /\ j \in 1..Len(t.nodes)
    <3>1. u.nodes[i] = t.nodes[i] /\ u.nodes[j] = t.nodes[j] /\ OneParent(t)
      BY <2>1, <1>1 DEF TreeOK
    <3> QED
      BY <2>1, <3>1 DEF OneParent
  <2>2. CASE i = new /\ j \in 1..Len(t.nodes)
    <3>1. u.nodes[i].parent = t.cursor /\ u.nodes[i].run = run /\ u.nodes[j] = t.nodes[j]
      BY <2>2, <1>1, <1>3
    <3>2. t.nodes[j].run = run
      BY <3>1
    <3>3. IF j = 1 THEN t.cursor = 1 ELSE t.nodes[j].parent = t.cursor
      BY <2>2, <3>2 DEF ClockOK
    <3> QED
      BY <3>1, <3>3
  <2>3. CASE i \in 1..Len(t.nodes) /\ j = new
    <3>1. u.nodes[j].parent = t.cursor /\ u.nodes[j].run = run /\ u.nodes[i] = t.nodes[i]
      BY <2>3, <1>1, <1>3
    <3>2. t.nodes[i].run = run
      BY <3>1
    <3>3. IF i = 1 THEN t.cursor = 1 ELSE t.nodes[i].parent = t.cursor
      BY <2>3, <3>2 DEF ClockOK
    <3>4. i # 1 /\ j # 1
      BY <1>2, <2>3
    <3> QED
      BY <3>1, <3>3, <3>4
  <2>4. CASE i = new /\ j = new
    BY <2>4, <1>2, <1>3
  <2> QED
    BY <2>1, <2>2, <2>3, <2>4, <1>4
<1>7. TreeOK(S, u)
  <2>1. u \in ExecutionTreeType(S)
    BY <1>1
  <2>2. Len(u.nodes) >= 1 /\ u.cursor <= Len(u.nodes)
    BY <1>1, <1>2
  <2> QED
    BY <1>5, <1>6, <2>1, <2>2 DEF TreeOK
<1>8. ASSUME NEW i \in 1..Len(u.nodes)
      PROVE  /\ u.nodes[i].run <= run
             /\ u.nodes[i].run = run =>
                   /\ u.nodes[i].seq <= seq
                   /\ IF i = 1 THEN u.cursor = 1 ELSE u.nodes[i].parent = u.cursor
  <2>1. CASE i = new
    BY <2>1, <1>1, <1>2, <1>3
  <2>2. CASE i \in 1..Len(t.nodes)
    <3>1. u.nodes[i] = t.nodes[i] /\ u.cursor = t.cursor
      BY <2>2, <1>1
    <3> QED
      BY <2>2, <3>1 DEF ClockOK
  <2> QED
    BY <2>1, <2>2, <1>4
<1>9. \A b \in u.branches : b[1] <= Len(u.nodes) /\ b[2] <= run
  <2>1. \A b \in t.branches : b[1] \in Nat /\ b[1] <= Len(t.nodes) /\ b[2] <= run
    BY DEF ClockOK, TreeOK, ExecutionTreeType
  <2>2. <<t.cursor, run>>[1] <= Len(u.nodes) /\ <<t.cursor, run>>[2] <= run
    BY <1>1, <1>2
  <2> QED
    BY <2>1, <2>2, <1>1, <1>2
<1>10. \/ u.nodes[u.cursor].run = run
       \/ <<u.cursor, run>> \in u.branches
  BY <1>1
<1>11. ClockOK(u, run, seq)
  BY <1>8, <1>9, <1>10 DEF ClockOK
<1> QED
  BY <1>7, <1>11 DEF u

\* What AddChild leaves alone, and what the new node is.
Extends(u, t, s, run, seq) ==
    /\ Len(u.nodes) = Len(t.nodes) + 1
    /\ \A n \in 1..Len(t.nodes) : u.nodes[n] = t.nodes[n]
    /\ u.nodes[Len(t.nodes) + 1] = Node(s, run, seq, t.cursor)
    /\ u.branches = t.branches \cup {<<t.cursor, run>>}
    /\ u.cursor = t.cursor

LEMMA AddChildExtends ==
  ASSUME NEW S, NEW t, TreeOK(S, t), NEW s \in S, NEW run \in Nat, NEW seq \in Nat
  PROVE  Extends(AddChild(t, s, run, seq), t, s, run, seq)
BY AddChildShape DEF Extends

\* A version before the clock is answered as before.
LEMMA AddChildKeeps ==
  ASSUME NEW S, NEW missing, NEW t, NEW s \in S, NEW run \in Nat, NEW seq \in Nat,
         TreeOK(S, t), ClockOK(t, run, seq),
         NEW r \in Nat, NEW q \in Nat, r = run => q < seq
  PROVE  /\ FindNode(AddChild(t, s, run, seq), r, q) = FindNode(t, r, q)
         /\ GetState(AddChild(t, s, run, seq), r, q, missing) = GetState(t, r, q, missing)
<1> DEFINE u == AddChild(t, s, run, seq)
           new == Len(t.nodes) + 1
<1>1. /\ Len(u.nodes) = new
      /\ \A n \in 1..Len(t.nodes) : u.nodes[n] = t.nodes[n]
      /\ u.nodes[new].run = run /\ u.nodes[new].seq = seq
      /\ u.branches = t.branches \cup {<<t.cursor, run>>}
  <2> HIDE DEF u
  <2>1. /\ Len(u.nodes) = new
        /\ \A n \in 1..Len(t.nodes) : u.nodes[n] = t.nodes[n]
        /\ u.nodes[new] = Node(s, run, seq, t.cursor)
        /\ u.branches = t.branches \cup {<<t.cursor, run>>}
    BY AddChildShape DEF u
  <2> QED
    BY <2>1 DEF Node
<1>2. Len(t.nodes) \in Nat /\ t.cursor \in Nat /\ t.cursor <= Len(t.nodes)
  BY DEF TreeOK, ExecutionTreeType
<1> HIDE DEF u
<1>3. \A n \in 1..Len(u.nodes) : n \in 1..Len(t.nodes) \/ n = new
  BY <1>1, <1>2
<1>4. UpTo(t, r, q) = UpTo(u, r, q)
  <2>1. ~(u.nodes[new].run = r /\ u.nodes[new].seq <= q)
    BY <1>1
  <2>2. \A n \in 1..Len(t.nodes) : n \in 1..Len(u.nodes) /\ u.nodes[n] = t.nodes[n]
    BY <1>1, <1>2
  <2> HIDE DEF new
  <2>3. \A n : n \in UpTo(t, r, q) <=> n \in UpTo(u, r, q)
    BY <1>3, <2>1, <2>2 DEF UpTo
  <2> QED
    BY <2>3
<1>5. Origin(t, r) = Origin(u, r)
  <2>1. ASSUME NEW n \in Origin(u, r) PROVE n \in Origin(t, r)
    <3>1. n \in 1..Len(u.nodes) /\ <<n, r>> \in u.branches /\ u.nodes[n].run # r
      BY <2>1 DEF Origin
    <3>2. CASE <<n, r>> \in t.branches
      <4>1. n <= Len(t.nodes)
        BY <3>2 DEF ClockOK
      <4> QED
        BY <3>1, <3>2, <4>1, <1>1, <1>2 DEF Origin
    <3>3. CASE n = t.cursor /\ r = run
      <4>1. n \in 1..Len(t.nodes) /\ t.nodes[n].run # run
        BY <1>1, <1>2, <3>1, <3>3
      <4>2. <<n, run>> \in t.branches
        BY <3>3, <4>1 DEF ClockOK, Root
      <4> QED
        BY <3>3, <4>1, <4>2 DEF Origin
    <3> QED
      BY <3>1, <3>2, <3>3, <1>1
  <2>2. ASSUME NEW n \in Origin(t, r) PROVE n \in Origin(u, r)
    BY <2>2, <1>1, <1>2 DEF Origin
  <2> QED
    BY <2>1, <2>2
<1>6. \A n \in UpTo(t, r, q) : t.nodes[n] = u.nodes[n]
  BY <1>1 DEF UpTo
<1>7. FindNode(t, r, q) = FindNode(u, r, q)
  BY <1>4, <1>5, <1>6, SameNode
<1> QED
  BY <1>1, <1>7, SameAnswer DEF u

\* What is found for the clock's own version is the node just added, or the
\* creation when it has that version.
LEMMA AddChildFound ==
  ASSUME NEW S, NEW t, NEW s \in S, NEW run \in Nat, NEW seq \in Nat,
         TreeOK(S, t), ClockOK(t, run, seq)
  PROVE  LET u == AddChild(t, s, run, seq)
         IN  \/ FindNode(u, run, seq) = Len(t.nodes) + 1
             \/ FindNode(u, run, seq) = 1 /\ t.nodes[1].run = run /\ t.nodes[1].seq = seq
<1> DEFINE u == AddChild(t, s, run, seq)
           new == Len(t.nodes) + 1
           C == UpTo(u, run, seq)
           L == Latest(u, C)
           n == FirstVisited(u, L)
<1>1. /\ Len(u.nodes) = new
      /\ \A i \in 1..Len(t.nodes) : u.nodes[i] = t.nodes[i]
      /\ u.nodes[new].run = run /\ u.nodes[new].seq = seq
      /\ u.nodes[new].state = s
      /\ u.cursor = t.cursor
  <2>1. Extends(u, t, s, run, seq)
    BY AddChildExtends
  <2> HIDE DEF u, C, L, n
  <2> QED
    BY <2>1 DEF Extends, Node
<1>2. Len(t.nodes) \in Nat /\ Len(t.nodes) >= 1
  BY DEF TreeOK, ExecutionTreeType
<1>3. TreeOK(S, u) /\ ClockOK(u, run, seq)
  BY AddChildOK
<1> HIDE DEF u
<1>4. new \in C
  BY <1>1, <1>2 DEF UpTo
<1>5. \A m \in L : /\ m \in 1..Len(u.nodes)
                   /\ u.nodes[m].run = run
                   /\ u.nodes[m].seq = seq
  <2>1. ASSUME NEW m \in L
        PROVE  /\ m \in 1..Len(u.nodes) /\ u.nodes[m].run = run
               /\ u.nodes[m].seq <= seq /\ seq <= u.nodes[m].seq
    BY <1>1, <1>4 DEF UpTo, Latest
  <2>2. ASSUME NEW m \in L PROVE u.nodes[m].seq \in Nat
    BY <2>1, <1>3, NodeTyped
  <2> QED
    BY <2>1, <2>2
<1>6. new \in L
  BY <1>1, <1>4 DEF UpTo, Latest
<1>7. /\ n \in L
      /\ \A m \in L \ {n} :
            \/ u.nodes[m].parent = n
            \/ u.nodes[m].parent = u.nodes[n].parent /\ m < n
  <2>1. L \in SUBSET (1..Len(u.nodes)) /\ L # {}
    BY <1>5, <1>6
  <2>2. \A m, k \in L : u.nodes[m].run = u.nodes[k].run
    BY <1>5
  <2> HIDE DEF L
  <2> QED
    BY <1>3, <2>1, <2>2, VisitedIsThere
<1>8. n = new \/ (n = 1 /\ t.nodes[1].run = run /\ t.nodes[1].seq = seq)
  <2>1. n \in 1..Len(u.nodes) /\ u.nodes[n].run = run /\ u.nodes[n].seq = seq
    BY <1>5, <1>7
  <2> HIDE DEF n, L
  <2>2. CASE n = 1
    <3>1. t.nodes[1] = u.nodes[1]
      BY <1>1, <1>2
    <3> QED
      BY <3>1, <2>1, <2>2
  <2>3. CASE n # new /\ n # 1
    <3>1. n \in Nat /\ n > 1 /\ n < new /\ new \in 1..Len(u.nodes) /\ new # 1
      BY <2>1, <2>3, <1>1, <1>2
    <3>2. u.nodes[new].parent = u.cursor /\ u.nodes[n].parent = u.cursor
      BY <1>1, <1>3, <2>1, <3>1 DEF ClockOK
    <3>3. u.nodes[n].parent < n
      BY <1>3, <2>1 DEF TreeOK
    <3>4. new \in L \ {n}
      BY <1>6, <2>3
    <3>5. u.cursor \in Nat
      BY <1>3 DEF TreeOK, ExecutionTreeType
    <3> QED
      BY <1>7, <3>1, <3>2, <3>3, <3>4, <3>5
  <2> QED
    BY <2>2, <2>3
<1>9. FindNode(u, run, seq) = n /\ n # NotFound
  <2>1. C # {}
    BY <1>4
  <2>2. n \in 1..Len(u.nodes)
    BY <1>5, <1>7
  <2> QED
    BY <2>1, <2>2 DEF FindNode, NotFound
<1> QED
  BY <1>8, <1>9 DEF u

\* So it is answered with what was recorded, where the object has not changed in
\* the version it was created in.
LEMMA AddChildAnswers ==
  ASSUME NEW S, NEW missing, NEW t, NEW s \in S, NEW run \in Nat, NEW seq \in Nat,
         TreeOK(S, t), ClockOK(t, run, seq),
         /\ t.nodes[1].run = run
         /\ t.nodes[1].seq = seq
         => s = t.nodes[1].state
  PROVE  GetState(AddChild(t, s, run, seq), run, seq, missing) = s
<1> DEFINE u == AddChild(t, s, run, seq)
<1>1. Extends(u, t, s, run, seq)
  BY AddChildExtends
<1>2. \/ FindNode(u, run, seq) = Len(t.nodes) + 1
      \/ FindNode(u, run, seq) = 1 /\ t.nodes[1].run = run /\ t.nodes[1].seq = seq
  BY AddChildFound
<1>3. Len(t.nodes) \in Nat /\ Len(t.nodes) >= 1
  BY DEF TreeOK, ExecutionTreeType
<1> HIDE DEF u
<1>4. u.nodes[Len(t.nodes) + 1].state = s /\ u.nodes[1] = t.nodes[1]
  BY <1>1, <1>3 DEF Extends, Node
<1>5. FindNode(u, run, seq) # NotFound /\ u.nodes[FindNode(u, run, seq)].state = s
  BY <1>2, <1>3, <1>4 DEF NotFound
<1> QED
  BY <1>5 DEF GetState, u

----------------------------------------------------------------------------
(* The creation, and going back.                                           *)

\* The tree of the first state answers its version with that state, and every
\* version before it with nothing.
LEMMA NewTreeOK ==
  ASSUME NEW S, NEW s \in S, NEW run \in Nat, NEW seq \in Nat
  PROVE  LET u == NewTree(s, run, seq)
         IN  /\ TreeOK(S, u) /\ ClockOK(u, run, seq)
             /\ \A missing : GetState(u, run, seq, missing) = s
             /\ \A missing : \A r, q \in Nat :
                    r < run \/ (r = run /\ q < seq) => GetState(u, r, q, missing) = missing
<1> DEFINE u == NewTree(s, run, seq)
<1>1. /\ u \in ExecutionTreeType(S)
      /\ Len(u.nodes) = 1
      /\ u.nodes[1] = Node(s, run, seq, 0)
      /\ u.branches = {<<0, run>>}
      /\ u.cursor = 1
  <2> DEFINE new == Node(s, run, seq, 0)
  <2>1. new \in ExecutionNode(S)
    BY DEF Node, ExecutionNode
  <2>2. u = [nodes |-> <<new>>, branches |-> {<<0, run>>}, cursor |-> 1]
    BY DEF NewTree, Root
  <2> HIDE DEF new, u
  <2>3. /\ <<new>> \in Seq(ExecutionNode(S))
        /\ Len(<<new>>) = 1
        /\ <<new>>[1] = new
    BY <2>1
  <2>4. {<<0, run>>} \in SUBSET (Nat \X Nat)
    OBVIOUS
  <2>5. u \in ExecutionTreeType(S)
    BY <2>2, <2>3, <2>4 DEF ExecutionTreeType
  <2>6. u.nodes = <<new>> /\ u.branches = {<<0, run>>} /\ u.cursor = 1
    BY <2>2
  <2>7. u.nodes[1] = Node(s, run, seq, 0) /\ Len(u.nodes) = 1
    BY <2>3, <2>6 DEF new
  <2> QED
    BY <2>5, <2>6, <2>7
<1> HIDE DEF u
<1>2. /\ u.nodes[1].state = s /\ u.nodes[1].run = run
      /\ u.nodes[1].seq = seq /\ u.nodes[1].parent = 0
  BY <1>1 DEF Node
<1>3. \A n : n \in 1..Len(u.nodes) <=> n = 1
  BY <1>1
<1>4. TreeOK(S, u)
  BY <1>1, <1>2, <1>3 DEF TreeOK, OneParent
<1>5. ClockOK(u, run, seq)
  BY <1>1, <1>2, <1>3 DEF ClockOK
<1>6. ASSUME NEW missing PROVE GetState(u, run, seq, missing) = s
  <2>1. UpTo(u, run, seq) = {1}
    BY <1>2, <1>3 DEF UpTo
  <2>2. FirstVisited(u, Latest(u, {1})) = 1
    <3>1. Latest(u, {1}) = {1}
      BY <1>2 DEF Latest
    <3>2. {1} \in SUBSET (1..Len(u.nodes))
      BY <1>3
    <3>3. \A m, n \in {1} : u.nodes[m].run = u.nodes[n].run
      OBVIOUS
    <3>4. FirstVisited(u, {1}) \in {1}
      BY <1>4, <3>2, <3>3, VisitedIsThere
    <3> QED
      BY <3>1, <3>4
  <2> QED
    BY <1>2, <2>1, <2>2 DEF GetState, FindNode, NotFound
<1>7. ASSUME NEW missing, NEW r \in Nat, NEW q \in Nat, r < run \/ (r = run /\ q < seq)
      PROVE  GetState(u, r, q, missing) = missing
  <2>1. UpTo(u, r, q) = {}
    BY <1>2, <1>3, <1>7 DEF UpTo
  <2>2. Origin(u, r) = {}
    BY <1>1, <1>3 DEF Origin
  <2> QED
    BY <2>1, <2>2 DEF GetState, FindNode, NotFound
<1> QED
  BY <1>4, <1>5, <1>6, <1>7 DEF u

\* Going back leaves every version answered as before, and the new run starts
\* with what was recorded for the version gone back to.
LEMMA RevertOK ==
  ASSUME NEW S, NEW t, NEW run \in Nat, NEW seq \in Nat, TreeOK(S, t), ClockOK(t, run, seq),
         NEW next \in Nat, next = run + 1,
         NEW r \in Nat, NEW q \in Nat, NEW u, u = RevertToState(t, r, q, next)
  PROVE  /\ TreeOK(S, u) /\ ClockOK(u, next, 0)
         /\ \A missing : GetState(u, next, 0, missing) = GetState(t, r, q, missing)
         /\ u.nodes = t.nodes /\ FindNode(u, next, 0) = FindNode(t, r, q)
         /\ \A r1, q1 \in Nat : r1 <= run =>
                /\ FindNode(u, r1, q1) = FindNode(t, r1, q1)
                /\ \A missing : GetState(u, r1, q1, missing) = GetState(t, r1, q1, missing)
<1> DEFINE n == FindNode(t, r, q)
<1>1. n \in 0..Len(t.nodes)
  BY NodeIsThere
<1> HIDE DEF n
<1>2. /\ t.nodes \in Seq(ExecutionNode(S)) /\ Len(t.nodes) \in Nat
      /\ t.branches \in SUBSET (Nat \X Nat)
      /\ n \in Nat
  BY <1>1 DEF TreeOK, ExecutionTreeType
<1>3. /\ u.nodes = t.nodes
      /\ u.branches = t.branches \cup {<<n, next>>}
      /\ u.cursor = n
      /\ u = [nodes |-> u.nodes, branches |-> u.branches, cursor |-> u.cursor]
  <2> DEFINE branches == t.branches \cup {<<n, next>>}
  <2>1. u = [t EXCEPT !.cursor = n, !.branches = branches]
    BY DEF RevertToState, n
  <2>2. t \in ExecutionTreeType(S)
    BY DEF TreeOK
  <2> HIDE DEF branches
  <2>3. /\ u.nodes = t.nodes /\ u.branches = branches /\ u.cursor = n
        /\ u = [nodes |-> u.nodes, branches |-> u.branches, cursor |-> u.cursor]
    BY <2>1, <2>2 DEF ExecutionTreeType
  <2> QED
    BY <2>3 DEF branches
<1>4. u \in ExecutionTreeType(S)
  <2>1. u.branches \in SUBSET (Nat \X Nat)
    BY <1>2, <1>3
  <2> QED
    BY <1>2, <1>3, <2>1 DEF ExecutionTreeType
<1>5. TreeOK(S, u)
  <2>1. OneParent(u)
    <3>1. OneParent(t)
      BY DEF TreeOK
    <3> QED
      BY <1>3, <3>1 DEF OneParent
  <2> QED
    BY <1>1, <1>3, <1>4, <2>1 DEF TreeOK
<1>6. \A i \in 1..Len(t.nodes) : t.nodes[i].run \in Nat /\ t.nodes[i].run <= run
  BY NodeTyped DEF ClockOK
<1>7. \A b \in t.branches : b[1] \in Nat /\ b[1] <= Len(t.nodes) /\ b[2] \in Nat /\ b[2] <= run
  BY <1>2 DEF ClockOK
<1>8. ClockOK(u, next, 0)
  <2>1. \A i \in 1..Len(u.nodes) : u.nodes[i].run <= next /\ u.nodes[i].run # next
    BY <1>3, <1>6
  <2>2. \A b \in u.branches : b[1] <= Len(u.nodes) /\ b[2] <= next
    <3>1. <<n, next>>[1] <= Len(u.nodes) /\ <<n, next>>[2] <= next
      BY <1>1, <1>3
    <3> QED
      BY <1>3, <1>7, <3>1
  <2>3. <<u.cursor, next>> \in u.branches
    BY <1>3
  <2> QED
    BY <2>1, <2>2, <2>3 DEF ClockOK
<1>9. ASSUME NEW r1 \in Nat, NEW q1 \in Nat, r1 <= run
      PROVE  /\ FindNode(u, r1, q1) = FindNode(t, r1, q1)
             /\ \A missing : GetState(u, r1, q1, missing) = GetState(t, r1, q1, missing)
  <2>1. UpTo(t, r1, q1) = UpTo(u, r1, q1)
    BY <1>3 DEF UpTo
  <2>2. Origin(t, r1) = Origin(u, r1)
    <3>1. \A i : <<i, r1>> \in u.branches <=> <<i, r1>> \in t.branches
      BY <1>3, <1>9
    <3> QED
      BY <1>3, <3>1 DEF Origin
  <2>3. FindNode(t, r1, q1) = FindNode(u, r1, q1)
    BY <2>1, <2>2, <1>3, SameNode
  <2> QED
    BY <1>3, <2>3, SameAnswer
<1>10. FindNode(u, next, 0) = n
  <2>1. UpTo(u, next, 0) = {}
    BY <1>3, <1>6 DEF UpTo
  <2>2. \A i : <<i, next>> \in u.branches <=> i = n
    BY <1>3, <1>7
  <2>3. CASE n = 0
    <3>1. Origin(u, next) = {}
      BY <1>2, <1>3, <2>2, <2>3 DEF Origin
    <3> QED
      BY <2>1, <2>3, <3>1 DEF FindNode, NotFound
  <2>4. CASE n # 0
    <3>1. n \in 1..Len(t.nodes)
      BY <1>1, <1>2, <2>4
    <3>2. Origin(u, next) = {n}
      BY <1>3, <1>6, <2>2, <3>1 DEF Origin
    <3> QED
      BY <2>1, <3>2 DEF FindNode
  <2> QED
    BY <2>3, <2>4
<1>11. ASSUME NEW missing PROVE GetState(u, next, 0, missing) = GetState(t, r, q, missing)
  BY <1>3, <1>10 DEF GetState, n
<1> QED
  BY <1>3, <1>5, <1>8, <1>9, <1>10, <1>11 DEF n

\* Nothing is recorded at the versions the clock moves through.
LEMMA ClockMoves ==
  ASSUME NEW S, NEW missing, NEW t, NEW run \in Nat, NEW seq \in Nat, TreeOK(S, t), ClockOK(t, run, seq),
         NEW later \in Nat, seq <= later
  PROVE  /\ ClockOK(t, run, later)
         /\ FindNode(t, run, later) = FindNode(t, run, seq)
         /\ GetState(t, run, later, missing) = GetState(t, run, seq, missing)
<1>1. \A i \in 1..Len(t.nodes) :
         /\ t.nodes[i].seq \in Nat
         /\ t.nodes[i].run = run => t.nodes[i].seq <= seq
  BY NodeTyped DEF ClockOK
<1>2. ClockOK(t, run, later)
  BY <1>1 DEF ClockOK
<1>3. UpTo(t, run, seq) = UpTo(t, run, later)
  BY <1>1 DEF UpTo
<1> QED
  BY <1>2, <1>3 DEF GetState, FindNode

----------------------------------------------------------------------------
(* One object: the register that its history is.                           *)

\* The snapshots' versions lie before the clock, and the clock's own version
\* answers with the state the object has.
ObjectInv ==
    /\ run_id \in Nat /\ run_sequence \in Nat
    /\ state \in State \cup {Unknown}
    /\ tree = <<>> \/ /\ tree = <<tree[1]>>
                      /\ TreeOK(State, tree[1])
                      /\ ClockOK(tree[1], run_id, run_sequence)
    /\ versions \subseteq Nat \X Nat
    /\ \A v \in versions : /\ v[1] <= run_id
                           /\ v[1] = run_id => v[2] < run_sequence
    /\ state = At(run_id, run_sequence)

\* The register's view of the snapshots.
ObjectPast == [v \in versions |-> At(v[1], v[2])]

LEMMA FirstObject == ObjectInit => ObjectInv /\ Register!Init
<1> SUFFICES ASSUME ObjectInit PROVE ObjectInv /\ Register!Init
  OBVIOUS
<1>1. ObjectInv
  BY DEF ObjectInit, ObjectInv, At, Seen
<1>2. Register!Init
  BY DEF ObjectInit, Register!Init
<1> QED
  BY <1>1, <1>2

\* The versions of the snapshots, at whose moment the clock has moved on.
LEMMA SnapshotTyped ==
  ASSUME ObjectInv, NEW v \in versions
  PROVE  /\ v = <<v[1], v[2]>> /\ v[1] \in Nat /\ v[2] \in Nat
         /\ v[1] <= run_id
         /\ v[1] = run_id => v[2] < run_sequence
<1>1. v \in Nat \X Nat
  BY DEF ObjectInv
<1>2. v[1] <= run_id /\ (v[1] = run_id => v[2] < run_sequence)
  BY DEF ObjectInv
<1> QED
  BY <1>1, <1>2

\* While the tree and the snapshots stay, so does the register's past.
LEMMA PastStays ==
  ASSUME versions' = versions, \A v \in versions : At(v[1], v[2])' = At(v[1], v[2])
  PROVE  ObjectPast' = ObjectPast
BY DEF ObjectPast

LEMMA RecordStep ==
  ASSUME ObjectInv, NEW s \in State, RecordState(s)
  PROVE  ObjectInv' /\ Register!Change(s)
<1> USE DEF ObjectInv
<1>1. /\ state' = s /\ versions' = versions
      /\ run_id' = run_id /\ run_sequence' = run_sequence
  BY DEF RecordState
<1>2. CASE Seen
  <2> DEFINE t == tree[1]
             u == AddChild(t, s, run_id, run_sequence)
  <2>1. /\ tree' = <<u>>
        /\ <<t.nodes[1].run, t.nodes[1].seq>> = <<run_id, run_sequence>> =>
               s = t.nodes[1].state
    BY <1>2 DEF RecordState, Creation
  <2>2. TreeOK(State, t) /\ ClockOK(t, run_id, run_sequence)
    BY <1>2 DEF Seen
  <2> HIDE DEF t
  <2>3. TreeOK(State, u) /\ ClockOK(u, run_id, run_sequence)
    BY <2>2, AddChildOK
  <2>4. GetState(u, run_id, run_sequence, Unknown) = s
    BY <2>1, <2>2, AddChildAnswers
  <2>5. \A v \in versions :
           GetState(u, v[1], v[2], Unknown) = GetState(t, v[1], v[2], Unknown)
    BY <2>2, SnapshotTyped, AddChildKeeps
  <2> HIDE DEF u
  <2>6. Seen' /\ tree'[1] = u
    BY <2>1 DEF Seen
  <2>7. \A v \in versions : At(v[1], v[2])' = At(v[1], v[2])
    BY <1>2, <2>5, <2>6 DEF At, t
  <2>8. At(run_id, run_sequence)' = s
    BY <1>1, <2>4, <2>6 DEF At
  <2>9. ObjectInv'
    BY <1>1, <2>1, <2>3, <2>6, <2>8
  <2> QED
    BY <1>1, <2>7, <2>9, PastStays DEF Register!Change, ObjectPast
<1>3. CASE ~Seen
  <2> DEFINE u == NewTree(s, run_id, run_sequence)
  <2>1. tree' = <<u>>
    BY <1>3 DEF RecordState
  <2>2. /\ TreeOK(State, u) /\ ClockOK(u, run_id, run_sequence)
        /\ GetState(u, run_id, run_sequence, Unknown) = s
        /\ \A r, q \in Nat :
               r < run_id \/ (r = run_id /\ q < run_sequence) =>
                  GetState(u, r, q, Unknown) = Unknown
    <3>1. run_id \in Nat /\ run_sequence \in Nat
      OBVIOUS
    <3> HIDE DEF ObjectInv
    <3> QED
      BY <3>1, NewTreeOK
  <2> HIDE DEF u
  <2>3. Seen' /\ tree'[1] = u
    BY <2>1 DEF Seen
  <2>4. \A v \in versions : GetState(u, v[1], v[2], Unknown) = Unknown
    BY <2>2, SnapshotTyped
  <2>5. \A v \in versions : At(v[1], v[2])' = At(v[1], v[2])
    BY <1>3, <2>3, <2>4 DEF At
  <2>6. At(run_id, run_sequence)' = s
    BY <1>1, <2>2, <2>3 DEF At
  <2>7. ObjectInv'
    BY <1>1, <2>1, <2>2, <2>3, <2>6
  <2> QED
    BY <1>1, <2>5, <2>7, PastStays DEF Register!Change, ObjectPast
<1> QED
  BY <1>2, <1>3

LEMMA ClockStep ==
  ASSUME ObjectInv, run_id' = run_id, run_sequence' = run_sequence + 1,
         state' = state, tree' = tree
  PROVE  /\ \A v \in versions : At(v[1], v[2])' = At(v[1], v[2])
         /\ At(run_id, run_sequence)' = state'
         /\ Seen => ClockOK(tree[1], run_id, run_sequence)'
<1>1. CASE Seen
  <2>1. TreeOK(State, tree[1]) /\ ClockOK(tree[1], run_id, run_sequence)
    BY <1>1 DEF ObjectInv, Seen
  <2>2. /\ ClockOK(tree[1], run_id, run_sequence + 1)
        /\ GetState(tree[1], run_id, run_sequence + 1, Unknown)
              = GetState(tree[1], run_id, run_sequence, Unknown)
    BY <2>1, ClockMoves DEF ObjectInv
  <2> QED
    BY <1>1, <2>2 DEF At, Seen, ObjectInv
<1>2. CASE ~Seen
  BY <1>2 DEF At, Seen, ObjectInv
<1> QED
  BY <1>1, <1>2

LEMMA EventStep ==
  ASSUME ObjectInv, Tick
  PROVE  ObjectInv' /\ Register!Advance
<1>1. /\ run_id' = run_id /\ run_sequence' = run_sequence + 1
      /\ state' = state /\ tree' = tree /\ versions' = versions
  BY DEF Tick
<1>2. /\ \A v \in versions : At(v[1], v[2])' = At(v[1], v[2])
      /\ At(run_id, run_sequence)' = state'
      /\ Seen => ClockOK(tree[1], run_id, run_sequence)'
  BY <1>1, ClockStep
<1>3. \A v \in versions : v[1] <= run_id /\ (v[1] = run_id => v[2] < run_sequence + 1)
  BY SnapshotTyped DEF ObjectInv
<1>4. ObjectInv'
  BY <1>1, <1>2, <1>3 DEF ObjectInv, Seen
<1> QED
  BY <1>1, <1>2, <1>4, PastStays DEF Register!Advance, ObjectPast

LEMMA SnapshotStep ==
  ASSUME ObjectInv, Snapshot
  PROVE  ObjectInv' /\ Register!Snapshot
<1> DEFINE now == <<run_id, run_sequence>>
<1>1. /\ run_id' = run_id /\ run_sequence' = run_sequence + 1
      /\ state' = state /\ tree' = tree
      /\ versions' = versions \cup {now}
  BY DEF Snapshot
<1>2. /\ \A v \in versions : At(v[1], v[2])' = At(v[1], v[2])
      /\ At(run_id, run_sequence)' = state'
      /\ Seen => ClockOK(tree[1], run_id, run_sequence)'
  BY <1>1, ClockStep
<1>3. now \in Nat \X Nat /\ now[1] = run_id /\ now[2] = run_sequence
  BY DEF ObjectInv
<1>4. \A v \in versions : v[1] <= run_id /\ (v[1] = run_id => v[2] < run_sequence + 1)
  BY SnapshotTyped DEF ObjectInv
<1>5. now[1] <= run_id /\ now[2] < run_sequence + 1
  BY <1>3 DEF ObjectInv
<1>6. ObjectInv'
  BY <1>1, <1>2, <1>3, <1>4, <1>5 DEF ObjectInv, Seen
<1>7. \A v \in versions' : At(v[1], v[2])' = IF v = now THEN state ELSE ObjectPast[v]
  <2>1. \A v \in versions : At(v[1], v[2]) = ObjectPast[v]
    BY DEF ObjectPast
  <2>2. \A r, q \in Nat : <<r, q>> = now => At(r, q)' = state
    BY <1>1 DEF ObjectInv, At, Seen
  <2>3. ASSUME NEW v \in versions' PROVE At(v[1], v[2])' = IF v = now THEN state ELSE ObjectPast[v]
    <3>1. CASE v = now
      <4>1. v[1] \in Nat /\ v[2] \in Nat /\ <<v[1], v[2]>> = now
        BY <3>1, <1>3
      <4> QED
        BY <3>1, <4>1, <2>2
    <3>2. CASE v # now
      <4>1. v \in versions
        BY <3>2, <1>1
      <4> QED
        BY <3>2, <4>1, <1>2, <2>1
    <3> QED
      BY <3>1, <3>2
  <2> QED
    BY <2>3
<1>8. ObjectPast' = [v \in versions \cup {now} |-> IF v = now THEN state ELSE ObjectPast[v]]
  BY <1>1, <1>7 DEF ObjectPast
<1> QED
  BY <1>1, <1>6, <1>8 DEF Register!Snapshot, ObjectPast

LEMMA RestoreStep ==
  ASSUME ObjectInv, NEW v \in versions, Restore(v)
  PROVE  ObjectInv' /\ Register!GoBack(v)
<1>1. /\ run_id' = run_id + 1 /\ run_sequence' = 0
      /\ state' = At(v[1], v[2])
      /\ versions' = versions
  BY DEF Restore
<1>2. v[1] \in Nat /\ v[2] \in Nat /\ run_id \in Nat /\ run_sequence \in Nat
  BY SnapshotTyped DEF ObjectInv
<1>3. ObjectPast[v] = At(v[1], v[2])
  BY DEF ObjectPast
<1>4. \A w \in versions : w[1] \in Nat /\ w[1] <= run_id /\ w[1] # run_id + 1
  BY SnapshotTyped, <1>2
<1>5. CASE Seen
  <2> DEFINE t == tree[1]
             u == RevertToState(t, v[1], v[2], run_id + 1)
  <2>1. tree' = <<u>>
    BY <1>5 DEF Restore
  <2>2. TreeOK(State, t) /\ ClockOK(t, run_id, run_sequence)
    BY <1>5 DEF ObjectInv, Seen
  <2> HIDE DEF t, u
  <2>3. /\ TreeOK(State, u) /\ ClockOK(u, run_id + 1, 0)
        /\ GetState(u, run_id + 1, 0, Unknown) = GetState(t, v[1], v[2], Unknown)
        /\ \A r, q \in Nat : r <= run_id =>
               GetState(u, r, q, Unknown) = GetState(t, r, q, Unknown)
    <3> DEFINE next == run_id + 1
    <3>1. next \in Nat /\ next = run_id + 1
      BY <1>2
    <3>2. u = RevertToState(t, v[1], v[2], next)
      BY DEF u
    <3> HIDE DEF next
    <3>3. /\ TreeOK(State, u) /\ ClockOK(u, next, 0)
          /\ GetState(u, next, 0, Unknown) = GetState(t, v[1], v[2], Unknown)
          /\ \A r, q \in Nat : r <= run_id =>
                 GetState(u, r, q, Unknown) = GetState(t, r, q, Unknown)
      BY <1>2, <2>2, <3>1, <3>2, RevertOK
    <3> QED
      BY <3>3 DEF next
  <2>4. GetState(t, v[1], v[2], Unknown) \in State \cup {Unknown}
    BY <1>2, <2>2, AnswerTyped
  <2>5. Seen' /\ tree'[1] = u
    BY <2>1 DEF Seen
  <2>6. ASSUME NEW w \in versions PROVE At(w[1], w[2])' = At(w[1], w[2])
    <3>1. w[1] \in Nat /\ w[2] \in Nat /\ w[1] <= run_id
      BY SnapshotTyped
    <3>2. GetState(u, w[1], w[2], Unknown) = GetState(t, w[1], w[2], Unknown)
      BY <2>3, <3>1
    <3> QED
      BY <1>5, <2>5, <3>2 DEF At, t
  <2>7. At(run_id, run_sequence)' = state' /\ state' \in State \cup {Unknown}
    BY <1>1, <1>5, <2>3, <2>4, <2>5 DEF At, t
  <2>8. ObjectInv'
    BY <1>1, <1>2, <1>4, <2>1, <2>3, <2>5, <2>7 DEF ObjectInv
  <2> QED
    BY <1>1, <1>3, <2>6, <2>8, PastStays DEF Register!GoBack, ObjectPast
<1>6. CASE ~Seen
  <2>1. tree' = tree /\ tree = <<>>
    BY <1>6 DEF Restore, Seen
  <2>2. \A w \in versions : At(w[1], w[2])' = At(w[1], w[2])
    BY <2>1 DEF At, Seen
  <2>3. At(run_id, run_sequence)' = state' /\ state' = Unknown
    BY <1>1, <2>1 DEF At, Seen
  <2>4. ObjectInv'
    BY <1>1, <1>2, <1>4, <2>1, <2>3 DEF ObjectInv
  <2> QED
    BY <1>1, <1>3, <2>2, <2>4, PastStays DEF Register!GoBack, ObjectPast
<1> QED
  BY <1>5, <1>6

\* Every step of the tree is a step of the register or leaves it alone.
LEMMA ObjectStep == ObjectInv /\ [ObjectNext]_object_vars => ObjectInv' /\ [Register!Next]_(Register!vars)
<1> SUFFICES ASSUME ObjectInv, [ObjectNext]_object_vars PROVE ObjectInv' /\ [Register!Next]_(Register!vars)
  OBVIOUS
<1>1. ASSUME NEW s \in State, RecordState(s) PROVE ObjectInv' /\ Register!Next
  <2>1. ObjectInv' /\ Register!Change(s)
    BY <1>1, RecordStep
  <2> QED
    BY <2>1 DEF Register!Next
<1>2. ASSUME Tick PROVE ObjectInv' /\ Register!Next
  BY <1>2, EventStep DEF Register!Next
<1>3. ASSUME Snapshot PROVE ObjectInv' /\ Register!Next
  BY <1>3, SnapshotStep DEF Register!Next
<1>4. ASSUME NEW v \in versions, Restore(v) PROVE ObjectInv' /\ Register!Next
  <2>1. ObjectInv' /\ Register!GoBack(v)
    BY <1>4, RestoreStep
  <2> QED
    BY <2>1 DEF Register!Next
<1>5. ASSUME UNCHANGED object_vars PROVE ObjectInv' /\ UNCHANGED Register!vars
  <2>1. ObjectInv'
    BY <1>5 DEF ObjectInv, object_vars, At, Seen
  <2> QED
    BY <1>5, <2>1 DEF object_vars, Register!vars, At, Seen
<1> QED
  BY <1>1, <1>2, <1>3, <1>4, <1>5 DEF ObjectNext

\* The history kept in an ExecutionTree is a versioned register, for any
\* states, any number of runs and any number of nodes: what is recorded later,
\* in whatever run, never changes the state found for a snapshot
\* (execution_tree.h:84-163).
THEOREM TreeIsRegister == ObjectSpec => ImplementsRegister
<1>1. ObjectInit => ObjectInv /\ Register!Init
  BY FirstObject
<1>2. ObjectInv /\ [ObjectNext]_object_vars => ObjectInv' /\ [Register!Next]_(Register!vars)
  BY ObjectStep
<1> QED
  BY <1>1, <1>2, PTL DEF ObjectSpec, ImplementsRegister, Register!Spec
----------------------------------------------------------------------------
(* The history of a thread or a DLL, and what is recorded about it.        *)

Record == [loaded : BOOLEAN, context : Nat]

AnswerOf(h, run, seq) == IF h = <<>> THEN Missing ELSE GetState(h[1], run, seq, Missing)

\* The answer is that of the creation, in whose version more was recorded.
HiddenOf(h, run, seq) ==
    /\ h # <<>>
    /\ FindNode(h[1], run, seq) = 1
    /\ \E n \in 2..Len(h[1].nodes) : /\ h[1].nodes[n].run = h[1].nodes[1].run
                                    /\ h[1].nodes[n].seq = h[1].nodes[1].seq

RecordOf(h, info, run, seq) ==
    IF h = <<>> THEN <<NewTree(info, run, seq)>> ELSE <<AddChild(h[1], info, run, seq)>>

BranchOf(h, run, seq, next) ==
    IF h = <<>> THEN <<>> ELSE <<RevertToState(h[1], run, seq, next)>>

\* A history fits a clock, and begins with its object being there.
HistoryOK(h, run, seq) ==
    h # <<>> => /\ h = <<h[1]>>
                /\ TreeOK(Record, h[1])
                /\ ClockOK(h[1], run, seq)
                /\ h[1].nodes[1].state.loaded

\* While there has been one run only, the last record of a history is the
\* latest.
LastIsLatest(h) ==
    h # <<>> => \A i \in 1..Len(h[1].nodes) : h[1].nodes[i].seq <= h[1].nodes[Len(h[1].nodes)].seq

Earlier(r, q, run, seq) == r < run \/ (r = run /\ q < seq)

LEMMA TreeTyped ==
  ASSUME NEW t, TreeOK(Record, t)
  PROVE  /\ Len(t.nodes) \in Nat /\ Len(t.nodes) >= 1
         /\ \A n \in 1..Len(t.nodes) : t.nodes[n].state \in Record
<1>1. Len(t.nodes) \in Nat /\ Len(t.nodes) >= 1
  BY DEF TreeOK, ExecutionTreeType
<1>2. ASSUME NEW n \in 1..Len(t.nodes) PROVE t.nodes[n].state \in Record
  BY NodeTyped DEF ExecutionNode
<1> QED
  BY <1>1, <1>2

\* The first record of an object.
LEMMA FirstRecord ==
  ASSUME NEW info \in Record, NEW run \in Nat, NEW seq \in Nat, info.loaded,
         NEW k, k = RecordOf(<<>>, info, run, seq)
  PROVE  /\ HistoryOK(k, run, seq)
         /\ AnswerOf(k, run, seq) = info
         /\ \A r, q \in Nat : Earlier(r, q, run, seq) => AnswerOf(k, r, q) = Missing
<1> DEFINE u == NewTree(info, run, seq)
<1>1. /\ TreeOK(Record, u) /\ ClockOK(u, run, seq)
      /\ GetState(u, run, seq, Missing) = info
      /\ \A r, q \in Nat : Earlier(r, q, run, seq) => GetState(u, r, q, Missing) = Missing
  BY NewTreeOK DEF Earlier
<1>2. u.nodes[1].state = info
  BY DEF NewTree, Node
<1> HIDE DEF u
<1>3. k = <<u>> /\ k # <<>> /\ k[1] = u
  BY DEF RecordOf, u
<1> QED
  BY <1>1, <1>2, <1>3 DEF HistoryOK, AnswerOf

\* A later one.
LEMMA LaterRecord ==
  ASSUME NEW h, h # <<>>, NEW info \in Record, NEW run \in Nat, NEW seq \in Nat,
         HistoryOK(h, run, seq), NEW k, k = RecordOf(h, info, run, seq)
  PROVE  /\ HistoryOK(k, run, seq) /\ k # <<>>
         /\ \/ AnswerOf(k, run, seq) = info
            \/ HiddenOf(k, run, seq) /\ AnswerOf(k, run, seq).loaded
         /\ \A r, q \in Nat : Earlier(r, q, run, seq) =>
                /\ AnswerOf(k, r, q) = AnswerOf(h, r, q)
                /\ HiddenOf(h, r, q) => HiddenOf(k, r, q)
<1> DEFINE t == h[1]
           u == AddChild(t, info, run, seq)
           new == Len(t.nodes) + 1
<1>1. TreeOK(Record, t) /\ ClockOK(t, run, seq) /\ t.nodes[1].state.loaded
  BY DEF HistoryOK
<1> HIDE DEF t
<1>2. TreeOK(Record, u) /\ ClockOK(u, run, seq)
  BY <1>1, AddChildOK
<1>3. Extends(u, t, info, run, seq)
  BY <1>1, AddChildExtends
<1>4. \/ FindNode(u, run, seq) = new
      \/ FindNode(u, run, seq) = 1 /\ t.nodes[1].run = run /\ t.nodes[1].seq = seq
  BY <1>1, AddChildFound
<1>5. ASSUME NEW r \in Nat, NEW q \in Nat, Earlier(r, q, run, seq)
      PROVE  FindNode(u, r, q) = FindNode(t, r, q) /\ GetState(u, r, q, Missing) = GetState(t, r, q, Missing)
  <2>1. r = run => q < seq
    BY <1>5 DEF Earlier
  <2> QED
    BY SMTT(20), <2>1, <1>1, AddChildKeeps
<1>6. k = <<u>> /\ k # <<>> /\ k[1] = u
  BY DEF RecordOf, t
<1> HIDE DEF u
<1>7. Len(t.nodes) \in Nat /\ Len(t.nodes) >= 1
  BY <1>1, TreeTyped
<1>8. /\ Len(u.nodes) = new /\ u.nodes[new].run = run /\ u.nodes[new].seq = seq
      /\ u.nodes[new].state = info
      /\ \A n \in 1..Len(t.nodes) : u.nodes[n] = t.nodes[n]
      /\ u.nodes[1] = t.nodes[1]
  BY <1>3, <1>7 DEF Extends, Node
<1>9. HistoryOK(k, run, seq)
  BY <1>1, <1>2, <1>6, <1>8 DEF HistoryOK
<1>10. ASSUME FindNode(u, run, seq) = new
       PROVE  AnswerOf(k, run, seq) = info
  <2>1. GetState(u, run, seq, Missing) = info
    BY <1>7, <1>8, <1>10 DEF GetState, NotFound
  <2> QED
    BY <2>1, <1>6 DEF AnswerOf
<1>11. ASSUME FindNode(u, run, seq) = 1, t.nodes[1].run = run, t.nodes[1].seq = seq
       PROVE  HiddenOf(k, run, seq) /\ AnswerOf(k, run, seq).loaded
  <2>1. GetState(u, run, seq, Missing).loaded
    BY <1>1, <1>8, <1>11 DEF GetState, NotFound
  <2>2. new \in 2..Len(u.nodes)
    BY <1>7, <1>8
  <2>3. HiddenOf(k, run, seq)
    BY <2>2, <1>6, <1>8, <1>11 DEF HiddenOf
  <2> QED
    BY <2>1, <2>3, <1>6 DEF AnswerOf
<1>12. ASSUME NEW r \in Nat, NEW q \in Nat, Earlier(r, q, run, seq)
       PROVE  /\ AnswerOf(k, r, q) = AnswerOf(h, r, q)
              /\ HiddenOf(h, r, q) => HiddenOf(k, r, q)
  <2>1. FindNode(u, r, q) = FindNode(t, r, q) /\ GetState(u, r, q, Missing) = GetState(t, r, q, Missing)
    BY <1>5, <1>12
  <2>2. AnswerOf(k, r, q) = AnswerOf(h, r, q)
    BY <2>1, <1>6 DEF AnswerOf, t
  <2>3. ASSUME HiddenOf(h, r, q) PROVE HiddenOf(k, r, q)
    <3>1. PICK n \in 2..Len(t.nodes) : /\ t.nodes[n].run = t.nodes[1].run
                                      /\ t.nodes[n].seq = t.nodes[1].seq
      BY <2>3 DEF HiddenOf, t
    <3>2. FindNode(t, r, q) = 1
      BY <2>3 DEF HiddenOf, t
    <3>3. n \in 2..Len(u.nodes) /\ u.nodes[n] = t.nodes[n]
      BY <3>1, <1>7, <1>8
    <3> QED
      BY <3>1, <3>2, <3>3, <2>1, <1>6, <1>8 DEF HiddenOf
  <2> QED
    BY <2>2, <2>3
<1> QED
  BY <1>4, <1>6, <1>9, <1>10, <1>11, <1>12

\* Either.
LEMMA RecordKeeps ==
  ASSUME NEW h, NEW info \in Record, NEW run \in Nat, NEW seq \in Nat,
         HistoryOK(h, run, seq), h = <<>> => info.loaded,
         NEW k, k = RecordOf(h, info, run, seq)
  PROVE  /\ HistoryOK(k, run, seq)
         /\ \/ AnswerOf(k, run, seq) = info
            \/ HiddenOf(k, run, seq) /\ AnswerOf(k, run, seq).loaded
         /\ \A r, q \in Nat : Earlier(r, q, run, seq) =>
                /\ AnswerOf(k, r, q) = AnswerOf(h, r, q)
                /\ HiddenOf(h, r, q) => HiddenOf(k, r, q)
<1>1. CASE h = <<>>
  BY <1>1, FirstRecord DEF AnswerOf, HiddenOf
<1>2. CASE h # <<>>
  BY <1>2, LaterRecord
<1> QED
  BY <1>1, <1>2

\* The clock moves on in a run.
LEMMA TimePasses ==
  ASSUME NEW h, NEW run \in Nat, NEW seq \in Nat, NEW later \in Nat, seq <= later,
         HistoryOK(h, run, seq)
  PROVE  /\ HistoryOK(h, run, later)
         /\ AnswerOf(h, run, later) = AnswerOf(h, run, seq)
         /\ HiddenOf(h, run, later) <=> HiddenOf(h, run, seq)
<1>1. CASE h = <<>>
  BY <1>1 DEF HistoryOK, AnswerOf, HiddenOf
<1>2. CASE h # <<>>
  <2>1. TreeOK(Record, h[1]) /\ ClockOK(h[1], run, seq)
    BY <1>2 DEF HistoryOK
  <2>2. /\ ClockOK(h[1], run, later)
        /\ FindNode(h[1], run, later) = FindNode(h[1], run, seq)
        /\ GetState(h[1], run, later, Missing) = GetState(h[1], run, seq, Missing)
    BY <2>1, ClockMoves
  <2> QED
    BY <1>2, <2>2 DEF HistoryOK, AnswerOf, HiddenOf
<1> QED
  BY <1>1, <1>2

\* A restore begins a run with what was recorded for the snapshot's version.
LEMMA BranchKeeps ==
  ASSUME NEW h, NEW run \in Nat, NEW seq \in Nat, HistoryOK(h, run, seq),
         NEW next \in Nat, next = run + 1, NEW r \in Nat, NEW q \in Nat,
         NEW k, k = BranchOf(h, r, q, next)
  PROVE  /\ HistoryOK(k, next, 0)
         /\ AnswerOf(k, next, 0) = AnswerOf(h, r, q)
         /\ \A r1, q1 \in Nat : r1 <= run =>
                /\ AnswerOf(k, r1, q1) = AnswerOf(h, r1, q1)
                /\ HiddenOf(k, r1, q1) <=> HiddenOf(h, r1, q1)
<1>1. CASE h = <<>>
  BY <1>1 DEF HistoryOK, AnswerOf, HiddenOf, BranchOf
<1>2. CASE h # <<>>
  <2> DEFINE t == h[1]
             u == RevertToState(t, r, q, next)
  <2>1. TreeOK(Record, t) /\ ClockOK(t, run, seq) /\ t.nodes[1].state.loaded
    BY <1>2 DEF HistoryOK
  <2>2. k = <<u>> /\ k # <<>> /\ k[1] = u
    BY <1>2 DEF BranchOf
  <2> HIDE DEF t
  <2>3. u = RevertToState(t, r, q, next)
    OBVIOUS
  <2> HIDE DEF u
  <2>4. /\ TreeOK(Record, u) /\ ClockOK(u, next, 0)
        /\ GetState(u, next, 0, Missing) = GetState(t, r, q, Missing)
        /\ u.nodes = t.nodes
        /\ \A r1, q1 \in Nat : r1 <= run =>
               /\ FindNode(u, r1, q1) = FindNode(t, r1, q1)
               /\ GetState(u, r1, q1, Missing) = GetState(t, r1, q1, Missing)
    <3>1. TreeOK(Record, u) /\ ClockOK(u, next, 0)
      BY <2>1, <2>3, RevertOK
    <3>2. GetState(u, next, 0, Missing) = GetState(t, r, q, Missing)
      BY <2>1, <2>3, RevertOK
    <3>3. u.nodes = t.nodes
      BY <2>1, <2>3, RevertOK
    <3>4. ASSUME NEW r1 \in Nat, NEW q1 \in Nat, r1 <= run
          PROVE  /\ FindNode(u, r1, q1) = FindNode(t, r1, q1)
                 /\ GetState(u, r1, q1, Missing) = GetState(t, r1, q1, Missing)
      BY <2>1, <2>3, <3>4, RevertOK
    <3> QED
      BY <3>1, <3>2, <3>3, <3>4
  <2>5. HistoryOK(k, next, 0) /\ AnswerOf(k, next, 0) = AnswerOf(h, r, q)
    BY <1>2, <2>1, <2>2, <2>4 DEF HistoryOK, AnswerOf, t
  <2>6. ASSUME NEW r1 \in Nat, NEW q1 \in Nat, r1 <= run
        PROVE  /\ AnswerOf(k, r1, q1) = AnswerOf(h, r1, q1)
               /\ HiddenOf(k, r1, q1) <=> HiddenOf(h, r1, q1)
    <3>1. /\ FindNode(u, r1, q1) = FindNode(t, r1, q1)
          /\ GetState(u, r1, q1, Missing) = GetState(t, r1, q1, Missing)
      BY <2>4, <2>6
    <3>2. AnswerOf(k, r1, q1) = AnswerOf(h, r1, q1)
      BY <1>2, <2>2, <3>1 DEF AnswerOf, t
    <3>3. HiddenOf(k, r1, q1) <=> HiddenOf(h, r1, q1)
      BY <1>2, <2>2, <2>4, <3>1 DEF HiddenOf, t
    <3> QED
      BY <3>2, <3>3
  <2> QED
    BY <2>5, <2>6
<1> QED
  BY <1>1, <1>2

----------------------------------------------------------------------------
(* The invariant of a restore.                                             *)

Now == <<run_id, run_sequence>>
Loaded(v) == LoadedAt(v[1], v[2])
Saved(o, v) == StateAt(o, v[1], v[2])

\* A version before the clock.
Past(v) == /\ v = <<v[1], v[2]>> /\ v[1] \in Nat /\ v[2] \in Nat
           /\ v[1] <= run_id
           /\ v[1] = run_id => v[2] < run_sequence

Restoring == phase \in {"dlls", "threads", "exit"}

Kind ==
    {"create thread", "exit thread", "load dll", "unload dll", "entry point", "return", "shell code"}
EventType == [thread : Thread, object : Object, kind : Kind]
WorkerType ==
    [at : {"none", "start", "terminate", "untrack", "ready"}, leftover : SUBSET Thread, victim : Thread]

TypesOK ==
    /\ run_id \in Nat /\ run_sequence \in Nat
    /\ context \in [Thread -> Nat]
    /\ DOMAIN history = Object
    /\ alive \subseteq Thread /\ dlls \subseteq Dll
    /\ current_thread_ids \subseteq Thread
    /\ to_unload \subseteq Dll
    /\ queued \in Seq(EventType)
    /\ worker \in WorkerType

HistoriesOK ==
    \A o \in Object : /\ HistoryOK(history[o], run_id, run_sequence)
                      /\ phase = "recording" => LastIsLatest(history[o])

\* Which phases there are in the first run, and when a worker is at work.
PhasesOK ==
    /\ phase = "recording" => run_id = 0 /\ run_sequence >= 1 /\ DOMAIN snapshots = {<<0, 0>>}
    /\ Restoring => target \in DOMAIN snapshots
    /\ Restoring /\ next_phase = "reconstruction" => target = <<0, 0>>
    /\ next_phase \in {"reconstruction", "debugger"}
    /\ worker.at # "none" => phase \in {"threads", "exit"} /\ to_unload = {}
    /\ phase = "threads" => worker.at # "none"
    /\ phase = "exit" => worker.at = "ready"

\* What a snapshot saved is what the histories answer for it; at the first
\* one only the main thread is there.
SnapshotOK(v) ==
    /\ Past(v)
    /\ Main \in Loaded(v)
    /\ \A o \in Loaded(v) \ Hidden(v) :
          IF o \in Thread
          THEN o \in DOMAIN snapshots[v].threads /\ Saved(o, v).context = snapshots[v].threads[o]
          ELSE o \in snapshots[v].dlls
SnapshotsOK ==
    /\ \A v \in DOMAIN snapshots : SnapshotOK(v)
    /\ <<0, 0>> \in DOMAIN snapshots
    /\ \A o \in Loaded(<<0, 0>>) : o = Main

\* The main thread is never gone.
MainOK == Main \in alive /\ Main \in current_thread_ids /\ Main \notin missed

\* What an event left over says, and what has become of it.
Later(i, kind, o) == \E j \in 1..Len(queued) : j > i /\ queued[j].kind = kind /\ queued[j].object = o
EventOK(i) ==
    LET e == queued[i]
    IN  /\ e.kind = "create thread" => e.object = e.thread /\ e.object # Main /\ e.object \in alive
        /\ e.kind = "exit thread" => e.object = e.thread /\ e.object # Main /\ e.object \notin alive
        /\ e.kind = "load dll" =>
              e.object \in Dll /\ (e.object \in dlls \/ Later(i, "unload dll", e.object))
        /\ e.kind = "unload dll" =>
              e.object \in Dll /\ (e.object \notin dlls \/ Later(i, "load dll", e.object))
        /\ e.kind = "shell code" =>
              e.thread = Main /\ i = Len(queued) /\ phase \in {"dlls", "failed"} /\ to_unload = {}
QueueOK ==
    /\ \A i \in 1..Len(queued) : EventOK(i)
    /\ worker.at = "start" => queued = <<>>
    /\ worker.at # "none" => \A i \in 1..Len(queued) : queued[i].kind = "exit thread"

Waiting(kinds, o) == \E i \in 1..Len(queued) : queued[i].kind \in kinds /\ queued[i].object = o
Changing(t) == Waiting({"create thread", "exit thread"}, t)

\* Until a restore begins to put threads back, and after it.
Known(t) ==
    /\ t \in alive <=> t \in current_thread_ids
    /\ t \in alive => t \in Loaded(Now)
AllKnown == \A t \in Thread \ missed : Changing(t) \/ Known(t)
ThreadsOK ==
    phase \in {"recording", "reconstruction", "debugger", "resume", "dlls"} \/ worker.at = "start" =>
        AllKnown
DllsKnown == \A d \in dlls \ missed : Waiting({"load dll"}, d) \/ d \in Loaded(Now)
DllsOK == phase \in {"recording", "reconstruction", "debugger", "resume"} => DllsKnown

\* What is recorded for the version of the next micro snapshot.
Present(o) ==
    IF o \in Thread THEN o \in current_thread_ids
    ELSE (o \in dlls /\ o \notin missed) \/ Waiting({"unload dll"}, o)
AllPresent == \A o \in Loaded(Now) \ Hidden(Now) : Present(o)
NextSnapshotOK == phase = "reconstruction" => AllPresent

\* While DLLs, and then threads, are put back.
DllsGoing ==
    \A d \in dlls \ missed : d \in to_unload \/ Waiting({"load dll"}, d) \/ d \in Loaded(target)
DllsRestoreOK == Restoring => DllsGoing
Restored(t) ==
    /\ t \in alive =>
          /\ t \in current_thread_ids
          /\ t \in worker.leftover \/ t \in Loaded(target)
          /\ t \in Loaded(target) => context[t] = Saved(t, target).context
    /\ t \in current_thread_ids =>
          t \in alive \/ Changing(t) \/ (worker.at = "untrack" /\ t = worker.victim)
AllRestored == \A t \in Thread \ missed : Restored(t)
ThreadsRestoreOK ==
    phase \in {"threads", "exit"} /\ worker.at # "start" =>
        /\ Main \notin worker.leftover
        /\ worker.at = "untrack" => worker.victim \notin alive /\ worker.victim # Main
        /\ worker.at = "ready" => worker.leftover = {}
        /\ AllRestored

IInv ==
    /\ TypesOK /\ HistoriesOK /\ PhasesOK /\ SnapshotsOK /\ MainOK /\ QueueOK
    /\ ThreadsOK /\ DllsOK /\ NextSnapshotOK /\ DllsRestoreOK /\ ThreadsRestoreOK

----------------------------------------------------------------------------
(* What a step does to the histories.                                      *)

LEMMA Views ==
  ASSUME NEW o \in Object, NEW v
  PROVE  /\ Saved(o, v) = AnswerOf(history[o], v[1], v[2])
         /\ o \in Loaded(v) <=> AnswerOf(history[o], v[1], v[2]).loaded
         /\ o \in Hidden(v) <=> HiddenOf(history[o], v[1], v[2])
BY DEF Saved, StateAt, AnswerOf, Loaded, LoadedAt, Hidden, HiddenOf

LEMMA ViewsNext ==
  ASSUME NEW o \in Object, NEW v
  PROVE  /\ Saved(o, v)' = AnswerOf(history'[o], v[1], v[2])
         /\ o \in Loaded(v)' <=> AnswerOf(history'[o], v[1], v[2]).loaded
         /\ o \in Hidden(v)' <=> HiddenOf(history'[o], v[1], v[2])
BY DEF Saved, StateAt, AnswerOf, Loaded, LoadedAt, Hidden, HiddenOf

LEMMA ViewsNow ==
  ASSUME NEW o \in Object
  PROVE  /\ Saved(o, Now) = AnswerOf(history[o], run_id, run_sequence)
         /\ o \in Loaded(Now) <=> AnswerOf(history[o], run_id, run_sequence).loaded
         /\ o \in Hidden(Now) <=> HiddenOf(history[o], run_id, run_sequence)
         /\ Saved(o, Now)' = AnswerOf(history'[o], run_id', run_sequence')
         /\ o \in Loaded(Now)' <=> AnswerOf(history'[o], run_id', run_sequence').loaded
         /\ o \in Hidden(Now)' <=> HiddenOf(history'[o], run_id', run_sequence')
BY DEF Now, Saved, StateAt, AnswerOf, Loaded, LoadedAt, Hidden, HiddenOf

\* The object's record is as it was, or says this now.
SameNow(o) ==
    /\ Saved(o, Now)' = Saved(o, Now)
    /\ o \in Loaded(Now)' <=> o \in Loaded(Now)
    /\ o \in Hidden(Now)' <=> o \in Hidden(Now)
Told(o, info) ==
    \/ Saved(o, Now)' = info
    \/ o \in Hidden(Now)' /\ o \in Loaded(Now)'

\* The snapshots' answers are as they were.
Steady(o) ==
    \A v \in DOMAIN snapshots : /\ Saved(o, v)' = Saved(o, v)
                                /\ o \in Hidden(v) => o \in Hidden(v)'

LEMMA SavedIsLoaded ==
  ASSUME NEW o \in Object, NEW v
  PROVE  /\ o \in Loaded(v) <=> Saved(o, v).loaded
         /\ o \in Loaded(v)' <=> Saved(o, v)'.loaded
BY Views, ViewsNext

LEMMA InfoTyped ==
  ASSUME TypesOK, NEW o \in Object
  PROVE  Info(o, TRUE) \in Record /\ Info(o, TRUE).loaded /\ Missing \in Record /\ ~Missing.loaded
BY DEF TypesOK, Info, Missing, Record, ShellCode

\* Nothing is recorded.
LEMMA NotRecorded ==
  ASSUME TypesOK, HistoriesOK, SnapshotsOK, NEW o \in Object, history'[o] = history[o],
         run_id' = run_id, run_sequence' \in Nat, run_sequence <= run_sequence'
  PROVE  HistoryOK(history[o], run_id, run_sequence)' /\ SameNow(o) /\ Steady(o)
<1>1. /\ run_id \in Nat /\ run_sequence \in Nat
      /\ HistoryOK(history[o], run_id, run_sequence)
  BY DEF TypesOK, HistoriesOK
<1>2. /\ HistoryOK(history[o], run_id, run_sequence')
      /\ AnswerOf(history[o], run_id, run_sequence') = AnswerOf(history[o], run_id, run_sequence)
      /\ HiddenOf(history[o], run_id, run_sequence') <=> HiddenOf(history[o], run_id, run_sequence)
  BY <1>1, TimePasses
<1>3. HistoryOK(history[o], run_id, run_sequence)' <=> HistoryOK(history'[o], run_id', run_sequence')
  BY DEF HistoryOK
<1>4. SameNow(o)
  BY <1>2, ViewsNow DEF SameNow
<1>5. Steady(o)
  BY Views, ViewsNext DEF Steady
<1> QED
  BY <1>2, <1>3, <1>4, <1>5

\* Something is, at the clock or, in the first run, for a call that began
\* before.
LEMMA Recording ==
  ASSUME TypesOK, HistoriesOK, SnapshotsOK, NEW o \in Object, NEW info \in Record,
         NEW seq \in Nat, HistoryOK(history[o], run_id, seq),
         history[o] = <<>> => info.loaded,
         \A v \in DOMAIN snapshots : Earlier(v[1], v[2], run_id, seq),
         history'[o] = RecordOf(history[o], info, run_id, seq),
         run_id' = run_id, run_sequence' \in Nat, seq <= run_sequence'
  PROVE  HistoryOK(history[o], run_id, run_sequence)' /\ Told(o, info) /\ Steady(o)
<1> DEFINE h == history[o]
           k == history'[o]
<1>1. run_id \in Nat
  BY DEF TypesOK
<1>2. /\ HistoryOK(k, run_id, seq)
      /\ \/ AnswerOf(k, run_id, seq) = info
         \/ HiddenOf(k, run_id, seq) /\ AnswerOf(k, run_id, seq).loaded
      /\ \A r, q \in Nat : Earlier(r, q, run_id, seq) =>
             /\ AnswerOf(k, r, q) = AnswerOf(h, r, q)
             /\ HiddenOf(h, r, q) => HiddenOf(k, r, q)
  BY <1>1, RecordKeeps
<1>3. /\ HistoryOK(k, run_id, run_sequence')
      /\ AnswerOf(k, run_id, run_sequence') = AnswerOf(k, run_id, seq)
      /\ HiddenOf(k, run_id, run_sequence') <=> HiddenOf(k, run_id, seq)
  BY <1>1, <1>2, TimePasses
<1>4. HistoryOK(history[o], run_id, run_sequence)' <=> HistoryOK(history'[o], run_id', run_sequence')
  BY DEF HistoryOK
<1> HIDE DEF h, k
<1>5. Told(o, info)
  BY <1>2, <1>3, ViewsNow DEF Told, k
<1>6. ASSUME NEW v \in DOMAIN snapshots
      PROVE  Saved(o, v)' = Saved(o, v) /\ (o \in Hidden(v) => o \in Hidden(v)')
  <2>1. v[1] \in Nat /\ v[2] \in Nat /\ Earlier(v[1], v[2], run_id, seq)
    BY DEF SnapshotsOK, SnapshotOK, Past
  <2>2. /\ AnswerOf(k, v[1], v[2]) = AnswerOf(h, v[1], v[2])
        /\ HiddenOf(h, v[1], v[2]) => HiddenOf(k, v[1], v[2])
    BY <1>2, <2>1
  <2> QED
    BY <2>2, Views, ViewsNext DEF h, k
<1> QED
  BY <1>3, <1>4, <1>5, <1>6 DEF Steady, k

\* While the answers stay, a snapshot is what the histories answer for it.
LEMMA SnapshotStays ==
  ASSUME NEW v \in DOMAIN snapshots, SnapshotOK(v), \A o \in Object : Steady(o),
         v \in DOMAIN snapshots', snapshots'[v] = snapshots[v],
         run_id \in Nat, run_sequence \in Nat, run_id' \in Nat, run_sequence' \in Nat,
         run_id < run_id' \/ (run_id' = run_id /\ run_sequence <= run_sequence')
  PROVE  SnapshotOK(v)' /\ Loaded(v)' = Loaded(v)
<1>1. ASSUME NEW o \in Object
      PROVE  /\ Saved(o, v)' = Saved(o, v)
             /\ o \in Hidden(v) => o \in Hidden(v)'
             /\ o \in Loaded(v)' <=> o \in Loaded(v)
  BY SavedIsLoaded DEF Steady
<1>2. Loaded(v) \subseteq Object /\ Loaded(v)' \subseteq Object
  BY DEF Loaded, LoadedAt
<1>3. Loaded(v)' = Loaded(v)
  BY <1>1, <1>2
<1>4. Past(v)'
  BY DEF SnapshotOK, Past
<1>5. Main \in Loaded(v)'
  BY <1>3 DEF SnapshotOK
<1>6. ASSUME NEW o \in (Loaded(v) \ Hidden(v))'
      PROVE  IF o \in Thread
             THEN o \in DOMAIN snapshots'[v].threads /\ Saved(o, v)'.context = snapshots'[v].threads[o]
             ELSE o \in snapshots'[v].dlls
  <2>1. o \in Object /\ o \in Loaded(v) \ Hidden(v) /\ Saved(o, v)' = Saved(o, v)
    BY <1>1, <1>2, <1>3
  <2> QED
    BY <2>1 DEF SnapshotOK
<1> QED
  BY <1>3, <1>4, <1>5, <1>6 DEF SnapshotOK

LEMMA SnapshotsStay ==
  ASSUME TypesOK, SnapshotsOK, \A o \in Object : Steady(o), snapshots' = snapshots,
         run_id' \in Nat, run_sequence' \in Nat,
         run_id < run_id' \/ (run_id' = run_id /\ run_sequence <= run_sequence')
  PROVE  SnapshotsOK' /\ \A v \in DOMAIN snapshots : Loaded(v)' = Loaded(v)
<1>1. ASSUME NEW v \in DOMAIN snapshots PROVE SnapshotOK(v)' /\ Loaded(v)' = Loaded(v)
  BY SnapshotStays DEF TypesOK, SnapshotsOK
<1>2. \A o \in Loaded(<<0, 0>>)' : o = Main
  BY <1>1 DEF SnapshotsOK
<1> QED
  BY <1>1, <1>2 DEF SnapshotsOK

\* Nothing is recorded of any object.
LEMMA NothingRecorded ==
  ASSUME IInv, history' = history, snapshots' = snapshots, run_id' = run_id,
         run_sequence' \in Nat, run_sequence <= run_sequence',
         phase' = "recording" => phase = "recording"
  PROVE  /\ HistoriesOK' /\ SnapshotsOK'
         /\ \A o \in Object : SameNow(o)
         /\ \A v \in DOMAIN snapshots :
               Loaded(v)' = Loaded(v) /\ \A o \in Object : Saved(o, v)' = Saved(o, v)
<1>1. \A o \in Object : HistoryOK(history[o], run_id, run_sequence)' /\ SameNow(o) /\ Steady(o)
  BY NotRecorded DEF IInv
<1>2. HistoriesOK'
  BY <1>1 DEF IInv, HistoriesOK, LastIsLatest
<1>3. SnapshotsOK' /\ \A v \in DOMAIN snapshots : Loaded(v)' = Loaded(v)
  <2>1. run_id \in Nat /\ run_id' \in Nat
    BY DEF IInv, TypesOK
  <2> QED
    BY <1>1, <2>1, SnapshotsStay DEF IInv
<1> QED
  BY <1>1, <1>2, <1>3 DEF Steady

\* In the first run the newest record is the last.
LEMMA RecordIsLast ==
  ASSUME NEW h, NEW info \in Record, NEW seq \in Nat, HistoryOK(h, 0, seq),
         NEW k, k = RecordOf(h, info, 0, seq)
  PROVE  LastIsLatest(k)
<1>1. CASE h = <<>>
  <2> DEFINE u == NewTree(info, 0, seq)
  <2>1. u.nodes = <<Node(info, 0, seq, Root)>>
    BY DEF NewTree
  <2>2. Node(info, 0, seq, Root).seq = seq
    BY DEF Node
  <2> HIDE DEF u
  <2>3. k = <<u>> /\ k[1] = u
    BY <1>1 DEF RecordOf, u
  <2>4. \A i \in 1..Len(u.nodes) : u.nodes[i].seq = seq /\ Len(u.nodes) = 1
    BY <2>1, <2>2
  <2> QED
    BY <2>3, <2>4 DEF LastIsLatest
<1>2. CASE h # <<>>
  <2> DEFINE t == h[1]
             u == AddChild(t, info, 0, seq)
             new == Len(t.nodes) + 1
  <2>1. TreeOK(Record, t) /\ ClockOK(t, 0, seq)
    BY <1>2 DEF HistoryOK
  <2>2. k = <<u>> /\ k[1] = u
    BY <1>2 DEF RecordOf
  <2> HIDE DEF t
  <2>3. Extends(u, t, info, 0, seq) /\ Len(t.nodes) \in Nat
    BY <2>1, AddChildExtends, TreeTyped
  <2> HIDE DEF u
  <2>4. Len(u.nodes) = new /\ u.nodes[new].seq = seq
    BY <2>3 DEF Extends, Node
  <2>5. ASSUME NEW i \in 1..Len(t.nodes) PROVE u.nodes[i].seq <= seq
    <3>1. t.nodes[i].run \in Nat /\ t.nodes[i].run <= 0
      BY <2>1, NodeTyped DEF ClockOK
    <3>2. t.nodes[i].seq <= seq
      BY <2>1, <3>1 DEF ClockOK
    <3> QED
      BY <2>3, <3>2 DEF Extends
  <2>6. ASSUME NEW i \in 1..Len(u.nodes) PROVE u.nodes[i].seq <= u.nodes[Len(u.nodes)].seq
    <3>1. i \in 1..Len(t.nodes) \/ i = new
      BY <2>3, <2>4
    <3> QED
      BY <3>1, <2>4, <2>5
  <2> QED
    BY <2>2, <2>6 DEF LastIsLatest
<1> QED
  BY <1>1, <1>2

\* Where a record may go: at the clock, or in the first run behind the last one.
Behind(o, seq) ==
    /\ seq \in Nat /\ seq <= run_sequence
    /\ seq = run_sequence \/ (phase = "recording" /\ LastRecorded(o) < seq)

LEMMA BehindFits ==
  ASSUME IInv, NEW o \in Object, NEW seq, Behind(o, seq)
  PROVE  /\ HistoryOK(history[o], run_id, seq)
         /\ \A v \in DOMAIN snapshots : Earlier(v[1], v[2], run_id, seq)
<1>1. HistoryOK(history[o], run_id, run_sequence)
  BY DEF IInv, HistoriesOK
<1>2. \A v \in DOMAIN snapshots : v[1] \in Nat /\ v[2] \in Nat /\ v[1] <= run_id
                                 /\ (v[1] = run_id => v[2] < run_sequence)
  BY DEF IInv, SnapshotsOK, SnapshotOK, Past
<1>3. run_id \in Nat /\ run_sequence \in Nat /\ seq \in Nat
  BY DEF IInv, TypesOK, Behind
<1>4. CASE seq = run_sequence
  BY <1>1, <1>2, <1>3, <1>4 DEF Earlier
<1>5. CASE phase = "recording" /\ LastRecorded(o) < seq
  <2>1. run_id = 0 /\ DOMAIN snapshots = {<<0, 0>>} /\ LastIsLatest(history[o])
    BY <1>5 DEF IInv, PhasesOK, HistoriesOK
  <2>2. CASE history[o] = <<>>
    <3>1. 0 < seq
      BY <1>5, <2>2 DEF LastRecorded
    <3> QED
      BY <2>1, <2>2, <3>1 DEF HistoryOK, Earlier
  <2>3. CASE history[o] # <<>>
    <3> DEFINE t == history[o][1]
               last == t.nodes[Len(t.nodes)].seq
    <3>1. TreeOK(Record, t) /\ ClockOK(t, run_id, run_sequence)
      BY <1>1, <2>3 DEF HistoryOK
    <3>2. LastRecorded(o) = last
      BY <2>3 DEF LastRecorded
    <3>3. \A i \in 1..Len(t.nodes) : t.nodes[i].seq <= last
      BY <2>1, <2>3 DEF LastIsLatest
    <3> HIDE DEF t
    <3>4. Len(t.nodes) \in Nat /\ Len(t.nodes) >= 1
      BY <3>1, TreeTyped
    <3>5. \A i \in 1..Len(t.nodes) : t.nodes[i].seq \in Nat
      BY <3>1, NodeTyped
    <3>6. last \in Nat /\ last < seq
      BY <3>2, <3>4, <3>5, <1>5
    <3> HIDE DEF last
    <3>7. \A i \in 1..Len(t.nodes) : t.nodes[i].seq <= seq
      BY <3>3, <3>5, <3>6, <1>3
    <3>8. ClockOK(t, run_id, seq)
      BY <3>1, <3>7 DEF ClockOK
    <3>9. HistoryOK(history[o], run_id, seq)
      BY <1>1, <2>3, <3>8 DEF HistoryOK, t
    <3>10. 0 < seq
      BY <3>6, <1>3
    <3> QED
      BY <2>1, <3>9, <3>10 DEF Earlier
  <2> QED
    BY <2>2, <2>3
<1> QED
  BY <1>4, <1>5 DEF Behind

\* A thread or a DLL is recorded as there, or as gone if it has ever been there.
RecordsOne(o, info, seq) ==
    history' = [history EXCEPT ![o] = IF @ = <<>> /\ ~info.loaded THEN <<>> ELSE RecordedAt(o, info, seq)]

LEMMA OneRecorded ==
  ASSUME IInv, NEW o \in Object, NEW info \in Record, info.loaded \/ info = Missing,
         NEW seq, Behind(o, seq), RecordsOne(o, info, seq),
         snapshots' = snapshots, run_id' = run_id, run_sequence' = run_sequence, phase' = phase
  PROVE  /\ HistoriesOK' /\ SnapshotsOK' /\ DOMAIN history' = Object
         /\ Told(o, info)
         /\ \A p \in Object \ {o} : SameNow(p)
         /\ \A v \in DOMAIN snapshots :
               Loaded(v)' = Loaded(v) /\ \A p \in Object : Saved(p, v)' = Saved(p, v)
<1>1. /\ run_id \in Nat /\ run_sequence \in Nat /\ seq \in Nat /\ seq <= run_sequence
      /\ DOMAIN history = Object
  BY DEF IInv, TypesOK, Behind
<1>2. /\ HistoryOK(history[o], run_id, seq)
      /\ \A v \in DOMAIN snapshots : Earlier(v[1], v[2], run_id, seq)
  BY BehindFits
<1>3. /\ DOMAIN history' = Object
      /\ \A p \in Object \ {o} : history'[p] = history[p]
      /\ history'[o] = IF history[o] = <<>> /\ ~info.loaded THEN <<>> ELSE RecordedAt(o, info, seq)
  BY <1>1 DEF RecordsOne
<1>4. ASSUME NEW p \in Object \ {o}
      PROVE  HistoryOK(history[p], run_id, run_sequence)' /\ SameNow(p) /\ Steady(p)
  BY <1>1, <1>3, NotRecorded DEF IInv
<1>5. HistoryOK(history[o], run_id, run_sequence)' /\ Told(o, info) /\ Steady(o)
  <2>1. CASE history[o] = <<>> /\ ~info.loaded
    <3>1. history'[o] = history[o] /\ info = Missing
      BY <1>3, <2>1
    <3>2. HistoryOK(history[o], run_id, run_sequence)' /\ Steady(o)
      BY <1>1, <3>1, NotRecorded DEF IInv
    <3>3. Saved(o, Now)' = Missing
      BY <2>1, <3>1, ViewsNow DEF AnswerOf
    <3> QED
      BY <3>1, <3>2, <3>3 DEF Told
  <2>2. CASE ~(history[o] = <<>> /\ ~info.loaded)
    <3>1. history'[o] = RecordOf(history[o], info, run_id, seq)
      BY <1>3, <2>2 DEF RecordedAt, RecordOf
    <3>2. history[o] = <<>> => info.loaded
      BY <2>2
    <3> QED
      BY <1>1, <1>2, <3>1, <3>2, Recording DEF IInv
  <2> QED
    BY <2>1, <2>2
<1>6. \A p \in Object : HistoryOK(history[p], run_id, run_sequence)' /\ Steady(p)
  BY <1>4, <1>5
<1>7. ASSUME phase' = "recording", NEW p \in Object PROVE LastIsLatest(history'[p])
  <2>1. run_id = 0 /\ LastIsLatest(history[p])
    BY <1>7 DEF IInv, PhasesOK, HistoriesOK
  <2>2. CASE p = o /\ ~(history[o] = <<>> /\ ~info.loaded)
    <3>1. history'[o] = RecordOf(history[o], info, 0, seq)
      BY <1>3, <2>1, <2>2 DEF RecordedAt, RecordOf
    <3>2. HistoryOK(history[o], 0, seq)
      BY <1>2, <2>1
    <3> QED
      BY <1>1, <2>2, <3>1, <3>2, RecordIsLast
  <2>3. CASE p # o \/ (history[o] = <<>> /\ ~info.loaded)
    <3>1. history'[p] = history[p]
      BY <1>3, <2>3
    <3> QED
      BY <2>1, <3>1
  <2> QED
    BY <2>2, <2>3
<1>8. HistoriesOK'
  BY <1>6, <1>7 DEF HistoriesOK, LastIsLatest
<1>9. SnapshotsOK' /\ \A v \in DOMAIN snapshots : Loaded(v)' = Loaded(v)
  BY <1>1, <1>6, SnapshotsStay DEF IInv
<1> QED
  BY <1>3, <1>4, <1>5, <1>6, <1>8, <1>9 DEF Steady

----------------------------------------------------------------------------
(* The queue of debug events.                                              *)

LEMMA QueueRaised ==
  ASSUME queued \in Seq(EventType), NEW e \in EventType, queued' = Append(queued, e)
  PROVE  /\ queued' \in Seq(EventType)
         /\ Len(queued) \in Nat /\ Len(queued') = Len(queued) + 1
         /\ queued'[Len(queued) + 1] = e
         /\ \A i \in 1..Len(queued) : queued'[i] = queued[i]
         /\ \A i \in 1..Len(queued') : i \in 1..Len(queued) \/ i = Len(queued) + 1
OBVIOUS

LEMMA QueuePopped ==
  ASSUME queued \in Seq(EventType), queued # <<>>, queued' = Tail(queued)
  PROVE  /\ queued' \in Seq(EventType)
         /\ Len(queued) \in Nat /\ Len(queued) >= 1 /\ Len(queued') = Len(queued) - 1
         /\ \A i \in 1..Len(queued') : queued'[i] = queued[i + 1]
         /\ \A i \in 1..Len(queued) : i > 1 => /\ i - 1 \in 1..Len(queued')
                                              /\ queued'[i - 1] = queued[i]
         /\ \A i \in 1..Len(queued') : /\ i \in 0..Len(queued') /\ i + 1 \in 1..Len(queued)
                                      /\ i + 1 = Len(queued) => i = Len(queued')
         /\ Len(queued) = 1 => Len(queued') = 0 /\ queued' = <<>> /\ ~\E i \in 1..Len(queued') : TRUE
         /\ de \in EventType
<1>1. de \in EventType
  BY DEF de
<1> QED
  BY <1>1

LEMMA RaisedWaits ==
  ASSUME queued \in Seq(EventType), NEW e \in EventType, queued' = Append(queued, e),
         NEW kinds, NEW o
  PROVE  Waiting(kinds, o)' <=> Waiting(kinds, o) \/ (e.kind \in kinds /\ e.object = o)
<1>1. /\ Len(queued) \in Nat /\ Len(queued') = Len(queued) + 1
      /\ queued'[Len(queued) + 1] = e
      /\ \A i \in 1..Len(queued) : queued'[i] = queued[i]
  BY QueueRaised
<1>2. ASSUME Waiting(kinds, o) PROVE Waiting(kinds, o)'
  <2>1. PICK i \in 1..Len(queued) : queued[i].kind \in kinds /\ queued[i].object = o
    BY <1>2 DEF Waiting
  <2>2. i \in 1..Len(queued') /\ queued'[i].kind \in kinds /\ queued'[i].object = o
    BY <1>1, <2>1
  <2> QED
    BY <2>2 DEF Waiting
<1>3. ASSUME e.kind \in kinds, e.object = o PROVE Waiting(kinds, o)'
  <2>1. Len(queued) + 1 \in 1..Len(queued')
    BY <1>1
  <2> QED
    BY <1>1, <1>3, <2>1 DEF Waiting
<1>4. ASSUME Waiting(kinds, o)' PROVE Waiting(kinds, o) \/ (e.kind \in kinds /\ e.object = o)
  <2>1. PICK i \in 1..Len(queued') : queued'[i].kind \in kinds /\ queued'[i].object = o
    BY <1>4 DEF Waiting
  <2>2. i \in 1..Len(queued) \/ i = Len(queued) + 1
    BY <1>1
  <2> QED
    BY <1>1, <2>1, <2>2 DEF Waiting
<1> QED
  BY <1>2, <1>3, <1>4

LEMMA PoppedWaits ==
  ASSUME queued \in Seq(EventType), queued # <<>>, queued' = Tail(queued), NEW kinds, NEW o
  PROVE  Waiting(kinds, o) <=> Waiting(kinds, o)' \/ (de.kind \in kinds /\ de.object = o)
<1>1. /\ Len(queued) \in Nat /\ Len(queued) >= 1 /\ Len(queued') = Len(queued) - 1
      /\ \A i \in 1..Len(queued') : queued'[i] = queued[i + 1]
  BY QueuePopped
<1>2. ASSUME Waiting(kinds, o)' PROVE Waiting(kinds, o)
  <2>1. PICK i \in 1..Len(queued') : queued'[i].kind \in kinds /\ queued'[i].object = o
    BY <1>2 DEF Waiting
  <2>2. i + 1 \in 1..Len(queued) /\ queued[i + 1].kind \in kinds /\ queued[i + 1].object = o
    BY <1>1, <2>1
  <2> QED
    BY <2>2 DEF Waiting
<1>3. ASSUME de.kind \in kinds, de.object = o PROVE Waiting(kinds, o)
  <2>1. 1 \in 1..Len(queued)
    BY <1>1
  <2> QED
    BY <1>3, <2>1 DEF Waiting, de
<1>4. ASSUME Waiting(kinds, o) PROVE Waiting(kinds, o)' \/ (de.kind \in kinds /\ de.object = o)
  <2>1. PICK i \in 1..Len(queued) : queued[i].kind \in kinds /\ queued[i].object = o
    BY <1>4 DEF Waiting
  <2>2. CASE i = 1
    BY <2>1, <2>2 DEF de
  <2>3. CASE i # 1
    <3>1. i - 1 \in 1..Len(queued') /\ queued'[i - 1] = queued[i]
      BY <1>1, <2>3
    <3> QED
      BY <2>1, <3>1 DEF Waiting
  <2> QED
    BY <2>2, <2>3
<1> QED
  BY <1>2, <1>3, <1>4

\* What follows an event.
LEMMA RaisedLater ==
  ASSUME queued \in Seq(EventType), NEW e \in EventType, queued' = Append(queued, e),
         NEW i \in 1..Len(queued), NEW kind, NEW o
  PROVE  Later(i, kind, o)' <=> Later(i, kind, o) \/ (e.kind = kind /\ e.object = o)
<1>1. /\ Len(queued) \in Nat /\ Len(queued') = Len(queued) + 1
      /\ queued'[Len(queued) + 1] = e
      /\ \A j \in 1..Len(queued) : queued'[j] = queued[j]
  BY QueueRaised
<1>2. ASSUME Later(i, kind, o) PROVE Later(i, kind, o)'
  <2>1. PICK j \in 1..Len(queued) : j > i /\ queued[j].kind = kind /\ queued[j].object = o
    BY <1>2 DEF Later
  <2>2. j \in 1..Len(queued') /\ queued'[j] = queued[j]
    BY <1>1
  <2> QED
    BY <2>1, <2>2 DEF Later
<1>3. ASSUME e.kind = kind, e.object = o PROVE Later(i, kind, o)'
  <2>1. Len(queued) + 1 \in 1..Len(queued') /\ Len(queued) + 1 > i
    BY <1>1
  <2> QED
    BY <1>1, <1>3, <2>1 DEF Later
<1>4. ASSUME Later(i, kind, o)' PROVE Later(i, kind, o) \/ (e.kind = kind /\ e.object = o)
  <2>1. PICK j \in 1..Len(queued') : j > i /\ queued'[j].kind = kind /\ queued'[j].object = o
    BY <1>4 DEF Later
  <2>2. j \in 1..Len(queued) \/ j = Len(queued) + 1
    BY <1>1
  <2> QED
    BY <1>1, <2>1, <2>2 DEF Later
<1> QED
  BY <1>2, <1>3, <1>4

LEMMA PoppedLater ==
  ASSUME queued \in Seq(EventType), queued # <<>>, queued' = Tail(queued),
         NEW i \in 0..Len(queued'), NEW kind, NEW o
  PROVE  Later(i, kind, o)' <=> Later(i + 1, kind, o)
<1>1. /\ Len(queued) \in Nat /\ Len(queued) >= 1 /\ Len(queued') = Len(queued) - 1
      /\ \A j \in 1..Len(queued') : queued'[j] = queued[j + 1]
  BY QueuePopped
<1>2. ASSUME Later(i, kind, o)' PROVE Later(i + 1, kind, o)
  <2>1. PICK j \in 1..Len(queued') : j > i /\ queued'[j].kind = kind /\ queued'[j].object = o
    BY <1>2 DEF Later
  <2>2. j + 1 \in 1..Len(queued) /\ j + 1 > i + 1 /\ queued[j + 1] = queued'[j]
    BY <1>1, <2>1
  <2> QED
    BY <2>1, <2>2 DEF Later
<1>3. ASSUME Later(i + 1, kind, o) PROVE Later(i, kind, o)'
  <2>1. PICK j \in 1..Len(queued) : j > i + 1 /\ queued[j].kind = kind /\ queued[j].object = o
    BY <1>3 DEF Later
  <2>2. j - 1 \in 1..Len(queued') /\ j - 1 > i /\ queued'[j - 1] = queued[j]
    BY <1>1, <2>1
  <2> QED
    BY <2>1, <2>2 DEF Later
<1> QED
  BY <1>2, <1>3

LEMMA EventTyped ==
  ASSUME NEW t \in Thread, NEW o \in Object,
         NEW kind \in Kind
  PROVE  /\ Event(t, kind, o) \in EventType
         /\ Event(t, kind, o).thread = t /\ Event(t, kind, o).kind = kind
         /\ Event(t, kind, o).object = o
BY DEF Event, EventType

LEMMA ClockTyped ==
  ASSUME IInv
  PROVE  run_id \in Nat /\ run_sequence \in Nat /\ queued \in Seq(EventType)
BY DEF IInv, TypesOK

\* The event at the head says what it should.
LEMMA HeadOK ==
  ASSUME IInv, queued # <<>>
  PROVE  /\ de \in EventType
         /\ EventOK(1) /\ de = queued[1] /\ 1 \in 1..Len(queued)
<1>1. queued \in Seq(EventType)
  BY DEF IInv, TypesOK
<1>2. Len(queued) \in Nat /\ Len(queued) >= 1 /\ queued[1] \in EventType
  BY <1>1
<1>3. 1 \in 1..Len(queued)
  BY <1>2
<1>4. EventOK(1)
  BY <1>3 DEF IInv, QueueOK
<1> QED
  BY <1>2, <1>3, <1>4 DEF de

LEMMA RaisedEvent ==
  ASSUME NEW t \in Thread, NEW o \in Object, NEW kind \in Kind, Raise(t, kind, o)
  PROVE  \E e \in EventType : /\ e.thread = t /\ e.kind = kind /\ e.object = o
                             /\ queued' = Append(queued, e)
BY EventTyped DEF Raise

\* What an event says is what happens.
Happens(t, kind, o) ==
    /\ alive' = IF kind = "create thread" THEN alive \cup {o}
                ELSE IF kind = "exit thread" THEN alive \ {o} ELSE alive
    /\ dlls' = IF kind = "load dll" THEN dlls \cup {o}
               ELSE IF kind = "unload dll" THEN dlls \ {o} ELSE dlls
    /\ kind \in {"create thread", "exit thread"} => o = t /\ o # Main /\ ~Changing(o)
    /\ kind \in {"load dll", "unload dll"} => o \in Dll

\* Nothing follows the shell code, and while the worker is at it only threads
\* go.
MayRaise(t, kind) ==
    /\ \A i \in 1..Len(queued) : queued[i].kind # "shell code"
    /\ kind = "shell code" => t = Main /\ phase' \in {"dlls", "failed"} /\ to_unload' = {}
    /\ worker'.at # "none" =>
          worker.at # "none" /\ worker'.at # "start" /\ kind = "exit thread"

LEMMA QueueRaises ==
  ASSUME IInv, NEW t \in Thread, NEW o \in Object, NEW kind \in Kind,
         Raise(t, kind, o), Happens(t, kind, o), MayRaise(t, kind)
  PROVE  QueueOK'
<1>0. queued \in Seq(EventType)
  BY DEF IInv, TypesOK
<1> PICK e \in EventType : /\ e.thread = t /\ e.kind = kind /\ e.object = o
                          /\ queued' = Append(queued, e)
  BY RaisedEvent
<1>1. /\ Len(queued) \in Nat /\ Len(queued') = Len(queued) + 1
      /\ queued'[Len(queued) + 1] = e
      /\ \A i \in 1..Len(queued) : queued'[i] = queued[i]
  BY <1>0, QueueRaised
<1>2. ASSUME NEW i \in 1..Len(queued) PROVE EventOK(i)'
  <2>1. EventOK(i) /\ queued'[i] = queued[i] /\ queued[i].kind # "shell code"
    BY <1>1 DEF IInv, QueueOK, MayRaise
  <2>2. queued[i].kind \in {"create thread", "exit thread"} => Changing(queued[i].object)
    BY DEF Changing, Waiting
  <2>3. \A k, p : Later(i, k, p)' <=> Later(i, k, p) \/ (e.kind = k /\ e.object = p)
    BY <1>0, RaisedLater
  <2>4. queued[i].kind = "create thread" =>
            /\ queued[i].object = queued[i].thread /\ queued[i].object # Main
            /\ queued[i].object \in alive'
    BY <2>1, <2>2 DEF EventOK, Happens
  <2>5. queued[i].kind = "exit thread" =>
            /\ queued[i].object = queued[i].thread /\ queued[i].object # Main
            /\ queued[i].object \notin alive'
    BY <2>1, <2>2 DEF EventOK, Happens
  <2>6. ASSUME NEW p, p = queued[i].object
        PROVE  /\ queued[i].kind = "load dll" => p \in Dll /\ (p \in dlls' \/ Later(i, "unload dll", p)')
               /\ queued[i].kind = "unload dll" => p \in Dll /\ (p \notin dlls' \/ Later(i, "load dll", p)')
    BY <2>1, <2>3, <2>6 DEF EventOK, Happens
  <2> QED
    BY <2>1, <2>4, <2>5, <2>6 DEF EventOK
<1>3. ASSUME NEW i, i = Len(queued) + 1 PROVE EventOK(i)'
  <2>1. queued'[i] = e /\ i = Len(queued')
    BY <1>0, <1>1, <1>3
  <2> QED
    BY <2>1 DEF EventOK, Happens, MayRaise
<1>4. \A i \in 1..Len(queued') : i \in 1..Len(queued) \/ i = Len(queued) + 1
  BY <1>0, QueueRaised
<1>5. worker'.at # "none" => /\ \A i \in 1..Len(queued') : queued'[i].kind = "exit thread"
                           /\ worker'.at # "start"
  <2>1. worker'.at # "none" =>
            worker.at # "none" /\ worker'.at # "start" /\ kind = "exit thread"
    BY DEF MayRaise
  <2>2. worker.at # "none" => \A i \in 1..Len(queued) : queued[i].kind = "exit thread"
    BY DEF IInv, QueueOK
  <2> QED
    BY <1>1, <1>4, <2>1, <2>2
<1> QED
  BY <1>2, <1>3, <1>4, <1>5 DEF QueueOK

\* One is continued.
LEMMA QueuePops ==
  ASSUME IInv, queued # <<>>, ContinueDebugEvent, alive' = alive, dlls' = dlls,
         to_unload' = to_unload,
         RestoreDllEnds \/ UNCHANGED <<phase, worker>>
  PROVE  QueueOK'
<1>0. queued \in Seq(EventType)
  BY DEF IInv, TypesOK
<1>1. /\ Len(queued) \in Nat /\ Len(queued) >= 1 /\ Len(queued') = Len(queued) - 1
      /\ \A i \in 1..Len(queued') : queued'[i] = queued[i + 1]
      /\ \A i \in 1..Len(queued') : /\ i \in 0..Len(queued') /\ i + 1 \in 1..Len(queued)
                                   /\ i + 1 = Len(queued) => i = Len(queued')
      /\ Len(queued) = 1 => queued' = <<>> /\ ~\E i \in 1..Len(queued') : TRUE
  BY <1>0, QueuePopped DEF ContinueDebugEvent
<1>2. CASE de.kind = "shell code"
  <2>1. Len(queued) = 1
    BY <1>2, HeadOK DEF EventOK
  <2> QED
    BY <1>1, <2>1 DEF QueueOK
<1>3. CASE de.kind # "shell code"
  <2>0. UNCHANGED <<phase, worker>>
    BY <1>3 DEF RestoreDllEnds
  <2>1. ASSUME NEW i \in 1..Len(queued') PROVE EventOK(i)'
    <3>1. i + 1 \in 1..Len(queued) /\ queued'[i] = queued[i + 1] /\ i \in 0..Len(queued')
      BY <1>1
    <3>2. EventOK(i + 1)
      BY <3>1 DEF IInv, QueueOK
    <3>3. \A kind, o : Later(i, kind, o)' <=> Later(i + 1, kind, o)
      BY <1>0, <3>1, PoppedLater DEF ContinueDebugEvent
    <3> QED
      BY <1>1, <1>3, <2>0, <3>1, <3>2, <3>3 DEF EventOK
  <2>2. worker.at = "start" => queued' = <<>>
    BY DEF IInv, QueueOK
  <2>3. ASSUME worker.at # "none", NEW i \in 1..Len(queued') PROVE queued'[i].kind = "exit thread"
    <3>1. i + 1 \in 1..Len(queued) /\ queued'[i] = queued[i + 1]
      BY <1>1
    <3>2. queued[i + 1].kind = "exit thread"
      BY <2>3, <3>1 DEF IInv, QueueOK
    <3> QED
      BY <3>1, <3>2
  <2> QED
    BY <2>0, <2>1, <2>2, <2>3 DEF QueueOK
<1> QED
  BY <1>2, <1>3

\* None comes and none goes.
LEMMA QueueStays ==
  ASSUME IInv, queued' = queued, alive' = alive, dlls' = dlls,
         \A i \in 1..Len(queued) : queued[i].kind = "shell code" =>
             phase' \in {"dlls", "failed"} /\ to_unload' = {},
         worker'.at # "none" => worker.at # "none" /\ worker'.at # "start"
  PROVE  QueueOK'
<1>1. ASSUME NEW i \in 1..Len(queued) PROVE EventOK(i)'
  <2>1. EventOK(i)
    BY DEF IInv, QueueOK
  <2>2. \A kind, o : Later(i, kind, o)' <=> Later(i, kind, o)
    BY DEF Later
  <2> QED
    BY <2>1, <2>2 DEF EventOK
<1> QED
  BY <1>1 DEF IInv, QueueOK

\* The int3 of the shell code is met in the first loop only.
LEMMA NoShellCode ==
  ASSUME IInv, phase \notin {"dlls", "failed"} \/ to_unload # {} \/ ~Waits(Main)
  PROVE  \A i \in 1..Len(queued) : queued[i].kind # "shell code"
BY DEF IInv, QueueOK, EventOK, Waits

\* An event about a thread is that thread's.
LEMMA ChangingWaits ==
  ASSUME IInv, NEW t, Changing(t)
  PROVE  Waits(t)
<1>1. PICK i \in 1..Len(queued) : queued[i].kind \in {"create thread", "exit thread"}
                                  /\ queued[i].object = t
  BY DEF Changing, Waiting
<1>2. EventOK(i)
  BY DEF IInv, QueueOK
<1> QED
  BY <1>1, <1>2 DEF EventOK, Waits

----------------------------------------------------------------------------
(* What most steps leave alone.                                            *)

\* Nothing comes or goes, and nothing is recorded.
LEMMA NothingMoves ==
  ASSUME IInv, UNCHANGED <<alive, dlls, queued, tracking, run_id, snapshots>>,
         run_sequence' \in Nat, run_sequence <= run_sequence',
         phase' = "recording" => phase = "recording"
  PROVE  /\ HistoriesOK' /\ SnapshotsOK' /\ MainOK' /\ DOMAIN history' = Object
         /\ AllKnown => AllKnown'
         /\ DllsKnown => DllsKnown'
         /\ AllPresent => AllPresent'
<1> USE DEF tracking
<1>1. /\ HistoriesOK' /\ SnapshotsOK'
      /\ \A o \in Object : SameNow(o)
  BY NothingRecorded
<1>2. MainOK' /\ DOMAIN history' = Object
  BY DEF IInv, MainOK, TypesOK
<1>3. \A kinds, o : Waiting(kinds, o)' <=> Waiting(kinds, o)
  BY DEF Waiting
<1>4. ASSUME AllKnown PROVE AllKnown'
  <2>1. ASSUME NEW t \in Thread \ missed PROVE Changing(t)' \/ Known(t)'
    <3>1. SameNow(t)
      BY <1>1 DEF Object
    <3> QED
      BY <1>3, <1>4, <3>1 DEF AllKnown, Changing, Known, SameNow
  <2> QED
    BY <2>1 DEF AllKnown
<1>5. ASSUME DllsKnown PROVE DllsKnown'
  <2>1. ASSUME NEW d \in dlls \ missed PROVE Waiting({"load dll"}, d)' \/ d \in Loaded(Now)'
    <3>1. d \in Object
      BY DEF IInv, TypesOK, Object
    <3> QED
      BY <1>1, <1>3, <1>5, <3>1 DEF DllsKnown, SameNow
  <2> QED
    BY <2>1 DEF DllsKnown
<1>6. ASSUME AllPresent PROVE AllPresent'
  <2>1. ASSUME NEW o \in (Loaded(Now) \ Hidden(Now))' PROVE Present(o)'
    <3>1. o \in Object
      BY DEF Loaded, LoadedAt
    <3>2. o \in Loaded(Now) \ Hidden(Now)
      BY <1>1, <3>1 DEF SameNow
    <3> QED
      BY <1>3, <1>6, <3>2 DEF AllPresent, Present
  <2> QED
    BY <2>1 DEF AllPresent
<1> QED
  BY <1>1, <1>2, <1>4, <1>5, <1>6

\* Nothing comes or goes while a restore goes on.
LEMMA RestoreGoesOn ==
  ASSUME IInv, UNCHANGED <<alive, dlls, queued, tracking, clock, target, to_unload>>,
         Restoring, phase' # "recording", DllsGoing
  PROVE  DllsGoing'
<1>1. /\ \A v \in DOMAIN snapshots : Loaded(v)' = Loaded(v)
      /\ target \in DOMAIN snapshots
  <2>1. run_sequence' \in Nat /\ run_sequence <= run_sequence'
    BY DEF IInv, TypesOK, clock
  <2>2. UNCHANGED <<history, snapshots, run_id>>
    BY DEF tracking, clock
  <2> QED
    BY <2>1, <2>2, NothingRecorded DEF IInv, PhasesOK
<1>2. Loaded(target)' = Loaded(target)
  BY <1>1
<1>3. \A kinds, o : Waiting(kinds, o)' <=> Waiting(kinds, o)
  BY DEF Waiting
<1> QED
  BY <1>2, <1>3 DEF DllsGoing, tracking

LEMMA RaiseWaits ==
  ASSUME IInv, NEW t \in Thread, NEW o \in Object,
         NEW kind \in Kind,
         Raise(t, kind, o)
  PROVE  /\ queued' \in Seq(EventType)
         /\ \A kinds, p : Waiting(kinds, p)' <=> Waiting(kinds, p) \/ (kind \in kinds /\ o = p)
<1> DEFINE e == Event(t, kind, o)
<1>1. e \in EventType /\ e.kind = kind /\ e.object = o
  BY EventTyped
<1>2. queued \in Seq(EventType) /\ queued' = Append(queued, e)
  BY ClockTyped DEF Raise
<1> HIDE DEF e
<1>3. queued' \in Seq(EventType)
  BY <1>1, <1>2, QueueRaised
<1>4. \A kinds, p : Waiting(kinds, p)' <=> Waiting(kinds, p) \/ (e.kind \in kinds /\ e.object = p)
  BY <1>1, <1>2, RaisedWaits
<1> QED
  BY <1>1, <1>3, <1>4

ProgramKind == Kind \ {"shell code"}

\* The program does something that an event tells of.
LEMMA ProgramRaises ==
  ASSUME IInv, NEW t \in Thread, NEW o \in Object, NEW kind \in ProgramKind,
         Raise(t, kind, o), Happens(t, kind, o), Running, UnchangedDebugger, context' = context
  PROVE  IInv'
<1>1. /\ UNCHANGED <<history, current_thread_ids, missed, run_id, run_sequence, snapshots>>
      /\ UNCHANGED <<phase, next_phase, target, to_unload, worker>>
  BY DEF UnchangedDebugger, tracking, clock, restoring
<1>2. phase \in {"recording", "reconstruction", "resume"} /\ worker.at = "none"
  BY DEF Running, IInv, PhasesOK
<1>3. /\ queued' \in Seq(EventType)
      /\ \A kinds, p : Waiting(kinds, p)' <=> Waiting(kinds, p) \/ (kind \in kinds /\ o = p)
  BY RaiseWaits DEF ProgramKind
<1>4. /\ HistoriesOK' /\ SnapshotsOK'
      /\ \A p \in Object : SameNow(p)
  <2>1. run_sequence' \in Nat /\ run_sequence <= run_sequence'
    BY ClockTyped DEF UnchangedDebugger, clock
  <2> QED
    BY <1>1, <2>1, NothingRecorded
<1>5. TypesOK'
  BY <1>1, <1>3 DEF IInv, TypesOK, Happens, Object
<1>6. PhasesOK'
  BY <1>1 DEF IInv, PhasesOK, Restoring
<1>7. MainOK'
  BY <1>1 DEF IInv, MainOK, Happens
<1>8. QueueOK'
  <2>1. \A i \in 1..Len(queued) : queued[i].kind # "shell code"
    BY <1>2, NoShellCode
  <2>2. worker'.at = "none"
    BY <1>1, <1>2
  <2> QED
    BY <2>1, <2>2, QueueRaises DEF MayRaise, ProgramKind
<1>9. ThreadsOK'
  <2>1. AllKnown
    BY <1>2 DEF IInv, ThreadsOK
  <2>2. ASSUME NEW u \in Thread \ missed PROVE Changing(u)' \/ Known(u)'
    <3>1. SameNow(u)
      BY <1>4 DEF Object
    <3>2. CASE u \in alive' <=> u \in alive
      BY <1>1, <1>3, <2>1, <3>1, <3>2 DEF AllKnown, Changing, Known, SameNow
    <3>3. CASE ~(u \in alive' <=> u \in alive)
      BY <1>3, <3>3 DEF Changing, Happens
    <3> QED
      BY <3>2, <3>3
  <2> QED
    BY <1>1, <2>2 DEF ThreadsOK, AllKnown
<1>10. DllsOK'
  <2>1. DllsKnown
    BY <1>2 DEF IInv, DllsOK, PhasesOK
  <2>2. ASSUME NEW d \in dlls' \ missed PROVE Waiting({"load dll"}, d)' \/ d \in Loaded(Now)'
    <3>1. SameNow(d)
      BY <1>4 DEF IInv, TypesOK, Object, Happens
    <3> QED
      BY <1>3, <2>1, <3>1 DEF DllsKnown, SameNow, Happens
  <2> QED
    BY <1>1, <2>2 DEF DllsOK, DllsKnown
<1>11. NextSnapshotOK'
  <2>1. ASSUME AllPresent, NEW p \in (Loaded(Now) \ Hidden(Now))' PROVE Present(p)'
    <3>1. p \in Object
      BY DEF Loaded, LoadedAt
    <3>2. p \in Loaded(Now) \ Hidden(Now)
      BY <1>4, <3>1 DEF SameNow
    <3>3. Present(p)
      BY <2>1, <3>2 DEF AllPresent
    <3>4. CASE p \in Thread
      BY <1>1, <3>3, <3>4 DEF Present
    <3>5. CASE p \notin Thread
      BY <1>1, <1>3, <3>3, <3>5 DEF Present, Happens
    <3> QED
      BY <3>4, <3>5
  <2> QED
    BY <1>1, <2>1 DEF IInv, NextSnapshotOK, AllPresent
<1>12. DllsRestoreOK' /\ ThreadsRestoreOK'
  BY <1>1, <1>2 DEF DllsRestoreOK, ThreadsRestoreOK, Restoring
<1> QED
  BY <1>4, <1>5, <1>6, <1>7, <1>8, <1>9, <1>10, <1>11, <1>12 DEF IInv

----------------------------------------------------------------------------
(* The program.                                                            *)

LEMMA RunsFree ==
  ASSUME IInv, NEW t \in Thread, ~Waits(t)
  PROVE  ~Changing(t)
BY ChangingWaits

LEMMA WorkKeeps ==
  ASSUME IInv, NEW t \in Thread, Work(t)
  PROVE  IInv'
<1>1. /\ UNCHANGED <<alive, dlls, queued, tracking, run_id, snapshots>>
      /\ UNCHANGED <<phase, next_phase, target, to_unload, worker, run_sequence>>
  BY DEF Work, UnchangedDebugger, clock, restoring
<1>2. phase \in {"recording", "reconstruction", "resume"} /\ worker.at = "none"
  BY DEF Work, Runs, Running, IInv, PhasesOK
<1>3. run_sequence' \in Nat /\ run_sequence <= run_sequence'
  BY <1>1, ClockTyped
<1>4. /\ HistoriesOK' /\ SnapshotsOK' /\ MainOK' /\ DOMAIN history' = Object
      /\ AllKnown => AllKnown'
      /\ DllsKnown => DllsKnown'
      /\ AllPresent => AllPresent'
  BY <1>1, <1>3, NothingMoves
<1>5. TypesOK'
  <2>1. context' \in [Thread -> Nat]
    BY DEF Work, Context, IInv, TypesOK
  <2> QED
    BY <1>1, <2>1 DEF IInv, TypesOK, tracking
<1>6. PhasesOK'
  BY <1>1 DEF IInv, PhasesOK, Restoring
<1>7. QueueOK'
  <2>1. \A i \in 1..Len(queued) : queued[i].kind # "shell code"
    BY <1>2, NoShellCode
  <2> QED
    BY <1>1, <1>2, <2>1, QueueStays
<1>8. ThreadsOK' /\ DllsOK' /\ NextSnapshotOK' /\ DllsRestoreOK' /\ ThreadsRestoreOK'
  BY <1>1, <1>2, <1>4 DEF IInv, ThreadsOK, DllsOK, NextSnapshotOK, DllsRestoreOK,
                          ThreadsRestoreOK, Restoring
<1> QED
  BY <1>4, <1>5, <1>6, <1>7, <1>8 DEF IInv

LEMMA CreateThreadKeeps ==
  ASSUME IInv, NEW t \in Thread, NEW u \in Thread \ {Main}, CreateThread(t, u)
  PROVE  IInv'
<1>1. Raise(u, "create thread", u) /\ Running /\ UnchangedDebugger /\ context' = context
  BY DEF CreateThread, Runs
<1>2. Happens(u, "create thread", u)
  BY RunsFree DEF CreateThread, Happens
<1>3. u \in Thread /\ u \in Object /\ "create thread" \in ProgramKind
  BY DEF Object, ProgramKind, Kind
<1> QED
  BY <1>1, <1>2, <1>3, ProgramRaises

LEMMA ExitThreadKeeps ==
  ASSUME IInv, NEW t \in Thread, ExitThread(t)
  PROVE  IInv'
<1>1. Raise(t, "exit thread", t) /\ Running /\ UnchangedDebugger /\ context' = context
  BY DEF ExitThread, Runs
<1>2. Happens(t, "exit thread", t)
  BY RunsFree DEF ExitThread, Runs, Happens
<1>3. t \in Object /\ "exit thread" \in ProgramKind
  BY DEF Object, ProgramKind, Kind
<1> QED
  BY <1>1, <1>2, <1>3, ProgramRaises

LEMMA DllKeeps ==
  ASSUME IInv, NEW t \in Thread, NEW d \in Dll, LoadDll(t, d) \/ UnloadDll(t, d)
  PROVE  IInv'
<1>1. d \in Object /\ "load dll" \in ProgramKind /\ "unload dll" \in ProgramKind
  BY DEF Object, ProgramKind, Kind
<1>2. CASE LoadDll(t, d)
  <2>1. Raise(t, "load dll", d) /\ Running /\ UnchangedDebugger /\ context' = context
    BY <1>2 DEF LoadDll, Runs
  <2>2. Happens(t, "load dll", d)
    BY <1>2 DEF LoadDll, Happens
  <2> QED
    BY <1>1, <2>1, <2>2, ProgramRaises
<1>3. CASE UnloadDll(t, d)
  <2>1. Raise(t, "unload dll", d) /\ Running /\ UnchangedDebugger /\ context' = context
    BY <1>3 DEF UnloadDll, Runs
  <2>2. Happens(t, "unload dll", d)
    BY <1>3 DEF UnloadDll, Happens
  <2> QED
    BY <1>1, <2>1, <2>2, ProgramRaises
<1> QED
  BY <1>2, <1>3

LEMMA StopKeeps ==
  ASSUME IInv, NEW t \in Thread, NEW kind \in {"entry point", "return"}, Stop(t, kind)
  PROVE  IInv'
<1>1. Raise(t, kind, t) /\ Running /\ UnchangedDebugger /\ context' = context
  BY DEF Stop, Runs
<1>2. Happens(t, kind, t)
  BY DEF Stop, Happens
<1>3. t \in Object /\ kind \in ProgramKind
  BY DEF Object, ProgramKind, Kind
<1> QED
  BY <1>1, <1>2, <1>3, ProgramRaises

LEMMA ProgramKeeps ==
  ASSUME IInv, Program
  PROVE  IInv'
BY WorkKeeps, CreateThreadKeeps, ExitThreadKeeps, DllKeeps, StopKeeps DEF Program

----------------------------------------------------------------------------
(* The steps that leave the debuggee and the histories alone.              *)

LEMMA StutterKeeps ==
  ASSUME IInv, UNCHANGED vars
  PROVE  IInv'
<1>1. UNCHANGED <<alive, dlls, context, queued, phase, next_phase, history, current_thread_ids,
                  missed, run_id, run_sequence, snapshots, target, to_unload, worker>>
  BY DEF vars, debuggee, tracking, clock, restoring
<1>2. /\ run_sequence' \in Nat /\ run_sequence <= run_sequence' /\ tracking' = tracking
      /\ phase' = "recording" => phase = "recording"
  BY <1>1, ClockTyped DEF tracking
<1>3. /\ HistoriesOK' /\ SnapshotsOK' /\ MainOK' /\ DOMAIN history' = Object
      /\ AllKnown => AllKnown'
      /\ DllsKnown => DllsKnown'
      /\ AllPresent => AllPresent'
  BY <1>1, <1>2, NothingMoves
<1>4. TypesOK' /\ PhasesOK'
  BY <1>1 DEF IInv, TypesOK, PhasesOK, Restoring
<1>5. QueueOK'
  <2>1. \A i, kind, o : Later(i, kind, o)' <=> Later(i, kind, o)
    BY <1>1 DEF Later
  <2>2. ASSUME NEW i \in 1..Len(queued) PROVE EventOK(i)'
    BY <1>1, <2>1 DEF IInv, QueueOK, EventOK
  <2> QED
    BY <1>1, <2>2 DEF IInv, QueueOK
<1>6. ThreadsOK' /\ DllsOK' /\ NextSnapshotOK'
  BY <1>1, <1>3 DEF IInv, ThreadsOK, DllsOK, NextSnapshotOK
<1>7. /\ \A kinds, o : Waiting(kinds, o)' <=> Waiting(kinds, o)
      /\ \A o : Loaded(target)' = Loaded(target) /\ Saved(o, target)' = Saved(o, target)
  BY <1>1 DEF Waiting, Loaded, LoadedAt, Saved, StateAt
<1>8. DllsRestoreOK'
  <2>1. DllsGoing => DllsGoing'
    BY <1>1, <1>7 DEF DllsGoing
  <2> QED
    BY <1>1, <2>1 DEF IInv, DllsRestoreOK, Restoring
<1>9. ThreadsRestoreOK'
  <2>1. ASSUME NEW t \in Thread, Restored(t) PROVE Restored(t)'
    <3>1. Changing(t)' <=> Changing(t)
      BY <1>7 DEF Changing
    <3> QED
      BY <1>1, <1>7, <2>1, <3>1 DEF Restored
  <2>2. AllRestored => AllRestored'
    BY <1>1, <2>1 DEF AllRestored
  <2> QED
    BY <1>1, <2>2 DEF IInv, ThreadsRestoreOK
<1> QED
  BY <1>3, <1>4, <1>5, <1>6, <1>8, <1>9 DEF IInv

LEMMA CallBeginsKeeps ==
  ASSUME IInv, CallBegins
  PROVE  IInv'
<1>1. /\ UNCHANGED <<alive, dlls, context, queued, tracking, run_id, snapshots>>
      /\ UNCHANGED <<phase, next_phase, target, to_unload, worker>>
      /\ phase = "recording"
  BY DEF CallBegins, debuggee, restoring
<1>2. run_sequence' \in Nat /\ run_sequence <= run_sequence' /\ run_sequence' >= 1
  BY ClockTyped DEF CallBegins
<1>3. /\ HistoriesOK' /\ SnapshotsOK' /\ MainOK' /\ DOMAIN history' = Object
      /\ AllKnown => AllKnown'
      /\ DllsKnown => DllsKnown'
  BY <1>1, <1>2, NothingMoves
<1>4. worker.at = "none"
  BY <1>1 DEF IInv, PhasesOK
<1>5. TypesOK'
  BY <1>1, <1>2 DEF IInv, TypesOK, tracking
<1>6. PhasesOK'
  BY <1>1, <1>2 DEF IInv, PhasesOK, Restoring
<1>7. QueueOK'
  <2>1. \A i \in 1..Len(queued) : queued[i].kind # "shell code"
    BY <1>1, NoShellCode
  <2> QED
    BY <1>1, <1>4, <2>1, QueueStays
<1>8. ThreadsOK' /\ DllsOK' /\ NextSnapshotOK' /\ DllsRestoreOK' /\ ThreadsRestoreOK'
  BY <1>1, <1>3, <1>4 DEF IInv, ThreadsOK, DllsOK, NextSnapshotOK, DllsRestoreOK,
                          ThreadsRestoreOK, Restoring
<1> QED
  BY <1>3, <1>5, <1>6, <1>7, <1>8 DEF IInv

\* The user's commands, but for those that start a restore.
LEMMA CommandKeeps ==
  ASSUME IInv, ResumeCommand \/ UserStop
  PROVE  IInv'
<1>1. /\ UNCHANGED <<alive, dlls, context, queued, tracking, clock>>
      /\ UNCHANGED <<next_phase, target, to_unload, worker>>
      /\ phase \in {"debugger", "resume"} /\ phase' \in {"debugger", "resume"}
  BY DEF ResumeCommand, UserStop, debuggee, restoring
<1>2. run_sequence' \in Nat /\ run_sequence <= run_sequence' /\ UNCHANGED <<run_id, snapshots>>
  BY <1>1, ClockTyped DEF clock
<1>3. /\ HistoriesOK' /\ SnapshotsOK' /\ MainOK' /\ DOMAIN history' = Object
      /\ AllKnown => AllKnown'
      /\ DllsKnown => DllsKnown'
  BY <1>1, <1>2, NothingMoves
<1>4. worker.at = "none"
  BY <1>1 DEF IInv, PhasesOK
<1>5. TypesOK'
  BY <1>1 DEF IInv, TypesOK, tracking, clock
<1>6. PhasesOK'
  BY <1>1, <1>4 DEF IInv, PhasesOK, Restoring
<1>7. QueueOK'
  <2>1. \A i \in 1..Len(queued) : queued[i].kind # "shell code"
    BY <1>1, NoShellCode
  <2> QED
    BY <1>1, <1>4, <2>1, QueueStays
<1>8. ThreadsOK' /\ DllsOK' /\ NextSnapshotOK' /\ DllsRestoreOK' /\ ThreadsRestoreOK'
  BY <1>1, <1>3, <1>4 DEF IInv, ThreadsOK, DllsOK, NextSnapshotOK, DllsRestoreOK,
                          ThreadsRestoreOK, Restoring
<1> QED
  BY <1>3, <1>5, <1>6, <1>7, <1>8 DEF IInv

\* A restore starts: what the snapshot did not have is to be unloaded.
LEMMA EnterKeeps ==
  ASSUME IInv, phase \in {"recording", "debugger"}, NEW v \in DOMAIN snapshots,
         NEW next \in {"reconstruction", "debugger"}, next = "reconstruction" => v = <<0, 0>>,
         Enter(v, next)
  PROVE  IInv'
<1>1. /\ UNCHANGED <<alive, dlls, queued, tracking, clock>>
      /\ target' = v /\ to_unload' = dlls_to_free(v) /\ worker' = NoWorker
      /\ context' = [context EXCEPT ![Main] = ShellCode]
      /\ phase' = "dlls" /\ next_phase' = next
  BY DEF Enter
<1>2. /\ run_sequence' \in Nat /\ run_sequence <= run_sequence'
      /\ UNCHANGED <<run_id, snapshots, history>>
  BY <1>1, ClockTyped DEF clock, tracking
<1>3. /\ HistoriesOK' /\ SnapshotsOK' /\ MainOK' /\ DOMAIN history' = Object
      /\ AllKnown => AllKnown'
  BY <1>1, <1>2, NothingMoves
<1>4. worker'.at = "none" /\ worker' \in WorkerType
  BY <1>1, TimeRestoreAssumption DEF NoWorker, WorkerType
<1>5. TypesOK'
  <2>1. context' \in [Thread -> Nat]
    BY <1>1 DEF IInv, TypesOK, ShellCode
  <2>2. to_unload' \subseteq Dll
    BY <1>1 DEF dlls_to_free
  <2> QED
    BY <1>1, <1>4, <2>1, <2>2 DEF IInv, TypesOK, tracking, clock
<1>6. PhasesOK'
  BY <1>1, <1>2, <1>4 DEF PhasesOK, Restoring
<1>7. QueueOK'
  <2>1. \A i \in 1..Len(queued) : queued[i].kind # "shell code"
    BY NoShellCode
  <2> QED
    BY <1>1, <1>4, <2>1, QueueStays
<1>8. ThreadsOK'
  BY <1>3 DEF IInv, ThreadsOK
<1>9. DllsRestoreOK'
  <2>1. DllsKnown
    BY DEF IInv, DllsOK
  <2>2. \A w \in DOMAIN snapshots : Loaded(w)' = Loaded(w)
    BY <1>1, <1>2, NothingRecorded
  <2>3. \A kinds, o : Waiting(kinds, o)' <=> Waiting(kinds, o)
    BY <1>1 DEF Waiting
  <2>4. ASSUME NEW d \in dlls' \ missed'
        PROVE  d \in to_unload' \/ Waiting({"load dll"}, d)' \/ d \in Loaded(target)'
    <3>1. d \in dlls \ missed /\ d \in Dll
      BY <1>1 DEF tracking, IInv, TypesOK
    <3>2. Loaded(target)' = Loaded(v)'
      BY <1>1 DEF Loaded
    <3>3. d \in Loaded(Now) => d \in to_unload' \/ d \in Loaded(v)
      BY <1>1, <3>1 DEF dlls_to_free, Now, Loaded
    <3> QED
      BY <2>1, <2>2, <2>3, <3>1, <3>2, <3>3 DEF DllsKnown
  <2> QED
    BY <2>4 DEF DllsRestoreOK, DllsGoing
<1>10. DllsOK' /\ NextSnapshotOK' /\ ThreadsRestoreOK'
  BY <1>1 DEF DllsOK, NextSnapshotOK, ThreadsRestoreOK
<1> QED
  BY <1>3, <1>5, <1>6, <1>7, <1>8, <1>9, <1>10 DEF IInv

LEMMA RestoreStarts ==
  ASSUME IInv, EndRecording \/ \E v \in DOMAIN snapshots : SnapshotCommand(v)
  PROVE  IInv'
<1>1. <<0, 0>> \in DOMAIN snapshots
  BY DEF IInv, SnapshotsOK
<1>2. CASE EndRecording
  BY <1>1, <1>2, EnterKeeps DEF EndRecording
<1>3. ASSUME NEW v \in DOMAIN snapshots, SnapshotCommand(v) PROVE IInv'
  BY <1>3, EnterKeeps DEF SnapshotCommand
<1> QED
  BY <1>2, <1>3

----------------------------------------------------------------------------
(* The two loops of a restore.                                             *)

LEMMA RestoreFailsKeeps ==
  ASSUME IInv, RestoreFails
  PROVE  IInv'
<1>1. /\ UNCHANGED <<alive, dlls, context, queued, tracking, clock>>
      /\ UNCHANGED <<next_phase, target, to_unload, worker>>
      /\ phase \in {"dlls", "threads"} /\ phase' = "failed" /\ queued # <<>>
      /\ ~Goes
  BY DEF RestoreFails, Takes, debuggee, restoring
<1>2. run_sequence' \in Nat /\ run_sequence <= run_sequence' /\ UNCHANGED <<run_id, snapshots>>
  BY <1>1, ClockTyped DEF clock
<1>3. /\ HistoriesOK' /\ SnapshotsOK' /\ MainOK' /\ DOMAIN history' = Object
  BY <1>1, <1>2, NothingMoves
<1>4. worker.at = "none"
  <2>1. worker.at # "none" => de.kind = "exit thread"
    BY <1>1, HeadOK DEF IInv, QueueOK
  <2> QED
    BY <1>1, <2>1 DEF Goes
<1>5. TypesOK'
  BY <1>1 DEF IInv, TypesOK, tracking, clock
<1>6. PhasesOK'
  BY <1>1, <1>4 DEF IInv, PhasesOK, Restoring
<1>7. QueueOK'
  <2>1. \A i \in 1..Len(queued) : queued[i].kind = "shell code" => to_unload = {}
    BY DEF IInv, QueueOK, EventOK
  <2> QED
    BY <1>1, <1>4, <2>1, QueueStays
<1>8. ThreadsOK' /\ DllsOK' /\ NextSnapshotOK' /\ DllsRestoreOK' /\ ThreadsRestoreOK'
  BY <1>1, <1>4 DEF ThreadsOK, DllsOK, NextSnapshotOK, DllsRestoreOK, ThreadsRestoreOK, Restoring
<1> QED
  BY <1>3, <1>5, <1>6, <1>7, <1>8 DEF IInv

\* The threads that are back stay back while the worker goes on.
LEMMA RestoredStay ==
  ASSUME IInv, UNCHANGED <<alive, context, queued, tracking, clock, target>>,
         Restoring, phase' # "recording", worker' = worker \/ WorkerEnds, AllRestored
  PROVE  AllRestored'
<1>1. /\ Loaded(target)' = Loaded(target)
      /\ \A o \in Object : Saved(o, target)' = Saved(o, target)
  <2>1. run_sequence' \in Nat /\ run_sequence <= run_sequence' /\ UNCHANGED <<history, snapshots, run_id>>
    BY ClockTyped DEF clock, tracking
  <2>2. \A v \in DOMAIN snapshots :
            Loaded(v)' = Loaded(v) /\ \A o \in Object : Saved(o, v)' = Saved(o, v)
    BY <2>1, NothingRecorded
  <2>3. target \in DOMAIN snapshots
    BY DEF IInv, PhasesOK
  <2> QED
    BY <2>2, <2>3
<1>2. \A kinds, o : Waiting(kinds, o)' <=> Waiting(kinds, o)
  BY DEF Waiting
<1>3. worker'.leftover = worker.leftover
  BY DEF WorkerEnds, IInv, TypesOK, WorkerType
<1>4. worker.at = "untrack" => worker' = worker
  BY DEF WorkerEnds
<1>5. ASSUME NEW t \in Thread \ missed PROVE Restored(t)'
  <2>1. Restored(t)
    BY <1>5 DEF AllRestored
  <2>2. Saved(t, target)' = Saved(t, target)
    BY <1>1 DEF Object
  <2>3. t \in alive' => /\ t \in current_thread_ids'
                        /\ t \in worker'.leftover \/ t \in Loaded(target)'
                        /\ t \in Loaded(target)' => context'[t] = Saved(t, target)'.context
    BY <1>1, <1>3, <2>1, <2>2 DEF Restored, tracking
  <2>4. t \in current_thread_ids' =>
            t \in alive' \/ Changing(t)' \/ (worker'.at = "untrack" /\ t = worker'.victim)
    BY <1>2, <1>4, <2>1 DEF Restored, tracking, Changing
  <2> QED
    BY <2>3, <2>4 DEF Restored
<1> QED
  BY <1>5 DEF AllRestored, tracking

\* The pump finds the queue empty, asks the worker, and the worker finds that
\* nothing is left to do.
LEMMA PumpKeeps ==
  ASSUME IInv, FindsNoEvent \/ AsksWorker \/ WorkerEnds
  PROVE  IInv'
<1>1. /\ UNCHANGED <<alive, dlls, context, queued, tracking, clock>>
      /\ UNCHANGED <<next_phase, target, to_unload>>
  BY DEF FindsNoEvent, AsksWorker, WorkerEnds, debuggee
<1>2. /\ worker' = worker \/ WorkerEnds
      /\ phase \in {"threads", "exit"} /\ phase' \in {"threads", "exit"}
      /\ phase' = "exit" => worker'.at = "ready"
      /\ worker.at # "none" /\ worker'.at # "none" /\ worker' \in WorkerType
      /\ worker.at = "start" <=> worker'.at = "start"
      /\ worker'.leftover = worker.leftover
      /\ worker'.at = "ready" => worker.at = "ready" \/ worker.leftover = {}
      /\ worker'.at = "untrack" => worker' = worker
  <2>1. CASE FindsNoEvent \/ AsksWorker
    BY <2>1 DEF FindsNoEvent, AsksWorker, IInv, TypesOK, PhasesOK
  <2>2. CASE WorkerEnds
    <3>1. /\ worker' = [worker EXCEPT !.at = "ready"] /\ worker.at = "terminate"
          /\ worker.leftover = {} /\ phase' = phase
      BY <2>2 DEF WorkerEnds
    <3>2. worker'.at = "ready" /\ worker'.leftover = worker.leftover /\ worker' \in WorkerType
      BY <3>1 DEF IInv, TypesOK, WorkerType
    <3> QED
      BY <2>2, <3>1, <3>2 DEF IInv, PhasesOK
  <2> QED
    BY <2>1, <2>2
<1>3. run_sequence' \in Nat /\ run_sequence <= run_sequence' /\ UNCHANGED <<run_id, snapshots>>
  BY <1>1, ClockTyped DEF clock
<1>4. /\ HistoriesOK' /\ SnapshotsOK' /\ MainOK' /\ DOMAIN history' = Object
      /\ AllKnown => AllKnown'
  BY <1>1, <1>2, <1>3, NothingMoves
<1>5. TypesOK'
  BY <1>1, <1>2 DEF IInv, TypesOK, tracking, clock
<1>6. PhasesOK'
  BY <1>1, <1>2 DEF IInv, PhasesOK, Restoring, clock
<1>7. QueueOK'
  <2>1. ASSUME NEW i \in 1..Len(queued) PROVE queued[i].kind # "shell code"
    BY <1>2, NoShellCode
  <2>2. CASE worker.at # "start"
    BY <1>1, <1>2, <2>1, <2>2, QueueStays
  <2>3. CASE worker.at = "start"
    <3>1. worker' = worker /\ queued = <<>>
      BY <1>2, <2>3 DEF WorkerEnds, IInv, QueueOK
    <3> QED
      BY <1>1, <3>1 DEF QueueOK
  <2> QED
    BY <2>2, <2>3
<1>8. ThreadsOK'
  BY <1>2, <1>4 DEF IInv, ThreadsOK
<1>9. DllsOK' /\ NextSnapshotOK'
  BY <1>2 DEF DllsOK, NextSnapshotOK
<1>10. DllsRestoreOK'
  <2>1. Restoring /\ phase' # "recording" /\ DllsGoing
    BY <1>2 DEF Restoring, IInv, DllsRestoreOK
  <2> QED
    BY <1>1, <2>1, RestoreGoesOn DEF DllsRestoreOK
<1>11. ThreadsRestoreOK'
  <2>1. CASE worker.at # "start"
    <3>1. /\ Main \notin worker.leftover
          /\ worker.at = "untrack" => worker.victim \notin alive /\ worker.victim # Main
          /\ worker.at = "ready" => worker.leftover = {}
          /\ AllRestored
      BY <1>2, <2>1 DEF IInv, ThreadsRestoreOK
    <3>2. AllRestored'
      BY <1>1, <1>2, <3>1, RestoredStay DEF Restoring
    <3> QED
      BY <1>1, <1>2, <3>1, <3>2 DEF ThreadsRestoreOK
  <2>2. CASE worker.at = "start"
    BY <1>2, <2>2 DEF ThreadsRestoreOK
  <2> QED
    BY <2>1, <2>2
<1> QED
  BY <1>4, <1>5, <1>6, <1>7, <1>8, <1>9, <1>10, <1>11 DEF IInv

----------------------------------------------------------------------------
(* An event is continued.                                                  *)

LEMMA LaterWaits ==
  ASSUME IInv, queued # <<>>, ContinueDebugEvent, NEW kind, NEW o, Later(1, kind, o)
  PROVE  Waiting({kind}, o)'
<1>1. queued \in Seq(EventType) /\ queued' = Tail(queued)
  BY ClockTyped DEF ContinueDebugEvent
<1>2. PICK j \in 1..Len(queued) : j > 1 /\ queued[j].kind = kind /\ queued[j].object = o
  BY DEF Later
<1>3. j - 1 \in 1..Len(queued') /\ queued'[j - 1] = queued[j]
  BY <1>1, <1>2, QueuePopped
<1> QED
  BY <1>2, <1>3 DEF Waiting

\* It says nothing of other objects.
LEMMA OthersWait ==
  ASSUME IInv, queued # <<>>, ContinueDebugEvent, NEW o, o # de.object \/ ~(Comes \/ Goes)
  PROVE  /\ Changing(o)' <=> Changing(o)
         /\ Waiting({"load dll"}, o)' <=> Waiting({"load dll"}, o)
         /\ Waiting({"unload dll"}, o)' <=> Waiting({"unload dll"}, o)
<1>1. queued \in Seq(EventType) /\ queued' = Tail(queued)
  BY ClockTyped DEF ContinueDebugEvent
<1>2. \A kinds : Waiting(kinds, o) <=> Waiting(kinds, o)' \/ (de.kind \in kinds /\ de.object = o)
  BY <1>1, PoppedWaits
<1> QED
  BY <1>2 DEF Changing, Comes, Goes

\* What comes or goes is not the main thread.
LEMMA HeadIsNotMain ==
  ASSUME IInv, queued # <<>>, Comes \/ Goes
  PROVE  de.object # Main
<1>1. EventOK(1) /\ de = queued[1]
  BY HeadOK
<1>2. Main \notin Dll
  BY TimeRestoreAssumption
<1> QED
  BY <1>1, <1>2 DEF EventOK, Comes, Goes

\* Nobody keeps track.
LEMMA DropKeeps ==
  ASSUME IInv, queued # <<>>, Drop, phase \in {"recording", "resume", "dlls"}
  PROVE  IInv'
<1>1. /\ UNCHANGED <<alive, dlls, context, phase, next_phase, history, current_thread_ids, clock>>
      /\ UNCHANGED <<target, to_unload, worker>>
      /\ ContinueDebugEvent
      /\ missed' = IF Comes \/ Goes THEN missed \cup {de.object} ELSE missed
  BY DEF Drop
<1>2. run_sequence' \in Nat /\ run_sequence <= run_sequence' /\ UNCHANGED <<run_id, snapshots>>
  BY <1>1, ClockTyped DEF clock
<1>3. /\ HistoriesOK' /\ SnapshotsOK'
      /\ \A o \in Object : SameNow(o)
      /\ \A v \in DOMAIN snapshots : Loaded(v)' = Loaded(v)
  BY <1>1, <1>2, NothingRecorded
<1>4. worker.at = "none"
  BY DEF IInv, PhasesOK
<1>5. TypesOK'
  <2>1. queued' \in Seq(EventType)
    BY <1>1, ClockTyped, QueuePopped DEF ContinueDebugEvent
  <2> QED
    BY <1>1, <2>1 DEF IInv, TypesOK, clock
<1>6. PhasesOK'
  BY <1>1, <1>2 DEF IInv, PhasesOK, Restoring, clock
<1>7. MainOK'
  BY <1>1, HeadIsNotMain DEF IInv, MainOK
<1>8. QueueOK'
  BY <1>1, QueuePops
<1>9. ASSUME NEW o, o \notin missed'
      PROVE  /\ o \notin missed
             /\ Changing(o)' <=> Changing(o)
             /\ Waiting({"load dll"}, o)' <=> Waiting({"load dll"}, o)
  <2>1. o \notin missed /\ (o # de.object \/ ~(Comes \/ Goes))
    BY <1>1, <1>9
  <2> QED
    BY <1>1, <2>1, OthersWait
<1>10. ThreadsOK'
  <2>1. AllKnown
    BY DEF IInv, ThreadsOK
  <2>2. ASSUME NEW t \in Thread \ missed' PROVE Changing(t)' \/ Known(t)'
    <3>1. SameNow(t)
      BY <1>3 DEF Object
    <3> QED
      BY <1>1, <1>9, <2>1, <3>1 DEF AllKnown, Known, SameNow
  <2> QED
    BY <2>2 DEF ThreadsOK, AllKnown
<1>11. DllsOK'
  <2>1. ASSUME DllsKnown, NEW d \in dlls' \ missed'
        PROVE  Waiting({"load dll"}, d)' \/ d \in Loaded(Now)'
    <3>1. SameNow(d) /\ d \in dlls
      BY <1>1, <1>3 DEF IInv, TypesOK, Object
    <3> QED
      BY <1>9, <2>1, <3>1 DEF DllsKnown, SameNow
  <2> QED
    BY <1>1, <2>1 DEF IInv, DllsOK, DllsKnown
<1>12. DllsRestoreOK'
  <2>1. ASSUME Restoring, NEW d \in dlls' \ missed'
        PROVE  d \in to_unload' \/ Waiting({"load dll"}, d)' \/ d \in Loaded(target)'
    <3>1. DllsGoing /\ target \in DOMAIN snapshots
      BY <2>1 DEF IInv, DllsRestoreOK, PhasesOK
    <3>2. Loaded(target)' = Loaded(target)
      BY <1>1, <1>3, <3>1
    <3> QED
      BY <1>1, <1>9, <3>1, <3>2 DEF DllsGoing
  <2> QED
    BY <1>1, <2>1 DEF DllsRestoreOK, DllsGoing, Restoring
<1>13. NextSnapshotOK' /\ ThreadsRestoreOK'
  BY <1>1 DEF NextSnapshotOK, ThreadsRestoreOK
<1> QED
  BY <1>3, <1>5, <1>6, <1>7, <1>8, <1>10, <1>11, <1>12, <1>13 DEF IInv

\* What a tracked event leaves recorded.
LEMMA EventTracked ==
  ASSUME IInv, queued # <<>>, TrackEvent
  PROVE  /\ HistoriesOK' /\ SnapshotsOK' /\ DOMAIN history' = Object
         /\ \A p \in Object : p # de.object \/ ~(Comes \/ Goes) => SameNow(p)
         /\ \A v \in DOMAIN snapshots :
               Loaded(v)' = Loaded(v) /\ \A p \in Object : Saved(p, v)' = Saved(p, v)
         /\ Comes => de.object \in Loaded(Now)'
         /\ Goes => de.object \notin (Loaded(Now) \ Hidden(Now))'
<1>1. /\ de \in EventType
      /\ UNCHANGED <<phase, run_id, run_sequence, snapshots>>
  BY HeadOK DEF TrackEvent, clock
<1>2. PICK o \in Object : o = de.object
  BY <1>1 DEF EventType
<1>3. run_sequence \in Nat /\ Behind(o, run_sequence)
  BY ClockTyped DEF Behind
<1>4. /\ Info(o, TRUE) \in Record /\ Info(o, TRUE).loaded
      /\ Missing \in Record /\ ~Missing.loaded
  BY <1>2, InfoTyped DEF IInv
<1>5. CASE Comes
  <2>1. RecordsOne(o, Info(o, TRUE), run_sequence)
    BY <1>2, <1>4, <1>5 DEF TrackEvent, Track, TrackAt, RecordsOne
  <2>2. /\ HistoriesOK' /\ SnapshotsOK' /\ DOMAIN history' = Object
        /\ Told(o, Info(o, TRUE))
        /\ \A p \in Object \ {o} : SameNow(p)
        /\ \A v \in DOMAIN snapshots :
               Loaded(v)' = Loaded(v) /\ \A p \in Object : Saved(p, v)' = Saved(p, v)
    BY <1>1, <1>2, <1>3, <1>4, <2>1, OneRecorded
  <2>3. o \in Loaded(Now)'
    BY <1>2, <1>4, <2>2, ViewsNow DEF Told
  <2>4. ~Goes
    BY <1>5 DEF Comes, Goes
  <2> QED
    BY <1>2, <1>5, <2>2, <2>3, <2>4
<1>6. CASE Goes
  <2>1. RecordsOne(o, Missing, run_sequence)
    BY <1>2, <1>4, <1>6 DEF TrackEvent, Untrack, UntrackAt, RecordsOne, Comes, Goes
  <2>2. /\ HistoriesOK' /\ SnapshotsOK' /\ DOMAIN history' = Object
        /\ Told(o, Missing)
        /\ \A p \in Object \ {o} : SameNow(p)
        /\ \A v \in DOMAIN snapshots :
               Loaded(v)' = Loaded(v) /\ \A p \in Object : Saved(p, v)' = Saved(p, v)
    BY <1>1, <1>2, <1>3, <1>4, <2>1, OneRecorded
  <2>3. o \notin (Loaded(Now) \ Hidden(Now))'
    BY <1>2, <1>4, <2>2, ViewsNow DEF Told
  <2>4. ~Comes
    BY <1>6 DEF Comes, Goes
  <2> QED
    BY <1>2, <1>6, <2>2, <2>3, <2>4
<1>7. CASE ~Comes /\ ~Goes
  <2>1. UNCHANGED history
    BY <1>7 DEF TrackEvent
  <2>2. /\ HistoriesOK' /\ SnapshotsOK'
        /\ \A p \in Object : SameNow(p)
        /\ \A v \in DOMAIN snapshots :
               Loaded(v)' = Loaded(v) /\ \A p \in Object : Saved(p, v)' = Saved(p, v)
    BY <1>1, <1>3, <2>1, NothingRecorded
  <2>3. DOMAIN history' = Object
    BY <2>1 DEF IInv, TypesOK
  <2> QED
    BY <1>7, <2>2, <2>3
<1> QED
  BY <1>5, <1>6, <1>7

\* What the head says comes or goes, and is then recorded so.
LEMMA TrackEventKeeps ==
  ASSUME IInv, queued # <<>>, TrackEvent, phase \in {"recording", "reconstruction", "threads"}
  PROVE  IInv'
<1>0. PICK o \in Object : o = de.object
  BY HeadOK DEF EventType
<1>1. /\ UNCHANGED <<alive, dlls, context, phase, next_phase, clock>>
      /\ UNCHANGED <<target, to_unload, worker>>
      /\ ContinueDebugEvent
      /\ missed' = IF Comes \/ Goes THEN missed \ {o} ELSE missed
      /\ current_thread_ids' = IF Comes THEN current_thread_ids \cup ({o} \cap Thread)
                               ELSE IF Goes THEN current_thread_ids \ {o}
                               ELSE current_thread_ids
  BY <1>0 DEF TrackEvent, Track, TrackAt, Untrack, UntrackAt
<1>2. /\ HistoriesOK' /\ SnapshotsOK' /\ DOMAIN history' = Object
      /\ \A p \in Object : p # o \/ ~(Comes \/ Goes) => SameNow(p)
      /\ \A v \in DOMAIN snapshots :
            Loaded(v)' = Loaded(v) /\ \A p \in Object : Saved(p, v)' = Saved(p, v)
      /\ Comes => o \in Loaded(Now)'
      /\ Goes => o \notin (Loaded(Now) \ Hidden(Now))'
  BY <1>0, EventTracked
<1>3. \A p : p # o \/ ~(Comes \/ Goes) =>
          /\ Changing(p)' <=> Changing(p)
          /\ Waiting({"load dll"}, p)' <=> Waiting({"load dll"}, p)
          /\ Waiting({"unload dll"}, p)' <=> Waiting({"unload dll"}, p)
  BY <1>0, <1>1, OthersWait
<1>4. /\ EventOK(1) /\ de = queued[1]
      /\ Thread \cap Dll = {}
  BY HeadOK, TimeRestoreAssumption
<1>5. /\ o \in Thread /\ Comes => o \in alive
      /\ o \in Thread /\ Goes => o \notin alive /\ de.kind = "exit thread"
  BY <1>0, <1>4 DEF EventOK, Comes, Goes
<1>6. /\ o \notin Thread /\ Comes => o \in dlls \/ Waiting({"unload dll"}, o)'
      /\ o \notin Thread /\ Goes => o \notin dlls \/ Waiting({"load dll"}, o)'
  <2>1. /\ de.kind = "create thread" => de.object \in Thread
        /\ de.kind = "exit thread" => de.object \in Thread
    BY <1>4, HeadOK DEF EventOK, EventType
  <2>2. /\ de.kind = "load dll" => de.object \in dlls \/ Later(1, "unload dll", de.object)
        /\ de.kind = "unload dll" => de.object \notin dlls \/ Later(1, "load dll", de.object)
    BY <1>4 DEF EventOK
  <2>3. ASSUME o \notin Thread, Comes PROVE o \in dlls \/ Later(1, "unload dll", o)
    BY <1>0, <2>1, <2>2, <2>3 DEF Comes
  <2>4. ASSUME o \notin Thread, Goes PROVE o \notin dlls \/ Later(1, "load dll", o)
    BY <1>0, <2>1, <2>2, <2>4 DEF Goes
  <2> QED
    BY <1>1, <2>3, <2>4, LaterWaits
<1>7. TypesOK'
  <2>1. queued' \in Seq(EventType)
    BY <1>1, ClockTyped, QueuePopped DEF ContinueDebugEvent
  <2> QED
    BY <1>1, <1>2, <2>1 DEF IInv, TypesOK, clock
<1>8. PhasesOK'
  BY <1>1 DEF IInv, PhasesOK, Restoring, clock
<1>9. MainOK'
  <2>1. Comes \/ Goes => o # Main
    BY <1>0, HeadIsNotMain
  <2> QED
    BY <1>1, <2>1 DEF IInv, MainOK
<1>10. QueueOK'
  BY <1>1, QueuePops
<1>11. ThreadsOK'
  <2>1. ASSUME AllKnown, NEW t \in Thread \ missed' PROVE Changing(t)' \/ Known(t)'
    <3>1. CASE t = o /\ Comes
      BY <1>1, <1>2, <1>5, <3>1 DEF Known
    <3>2. CASE t = o /\ Goes
      BY <1>1, <1>5, <3>2 DEF Known, Comes, Goes
    <3>3. CASE t # o \/ ~(Comes \/ Goes)
      <4>1. SameNow(t) /\ (Changing(t)' <=> Changing(t)) /\ t \notin missed
        BY <1>1, <1>2, <1>3, <3>3 DEF Object
      <4>2. t \in current_thread_ids' <=> t \in current_thread_ids
        BY <1>1, <3>3
      <4> QED
        BY <1>1, <2>1, <4>1, <4>2 DEF AllKnown, Known, SameNow
    <3> QED
      BY <3>1, <3>2, <3>3
  <2>2. worker.at = "start" => queued = <<>>
    BY DEF IInv, QueueOK
  <2> QED
    BY <1>1, <2>1, <2>2 DEF IInv, ThreadsOK, AllKnown
<1>12. DllsOK'
  <2>1. ASSUME DllsKnown, NEW d \in dlls' \ missed'
        PROVE  Waiting({"load dll"}, d)' \/ d \in Loaded(Now)'
    <3>1. d \in Dll /\ d \in Object /\ d \notin Thread /\ d \in dlls
      BY <1>1, <1>4 DEF IInv, TypesOK, Object
    <3>2. CASE d = o /\ (Comes \/ Goes)
      BY <1>2, <1>6, <3>1, <3>2
    <3>3. CASE d # o \/ ~(Comes \/ Goes)
      BY <1>1, <1>2, <1>3, <2>1, <3>1, <3>3 DEF DllsKnown, SameNow
    <3> QED
      BY <3>2, <3>3
  <2> QED
    BY <1>1, <2>1 DEF IInv, DllsOK, DllsKnown
<1>13. NextSnapshotOK'
  <2>1. ASSUME AllPresent, NEW p \in (Loaded(Now) \ Hidden(Now))' PROVE Present(p)'
    <3>1. p \in Object
      BY DEF Loaded, LoadedAt
    <3>2. CASE p = o /\ Comes
      <4>1. p \in Thread => p \in current_thread_ids'
        BY <1>1, <3>2
      <4>2. p \notin Thread => (p \in dlls' /\ p \notin missed') \/ Waiting({"unload dll"}, p)'
        BY <1>1, <1>6, <3>2
      <4> QED
        BY <4>1, <4>2 DEF Present
    <3>3. CASE p = o /\ Goes
      BY <1>2, <2>1, <3>3
    <3>4. CASE p # o \/ ~(Comes \/ Goes)
      <4>1. p \in Loaded(Now) \ Hidden(Now)
        BY <1>2, <2>1, <3>1, <3>4 DEF SameNow
      <4>2. Present(p)
        BY <2>1, <4>1 DEF AllPresent
      <4>3. /\ p \in current_thread_ids' <=> p \in current_thread_ids
            /\ p \in missed' <=> p \in missed
        BY <1>1, <3>4
      <4> QED
        BY <1>1, <1>3, <3>4, <4>2, <4>3 DEF Present
    <3> QED
      BY <3>2, <3>3, <3>4
  <2> QED
    BY <1>1, <2>1 DEF IInv, NextSnapshotOK, AllPresent
<1>14. ASSUME phase = "threads"
       PROVE  /\ o \in Thread /\ Goes /\ ~Comes /\ o \notin alive
              /\ Loaded(target)' = Loaded(target)
              /\ \A p \in Object : Saved(p, target)' = Saved(p, target)
  <2>1. de.kind = "exit thread"
    BY <1>14, HeadOK DEF IInv, PhasesOK, QueueOK
  <2>2. target \in DOMAIN snapshots
    BY <1>14 DEF IInv, PhasesOK, Restoring
  <2>3. o \in Thread /\ o \notin alive
    BY <1>0, <1>4, <2>1, HeadOK DEF EventOK, EventType
  <2> QED
    BY <1>1, <1>2, <2>1, <2>2, <2>3 DEF Comes, Goes
<1>15. DllsRestoreOK'
  <2>1. ASSUME phase = "threads", NEW d \in dlls' \ missed'
        PROVE  d \in to_unload' \/ Waiting({"load dll"}, d)' \/ d \in Loaded(target)'
    <3>1. d \in dlls /\ d # o
      BY <1>1, <1>4, <1>14, <2>1 DEF IInv, TypesOK
    <3>2. DllsGoing
      BY <2>1 DEF IInv, DllsRestoreOK, Restoring
    <3> QED
      BY <1>1, <1>3, <1>14, <2>1, <3>1, <3>2 DEF DllsGoing
  <2> QED
    BY <1>1, <2>1 DEF DllsRestoreOK, DllsGoing, Restoring
<1>16. ThreadsRestoreOK'
  <2>1. ASSUME phase = "threads", worker.at # "start", NEW t \in Thread \ missed'
        PROVE  Restored(t)'
    <3>1. CASE t = o
      BY <1>1, <1>14, <2>1, <3>1 DEF Restored
    <3>2. CASE t # o
      <4>1. Restored(t)
        BY <1>1, <2>1, <3>2 DEF IInv, ThreadsRestoreOK, AllRestored
      <4>2. /\ Changing(t)' <=> Changing(t)
            /\ t \in current_thread_ids' <=> t \in current_thread_ids
        BY <1>1, <1>3, <1>14, <2>1, <3>2
      <4>3. Loaded(target)' = Loaded(target) /\ Saved(t, target)' = Saved(t, target)
        BY <1>14, <2>1 DEF Object
      <4> QED
        BY <1>1, <4>1, <4>2, <4>3 DEF Restored
    <3> QED
      BY <3>1, <3>2
  <2> QED
    BY <1>1, <2>1 DEF IInv, ThreadsRestoreOK, AllRestored
<1> QED
  BY <1>2, <1>7, <1>8, <1>9, <1>10, <1>11, <1>12, <1>13, <1>15, <1>16 DEF IInv

LEMMA EventsKeep ==
  ASSUME IInv,
         RecordingEvent \/ ReconstructionEvent \/ ResumeEvent \/ RestoreDllEvent \/ RestoreThreadEvent
  PROVE  IInv'
BY DropKeeps, TrackEventKeeps
   DEF RecordingEvent, ReconstructionEvent, ResumeEvent, RestoreDllEvent, RestoreThreadEvent, Takes

----------------------------------------------------------------------------
(* The shell code and the worker.                                          *)

\* A DLL is unloaded, or the int3 at the end is reached.
LEMMA RunShellCodeKeeps ==
  ASSUME IInv, RunShellCode
  PROVE  IInv'
<1>1. /\ UNCHANGED <<alive, context, phase, next_phase, tracking, clock>>
      /\ UNCHANGED <<target, worker>>
      /\ phase = "dlls" /\ ~Waits(Main)
  BY DEF RunShellCode
<1>2. UNCHANGED <<history, current_thread_ids, missed, run_id, run_sequence, snapshots>>
  BY <1>1 DEF tracking, clock
<1>3. /\ HistoriesOK' /\ SnapshotsOK'
      /\ \A o \in Object : SameNow(o)
      /\ \A v \in DOMAIN snapshots : Loaded(v)' = Loaded(v)
  <2>1. run_sequence' \in Nat /\ run_sequence <= run_sequence'
    BY <1>2, ClockTyped
  <2> QED
    BY <1>1, <1>2, <2>1, NothingRecorded
<1>4. worker.at = "none" /\ worker'.at = "none"
  BY <1>1 DEF IInv, PhasesOK
<1>5. \A i \in 1..Len(queued) : queued[i].kind # "shell code"
  BY <1>1, NoShellCode
<1>6. Main \in Thread /\ Main \in Object /\ Dll \subseteq Object
      /\ "unload dll" \in Kind /\ "shell code" \in Kind
  BY TimeRestoreAssumption DEF Object, Kind
<1>7. /\ queued' \in Seq(EventType) /\ QueueOK'
      /\ \A kinds, o : Waiting(kinds, o) => Waiting(kinds, o)'
      /\ to_unload' \subseteq Dll /\ dlls' \subseteq dlls
      /\ \A d \in dlls' : d \in to_unload => d \in to_unload'
  <2>1. ASSUME NEW d \in to_unload, d \in dlls, dlls' = dlls \ {d}, to_unload' = to_unload \ {d},
               Raise(Main, "unload dll", d)
        PROVE  /\ queued' \in Seq(EventType) /\ QueueOK'
               /\ \A kinds, o : Waiting(kinds, o) => Waiting(kinds, o)'
    <3>1. d \in Object /\ d \in Dll
      BY <1>6 DEF IInv, TypesOK
    <3>2. Happens(Main, "unload dll", d)
      BY <1>1, <2>1, <3>1 DEF Happens
    <3>3. MayRaise(Main, "unload dll")
      BY <1>4, <1>5 DEF MayRaise
    <3>4. QueueOK'
      BY <1>6, <2>1, <3>1, <3>2, <3>3, QueueRaises
    <3>5. /\ queued' \in Seq(EventType)
          /\ \A kinds, o : Waiting(kinds, o)' <=> Waiting(kinds, o) \/ ("unload dll" \in kinds /\ d = o)
      BY <1>6, <2>1, <3>1, RaiseWaits
    <3> QED
      BY <3>4, <3>5
  <2>2. ASSUME NEW d \in to_unload, d \notin dlls, dlls' = dlls \ {d}, to_unload' = to_unload \ {d},
               queued' = queued
        PROVE  /\ queued' \in Seq(EventType) /\ QueueOK'
               /\ \A kinds, o : Waiting(kinds, o) => Waiting(kinds, o)'
    <3>1. dlls' = dlls
      BY <2>2
    <3>2. QueueOK'
      BY <1>1, <1>4, <1>5, <2>2, <3>1, QueueStays
    <3> QED
      BY <2>2, <3>2, ClockTyped DEF Waiting
  <2>3. ASSUME to_unload = {}, Raise(Main, "shell code", Main), UNCHANGED <<dlls, to_unload>>
        PROVE  /\ queued' \in Seq(EventType) /\ QueueOK'
               /\ \A kinds, o : Waiting(kinds, o) => Waiting(kinds, o)'
    <3>1. Happens(Main, "shell code", Main)
      BY <1>1, <2>3 DEF Happens
    <3>2. MayRaise(Main, "shell code")
      BY <1>1, <1>4, <1>5, <2>3 DEF MayRaise
    <3>3. QueueOK'
      BY <1>6, <2>3, <3>1, <3>2, QueueRaises
    <3>4. /\ queued' \in Seq(EventType)
          /\ \A kinds, o : Waiting(kinds, o)' <=> Waiting(kinds, o) \/ ("shell code" \in kinds /\ Main = o)
      BY <1>6, <2>3, RaiseWaits
    <3> QED
      BY <3>3, <3>4
  <2>4. CASE \E d \in to_unload :
                /\ to_unload' = to_unload \ {d}
                /\ dlls' = dlls \ {d}
                /\ IF d \in dlls THEN Raise(Main, "unload dll", d) ELSE UNCHANGED queued
    <3>1. PICK d \in to_unload :
                /\ to_unload' = to_unload \ {d}
                /\ dlls' = dlls \ {d}
                /\ IF d \in dlls THEN Raise(Main, "unload dll", d) ELSE UNCHANGED queued
      BY <2>4
    <3>2. /\ queued' \in Seq(EventType) /\ QueueOK'
          /\ \A kinds, o : Waiting(kinds, o) => Waiting(kinds, o)'
      BY <2>1, <2>2, <3>1
    <3>3. /\ to_unload' \subseteq Dll /\ dlls' \subseteq dlls
          /\ \A e \in dlls' : e \in to_unload => e \in to_unload'
      BY <3>1 DEF IInv, TypesOK
    <3> QED
      BY <3>2, <3>3
  <2>5. CASE to_unload = {} /\ Raise(Main, "shell code", Main) /\ UNCHANGED <<dlls, to_unload>>
    BY <2>3, <2>5
  <2> QED
    BY <2>4, <2>5 DEF RunShellCode
<1>8. TypesOK'
  BY <1>1, <1>2, <1>7 DEF IInv, TypesOK
<1>9. PhasesOK'
  BY <1>1, <1>2, <1>4 DEF IInv, PhasesOK, Restoring
<1>10. MainOK'
  BY <1>1, <1>2 DEF IInv, MainOK
<1>11. ThreadsOK'
  <2>1. AllKnown
    BY <1>1 DEF IInv, ThreadsOK
  <2>2. ASSUME NEW t \in Thread \ missed PROVE Changing(t)' \/ Known(t)'
    <3>1. SameNow(t)
      BY <1>3 DEF Object
    <3> QED
      BY <1>1, <1>2, <1>7, <2>1, <3>1 DEF AllKnown, Known, Changing, SameNow
  <2> QED
    BY <1>2, <2>2 DEF ThreadsOK, AllKnown
<1>12. DllsRestoreOK'
  <2>1. DllsGoing /\ target \in DOMAIN snapshots
    BY <1>1 DEF IInv, DllsRestoreOK, PhasesOK, Restoring
  <2>2. Loaded(target)' = Loaded(target)
    BY <1>1, <1>3, <2>1
  <2>3. ASSUME NEW d \in dlls' \ missed'
        PROVE  d \in to_unload' \/ Waiting({"load dll"}, d)' \/ d \in Loaded(target)'
    <3>1. d \in dlls \ missed
      BY <1>2, <1>7
    <3> QED
      BY <1>7, <2>1, <2>2, <3>1 DEF DllsGoing
  <2> QED
    BY <2>3 DEF DllsRestoreOK, DllsGoing
<1>13. DllsOK' /\ NextSnapshotOK' /\ ThreadsRestoreOK'
  BY <1>1 DEF DllsOK, NextSnapshotOK, ThreadsRestoreOK
<1> QED
  BY <1>3, <1>7, <1>8, <1>9, <1>10, <1>11, <1>12, <1>13 DEF IInv

\* The shell code has ended: no event is left.
LEMMA RestoreDllEndsKeeps ==
  ASSUME IInv, RestoreDllEnds
  PROVE  IInv'
<1>1. /\ UNCHANGED <<alive, dlls, context, next_phase, tracking, clock>>
      /\ UNCHANGED <<target, to_unload>>
      /\ phase = "dlls" /\ phase' = "threads" /\ queued # <<>>
      /\ ContinueDebugEvent /\ de.kind = "shell code"
      /\ worker' = [NoWorker EXCEPT !.at = "start"]
  BY DEF RestoreDllEnds, Takes
<1>2. UNCHANGED <<history, current_thread_ids, missed, run_id, run_sequence, snapshots>>
  BY <1>1 DEF tracking, clock
<1>3. /\ HistoriesOK' /\ SnapshotsOK'
      /\ \A o \in Object : SameNow(o)
      /\ \A v \in DOMAIN snapshots : Loaded(v)' = Loaded(v)
  <2>1. run_sequence' \in Nat /\ run_sequence <= run_sequence'
    BY <1>2, ClockTyped
  <2> QED
    BY <1>1, <1>2, <2>1, NothingRecorded
<1>4. worker'.at = "start" /\ worker' \in WorkerType
  BY <1>1, TimeRestoreAssumption DEF NoWorker, WorkerType
<1>5. to_unload = {}
  BY <1>1, HeadOK DEF EventOK
<1>6. TypesOK'
  <2>1. queued' \in Seq(EventType)
    BY <1>1, ClockTyped, QueuePopped DEF ContinueDebugEvent
  <2> QED
    BY <1>1, <1>2, <1>4, <2>1 DEF IInv, TypesOK
<1>7. PhasesOK'
  BY <1>1, <1>2, <1>4, <1>5 DEF IInv, PhasesOK, Restoring
<1>8. MainOK'
  BY <1>1, <1>2 DEF IInv, MainOK
<1>9. QueueOK'
  BY <1>1, QueuePops
<1>10. \A o : /\ Changing(o)' <=> Changing(o)
              /\ Waiting({"load dll"}, o)' <=> Waiting({"load dll"}, o)
  BY <1>1, OthersWait DEF Comes, Goes
<1>11. ThreadsOK'
  <2>1. AllKnown
    BY <1>1 DEF IInv, ThreadsOK
  <2>2. ASSUME NEW t \in Thread \ missed PROVE Changing(t)' \/ Known(t)'
    <3>1. SameNow(t)
      BY <1>3 DEF Object
    <3> QED
      BY <1>1, <1>2, <1>10, <2>1, <3>1 DEF AllKnown, Known, SameNow
  <2> QED
    BY <1>2, <2>2 DEF ThreadsOK, AllKnown
<1>12. DllsRestoreOK'
  <2>1. DllsGoing /\ target \in DOMAIN snapshots
    BY <1>1 DEF IInv, DllsRestoreOK, PhasesOK, Restoring
  <2>2. Loaded(target)' = Loaded(target)
    BY <1>1, <1>3, <2>1
  <2> QED
    BY <1>1, <1>2, <1>10, <2>1, <2>2 DEF DllsRestoreOK, DllsGoing
<1>13. DllsOK' /\ NextSnapshotOK' /\ ThreadsRestoreOK'
  BY <1>1, <1>4 DEF DllsOK, NextSnapshotOK, ThreadsRestoreOK
<1> QED
  BY <1>3, <1>6, <1>7, <1>8, <1>9, <1>11, <1>12, <1>13 DEF IInv

LEMMA SavedTyped ==
  ASSUME IInv, NEW o \in Object, NEW v, v[2] \in Nat
  PROVE  Saved(o, v) \in Record
<1>1. HistoryOK(history[o], run_id, run_sequence)
  BY DEF IInv, HistoriesOK
<1>2. Missing \in Record
  BY InfoTyped DEF IInv
<1>3. Saved(o, v) = AnswerOf(history[o], v[1], v[2])
  BY Views
<1>4. history[o] # <<>> => GetState(history[o][1], v[1], v[2], Missing) \in Record
  <2>1. history[o] # <<>> => TreeOK(Record, history[o][1])
    BY <1>1 DEF HistoryOK
  <2> QED
    BY <1>2, <2>1, AnswerTyped
<1> QED
  BY <1>2, <1>3, <1>4 DEF AnswerOf

\* The registers are put back, and what else is there is to be terminated.
LEMMA WorkerStartsKeeps ==
  ASSUME IInv, WorkerStarts
  PROVE  IInv'
<1>1. /\ UNCHANGED <<alive, dlls, queued, phase, next_phase, tracking, clock>>
      /\ UNCHANGED <<target, to_unload>>
      /\ worker.at = "start"
      /\ worker' = [worker EXCEPT !.at = "terminate", !.leftover = Leftover]
  BY DEF WorkerStarts
<1>2. UNCHANGED <<history, current_thread_ids, missed, run_id, run_sequence, snapshots>>
  BY <1>1 DEF tracking, clock
<1>3. phase = "threads" /\ queued = <<>> /\ target \in DOMAIN snapshots
  BY <1>1 DEF IInv, PhasesOK, QueueOK, Restoring
<1>4. run_sequence' \in Nat /\ run_sequence <= run_sequence'
  BY <1>2, ClockTyped
<1>5. /\ HistoriesOK' /\ SnapshotsOK' /\ MainOK' /\ DOMAIN history' = Object
  BY <1>1, <1>2, <1>3, <1>4, NothingMoves
<1>6. /\ Loaded(target)' = Loaded(target)
      /\ \A p \in Object : Saved(p, target)' = Saved(p, target)
  <2>1. \A v \in DOMAIN snapshots :
            Loaded(v)' = Loaded(v) /\ \A p \in Object : Saved(p, v)' = Saved(p, v)
    BY <1>1, <1>2, <1>3, <1>4, NothingRecorded
  <2> QED
    BY <1>1, <1>3, <2>1
<1>7. /\ Leftover = (Thread \cap Loaded(Now)) \ Loaded(target)
      /\ snapped_threads = Thread \cap Loaded(target)
      /\ current_threads = Thread \cap Loaded(Now)
  BY DEF Leftover, snapped_threads, current_threads, Loaded, Now
<1>8. worker'.at = "terminate" /\ worker'.leftover = Leftover /\ worker' \in WorkerType
  BY <1>1, <1>7 DEF IInv, TypesOK, WorkerType
<1>9. SnapshotOK(target)
  BY <1>3 DEF IInv, SnapshotsOK
<1>10. \A t \in Thread : context'[t] = IF t \in snapped_threads \cap current_threads /\ t \in alive
                                       THEN Saved(t, target).context ELSE context[t]
  BY DEF WorkerStarts, Saved
<1>11. TypesOK'
  <2>1. \A t \in Thread : Saved(t, target).context \in Nat /\ context[t] \in Nat
    <3>1. target[2] \in Nat
      BY <1>9 DEF SnapshotOK, Past
    <3>2. \A t \in Thread : Saved(t, target) \in Record
      BY <3>1, SavedTyped DEF Object
    <3> QED
      BY <3>2 DEF IInv, TypesOK, Record
  <2>2. context' \in [Thread -> Nat]
    BY <2>1 DEF WorkerStarts, Saved
  <2> QED
    BY <1>1, <1>2, <1>8, <2>2 DEF IInv, TypesOK
<1>12. PhasesOK'
  BY <1>1, <1>2, <1>3, <1>8 DEF IInv, PhasesOK, Restoring
<1>13. QueueOK'
  BY <1>1, <1>3, <1>8 DEF QueueOK
<1>14. DllsRestoreOK'
  <2>1. Restoring /\ phase' # "recording" /\ DllsGoing
    BY <1>1, <1>3 DEF Restoring, IInv, DllsRestoreOK
  <2> QED
    BY <1>1, <2>1, RestoreGoesOn DEF DllsRestoreOK
<1>15. ASSUME NEW t \in Thread \ missed PROVE Restored(t)'
  <2>1. ~Changing(t)
    BY <1>3 DEF Changing, Waiting
  <2>2. Known(t)
    BY <1>1, <2>1 DEF IInv, ThreadsOK, AllKnown
  <2>3. Saved(t, target)' = Saved(t, target)
    BY <1>6 DEF Object
  <2>4. t \in alive => /\ t \in current_thread_ids
                       /\ t \in Leftover \/ t \in Loaded(target)
                       /\ t \in Loaded(target) => context'[t] = Saved(t, target).context
    BY <1>7, <1>10, <2>2 DEF Known
  <2> QED
    BY <1>1, <1>2, <1>6, <1>8, <2>2, <2>3, <2>4 DEF Restored, Known
<1>16. ThreadsRestoreOK'
  <2>1. Main \notin Leftover
    BY <1>7, <1>9 DEF SnapshotOK
  <2> QED
    BY <1>2, <1>8, <1>15, <2>1 DEF ThreadsRestoreOK, AllRestored
<1>17. ThreadsOK' /\ DllsOK' /\ NextSnapshotOK'
  BY <1>1, <1>3, <1>8 DEF ThreadsOK, DllsOK, NextSnapshotOK
<1> QED
  BY <1>5, <1>11, <1>12, <1>13, <1>14, <1>16, <1>17 DEF IInv

\* A thread that the snapshot did not have is terminated.
LEMMA WorkerTerminatesKeeps ==
  ASSUME IInv, WorkerTerminates
  PROVE  IInv'
<1>1. /\ UNCHANGED <<dlls, context, phase, next_phase, tracking, clock>>
      /\ UNCHANGED <<target, to_unload>>
      /\ worker.at = "terminate"
  BY DEF WorkerTerminates
<1>2. UNCHANGED <<history, current_thread_ids, missed, run_id, run_sequence, snapshots>>
  BY <1>1 DEF tracking, clock
<1>3. PICK t \in worker.leftover :
           /\ alive' = alive \ {t}
           /\ IF t \in alive THEN Raise(t, "exit thread", t) ELSE UNCHANGED queued
           /\ worker' = [at |-> "untrack", leftover |-> worker.leftover \ {t}, victim |-> t]
  BY DEF WorkerTerminates
<1>4. phase \in {"threads", "exit"} /\ phase # "exit" /\ target \in DOMAIN snapshots
  BY <1>1 DEF IInv, PhasesOK, Restoring
<1>5. /\ worker.leftover \subseteq Thread /\ Main \notin worker.leftover
      /\ AllRestored
  BY <1>1, <1>4 DEF IInv, ThreadsRestoreOK, TypesOK, WorkerType
<1>6. t \in Thread /\ t \in Object /\ t # Main
  BY <1>5 DEF Object
<1>7. /\ worker'.at = "untrack" /\ worker'.leftover = worker.leftover \ {t} /\ worker'.victim = t
      /\ worker' \in WorkerType
  BY <1>3, <1>5, <1>6 DEF WorkerType
<1>8. /\ HistoriesOK' /\ SnapshotsOK'
      /\ \A v \in DOMAIN snapshots :
            Loaded(v)' = Loaded(v) /\ \A o \in Object : Saved(o, v)' = Saved(o, v)
  <2>1. run_sequence' \in Nat /\ run_sequence <= run_sequence'
    BY <1>2, ClockTyped
  <2> QED
    BY <1>1, <1>2, <2>1, NothingRecorded
<1>9. /\ Loaded(target)' = Loaded(target)
      /\ \A o \in Object : Saved(o, target)' = Saved(o, target)
  BY <1>1, <1>4, <1>8
<1>10. \A i \in 1..Len(queued) : queued[i].kind # "shell code"
  BY <1>4, NoShellCode
<1>11. /\ queued' \in Seq(EventType) /\ QueueOK'
       /\ \A kinds, o : Waiting(kinds, o) => Waiting(kinds, o)'
  <2>1. CASE t \in alive
    <3>1. Raise(t, "exit thread", t) /\ "exit thread" \in Kind
      BY <1>3, <2>1 DEF Kind
    <3>2. ~Changing(t)
      <4>1. ASSUME NEW i \in 1..Len(queued), queued[i].object = t PROVE FALSE
        <5>1. EventOK(i) /\ queued[i].kind = "exit thread"
          BY <1>1 DEF IInv, QueueOK
        <5> QED
          BY <2>1, <4>1, <5>1 DEF EventOK
      <4> QED
        BY <4>1 DEF Changing, Waiting
    <3>3. Happens(t, "exit thread", t)
      BY <1>1, <1>3, <1>6, <3>2 DEF Happens
    <3>4. MayRaise(t, "exit thread")
      BY <1>1, <1>7, <1>10 DEF MayRaise
    <3>5. QueueOK'
      BY <1>6, <3>1, <3>3, <3>4, QueueRaises
    <3>6. /\ queued' \in Seq(EventType)
          /\ \A kinds, o : Waiting(kinds, o)' <=> Waiting(kinds, o) \/ ("exit thread" \in kinds /\ t = o)
      BY <1>6, <3>1, RaiseWaits
    <3> QED
      BY <3>5, <3>6
  <2>2. CASE t \notin alive
    <3>1. alive' = alive /\ queued' = queued
      BY <1>3, <2>2
    <3>2. QueueOK'
      BY <1>1, <1>7, <1>10, <3>1, QueueStays
    <3> QED
      BY <3>1, <3>2, ClockTyped DEF Waiting
  <2> QED
    BY <2>1, <2>2
<1>12. TypesOK'
  BY <1>1, <1>2, <1>3, <1>7, <1>11 DEF IInv, TypesOK
<1>13. PhasesOK'
  BY <1>1, <1>2, <1>4, <1>7 DEF IInv, PhasesOK, Restoring
<1>14. MainOK'
  BY <1>2, <1>3, <1>6 DEF IInv, MainOK
<1>15. DllsRestoreOK'
  <2>1. DllsGoing
    BY <1>4 DEF IInv, DllsRestoreOK, Restoring
  <2> QED
    BY <1>1, <1>2, <1>9, <1>11, <2>1 DEF DllsRestoreOK, DllsGoing
<1>16. ASSUME NEW u \in Thread \ missed PROVE Restored(u)'
  <2>1. Restored(u) /\ Saved(u, target)' = Saved(u, target)
    BY <1>5, <1>9 DEF AllRestored, Object
  <2>2. u \in alive' => /\ u \in current_thread_ids'
                        /\ u \in worker'.leftover \/ u \in Loaded(target)'
                        /\ u \in Loaded(target)' => context'[u] = Saved(u, target)'.context
    BY <1>1, <1>2, <1>3, <1>7, <1>9, <2>1 DEF Restored
  <2>3. u \in current_thread_ids' =>
            u \in alive' \/ Changing(u)' \/ (worker'.at = "untrack" /\ u = worker'.victim)
    BY <1>1, <1>2, <1>3, <1>7, <1>11, <2>1 DEF Restored, Changing
  <2> QED
    BY <2>2, <2>3 DEF Restored
<1>17. ThreadsRestoreOK'
  BY <1>2, <1>3, <1>5, <1>6, <1>7, <1>16 DEF ThreadsRestoreOK, AllRestored
<1>18. ThreadsOK' /\ DllsOK' /\ NextSnapshotOK'
  BY <1>1, <1>4, <1>7 DEF ThreadsOK, DllsOK, NextSnapshotOK
<1> QED
  BY <1>8, <1>11, <1>12, <1>13, <1>14, <1>15, <1>17, <1>18 DEF IInv

\* And untracked.
LEMMA WorkerUntracksKeeps ==
  ASSUME IInv, WorkerUntracks
  PROVE  IInv'
<1>1. /\ UNCHANGED <<alive, dlls, context, queued, phase, next_phase, clock>>
      /\ UNCHANGED <<target, to_unload>>
      /\ worker.at = "untrack"
      /\ Untrack(worker.victim)
      /\ missed' = missed \ {worker.victim}
      /\ worker' = [worker EXCEPT !.at = "terminate"]
  BY DEF WorkerUntracks, debuggee
<1>2. UNCHANGED <<run_id, run_sequence, snapshots>>
  BY <1>1 DEF clock
<1>3. phase \in {"threads", "exit"} /\ phase # "exit" /\ target \in DOMAIN snapshots
  BY <1>1 DEF IInv, PhasesOK, Restoring
<1>4. /\ worker.victim \notin alive /\ worker.victim # Main /\ Main \notin worker.leftover
      /\ AllRestored
  BY <1>1, <1>3 DEF IInv, ThreadsRestoreOK
<1>5. PICK t \in Thread : t = worker.victim
  BY DEF IInv, TypesOK, WorkerType
<1>6. /\ worker'.at = "terminate" /\ worker'.leftover = worker.leftover /\ worker' \in WorkerType
  BY <1>1 DEF IInv, TypesOK, WorkerType
<1>7. /\ HistoriesOK' /\ SnapshotsOK' /\ DOMAIN history' = Object
      /\ \A v \in DOMAIN snapshots :
            Loaded(v)' = Loaded(v) /\ \A p \in Object : Saved(p, v)' = Saved(p, v)
  <2>1. t \in Object
    BY DEF Object
  <2>2. Missing \in Record /\ ~Missing.loaded
    BY <2>1, InfoTyped DEF IInv
  <2>3. RecordsOne(t, Missing, run_sequence)
    BY <1>1, <1>5, <2>2 DEF Untrack, UntrackAt, RecordsOne
  <2>4. Behind(t, run_sequence)
    BY ClockTyped DEF Behind
  <2> QED
    BY <1>1, <1>2, <2>1, <2>2, <2>3, <2>4, OneRecorded
<1>8. /\ current_thread_ids' = current_thread_ids \ {t}
      /\ missed' = missed \ {t}
  BY <1>1, <1>5 DEF Untrack, UntrackAt
<1>9. /\ Loaded(target)' = Loaded(target)
      /\ \A o \in Object : Saved(o, target)' = Saved(o, target)
  BY <1>1, <1>3, <1>7
<1>10. \A kinds, o : Waiting(kinds, o)' <=> Waiting(kinds, o)
  BY <1>1 DEF Waiting
<1>11. TypesOK'
  BY <1>1, <1>2, <1>6, <1>7, <1>8 DEF IInv, TypesOK
<1>12. PhasesOK'
  BY <1>1, <1>2, <1>3, <1>6 DEF IInv, PhasesOK, Restoring
<1>13. MainOK'
  BY <1>1, <1>4, <1>5, <1>8 DEF IInv, MainOK
<1>14. QueueOK'
  <2>1. \A i \in 1..Len(queued) : queued[i].kind # "shell code"
    BY <1>3, NoShellCode
  <2> QED
    BY <1>1, <1>6, <2>1, QueueStays
<1>15. DllsRestoreOK'
  <2>1. DllsGoing
    BY <1>3 DEF IInv, DllsRestoreOK, Restoring
  <2>2. ASSUME NEW d \in dlls' \ missed'
        PROVE  d \in to_unload' \/ Waiting({"load dll"}, d)' \/ d \in Loaded(target)'
    <3>1. d \in dlls \ missed
      BY <1>1, <1>8, <2>2, TimeRestoreAssumption DEF IInv, TypesOK
    <3> QED
      BY <1>1, <1>9, <1>10, <2>1, <3>1 DEF DllsGoing
  <2> QED
    BY <2>2 DEF DllsRestoreOK, DllsGoing
<1>16. ASSUME NEW u \in Thread \ missed' PROVE Restored(u)'
  <2>1. CASE u = t
    BY <1>1, <1>4, <1>5, <1>8, <2>1 DEF Restored
  <2>2. CASE u # t
    <3>1. Restored(u) /\ Saved(u, target)' = Saved(u, target)
      BY <1>4, <1>8, <1>9, <2>2 DEF AllRestored, Object
    <3>2. u \in current_thread_ids' <=> u \in current_thread_ids
      BY <1>8, <2>2
    <3>3. u \in alive' => /\ u \in current_thread_ids'
                          /\ u \in worker'.leftover \/ u \in Loaded(target)'
                          /\ u \in Loaded(target)' => context'[u] = Saved(u, target)'.context
      BY <1>1, <1>6, <1>9, <3>1, <3>2 DEF Restored
    <3>4. u \in current_thread_ids' =>
              u \in alive' \/ Changing(u)' \/ (worker'.at = "untrack" /\ u = worker'.victim)
      BY <1>1, <1>5, <1>10, <2>2, <3>1, <3>2 DEF Restored, Changing
    <3> QED
      BY <3>3, <3>4 DEF Restored
  <2> QED
    BY <2>1, <2>2
<1>17. ThreadsRestoreOK'
  BY <1>4, <1>6, <1>16 DEF ThreadsRestoreOK, AllRestored
<1>18. ThreadsOK' /\ DllsOK' /\ NextSnapshotOK'
  BY <1>1, <1>3, <1>6 DEF ThreadsOK, DllsOK, NextSnapshotOK
<1> QED
  BY <1>7, <1>11, <1>12, <1>13, <1>14, <1>15, <1>17, <1>18 DEF IInv

----------------------------------------------------------------------------
(* A recorded call returns, a micro snapshot is taken, and a restore ends. *)

LEMMA LastTyped ==
  ASSUME IInv, NEW o \in Object
  PROVE  LastRecorded(o) \in Nat
<1>1. CASE history[o] = <<>>
  BY <1>1 DEF LastRecorded
<1>2. CASE history[o] # <<>>
  <2> DEFINE t == history[o][1]
  <2>1. TreeOK(Record, t)
    BY <1>2 DEF IInv, HistoriesOK, HistoryOK
  <2> HIDE DEF t
  <2>2. Len(t.nodes) \in 1..Len(t.nodes)
    BY <2>1, TreeTyped
  <2>3. t.nodes[Len(t.nodes)].seq \in Nat
    BY <2>1, <2>2, NodeTyped
  <2> QED
    BY <1>2, <2>3 DEF LastRecorded, t
<1> QED
  BY <1>1, <1>2

LEMMA FinishThreadEventKeeps ==
  ASSUME IInv, NEW kind \in {"create", "terminate"}, NEW t \in Thread \ {Main}, NEW seq \in Nat,
         FinishThreadEvent(kind, t, seq)
  PROVE  IInv'
<1>1. /\ UNCHANGED <<alive, dlls, context, queued, phase, next_phase, clock>>
      /\ UNCHANGED <<target, to_unload, worker>>
      /\ phase = "recording"
      /\ seq \in (LastRecorded(t) + 1)..(run_sequence - 1)
      /\ kind = "create" => TrackAt(t, seq)
      /\ kind = "terminate" => UntrackAt(t, seq)
      /\ missed' = IF (kind = "create") = (t \in alive) THEN missed \ {t} ELSE missed \cup {t}
  BY DEF FinishThreadEvent, debuggee, restoring
<1>2. UNCHANGED <<run_id, run_sequence, snapshots>>
  BY <1>1 DEF clock
<1>3. worker.at = "none"
  BY <1>1 DEF IInv, PhasesOK
<1>4. t \in Object /\ t # Main
  BY DEF Object
<1>5. Behind(t, seq)
  <2>1. LastRecorded(t) \in Nat /\ run_sequence \in Nat
    BY <1>4, LastTyped, ClockTyped
  <2>2. seq <= run_sequence /\ LastRecorded(t) < seq
    BY <1>1, <2>1
  <2> QED
    BY <1>1, <2>2 DEF Behind
<1>6. Info(t, TRUE) \in Record /\ Info(t, TRUE).loaded /\ Missing \in Record /\ ~Missing.loaded
  BY <1>4, InfoTyped DEF IInv
<1>7. /\ HistoriesOK' /\ SnapshotsOK' /\ DOMAIN history' = Object
      /\ \A p \in Object \ {t} : SameNow(p)
      /\ kind = "create" => t \in Loaded(Now)' /\ t \in current_thread_ids'
      /\ kind = "terminate" => t \notin current_thread_ids'
      /\ \A u : u # t => (u \in current_thread_ids' <=> u \in current_thread_ids)
      /\ current_thread_ids' \subseteq Thread
  <2>1. CASE kind = "create"
    <3>1. RecordsOne(t, Info(t, TRUE), seq) /\ current_thread_ids' = current_thread_ids \cup ({t} \cap Thread)
      BY <1>1, <1>6, <2>1 DEF TrackAt, RecordsOne
    <3>2. /\ HistoriesOK' /\ SnapshotsOK' /\ DOMAIN history' = Object
          /\ Told(t, Info(t, TRUE))
          /\ \A p \in Object \ {t} : SameNow(p)
      BY <1>1, <1>2, <1>4, <1>5, <1>6, <3>1, OneRecorded
    <3>3. t \in Loaded(Now)'
      BY <1>4, <1>6, <3>2, ViewsNow DEF Told
    <3> QED
      BY <2>1, <3>1, <3>2, <3>3 DEF IInv, TypesOK
  <2>2. CASE kind = "terminate"
    <3>1. RecordsOne(t, Missing, seq) /\ current_thread_ids' = current_thread_ids \ {t}
      BY <1>1, <1>6, <2>2 DEF UntrackAt, RecordsOne
    <3>2. /\ HistoriesOK' /\ SnapshotsOK' /\ DOMAIN history' = Object
          /\ \A p \in Object \ {t} : SameNow(p)
      BY <1>1, <1>2, <1>4, <1>5, <1>6, <3>1, OneRecorded
    <3> QED
      BY <2>2, <3>1, <3>2 DEF IInv, TypesOK
  <2> QED
    BY <2>1, <2>2
<1>8. \A kinds, o : Waiting(kinds, o)' <=> Waiting(kinds, o)
  BY <1>1 DEF Waiting
<1>9. TypesOK'
  BY <1>1, <1>2, <1>7 DEF IInv, TypesOK
<1>10. PhasesOK'
  BY <1>1, <1>2 DEF IInv, PhasesOK, Restoring
<1>11. MainOK'
  BY <1>1, <1>4, <1>7 DEF IInv, MainOK
<1>12. QueueOK'
  <2>1. \A i \in 1..Len(queued) : queued[i].kind # "shell code"
    BY <1>1, NoShellCode
  <2> QED
    BY <1>1, <1>3, <2>1, QueueStays
<1>13. ThreadsOK'
  <2>1. AllKnown
    BY <1>1 DEF IInv, ThreadsOK
  <2>2. ASSUME NEW u \in Thread \ missed' PROVE Changing(u)' \/ Known(u)'
    <3>1. CASE u = t
      <4>1. (kind = "create") = (t \in alive)
        BY <1>1, <2>2, <3>1
      <4> QED
        BY <1>1, <1>7, <3>1, <4>1 DEF Known
    <3>2. CASE u # t
      <4>1. SameNow(u) /\ u \notin missed /\ (u \in current_thread_ids' <=> u \in current_thread_ids)
        BY <1>1, <1>7, <3>2 DEF Object
      <4> QED
        BY <1>1, <1>8, <2>1, <4>1 DEF AllKnown, Known, Changing, SameNow
    <3> QED
      BY <3>1, <3>2
  <2> QED
    BY <2>2 DEF ThreadsOK, AllKnown
<1>14. DllsOK'
  <2>1. DllsKnown
    BY <1>1 DEF IInv, DllsOK
  <2>2. ASSUME NEW d \in dlls' \ missed' PROVE Waiting({"load dll"}, d)' \/ d \in Loaded(Now)'
    <3>1. d \in Object /\ d # t /\ d \in dlls \ missed
      BY <1>1, <2>2, TimeRestoreAssumption DEF IInv, TypesOK, Object
    <3>2. SameNow(d)
      BY <1>7, <3>1
    <3> QED
      BY <1>8, <2>1, <3>1, <3>2 DEF DllsKnown, SameNow
  <2> QED
    BY <2>2 DEF DllsOK, DllsKnown
<1>15. NextSnapshotOK' /\ DllsRestoreOK' /\ ThreadsRestoreOK'
  BY <1>1 DEF NextSnapshotOK, DllsRestoreOK, ThreadsRestoreOK, Restoring
<1> QED
  BY <1>7, <1>9, <1>10, <1>11, <1>12, <1>13, <1>14, <1>15 DEF IInv

LEMMA MicroSnapshotKeeps ==
  ASSUME IInv, MicroSnapshot
  PROVE  IInv'
<1>1. /\ UNCHANGED <<alive, dlls, context, queued, next_phase, current_thread_ids, missed, run_id>>
      /\ UNCHANGED <<target, to_unload, worker>>
      /\ phase = "reconstruction" /\ phase' \in {"reconstruction", "debugger"}
      /\ history' = [o \in Object |->
            IF o \in current_thread_ids THEN Recorded(o, Info(o, TRUE)) ELSE history[o]]
      /\ run_sequence' = run_sequence + 1
  BY DEF MicroSnapshot, debuggee, restoring
<1>2. /\ run_id \in Nat /\ run_sequence \in Nat /\ run_sequence' \in Nat
      /\ run_sequence <= run_sequence' /\ run_sequence < run_sequence'
  BY <1>1, ClockTyped
<1>3. PICK v : v = Now
  OBVIOUS
<1>4. v = <<run_id, run_sequence>> /\ v[1] = run_id /\ v[2] = run_sequence
  BY <1>3 DEF Now
<1>5. worker.at = "none" /\ current_thread_ids \subseteq Thread /\ AllPresent /\ MainOK
  BY <1>1 DEF IInv, PhasesOK, TypesOK, NextSnapshotOK
<1>6. ASSUME NEW o \in Object, o \notin current_thread_ids
      PROVE  /\ HistoryOK(history[o], run_id, run_sequence)' /\ Steady(o) /\ SameNow(o)
             /\ o \in Loaded(v)' <=> o \in Loaded(Now)
             /\ o \in Hidden(v)' <=> o \in Hidden(Now)
  <2>1. history'[o] = history[o]
    BY <1>1, <1>6
  <2>2. HistoryOK(history[o], run_id, run_sequence)' /\ Steady(o) /\ SameNow(o)
    BY <1>1, <1>2, <2>1, NotRecorded DEF IInv
  <2>3. /\ o \in Loaded(v)' <=> o \in Loaded(Now)
        /\ o \in Hidden(v)' <=> o \in Hidden(Now)
    BY <1>4, <2>1, ViewsNext, ViewsNow
  <2> QED
    BY <2>2, <2>3
<1>7. ASSUME NEW o \in Object, o \in current_thread_ids
      PROVE  /\ HistoryOK(history[o], run_id, run_sequence)' /\ Steady(o)
             /\ o \in Loaded(Now)' /\ o \in Loaded(v)'
             /\ o \notin Hidden(v)' => Saved(o, v)'.context = context[o]
  <2> DEFINE info == Info(o, TRUE)
             k == history'[o]
  <2>1. info \in Record /\ info.loaded /\ info.context = context[o]
    BY <1>5, <1>7, InfoTyped DEF IInv, Info
  <2> HIDE DEF info
  <2>2. k = RecordOf(history[o], info, run_id, run_sequence)
    BY <1>1, <1>7 DEF Recorded, RecordedAt, RecordOf, info
  <2>3. /\ HistoryOK(history[o], run_id, run_sequence)
        /\ \A w \in DOMAIN snapshots : Earlier(w[1], w[2], run_id, run_sequence)
    <3>1. Behind(o, run_sequence)
      BY <1>2 DEF Behind
    <3> QED
      BY <1>2, <3>1, BehindFits
  <2>4. HistoryOK(history[o], run_id, run_sequence)' /\ Told(o, info) /\ Steady(o)
    BY <1>1, <1>2, <2>1, <2>2, <2>3, Recording DEF IInv
  <2>5. \/ AnswerOf(k, run_id, run_sequence) = info
        \/ HiddenOf(k, run_id, run_sequence) /\ AnswerOf(k, run_id, run_sequence).loaded
    BY <1>2, <2>1, <2>2, <2>3, RecordKeeps
  <2>6. \/ Saved(o, v)' = info
        \/ o \in Hidden(v)' /\ o \in Loaded(v)'
    BY <1>4, <2>5, ViewsNext
  <2>7. o \in Loaded(v)'
    BY <2>1, <2>6, ViewsNext
  <2>8. o \in Loaded(Now)'
    BY <2>1, <2>4, ViewsNow DEF Told
  <2> QED
    BY <2>1, <2>4, <2>6, <2>7, <2>8
<1>8. /\ DOMAIN snapshots' = DOMAIN snapshots \cup {v}
      /\ snapshots'[v] = [threads |-> [t \in current_thread_ids |-> context[t]],
                          dlls |-> (dlls \ missed) \cup Unreported]
      /\ \A w \in DOMAIN snapshots : w # v => snapshots'[w] = snapshots[w]
  BY <1>4 DEF MicroSnapshot
<1>9. \A o \in Object : HistoryOK(history[o], run_id, run_sequence)' /\ Steady(o)
  BY <1>6, <1>7
<1>10. HistoriesOK'
  BY <1>1, <1>9 DEF HistoriesOK
<1>11. ASSUME NEW w \in DOMAIN snapshots PROVE SnapshotOK(w)' /\ Loaded(w)' = Loaded(w)
  <2>1. SnapshotOK(w) /\ w # v
    BY <1>2, <1>4 DEF IInv, SnapshotsOK, SnapshotOK, Past
  <2> QED
    BY <1>1, <1>2, <1>8, <1>9, <2>1, SnapshotStays
<1>12. SnapshotOK(v)'
  <2>1. Past(v)'
    BY <1>1, <1>2, <1>4 DEF Past
  <2>2. Main \in Loaded(v)'
    BY <1>5, <1>7, TimeRestoreAssumption DEF MainOK, Object
  <2>3. ASSUME NEW o \in (Loaded(v) \ Hidden(v))'
        PROVE  IF o \in Thread
               THEN o \in DOMAIN snapshots'[v].threads /\ Saved(o, v)'.context = snapshots'[v].threads[o]
               ELSE o \in snapshots'[v].dlls
    <3>1. o \in Object
      BY DEF Loaded, LoadedAt
    <3>2. CASE o \in current_thread_ids
      <4>1. o \in Thread /\ Saved(o, v)'.context = context[o]
        BY <1>5, <1>7, <2>3, <3>1, <3>2
      <4>2. o \in DOMAIN snapshots'[v].threads /\ snapshots'[v].threads[o] = context[o]
        BY <1>8, <3>2
      <4> QED
        BY <4>1, <4>2
    <3>3. CASE o \notin current_thread_ids
      <4>1. o \in Loaded(Now) \ Hidden(Now)
        BY <1>6, <2>3, <3>1, <3>3
      <4>2. o \notin Thread /\ ((o \in dlls /\ o \notin missed) \/ Waiting({"unload dll"}, o))
        BY <1>5, <3>3, <4>1 DEF AllPresent, Present
      <4>3. Waiting({"unload dll"}, o) => o \in Unreported
        BY DEF Waiting, Unreported
      <4>4. snapshots'[v].dlls = (dlls \ missed) \cup Unreported
        BY <1>8
      <4> QED
        BY <4>2, <4>3, <4>4
    <3> QED
      BY <3>2, <3>3
  <2> QED
    BY <2>1, <2>2, <2>3 DEF SnapshotOK
<1>13. SnapshotsOK'
  <2>1. <<0, 0>> \in DOMAIN snapshots /\ \A o \in Loaded(<<0, 0>>) : o = Main
    BY DEF IInv, SnapshotsOK
  <2>2. Loaded(<<0, 0>>)' = Loaded(<<0, 0>>)
    BY <1>11, <2>1
  <2> QED
    BY <1>8, <1>11, <1>12, <2>1, <2>2 DEF SnapshotsOK
<1>14. \A kinds, o : Waiting(kinds, o)' <=> Waiting(kinds, o)
  BY <1>1 DEF Waiting
<1>15. TypesOK'
  BY <1>1, <1>2 DEF IInv, TypesOK
<1>16. PhasesOK'
  BY <1>1, <1>5 DEF IInv, PhasesOK, Restoring
<1>17. MainOK'
  BY <1>1, <1>5 DEF MainOK
<1>18. QueueOK'
  <2>1. \A i \in 1..Len(queued) : queued[i].kind # "shell code"
    BY <1>1, NoShellCode
  <2> QED
    BY <1>1, <1>5, <2>1, QueueStays
<1>19. ThreadsOK'
  <2>1. AllKnown
    BY <1>1 DEF IInv, ThreadsOK
  <2>2. ASSUME NEW t \in Thread \ missed PROVE Changing(t)' \/ Known(t)'
    <3>1. t \in Object
      BY DEF Object
    <3>2. t \in current_thread_ids => t \in Loaded(Now)'
      BY <1>7, <3>1
    <3> QED
      BY <1>1, <1>14, <2>1, <3>2 DEF AllKnown, Known, Changing
  <2> QED
    BY <1>1, <2>2 DEF ThreadsOK, AllKnown
<1>20. DllsOK'
  <2>1. DllsKnown
    BY <1>1 DEF IInv, DllsOK
  <2>2. ASSUME NEW d \in dlls' \ missed' PROVE Waiting({"load dll"}, d)' \/ d \in Loaded(Now)'
    <3>1. d \in Object /\ d \notin current_thread_ids /\ d \in dlls \ missed
      BY <1>1, <1>5, <2>2, TimeRestoreAssumption DEF IInv, TypesOK, Object
    <3>2. SameNow(d)
      BY <1>6, <3>1
    <3> QED
      BY <1>14, <2>1, <3>1, <3>2 DEF DllsKnown, SameNow
  <2> QED
    BY <2>2 DEF DllsOK, DllsKnown
<1>21. NextSnapshotOK'
  <2>1. ASSUME NEW p \in (Loaded(Now) \ Hidden(Now))' PROVE Present(p)'
    <3>1. p \in Object
      BY DEF Loaded, LoadedAt
    <3>2. CASE p \in current_thread_ids
      BY <1>1, <1>5, <3>2 DEF Present
    <3>3. CASE p \notin current_thread_ids
      <4>1. p \in Loaded(Now) \ Hidden(Now)
        BY <1>6, <2>1, <3>1, <3>3 DEF SameNow
      <4>2. Present(p)
        BY <1>5, <4>1 DEF AllPresent
      <4> QED
        BY <1>1, <1>14, <4>2 DEF Present
    <3> QED
      BY <3>2, <3>3
  <2> QED
    BY <2>1 DEF NextSnapshotOK, AllPresent
<1>22. DllsRestoreOK' /\ ThreadsRestoreOK'
  BY <1>1 DEF DllsRestoreOK, ThreadsRestoreOK, Restoring
<1> QED
  BY <1>10, <1>13, <1>15, <1>16, <1>17, <1>18, <1>19, <1>20, <1>21, <1>22 DEF IInv

\* The restore ends: every history goes on from the snapshot's version.
LEMMA ExitKeeps ==
  ASSUME IInv, Exit
  PROVE  IInv'
<1>1. /\ UNCHANGED <<alive, dlls, context, queued, next_phase, current_thread_ids, missed, snapshots>>
      /\ UNCHANGED <<target, to_unload>>
      /\ phase = "exit" /\ phase' = next_phase /\ worker' = NoWorker
      /\ history' = [o \in Object |-> IF history[o] = <<>> THEN <<>> ELSE <<Branch(o)>>]
      /\ run_id' = run_id + 1 /\ run_sequence' = 0
  BY DEF Exit, debuggee
<1>2. /\ run_id \in Nat /\ run_sequence \in Nat /\ run_id' \in Nat /\ run_sequence' \in Nat
      /\ run_id < run_id'
  BY <1>1, ClockTyped
<1>3. /\ worker.at = "ready" /\ to_unload = {} /\ worker.leftover = {} /\ AllRestored /\ DllsGoing
      /\ target \in DOMAIN snapshots
      /\ next_phase \in {"reconstruction", "debugger"}
      /\ next_phase = "reconstruction" => target = <<0, 0>>
  BY <1>1 DEF IInv, PhasesOK, Restoring, ThreadsRestoreOK, DllsRestoreOK
<1>4. worker'.at = "none" /\ worker' \in WorkerType
  BY <1>1, TimeRestoreAssumption DEF NoWorker, WorkerType
<1>5. target[1] \in Nat /\ target[2] \in Nat
  BY <1>3 DEF IInv, SnapshotsOK, SnapshotOK, Past
<1>6. ASSUME NEW o \in Object
      PROVE  /\ HistoryOK(history[o], run_id, run_sequence)' /\ Steady(o)
             /\ o \in Loaded(Now)' <=> o \in Loaded(target)
  <2>1. PICK k : k = history'[o]
    OBVIOUS
  <2>2. k = BranchOf(history[o], target[1], target[2], run_id + 1)
    BY <1>1, <2>1 DEF BranchOf, Branch
  <2>3. /\ HistoryOK(k, run_id', 0)
        /\ AnswerOf(k, run_id', 0) = AnswerOf(history[o], target[1], target[2])
        /\ \A r, q \in Nat : r <= run_id =>
               /\ AnswerOf(k, r, q) = AnswerOf(history[o], r, q)
               /\ HiddenOf(k, r, q) <=> HiddenOf(history[o], r, q)
    <3>1. PICK h : h = history[o]
      OBVIOUS
    <3>2. PICK run : run = run_id
      OBVIOUS
    <3>3. PICK seq : seq = run_sequence
      OBVIOUS
    <3>4. PICK next : next = run_id'
      OBVIOUS
    <3>5. PICK r0 : r0 = target[1]
      OBVIOUS
    <3>6. PICK q0 : q0 = target[2]
      OBVIOUS
    <3>7. HistoryOK(h, run, seq)
      BY <3>1, <3>2, <3>3 DEF IInv, HistoriesOK
    <3>8. /\ run \in Nat /\ seq \in Nat /\ next \in Nat /\ next = run + 1
          /\ r0 \in Nat /\ q0 \in Nat /\ k = BranchOf(h, r0, q0, next)
      BY <1>1, <1>2, <1>5, <2>2, <3>1, <3>2, <3>3, <3>4, <3>5, <3>6
    <3>9. /\ HistoryOK(k, next, 0)
          /\ AnswerOf(k, next, 0) = AnswerOf(h, r0, q0)
          /\ \A r1, q1 \in Nat : r1 <= run =>
                 /\ AnswerOf(k, r1, q1) = AnswerOf(h, r1, q1)
                 /\ HiddenOf(k, r1, q1) <=> HiddenOf(h, r1, q1)
      BY <3>7, <3>8, BranchKeeps
    <3> QED
      BY <3>1, <3>2, <3>4, <3>5, <3>6, <3>9
  <2>4. HistoryOK(history[o], run_id, run_sequence)'
    BY <1>1, <2>1, <2>3 DEF HistoryOK
  <2>5. o \in Loaded(Now)' <=> o \in Loaded(target)
    BY <1>1, <2>1, <2>3, Views, ViewsNow
  <2>6. ASSUME NEW v \in DOMAIN snapshots
        PROVE  Saved(o, v)' = Saved(o, v) /\ (o \in Hidden(v) => o \in Hidden(v)')
    <3>1. v[1] \in Nat /\ v[2] \in Nat /\ v[1] <= run_id
      BY DEF IInv, SnapshotsOK, SnapshotOK, Past
    <3>2. /\ AnswerOf(k, v[1], v[2]) = AnswerOf(history[o], v[1], v[2])
          /\ HiddenOf(k, v[1], v[2]) <=> HiddenOf(history[o], v[1], v[2])
      BY <2>3, <3>1
    <3>3. /\ Saved(o, v) = AnswerOf(history[o], v[1], v[2])
          /\ o \in Hidden(v) <=> HiddenOf(history[o], v[1], v[2])
          /\ Saved(o, v)' = AnswerOf(history'[o], v[1], v[2])
          /\ o \in Hidden(v)' <=> HiddenOf(history'[o], v[1], v[2])
      BY Views, ViewsNext
    <3> QED
      BY <2>1, <3>2, <3>3
  <2> QED
    BY <2>4, <2>5, <2>6 DEF Steady
<1>7. HistoriesOK'
  BY <1>1, <1>3, <1>6 DEF HistoriesOK
<1>8. SnapshotsOK'
  BY <1>1, <1>2, <1>6, SnapshotsStay DEF IInv
<1>9. \A kinds, o : Waiting(kinds, o)' <=> Waiting(kinds, o)
  BY <1>1 DEF Waiting
<1>10. TypesOK'
  BY <1>1, <1>2, <1>4 DEF IInv, TypesOK
<1>11. PhasesOK'
  BY <1>1, <1>3, <1>4 DEF PhasesOK, Restoring
<1>12. MainOK'
  BY <1>1 DEF IInv, MainOK
<1>13. QueueOK'
  <2>1. \A i \in 1..Len(queued) : queued[i].kind # "shell code"
    BY <1>1, NoShellCode
  <2> QED
    BY <1>1, <1>4, <2>1, QueueStays
<1>14. ThreadsOK'
  <2>1. ASSUME NEW t \in Thread \ missed PROVE Changing(t)' \/ Known(t)'
    <3>1. Restored(t) /\ t \in Object
      BY <1>3 DEF AllRestored, Object
    <3>2. t \in alive => t \in current_thread_ids /\ t \in Loaded(target)
      BY <1>3, <3>1 DEF Restored
    <3>3. t \in current_thread_ids => t \in alive \/ Changing(t)
      BY <1>3, <3>1 DEF Restored
    <3>4. Changing(t)' <=> Changing(t)
      BY <1>9 DEF Changing
    <3> QED
      BY <1>1, <1>6, <3>1, <3>2, <3>3, <3>4 DEF Known
  <2> QED
    BY <1>1, <2>1 DEF ThreadsOK, AllKnown
<1>15. DllsOK'
  <2>1. ASSUME NEW d \in dlls' \ missed' PROVE Waiting({"load dll"}, d)' \/ d \in Loaded(Now)'
    <3>1. d \in Object /\ d \in dlls \ missed
      BY <1>1 DEF IInv, TypesOK, Object
    <3> QED
      BY <1>3, <1>6, <1>9, <3>1 DEF DllsGoing
  <2> QED
    BY <2>1 DEF DllsOK, DllsKnown
<1>16. NextSnapshotOK'
  <2>1. ASSUME target = <<0, 0>>, NEW p \in (Loaded(Now) \ Hidden(Now))' PROVE Present(p)'
    <3>1. p \in Object
      BY DEF Loaded, LoadedAt
    <3>2. p = Main
      BY <1>6, <2>1, <3>1 DEF IInv, SnapshotsOK
    <3> QED
      BY <1>1, <3>2, TimeRestoreAssumption DEF IInv, MainOK, Present
  <2> QED
    BY <1>1, <1>3, <2>1 DEF NextSnapshotOK, AllPresent
<1>17. DllsRestoreOK' /\ ThreadsRestoreOK'
  BY <1>1, <1>3 DEF DllsRestoreOK, ThreadsRestoreOK, Restoring
<1> QED
  BY <1>7, <1>8, <1>10, <1>11, <1>12, <1>13, <1>14, <1>15, <1>16, <1>17 DEF IInv

----------------------------------------------------------------------------
(* The invariant holds, and the properties with it.                        *)

LEMMA InitHolds ==
  ASSUME Init
  PROVE  IInv
<1>1. /\ alive = {Main} /\ dlls = {} /\ queued = <<>> /\ phase = "recording"
      /\ next_phase = "reconstruction" /\ current_thread_ids = {Main}
      /\ run_id = 0 /\ run_sequence = 1 /\ to_unload = {} /\ worker = NoWorker /\ missed = {}
      /\ history = [o \in Object |-> IF o = Main THEN <<NewTree(Info(Main, TRUE), 0, 0)>> ELSE <<>>]
      /\ snapshots = [v \in {<<0, 0>>} |-> [threads |-> [t \in {Main} |-> context[t]], dlls |-> {}]]
      /\ context = [t \in Thread |-> 1]
  BY DEF Init
<1>2. Main \in Thread /\ Main \in Object /\ Main \notin Dll
  BY TimeRestoreAssumption DEF Object
<1>3. worker.at = "none" /\ worker \in WorkerType
  BY <1>1, <1>2 DEF NoWorker, WorkerType
<1>4. TypesOK
  BY <1>1, <1>2, <1>3 DEF TypesOK
<1>5. Info(Main, TRUE) \in Record /\ Info(Main, TRUE).loaded /\ Info(Main, TRUE).context = context[Main]
  BY <1>2, <1>4, InfoTyped DEF Info
<1> DEFINE info == Info(Main, TRUE)
           k == <<NewTree(info, 0, 0)>>
<1>6. k = RecordOf(<<>>, info, 0, 0) /\ history[Main] = k
  BY <1>1, <1>2 DEF RecordOf
<1> HIDE DEF k, info
<1>7. info \in Record /\ info.loaded /\ info.context = context[Main]
  BY <1>5 DEF info
<1>8. HistoryOK(k, 0, 0) /\ AnswerOf(k, 0, 0) = info
  BY <1>6, <1>7, FirstRecord
<1>9. HistoryOK(k, 0, 1) /\ AnswerOf(k, 0, 1) = info
  BY <1>8, TimePasses
<1>10. LastIsLatest(k)
  BY <1>6, <1>7, RecordIsLast DEF HistoryOK
<1>11. \A o \in Object : o # Main => history[o] = <<>>
  BY <1>1
<1>12. HistoriesOK
  BY <1>1, <1>6, <1>9, <1>10, <1>11 DEF HistoriesOK, HistoryOK, LastIsLatest
<1>13. /\ Saved(Main, <<0, 0>>) = info /\ Main \in Loaded(<<0, 0>>) /\ Main \in Loaded(Now)
       /\ \A o \in Loaded(<<0, 0>>) : o = Main
  <2>1. \A o \in Object : o # Main => o \notin Loaded(<<0, 0>>)
    BY <1>11, Views DEF AnswerOf, Missing
  <2>2. \A o \in Loaded(<<0, 0>>) : o \in Object
    BY DEF Loaded, LoadedAt
  <2>3. Saved(Main, <<0, 0>>) = info /\ Main \in Loaded(<<0, 0>>)
    BY <1>2, <1>6, <1>7, <1>8, Views
  <2>4. Main \in Loaded(Now)
    BY <1>1, <1>2, <1>6, <1>7, <1>9, ViewsNow
  <2> QED
    BY <2>1, <2>2, <2>3, <2>4
<1>14. PhasesOK
  BY <1>1, <1>3 DEF PhasesOK, Restoring
<1>15. SnapshotsOK
  <2>1. DOMAIN snapshots = {<<0, 0>>}
    BY <1>1
  <2>2. /\ DOMAIN snapshots[<<0, 0>>].threads = {Main}
        /\ snapshots[<<0, 0>>].threads[Main] = context[Main]
    BY <1>1
  <2>3. Past(<<0, 0>>)
    BY <1>1 DEF Past
  <2>4. SnapshotOK(<<0, 0>>)
    BY <1>2, <1>7, <1>13, <2>2, <2>3 DEF SnapshotOK
  <2> QED
    BY <1>13, <2>1, <2>4 DEF SnapshotsOK
<1>16. MainOK /\ QueueOK
  BY <1>1, <1>3 DEF MainOK, QueueOK
<1>17. ThreadsOK
  BY <1>1, <1>13 DEF ThreadsOK, AllKnown, Known
<1>18. DllsOK /\ NextSnapshotOK /\ DllsRestoreOK /\ ThreadsRestoreOK
  BY <1>1 DEF DllsOK, DllsKnown, NextSnapshotOK, DllsRestoreOK, ThreadsRestoreOK, Restoring
<1> QED
  BY <1>4, <1>12, <1>14, <1>15, <1>16, <1>17, <1>18 DEF IInv

LEMMA StepKeeps ==
  ASSUME IInv, [Next]_vars
  PROVE  IInv'
<1>1. CASE Program
  BY <1>1, ProgramKeeps
<1>2. CASE Phases
  <2>1. ASSUME NEW kind \in {"create", "terminate"}, NEW t \in Thread \ {Main},
               NEW seq \in 1..MaxSequence, FinishThreadEvent(kind, t, seq)
        PROVE  IInv'
    <3>1. seq \in Nat
      BY TimeRestoreAssumption
    <3> QED
      BY <2>1, <3>1, FinishThreadEventKeeps
  <2> QED
    BY <1>2, <2>1, EventsKeep, CallBeginsKeeps, MicroSnapshotKeeps, CommandKeeps, RestoreStarts
       DEF Phases
<1>3. CASE DebugLoop
  BY <1>3, EventsKeep, RestoreDllEndsKeeps, RestoreFailsKeeps, PumpKeeps, ExitKeeps DEF DebugLoop
<1>4. CASE RunShellCode
  BY <1>4, RunShellCodeKeeps
<1>5. CASE Worker
  BY <1>5, WorkerStartsKeeps, WorkerTerminatesKeeps, WorkerUntracksKeeps, PumpKeeps DEF Worker
<1>6. CASE UNCHANGED vars
  BY <1>6, StutterKeeps
<1> QED
  BY <1>1, <1>2, <1>3, <1>4, <1>5, <1>6 DEF Next

\* IInv is inductive: it holds through any number of runs and restores.
THEOREM InvariantHolds == Spec => []IInv
<1>1. Init => IInv
  BY InitHolds
<1>2. IInv /\ [Next]_vars => IInv'
  BY StepKeeps
<1> QED
  BY <1>1, <1>2, PTL DEF Spec

\* Between restores the threads of the process, the set that a micro snapshot
\* goes through and the thread history of the run agree (thread_manager.cpp), in
\* whatever order the recorded calls return, for the threads that are not missed:
\* of a thread whose creation returns behind its end nothing is said.
THEOREM ThreadsStayKnown == Spec => []ThreadsAreKnown
<1>1. IInv => ThreadsAreKnown
  <2> SUFFICES ASSUME IInv, phase \in {"recording", "reconstruction", "debugger", "resume"},
                      NEW t \in Thread \ missed, ~Waits(t)
               PROVE  /\ t \in alive <=> t \in current_thread_ids
                      /\ t \in alive => t \in LoadedAt(run_id, run_sequence)
    BY DEF ThreadsAreKnown
  <2>1. ~Changing(t)
    BY ChangingWaits
  <2>2. Known(t)
    BY <2>1 DEF IInv, ThreadsOK, AllKnown
  <2> QED
    BY <2>2 DEF Known, Loaded, Now
<1> QED
  BY <1>1, InvariantHolds, PTL

\* When a restore ends (time_restore_phase.cpp), what is left of the process is
\* what the snapshot saved of it: no thread or DLL that it did not have, and
\* every thread with the registers it had, as far as the debugger has kept
\* track.
THEOREM RestoresRewind == Spec => []RestoreRewinds
<1>1. IInv => RestoreRewinds
  <2> SUFFICES ASSUME IInv, phase = "exit"
               PROVE  /\ \A t \in alive \cap ((Object \ missed) \ Hidden(target)) :
                             /\ t \in DOMAIN snapshots[target].threads
                             /\ context[t] = snapshots[target].threads[t]
                      /\ dlls \cap ((Object \ missed) \ Hidden(target)) \subseteq snapshots[target].dlls
    BY DEF RestoreRewinds
  <2>1. /\ worker.at = "ready" /\ to_unload = {} /\ worker.leftover = {} /\ AllRestored /\ DllsGoing
        /\ target \in DOMAIN snapshots
    BY DEF IInv, PhasesOK, Restoring, ThreadsRestoreOK, DllsRestoreOK
  <2>2. SnapshotOK(target)
    BY <2>1 DEF IInv, SnapshotsOK
  <2>3. ASSUME NEW t \in alive \cap ((Object \ missed) \ Hidden(target))
        PROVE  t \in DOMAIN snapshots[target].threads /\ context[t] = snapshots[target].threads[t]
    <3>1. t \in Thread \ missed
      BY DEF IInv, TypesOK
    <3>2. t \in Loaded(target) /\ context[t] = Saved(t, target).context
      BY <2>1, <2>3, <3>1 DEF AllRestored, Restored
    <3> QED
      BY <2>2, <2>3, <3>1, <3>2 DEF SnapshotOK
  <2>4. ASSUME NEW d \in dlls \cap ((Object \ missed) \ Hidden(target))
        PROVE  d \in snapshots[target].dlls
    <3>1. d \in dlls \ missed /\ d \notin Thread
      BY TimeRestoreAssumption DEF IInv, TypesOK
    <3>2. ~Waiting({"load dll"}, d)
      BY <2>1 DEF IInv, QueueOK, Waiting
    <3>3. d \in Loaded(target)
      BY <2>1, <3>1, <3>2 DEF DllsGoing
    <3> QED
      BY <2>2, <2>4, <3>1, <3>3 DEF SnapshotOK
  <2> QED
    BY <2>3, <2>4
<1> QED
  BY <1>1, InvariantHolds, PTL

=============================================================================
