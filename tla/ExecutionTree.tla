--------------------------- MODULE ExecutionTree ---------------------------
(***************************************************************************)
(* ExecutionTree<Data> of src/utils/execution_tree.h as a data type.       *)
(*                                                                         *)
(* A tree is a record:                                                     *)
(*   nodes     the nodes in the order they were added; node i has a run, a *)
(*             seq, a state and a parent (0 is the hidden tree_node_)      *)
(*   branches  the keys that exist in branch_children, as <<node, run>>:   *)
(*             RevertToState creates a key with no children                *)
(*   cursor    the node new children are attached to                       *)
(* branch_children[r] of node p is the nodes of run r whose parent is p,   *)
(* in the order they were added, so the children need no field of their    *)
(* own.                                                                    *)
(***************************************************************************)
EXTENDS Naturals, Sequences

Root == 0
NotFound == 0

Node(state, run, seq, parent) ==
    [state |-> state, run |-> run, seq |-> seq, parent |-> parent]

\* The constructor: one node under the hidden root, which becomes the cursor.
NewTree(state, run, seq) ==
    [nodes    |-> <<Node(state, run, seq, Root)>>,
     branches |-> {<<Root, run>>},
     cursor   |-> 1]

\* The cursor does not move: every node of a run hangs off the node the run
\* started from.
AddChild(tree, state, run, seq) ==
    [tree EXCEPT !.nodes    = Append(@, Node(state, run, seq, tree.cursor)),
                 !.branches = @ \cup {<<tree.cursor, run>>}]

----------------------------------------------------------------------------
(* Searching.  The source walks the tree depth first; module               *)
(* ExecutionTreeWalk has those loops, and a run of it checks that they     *)
(* find what is defined here.                                              *)

\* Mutant: a node of the version looked for does not count.
Before(tree, run, seq) ==
    {n \in 1..Len(tree.nodes) : /\ tree.nodes[n].run = run
                                /\ tree.nodes[n].seq < seq}

\* The nodes of a run at or before seq, and the latest of them.
UpTo(tree, run, seq) ==
    {n \in 1..Len(tree.nodes) : /\ tree.nodes[n].run = run
                                /\ tree.nodes[n].seq <= seq}

Latest(tree, C) ==
    {n \in C : \A m \in C : tree.nodes[m].seq <= tree.nodes[n].seq}

\* Which of several nodes with one version is visited first: the one the
\* others hang off, and among siblings the youngest, which was pushed last.
FirstVisited(tree, C) ==
    CHOOSE n \in C : \A m \in C \ {n} :
        \/ tree.nodes[m].parent = n
        \/ tree.nodes[m].parent = tree.nodes[n].parent /\ m < n

\* The node a run was branched from.  A branch off the hidden root has none.
Origin(tree, run) ==
    {n \in 1..Len(tree.nodes) : /\ <<n, run>> \in tree.branches
                                /\ tree.nodes[n].run # run}

\* The latest node of the run at or before seq, else the node the run was
\* branched from, else nothing.
FindNode(tree, run, seq) ==
    IF UpTo(tree, run, seq) # {}
    THEN FirstVisited(tree, Latest(tree, UpTo(tree, run, seq)))
    ELSE IF Origin(tree, run) # {}
    THEN CHOOSE n \in Origin(tree, run) : TRUE
    ELSE NotFound

GetState(tree, run, seq, missing) ==
    LET n == FindNode(tree, run, seq)
    IN  IF n = NotFound THEN missing ELSE tree.nodes[n].state

\* Continue from the node found for <<run, seq>> (the hidden root when there
\* is none) with a new, empty branch.
RevertToState(tree, run, seq, new_run) ==
    LET n == FindNode(tree, run, seq)
    IN  [tree EXCEPT !.cursor = n, !.branches = @ \cup {<<n, new_run>>}]
============================================================================
