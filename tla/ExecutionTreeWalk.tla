------------------------- MODULE ExecutionTreeWalk -------------------------
(***************************************************************************)
(* The depth-first loops of src/utils/execution_tree.h, one operator per   *)
(* loop, over the trees that TreeHistory reaches.  The loops share their   *)
(* skeleton: a stack that starts with every child of the hidden root; the  *)
(* back of the stack is visited, and of its children those whose run is    *)
(* not later than the target run are pushed.                               *)
(***************************************************************************)
EXTENDS TreeHistory

\* The children of p, in the order they are pushed.  branch_children is
\* ordered by run; runs are numbered upwards, so that is the order of age.
Children(t, p, runs) ==
    SelectSeq([i \in 1..Len(t.nodes) |-> i],
              LAMBDA i : t.nodes[i].parent = p /\ t.nodes[i].run \in runs)

Top(stack) == stack[Len(stack)]
Below(stack) == SubSeq(stack, 1, Len(stack) - 1)

StartStack(t) == Children(t, Root, 0..MaxRun)

\* Mutant: the last node seen wins.
LastSeen(t, n, best, run, seq) ==
    /\ t.nodes[n].run = run
    /\ t.nodes[n].seq <= seq

Better(t, n, best, run, seq) ==
    /\ t.nodes[n].run = run
    /\ t.nodes[n].seq <= seq
    /\ best = NotFound \/ t.nodes[n].seq > t.nodes[best].seq

IsOrigin(t, n, run) == <<n, run>> \in t.branches /\ t.nodes[n].run # run

Exact(t, n, run, seq) == t.nodes[n].run = run /\ t.nodes[n].seq = seq

\* FindNode: an exact node ends the walk.
RECURSIVE FindLoop(_, _, _, _, _, _)
FindLoop(t, run, seq, stack, best, origin) ==
    IF stack = <<>>
    THEN IF best # NotFound THEN best ELSE origin
    ELSE LET n == Top(stack) IN
         IF Exact(t, n, run, seq)
         THEN n
         ELSE FindLoop(t, run, seq,
                       Below(stack) \o Children(t, n, 0..run),
                       IF Better(t, n, best, run, seq) THEN n ELSE best,
                       IF IsOrigin(t, n, run) THEN n ELSE origin)

\* get_nearest_state: the same walk, always to the end.
RECURSIVE NearestLoop(_, _, _, _, _, _)
NearestLoop(t, run, seq, stack, best, origin) ==
    IF stack = <<>>
    THEN IF best # NotFound THEN best ELSE origin
    ELSE LET n == Top(stack) IN
         NearestLoop(t, run, seq,
                     Below(stack) \o Children(t, n, 0..run),
                     IF Better(t, n, best, run, seq) THEN n ELSE best,
                     IF IsOrigin(t, n, run) THEN n ELSE origin)

\* GetExactNode and ExactNodeExists: exact or nothing.
RECURSIVE ExactLoop(_, _, _, _)
ExactLoop(t, run, seq, stack) ==
    IF stack = <<>>
    THEN NotFound
    ELSE LET n == Top(stack) IN
         IF Exact(t, n, run, seq)
         THEN n
         ELSE ExactLoop(t, run, seq, Below(stack) \o Children(t, n, 0..run))

----------------------------------------------------------------------------
Versions == (0..run_id) \X (0..MaxSequence)

\* FindNode's loop, and the copy of it the reverse step uses to find its
\* snapshot, find the latest node of the target run, or the branch point, and
\* settle ties the way ExecutionTree defines: pruning runs later than the
\* target loses no node, and the step and the restore that follows it go back
\* to one snapshot.  A snapshot number the user may ask for (ExactNodeExists)
\* names a node exactly when some node was recorded under that version, and
\* the restore uses that very node (execution_tree.h:110-214,
\* snapshot_log.cpp:53-66).
WalksFindLatest ==
    Seen => \A v \in Versions :
        LET start == StartStack(tree[1])
            node  == FindNode(tree[1], v[1], v[2])
            exact == ExactLoop(tree[1], v[1], v[2], start)
            recorded == \E i \in 1..Len(tree[1].nodes) :
                           tree[1].nodes[i].run = v[1] /\ tree[1].nodes[i].seq = v[2]
        IN  /\ FindLoop(tree[1], v[1], v[2], start, NotFound, NotFound) = node
            /\ NearestLoop(tree[1], v[1], v[2], start, NotFound, NotFound) = node
            /\ exact = IF recorded THEN node ELSE NotFound
============================================================================
