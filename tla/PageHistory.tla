---------------------------- MODULE PageHistory ----------------------------
(***************************************************************************)
(* FatNodeHistory of src/utils/fully_persistent_region.h: the contents of  *)
(* one page over all runs.  A branch is the list of the page's contents    *)
(* recorded in a run, oldest first; a snapshot adds a node only when the   *)
(* page differs from the node under the cursor.  The page comes and goes   *)
(* with its region; whether it was committed at a snapshot is known from   *)
(* the region's description (mbi_history_), kept here in committed.        *)
(***************************************************************************)
EXTENDS Naturals, Sequences

CONSTANTS Content,          \* what a page may hold
          Zero,             \* the page of zeroes a resized buffer holds
          Absent,           \* the page is not committed
          MaxRun, MaxSeq    \* bounds on the clock

ASSUME PageHistoryAssumption ==
    /\ Absent \notin Content
    /\ Zero \in Content
    /\ MaxRun \in Nat /\ MaxSeq \in Nat

VARIABLES page,             \* what the debuggee's page holds now
          branches,         \* fat_node_branches_: run |-> its nodes
          branch_history,   \* branch_history_: run |-> <<>> or <<run, seq>>
          created,          \* <<>> or <<run, seq>>: created_run_*_
          cursor,           \* <<>> or <<run, index>>: current_run_*_
          run_id, run_sequence,
          snapshots,        \* versions with a snapshot
          committed         \* those of them at which the page was committed

history == <<branches, branch_history, created, cursor>>
vars == <<page, history, run_id, run_sequence, snapshots, committed>>

None == <<>>
Extend(f, k, x) == [i \in DOMAIN f \cup {k} |-> IF i = k THEN x ELSE f[i]]

Init ==
    /\ page \in Content \cup {Absent}
    /\ branches = [r \in {} |-> <<>>]
    /\ branch_history = [r \in {} |-> None]
    /\ created = None
    /\ cursor = None
    /\ run_id = 0 /\ run_sequence = 0
    /\ snapshots = {} /\ committed = {}

----------------------------------------------------------------------------
(* get_node_nearest                                                        *)

BeforeCreation(run, seq) ==
    \/ run < created[1]
    \/ run = created[1] /\ seq < created[2]

\* Mutant: lower_bound.
NodesBefore(run, seq) ==
    LET nodes == branches[run]
    IN  CHOOSE n \in 0..Len(nodes) : /\ \A i \in 1..n : nodes[i].seq < seq
                                     /\ \A i \in (n + 1)..Len(nodes) : seq <= nodes[i].seq

\* upper_bound - 1: how many nodes of the branch, which is sorted, are at or
\* before seq.
NodesUpTo(run, seq) ==
    LET nodes == branches[run]
    IN  CHOOSE n \in 0..Len(nodes) : /\ \A i \in 1..n : nodes[i].seq <= seq
                                     /\ \A i \in (n + 1)..Len(nodes) : seq < nodes[i].seq

Version == (0..MaxRun) \X (0..MaxSeq)

\* Climb from a run to the run it was branched from until there is a node.
Climb[v \in Version] ==
    IF NodesUpTo(v[1], v[2]) > 0
    THEN <<v[1], NodesUpTo(v[1], v[2])>>
    ELSE IF v[1] \notin DOMAIN branch_history \/ branch_history[v[1]] = None
    THEN None
    ELSE Climb[branch_history[v[1]]]

\* Where the cursor ends up; None is the nullopt of all three early exits.
Nearest(run, seq) ==
    IF created = None \/ BeforeCreation(run, seq) \/ run \notin DOMAIN branches
    THEN None
    ELSE Climb[<<run, seq>>]

NodeAt(place) == branches[place[1]][place[2]]

\* get_region_at_time leaves a page without a node zeroed.
ContentAt(run, seq) ==
    IF Nearest(run, seq) = None THEN Zero ELSE NodeAt(Nearest(run, seq)).content

----------------------------------------------------------------------------
(* The debuggee.                                                           *)

\* Writes, commits and decommits.
Change(c) ==
    /\ page' = c
    /\ UNCHANGED <<history, run_id, run_sequence, snapshots, committed>>

\* An intercepted call moves the clock.
Event ==
    /\ run_sequence < MaxSeq
    /\ run_sequence' = run_sequence + 1
    /\ UNCHANGED <<page, history, run_id, snapshots, committed>>

(* SnapshotMemory -> FullyPersistentRegion::update -> FatNodeHistory.      *)
Node == [seq |-> run_sequence, content |-> page]

\* The first time the page is seen, and whenever the cursor is lost, the node
\* becomes the first of its run.
FirstNode ==
    /\ cursor = None
    /\ created' = IF created = None THEN <<run_id, run_sequence>> ELSE created
    /\ branches' = Extend(branches, run_id,
                          IF run_id \in DOMAIN branches
                          THEN Append(branches[run_id], Node) ELSE <<Node>>)
    /\ cursor' = <<run_id, 1>>

SamePage ==
    /\ cursor # None
    /\ NodeAt(cursor).content = page
    /\ UNCHANGED <<created, branches, cursor>>

\* Mutant: the cursor stays behind.
ChangedPageKeepsCursor ==
    /\ cursor # None
    /\ NodeAt(cursor).content # page
    /\ branches' = [branches EXCEPT ![run_id] = Append(@, Node)]
    /\ UNCHANGED <<cursor, created>>

ChangedPage ==
    /\ cursor # None
    /\ NodeAt(cursor).content # page
    /\ branches' = [branches EXCEPT ![run_id] = Append(@, Node)]
    /\ cursor' = <<run_id, IF cursor[1] = run_id THEN cursor[2] + 1 ELSE 1>>
    /\ UNCHANGED created

Snapshot ==
    /\ run_sequence < MaxSeq
    /\ \/ /\ page # Absent
          /\ FirstNode \/ SamePage \/ ChangedPage
          /\ committed' = committed \cup {<<run_id, run_sequence>>}
       \/ /\ page = Absent
          /\ UNCHANGED <<created, branches, cursor, committed>>
    /\ snapshots' = snapshots \cup {<<run_id, run_sequence>>}
    /\ run_sequence' = run_sequence + 1
    /\ UNCHANGED <<page, branch_history, run_id>>

\* RestoreMemoryAtSequence writes the page as it was at the snapshot, then
\* CreateMemoryHistoryBranch calls make_branch, which moves the cursor.
Restored(v) == IF v \in committed THEN ContentAt(v[1], v[2]) ELSE Absent

Restore(v) ==
    /\ run_id < MaxRun
    /\ page' = Restored(v)
    /\ IF created = None
       THEN UNCHANGED history
       ELSE /\ cursor' = Nearest(v[1], v[2])
            /\ branches' = Extend(branches, run_id + 1, <<>>)
            /\ branch_history' = Extend(branch_history, run_id + 1,
                                        IF cursor' = None THEN None ELSE v)
            /\ UNCHANGED created
    /\ run_id' = run_id + 1
    /\ run_sequence' = 0
    /\ UNCHANGED <<snapshots, committed>>

Next ==
    \/ \E c \in Content \cup {Absent} : Change(c)
    \/ Event
    \/ Snapshot
    \/ \E v \in snapshots : Restore(v)

Spec == Init /\ [][Next]_vars

----------------------------------------------------------------------------
TypeOK ==
    /\ page \in Content \cup {Absent}
    /\ DOMAIN branches \subseteq 0..MaxRun
    /\ \A r \in DOMAIN branches :
          branches[r] \in Seq([seq : 0..MaxSeq, content : Content])
    /\ DOMAIN branch_history \subseteq DOMAIN branches
    /\ run_id \in 0..MaxRun /\ run_sequence \in 0..MaxSeq
    /\ committed \subseteq snapshots

\* The node that update compares with is in bounds and is the node a lookup
\* at the current version would find: the cached cursor never goes stale, in
\* whatever order snapshots, restores and decommits come
\* (fully_persistent_region.h:111-132, 145-147).
CursorIsNearest ==
    created # None =>
        /\ cursor = Nearest(run_id, run_sequence)
        /\ cursor # None => cursor[2] \in 1..Len(branches[cursor[1]])

\* Skipping equal pages and climbing to parent runs lose nothing: a restore
\* writes exactly the page the snapshot saw, however much was recorded in
\* between (fully_persistent_region.h:50-143, memory_manager.cpp:52-112).
Register == INSTANCE VersionedRegister WITH
    Value   <- Content \cup {Absent},
    run     <- run_id,
    seq     <- run_sequence,
    current <- page,
    past    <- [v \in snapshots |-> Restored(v)]
ImplementsRegister == Register!Spec
============================================================================
