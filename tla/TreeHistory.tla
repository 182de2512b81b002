---------------------------- MODULE TreeHistory ----------------------------
(***************************************************************************)
(* The history of one object (a DLL, the description of a memory region)   *)
(* kept in an ExecutionTree the way the managers keep it: the first change *)
(* constructs the tree (try_emplace), later ones call AddChild, and the    *)
(* exit of a time restore calls RevertToState on the trees that exist.     *)
(***************************************************************************)
EXTENDS ExecutionTree, Clock

CONSTANTS State,             \* what can be recorded about the object
          Unknown,           \* GetState's nullopt
          MaxNodes           \* bound on the size of the tree

ASSUME TreeHistoryAssumption ==
    /\ Unknown \notin State
    /\ MaxRun \in Nat /\ MaxSequence \in Nat /\ MaxNodes \in Nat

VARIABLES state,         \* the object itself
          tree,          \* <<tree>> once the object was seen, <<>> before
          versions       \* the versions snapshot_history holds a snapshot for

object_vars == <<state, tree, run_id, run_sequence, versions>>

Seen == tree # <<>>

At(run, seq) == IF Seen THEN GetState(tree[1], run, seq, Unknown) ELSE Unknown

ObjectInit ==
    /\ state = Unknown
    /\ tree = <<>>
    /\ run_id = 0
    /\ run_sequence = 0
    /\ versions = {}

\* The version the object was first seen in.  The object is recorded again in
\* that version (a new thread by the first snapshot) but assumed not to change
\* in it: FindNode goes on finding the node of the creation.
Creation == <<tree[1].nodes[1].run, tree[1].nodes[1].seq>>

\* TrackDLL / UntrackDLL / RegionHistory::update at the current clock.
RecordState(s) ==
    /\ IF Seen
       THEN /\ Len(tree[1].nodes) < MaxNodes
            /\ Creation = <<run_id, run_sequence>> => s = tree[1].nodes[1].state
            /\ tree' = <<AddChild(tree[1], s, run_id, run_sequence)>>
       ELSE tree' = <<NewTree(s, run_id, run_sequence)>>
    /\ state' = s
    /\ UNCHANGED <<run_id, run_sequence, versions>>

\* BaseEvent's constructor moves the clock.
Tick ==
    /\ run_sequence < MaxSequence
    /\ run_sequence' = run_sequence + 1
    /\ UNCHANGED <<state, tree, run_id, versions>>

\* SnapshotProcess names the version and moves the clock.
Snapshot ==
    /\ run_sequence < MaxSequence
    /\ versions' = versions \cup {<<run_id, run_sequence>>}
    /\ run_sequence' = run_sequence + 1
    /\ UNCHANGED <<state, tree, run_id>>

\* TimeRestorePhase: the object is put back as GetState has it for a valid
\* snapshot, and Exit continues the tree from there.
Restore(v) ==
    /\ run_id < MaxRun
    /\ run_id' = run_id + 1
    /\ run_sequence' = 0
    /\ state' = At(v[1], v[2])
    /\ tree' = IF Seen THEN <<RevertToState(tree[1], v[1], v[2], run_id + 1)>>
                       ELSE tree
    /\ UNCHANGED versions

ObjectNext ==
    \/ \E s \in State : RecordState(s)
    \/ Tick
    \/ Snapshot
    \/ \E v \in versions : Restore(v)

ObjectSpec == ObjectInit /\ [][ObjectNext]_object_vars

----------------------------------------------------------------------------
TypeOK ==
    /\ state \in State \cup {Unknown}
    /\ Len(tree) <= 1
    /\ run_id \in 0..MaxRun /\ run_sequence \in 0..MaxSequence
    /\ versions \subseteq (0..MaxRun) \X (0..MaxSequence)
    /\ Seen => /\ tree[1].cursor \in 0..Len(tree[1].nodes)
               /\ \A i \in 1..Len(tree[1].nodes) :
                     /\ tree[1].nodes[i].state \in State
                     /\ tree[1].nodes[i].parent < i

\* The tree implements a versioned register: whatever is recorded later, in
\* whatever run, the state found for a snapshot is the state the object had
\* when the snapshot was taken, and a run starts with the state of the
\* snapshot it was branched from (execution_tree.h:84-163).
Register == INSTANCE VersionedRegister WITH
    Value   <- State \cup {Unknown},
    run     <- run_id,
    seq     <- run_sequence,
    current <- state,
    past    <- [v \in versions |-> At(v[1], v[2])]
ImplementsRegister == Register!Spec

============================================================================
