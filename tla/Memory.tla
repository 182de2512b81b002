------------------------------- MODULE Memory -------------------------------
(***************************************************************************)
(* How the address space of the debuggee is saved and put back:            *)
(* memory_manager.cpp and the histories of src/utils/memory, one           *)
(* ExecutionTree per region.  A region is what VirtualQueryEx reports, a   *)
(* run of pages of one allocation in one state; writes, commits and        *)
(* changes of protection merge and split regions between snapshots.  What  *)
(* a region held at a snapshot is part of its description here; module     *)
(* PageHistory shows that a page's fat nodes answer the same.              *)
(***************************************************************************)
EXTENDS ExecutionTree, Clock, FiniteSets, SequencesExt

CONSTANTS MaxPage, Content, Zero,
          Image,               \* the pages of the one DLL
          Trampoline,          \* the page on address_blacklist
          MaxChanges           \* bound on what the debuggee does

Page == 1..MaxPage

ASSUME MemoryAssumption ==
    /\ Zero \in Content /\ Trampoline \in Page \ Image
    /\ \E first, last \in Page : Image = first..last
    /\ MaxPage \in Nat /\ MaxRun \in Nat /\ MaxSequence \in Nat /\ MaxChanges \in Nat

VARIABLES memory,              \* page |-> allocation base, type, state, content
          history,             \* process_history_: allocation base |-> regions_history_
          saved,               \* what memory was at each snapshot
          target,
          changes

vars == <<memory, history, run_id, run_sequence, saved, target, changes>>

FreePage == [base |-> 0, type |-> "none", state |-> "free", content |-> Zero]
PageOf(b, type, state, c) == [base |-> b, type |-> type, state |-> state, content |-> c]
MEM_COMMIT == {"read only", "read write"}

Init ==
    /\ memory = [p \in Page |-> IF p = Trampoline THEN PageOf(p, "private", "read only", Zero)
                                ELSE FreePage]
    /\ history = [p \in Page |-> <<>>]
    /\ run_id = 0 /\ run_sequence = 0
    /\ saved = [v \in {} |-> memory]
    /\ target = <<0, 0>> /\ changes = 0

----------------------------------------------------------------------------
(* The debuggee.                                                           *)

Becomes(m) ==
    /\ changes < MaxChanges /\ changes' = changes + 1
    /\ memory' = m
    /\ UNCHANGED <<history, run_id, run_sequence, saved, target>>

IsFree(pages) == pages \subseteq Page /\ \A p \in pages : memory[p].state = "free"
Owns(p) == p # Trampoline /\ memory[p].type = "private"
Filled(pages, page) == [p \in Page |-> IF p \in pages THEN page ELSE memory[p]]

VirtualAlloc(b, n, state) ==
    IsFree(b..(b + n - 1)) /\ Becomes(Filled(b..(b + n - 1), PageOf(b, "private", state, Zero)))
Commit(p) ==
    Owns(p) /\ memory[p].state = "reserve" /\ Becomes([memory EXCEPT ![p].state = "read write"])
Decommit(p) ==
    /\ Owns(p) /\ memory[p].state \in MEM_COMMIT
    /\ Becomes([memory EXCEPT ![p].state = "reserve", ![p].content = Zero])
Protect(p, state) ==
    /\ p # Trampoline /\ memory[p].state \in MEM_COMMIT \ {state} /\ state \in MEM_COMMIT
    /\ Becomes([memory EXCEPT ![p].state = state])
Write(p, c) ==
    /\ p # Trampoline /\ memory[p].state = "read write" /\ memory[p].content # c
    /\ Becomes([memory EXCEPT ![p].content = c])
VirtualFree(b) ==
    Owns(b) /\ Becomes([p \in Page |-> IF memory[p].base = b THEN FreePage ELSE memory[p]])

ImageBase == CHOOSE b \in Image : \A p \in Image : b <= p
LoadDll == IsFree(Image) /\ Becomes(Filled(Image, PageOf(ImageBase, "image", "read only", Zero)))
UnloadDll == memory[ImageBase].type = "image" /\ Becomes(Filled(Image, FreePage))

----------------------------------------------------------------------------
(* SnapshotMemory.  Free regions, which have no allocation and are never   *)
(* put back, are left out.                                                 *)

OneRegion(p, q) == memory[p].base = memory[q].base /\ memory[p].state = memory[q].state
BaseAddresses == {p \in Page : p = 1 \/ ~OneRegion(p - 1, p)}
RegionPages(p) == {q \in p..MaxPage : \A r \in p..q : OneRegion(p, r)}
RegionSize(p) == Cardinality(RegionPages(p))

mbi(p) == [state |-> memory[p].state, size |-> RegionSize(p),
           content |-> [i \in 1..RegionSize(p) |-> memory[p + i - 1].content]]
Freed == [state |-> "free", size |-> 0, content |-> <<>>]

Scanned == {p \in BaseAddresses : memory[p].state # "free" /\ p # Trampoline}
ScannedOf(a) == SetToSortSeq({p \in Scanned : memory[p].base = a}, <)

Known(a) == {history[a][i].base_address : i \in DOMAIN history[a]}
RecordIn(region, info) ==
    [region EXCEPT !.tree = AddChild(@, info, run_id, run_sequence)]

\* AllocationRegion::update, for every region of the scan.
Updated(a) ==
    [i \in DOMAIN history[a] |->
        IF history[a][i].base_address \in ToSet(ScannedOf(a))
        THEN RecordIn(history[a][i], mbi(history[a][i].base_address)) ELSE history[a][i]]
    \o LET new == SelectSeq(ScannedOf(a), LAMBDA p : p \notin Known(a))
       IN  [i \in DOMAIN new |->
               [base_address |-> new[i], tree |-> NewTree(mbi(new[i]), run_id, run_sequence)]]

\* The constructor keeps no note of the region it was given.
seen_base_addresses(a) ==
    IF history[a] = <<>> /\ ScannedOf(a) # <<>> THEN Tail(ScannedOf(a)) ELSE ScannedOf(a)

\* Mutant: what a scan does not find stays what it was.
NothingStale(a) == Updated(a)

update_stale_regions(a) ==
    IF Len(Updated(a)) = Len(seen_base_addresses(a)) THEN Updated(a)
    ELSE [i \in DOMAIN Updated(a) |->
             IF Updated(a)[i].base_address \in ToSet(seen_base_addresses(a)) THEN Updated(a)[i]
             ELSE RecordIn(Updated(a)[i], Freed)]

SnapshotMemory ==
    /\ run_sequence < MaxSequence
    /\ history' = [a \in Page |-> update_stale_regions(a)]
    /\ saved' = [v \in DOMAIN saved \cup {<<run_id, run_sequence>>} |->
                    IF v = <<run_id, run_sequence>> THEN memory ELSE saved[v]]
    /\ run_sequence' = run_sequence + 1
    /\ UNCHANGED <<memory, run_id, target, changes>>

----------------------------------------------------------------------------
(* RestoreMemoryAtSequence.                                                *)

StateAt(region, v) == GetState(region.tree, v[1], v[2], Freed)

\* get_current_regions, is_allocation_freed, get_current_allocation_regions
current_regions(a, v) == SelectSeq(history[a], LAMBDA region : StateAt(region, v).state # "free")
is_allocation_freed(a, v) ==
    history[a] = <<>> \/ StateAt(history[a][1], v).state = "free"
current_allocations(v) == {a \in Page : ~is_allocation_freed(a, v)}

total_region_size(a, v) ==
    FoldSeq(LAMBDA region, sum : sum + StateAt(region, v).size, 0, current_regions(a, v))

\* The DLLs that the snapshot does not have were unloaded before; private
\* memory that is not on the blacklist is freed.
Stays(p, v) ==
    \/ p = Trampoline
    \/ memory[p].type = "image" /\ saved[v][p].type = "image"
Remaining(v) == [p \in Page |-> IF Stays(p, v) THEN memory[p] ELSE FreePage]

overwriting_existing(a, v) == Remaining(v)[a].state # "free"

Reserved(a, v) == a..(a + total_region_size(a, v) - 1)
Reserves(a, v) ==
    /\ ~overwriting_existing(a, v)
    /\ \A p \in Reserved(a, v) : p \in Page /\ Remaining(v)[p].state = "free"

\* The committed regions written over a page; the last one stays.
WrittenTo(p, a, v) ==
    {i \in DOMAIN current_regions(a, v) :
        LET region == current_regions(a, v)[i]
        IN  /\ StateAt(region, v).state \in MEM_COMMIT
            /\ p \in region.base_address..(region.base_address + StateAt(region, v).size - 1)}
LastWritten(p, a, v) ==
    current_regions(a, v)[CHOOSE i \in WrittenTo(p, a, v) : \A j \in WrittenTo(p, a, v) : j <= i]
Rewritten(page, p, a, v) ==
    LET region == LastWritten(p, a, v)
    IN  [page EXCEPT !.state = StateAt(region, v).state,
                     !.content = StateAt(region, v).content[p - region.base_address + 1]]

Rebuilt(p, v) ==
    LET page == Remaining(v)[p]
        on == {a \in current_allocations(v) : Reserves(a, v) /\ p \in Reserved(a, v)}
        over == {a \in current_allocations(v) :
                    overwriting_existing(a, v) /\ WrittenTo(p, a, v) # {}}
    IN  IF page.state \in MEM_COMMIT /\ over # {}
        THEN Rewritten(page, p, CHOOSE a \in over : TRUE, v)
        ELSE IF on # {}
        THEN LET a == CHOOSE a \in on : TRUE
                 reserve == PageOf(a, "private", "reserve", Zero)
             IN  IF WrittenTo(p, a, v) # {} THEN Rewritten(reserve, p, a, v) ELSE reserve
        ELSE page

\* CreateMemoryHistoryBranch
Branch(region, v) ==
    [region EXCEPT !.tree = RevertToState(@, v[1], v[2], run_id + 1)]

Restore(v) ==
    /\ run_id < MaxRun
    /\ memory' = [p \in Page |-> Rebuilt(p, v)]
    /\ history' = [a \in Page |-> [i \in DOMAIN history[a] |-> Branch(history[a][i], v)]]
    /\ run_id' = run_id + 1 /\ run_sequence' = 0
    /\ target' = v
    /\ UNCHANGED <<saved, changes>>

----------------------------------------------------------------------------
Debuggee ==
    \/ \E p \in Page : \/ \E n \in 1..MaxPage, state \in {"reserve", "read write"} :
                              VirtualAlloc(p, n, state)
                       \/ Commit(p) \/ Decommit(p) \/ VirtualFree(p)
                       \/ \E state \in MEM_COMMIT : Protect(p, state)
                       \/ \E c \in Content : Write(p, c)
    \/ LoadDll \/ UnloadDll

Next == Debuggee \/ SnapshotMemory \/ \E v \in DOMAIN saved : Restore(v)

Spec == Init /\ [][Next]_vars

----------------------------------------------------------------------------
Looks(page) == <<page.base, page.state, page.content>>

\* A restore leaves every page in the allocation, the state, the protection and
\* with the contents it had when the snapshot was taken - whatever was
\* allocated, freed, reused, merged and split since, in this run or in others -
\* and does not touch the trampoline.
RestoreIsExact ==
    [][run_id' # run_id =>
          /\ \A p \in Page \ {Trampoline} : Looks(memory'[p]) = Looks(saved[target'][p])
          /\ memory'[Trampoline] = memory[Trampoline]]_vars
=============================================================================
