----------------------------- MODULE KernelHeap -----------------------------
(***************************************************************************)
(* The buddy allocator of vmm.c.  The tree is an array: the children of    *)
(* section n are 2n and 2n+1, and section 0 is a wrapper with section 1 as *)
(* its only child.  KernelHeapLock makes each call one step.               *)
(*                                                                         *)
(* Sizes are in a small unit; MINBLOCK is two of them, so that requests    *)
(* below, at and above a block size occur.  The array goes on below the    *)
(* sections of size MINBLOCK, but no search gets there: such a section is  *)
(* taken or occupied.                                                      *)
(***************************************************************************)
EXTENDS Integers, FiniteSets

CONSTANTS
    Levels,    \* levels of the tree below section 1
    Requests   \* sizes kalloc is called with

ASSUME LevelAssumption   == Levels \in Nat
ASSUME RequestAssumption == Requests \subseteq Nat

MINBLOCK == 2
Sections == 0 .. 2^(Levels + 1) - 1

(* kernel_heap_tree_init *)
Section[n \in Sections] ==
    IF n = 0 THEN [offset |-> 0, size |-> MINBLOCK * 2^(Levels + 1)]
    ELSE LET parent == Section[n \div 2]
             half   == parent.size \div 2
         IN [offset |-> parent.offset + (n % 2) * half, size |-> half]

(* The sections a search passes through to reach n. *)
Path[n \in Sections] == IF n = 0 THEN {} ELSE {n \div 2} \cup Path[n \div 2]

VARIABLES
    in_use,  \* HeapSection.in_use: the section or a part of it is allocated
    flags,   \* HeapSection.flags: the section itself is allocated
    leaked,  \* KernelHeapLock is held by a call that has returned
    live     \* allocations of the callers: section and requested size

vars == <<in_use, flags, leaked, live>>

OCCUPIED == "OCCUPIED"

TypeOK ==
    /\ in_use \in [Sections -> BOOLEAN]
    /\ flags \in [Sections -> {OCCUPIED, "free"}]
    /\ leaked \in BOOLEAN
    /\ live \subseteq [section : Sections, size : Requests]

Init ==
    /\ in_use = [n \in Sections |-> FALSE]
    /\ flags = [n \in Sections |-> "free"]
    /\ leaked = FALSE
    /\ live = {}

-----------------------------------------------------------------------------
(* find_heap_frame: of the sections of the one fitting size that the search   *)
(* reaches, the leftmost that has no part in use.                             *)
Fits(n, size) == /\ size <= Section[n].size
                 /\ Section[n].size \div 2 < size \/ Section[n].size = MINBLOCK

Candidate(n, size) == /\ Fits(n, size) /\ ~ in_use[n]
                      /\ \A m \in Path[n] \cup {n} : flags[m] # OCCUPIED

FirstFit(n, size) == /\ Candidate(n, size)
                     /\ \A m \in Sections : Candidate(m, size) => n <= m

(* Mutants: the path is not marked; or the buddy is marked too. *)
MarkedOnlyItself(n) == [in_use EXCEPT ![n] = TRUE]
MarkedWithBuddies(n) ==
    [m \in Sections |-> in_use[m] \/ m = n \/ m \in Path[n] \/ (m \div 2 = n \div 2 /\ m # 0)]

(* On the way back every section of the path is marked. *)
Marked(n) == [m \in Sections |-> in_use[m] \/ m = n \/ m \in Path[n]]

Allocate(n, size) ==
    /\ ~ leaked /\ FirstFit(n, size)
    /\ flags' = [flags EXCEPT ![n] = OCCUPIED]
    /\ in_use' = Marked(n)
    /\ live' = live \cup {[section |-> n, size |-> size]}
    /\ UNCHANGED leaked

(* A kalloc that finds nothing returns NULL and keeps KernelHeapLock.  (Then   *)
(* find_heap_frame ends without a return statement; the build is -O0, where    *)
(* the inner call's UINT64_MAX is still in rax.)                               *)
AllocateFails(size) ==
    /\ ~ leaked /\ ~ \E n \in Sections : Candidate(n, size)
    /\ leaked' = TRUE
    /\ UNCHANGED <<in_use, flags, live>>

kalloc(size) == (\E n \in Sections : Allocate(n, size)) \/ AllocateFails(size)

(* heap_search_by_offset finds section 0, which is in use as soon as anything *)
(* is; kfree then changes copies of the sections: the tree stays as it was.   *)
kfree(a) ==
    /\ ~ leaked /\ a \in live
    /\ live' = live \ {a}
    /\ UNCHANGED <<in_use, flags, leaked>>

(* An address below the heap, or one the search finds no section for: kfree   *)
(* returns false and keeps KernelHeapLock.                                    *)
kfree_outside ==
    /\ ~ leaked /\ leaked' = TRUE
    /\ UNCHANGED <<in_use, flags, live>>

(* With the lock leaked, the next call on this CPU panics, on another spins.  *)
Stuck == leaked /\ UNCHANGED vars

Next == \/ \E size \in Requests : kalloc(size)
        \/ \E a \in live : kfree(a)
        \/ kfree_outside
        \/ Stuck

Spec == Init /\ [][Next]_vars

-----------------------------------------------------------------------------
(* Properties *)

Bytes(n, size) == Section[n].offset .. Section[n].offset + size - 1

(* kalloc "returns a pointer to the start of a memory region of the requested *)
(* size": the regions the callers hold never overlap and lie in the heap.     *)
RegionsDisjoint ==
    \A a, b \in live :
        /\ Bytes(a.section, a.size) \subseteq Bytes(0, Section[0].size)
        /\ a # b => Bytes(a.section, a.size) \cap Bytes(b.section, b.size) = {}

(* The same in terms of the tree: no allocated section lies inside another.   *)
NotNested == \A n, m \in Sections : /\ flags[n] = OCCUPIED /\ flags[m] = OCCUPIED
                                    /\ n # m
                                    => n \notin Path[m]

(* kalloc fails only when it must: in_use marks exactly the sections with an  *)
(* allocated part, so a section without one is found.                         *)
InUseExact ==
    \A n \in Sections : in_use[n] <=> \E m \in Sections : flags[m] = OCCUPIED /\ n \in Path[m] \cup {m}
=============================================================================
