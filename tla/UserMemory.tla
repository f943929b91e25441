----------------------------- MODULE UserMemory -----------------------------
(***************************************************************************)
(* The memory of the user processes: page tables (pmm.c), loading a        *)
(* program (elf_load.c), fork, exec and exit (proc.c), and the heap of     *)
(* sbrk and free (syscalls.c).                                             *)
(*                                                                         *)
(* A virtual address is its page number.  As on the machine the number     *)
(* splits into indexes of the tables: pml4t, pdpt, pdt and pd, of          *)
(* TableSize entries.  A table holds its present entries only; of the      *)
(* kernel's half of a process's tables, which no call changes, only the    *)
(* entry of the pml4t it shares with the heap is kept.  A process has one  *)
(* thread and its memory is touched by that thread or under                *)
(* proc_table.lock, so a system call is one step.  4KB frames come from    *)
(* one chunk of PhysicalMemory, the lowest free one first.  used_pages and *)
(* heap_allocations are stack lists of LinkedList, newest entry first.     *)
(***************************************************************************)
EXTENDS Integers, Sequences, FiniteSets, FiniteSetsExt, SequencesExt

CONSTANTS
    NProcs,           \* MAX_NUM_PROC
    NFrames,          \* 4KB frames
    TableSize,        \* entries of a table (512)
    Word, IntBits,    \* bits of a word of user_heap_bitmap (64) and of an int (32)
    Words,            \* words of user_heap_bitmap (512)
    USER_HEAP_START, USER_STACK_LOC,
    StackPages,       \* pages of a stack (5)
    Images,           \* files exec may be given: [elf, segments, entry]
    KernelPages,      \* pages mapped in the kernel's own tables
    ZeroPage,         \* words of the frame at address 0 with their lowest bit set
    Sizes,            \* requests to sbrk, in pages
    MaxCalls          \* bound on the number of system calls

Procs  == 0 .. NProcs - 1
Frames == 0 .. NFrames - 1
None   == -1

ASSUME HeapAssumption == /\ Word \in Nat \ {0} /\ IntBits \in 1 .. Word
                         /\ TableSize % Word = 0
                         /\ USER_HEAP_START % TableSize = TableSize - 1
                         /\ Words \in Nat /\ TableSize \in Nat \ {0} /\ USER_HEAP_START \in Nat
                         /\ Sizes \subseteq Nat

ASSUME ProcsAssumption == NProcs \in Nat \ {0} /\ NFrames \in Nat

ASSUME ImageAssumption ==
    /\ USER_STACK_LOC \in Nat /\ StackPages \in Nat
    /\ \A image \in Images : image \in [elf : BOOLEAN, entry : Int,
                                        segments : Seq([va : Int, size : Nat, load : BOOLEAN])]

VARIABLES
    state,             \* Process.state
    pgdir,             \* Process.pgdir: pml4t, pdpt, pdt and pd tables
    used_pages,        \* Process.used_pages
    user_heap_bitmap,  \* Process.user_heap_bitmap: the bits set in each word
    heap_allocations,  \* Process.heap_allocations
    rip,               \* page of the process's program counter
    held,              \* frames the frame manager has given out
    panic,
    calls,             \* system calls so far
    freed, inherited,  \* since exec: a free() found its entry; fork gave it heap pages
    stray              \* frames the accounting of free() lost or gave away

procVars == <<state, pgdir, used_pages, user_heap_bitmap, heap_allocations, rip>>
vars     == <<procVars, held, panic, calls, freed, inherited, stray>>

(* CreatePageTables: nothing but the entry uva_copy_kernel needs in the pml4t. *)
EmptyDir == [pml4t |-> {TableSize - 1}, pdpt |-> <<>>, pdt |-> <<>>, pd |-> <<>>]

Bit(l) == <<l \div Word, l % Word>>
HeapPages == {USER_HEAP_START - l : l \in 0 .. Word * Words - 1}

-----------------------------------------------------------------------------
(* Page tables *)

pt_index(va)   == va % TableSize
pdt_index(va)  == (va \div TableSize) % TableSize
pdpt_index(va) == (va \div (TableSize * TableSize)) % TableSize
pml4t_index(va) == (va \div (TableSize * TableSize * TableSize)) % TableSize

Put(f, k, v) == [x \in DOMAIN f \cup {k} |-> IF x = k THEN v ELSE f[x]]

(* The walk of the processor.  All entries of the pml4t lead to one pdpt. *)
PdtOf(dir, va) ==
    IF pml4t_index(va) \in dir.pml4t /\ pdpt_index(va) \in DOMAIN dir.pdpt THEN dir.pdpt[pdpt_index(va)] ELSE None

PdOf(dir, va) ==
    LET at == <<PdtOf(dir, va), pdt_index(va)>> IN IF at \in DOMAIN dir.pdt THEN dir.pdt[at] ELSE None

Translate(dir, va) ==
    LET at == <<PdOf(dir, va), pt_index(va)>> IN IF at \in DOMAIN dir.pd THEN dir.pd[at] ELSE None

(* "x & PTADDRMASK == NULL" is x & 0: an entry missing in the pdt is not      *)
(* noticed, and the frame at address 0 is taken for the last table.           *)
is_frame_mapped_thread(dir, va) ==
    /\ PdtOf(dir, va) # None
    /\ IF PdOf(dir, va) = None THEN pt_index(va) \in ZeroPage
       ELSE <<PdOf(dir, va), pt_index(va)>> \in DOMAIN dir.pd

(* FetchStruct and WriteStruct copy after these tests: the pages of the first *)
(* and of the last byte in the tables of the calling thread, and not the      *)
(* first one in the kernel's.                                                 *)
CopyAllowed(dir, first, last) ==
    /\ is_frame_mapped_thread(dir, first) /\ is_frame_mapped_thread(dir, last)
    /\ first \notin KernelPages

(* m is the memory of a process under construction: dir, used pages, frames   *)
(* given out, panic.                                                          *)
Halt(m, why) == IF m.panic = "none" THEN [m EXCEPT !.panic = why] ELSE m

(* Mutant: a present entry is overwritten. *)
map_overwrites(m, va, pa, pdt_table, pd_table) ==
    [m EXCEPT !.dir = [pml4t |-> @.pml4t \cup {pml4t_index(va)},
                       pdpt |-> Put(@.pdpt, pdpt_index(va), pdt_table),
                       pdt  |-> Put(@.pdt, <<pdt_table, pdt_index(va)>>, pd_table),
                       pd   |-> Put(@.pd, <<pd_table, pt_index(va)>>, pa)],
              !.used = <<[va |-> va, pa |-> pa, pdt |-> pdt_table, pd |-> pd_table]>> \o @]

(* The tables of the four levels, the two panics, and the entry of the page  *)
(* list.                                                                      *)
map_4kb_page_user(m, va, pa, pdt_table, pd_table) ==
    LET at == <<pdt_table, pdt_index(va)>>
    IN CASE at \in DOMAIN m.dir.pdt /\ m.dir.pdt[at] # pd_table -> Halt(m, "pdt")
         [] <<pd_table, pt_index(va)>> \in DOMAIN m.dir.pd -> Halt(m, "pd")
         [] OTHER ->
              [m EXCEPT !.dir = [pml4t |-> @.pml4t \cup {pml4t_index(va)},
                                 pdpt |-> Put(@.pdpt, pdpt_index(va), pdt_table),
                                 pdt  |-> Put(@.pdt, at, pd_table),
                                 pd   |-> Put(@.pd, <<pd_table, pt_index(va)>>, pa)],
                        !.used = <<[va |-> va, pa |-> pa, pdt |-> pdt_table, pd |-> pd_table]>> \o @]

(* physical_frame_request_4kb *)
FreeFrames(m) == Frames \ m.held

(* A page with a new frame; a caller other than sbrk panics without one. *)
MapNew(m, page) ==
    IF m.panic # "none" \/ ~ page.load THEN m
    ELSE IF FreeFrames(m) = {} THEN Halt(m, "frames")
    ELSE LET pa == Min(FreeFrames(m))
         IN map_4kb_page_user([m EXCEPT !.held = @ \cup {pa}], page.va, pa, page.pdt, page.pd)

MapAll(m, pages) ==
    LET done[i \in 0 .. Len(pages)] == IF i = 0 THEN m ELSE MapNew(done[i - 1], pages[i])
    IN done[Len(pages)]

(* CreateUserProcessStack: downwards from USER_STACK_LOC, tables 500. *)
Stack == [i \in 1 .. StackPages |->
            [va |-> USER_STACK_LOC - (i - 1), pdt |-> 500, pd |-> 500, load |-> TRUE]]

(* ELF_load_segments: of every PT_LOAD segment that is not empty the first    *)
(* page (the loop over its pages ends in a break), tables 1 and 0.  A file    *)
(* that is not an ELF file maps nothing and has entry 0.                      *)
FirstPage(segment) == [va |-> segment.va, pdt |-> 1, pd |-> 0, load |-> segment.load /\ segment.size > 0]

Segments(image) ==
    IF image.elf THEN [i \in DOMAIN image.segments |-> FirstPage(image.segments[i])] ELSE <<>>

Entry(image) == IF image.elf THEN image.entry ELSE 0

CheckRip(m, va) == IF is_frame_mapped_thread(m.dir, va) THEN m ELSE Halt(m, "rip")

-----------------------------------------------------------------------------
(* Processes *)

Fresh(h) == [dir |-> EmptyDir, used |-> <<>>, held |-> h, panic |-> "none"]

(* init: CreateUserProcess of the first program, segments before the stack. *)
Init ==
    \E image \in {i \in Images : i.elf} :
        LET m == CheckRip(MapAll(Fresh({}), Segments(image) \o Stack), Entry(image))
        IN /\ state = [p \in Procs |-> IF p = 0 THEN "INUSE" ELSE "FREE"]
           /\ pgdir = [p \in Procs |-> IF p = 0 THEN m.dir ELSE EmptyDir]
           /\ used_pages = [p \in Procs |-> IF p = 0 THEN m.used ELSE <<>>]
           /\ user_heap_bitmap = [p \in Procs |-> [i \in 0 .. Words - 1 |-> {}]]
           /\ heap_allocations = [p \in Procs |-> <<>>]
           /\ rip = [p \in Procs |-> IF p = 0 THEN Entry(image) ELSE 0]
           /\ held = m.held /\ panic = m.panic /\ calls = 0
           /\ freed = [p \in Procs |-> FALSE] /\ inherited = [p \in Procs |-> FALSE]
           /\ stray = {}

Pas(list) == {list[i].pa : i \in DOMAIN list}
Vas(list) == {list[i].va : i \in DOMAIN list}

(* ProcFreeUserPages gives every listed frame back. *)
AfterFree(p) == held \ Pas(used_pages[p])

(* ProcFreeHeapAllocations unlinks the entry behind the one it frees: two or  *)
(* more entries leave an empty list, a single one stays.                      *)
AllocationsAfterFree(p) == IF Len(heap_allocations[p]) = 1 THEN heap_allocations[p] ELSE <<>>

Copy(list) == [i \in DOMAIN list |->
                  [va |-> list[i].va, pdt |-> list[i].pdt, pd |-> list[i].pd, load |-> TRUE]]

(* ForkUserProcess with CreatePageTableFromCopy: the listed pages, newest     *)
(* first, each with a new frame.  The heap's bitmap and list are not copied.  *)
Fork(p) ==
    LET free == {q \in Procs : state[q] = "FREE"}
        q    == Min(free)
        m    == CheckRip(MapAll(Fresh(held), Copy(used_pages[p])), rip[p])
    IN /\ state[p] = "INUSE" /\ free # {}
       /\ state' = [state EXCEPT ![q] = "INUSE"]
       /\ pgdir' = [pgdir EXCEPT ![q] = m.dir]
       /\ used_pages' = [used_pages EXCEPT ![q] = m.used]
       /\ rip' = [rip EXCEPT ![q] = rip[p]]
       /\ held' = m.held
       /\ panic' = IF \A va \in Vas(used_pages[p]) : CopyAllowed(pgdir[p], va, va) THEN m.panic ELSE "fetch"
       /\ inherited' = [inherited EXCEPT ![q] = Vas(used_pages[p]) \cap HeapPages # {}]
       /\ UNCHANGED <<user_heap_bitmap, heap_allocations, freed, stray>>

(* Mutant: the old pages are not given back. *)
ExecKeepsPages(p, image) ==
    LET m == CheckRip(MapAll(Fresh(held), Stack \o Segments(image)), Entry(image))
    IN /\ state[p] = "INUSE"
       /\ pgdir' = [pgdir EXCEPT ![p] = m.dir]
       /\ used_pages' = [used_pages EXCEPT ![p] = m.used]
       /\ heap_allocations' = [heap_allocations EXCEPT ![p] = AllocationsAfterFree(p)]
       /\ rip' = [rip EXCEPT ![p] = Entry(image)]
       /\ held' = m.held /\ panic' = m.panic
       /\ freed' = [freed EXCEPT ![p] = FALSE] /\ inherited' = [inherited EXCEPT ![p] = FALSE]
       /\ UNCHANGED <<state, user_heap_bitmap, stray>>

(* ExecUserProcess: ProcessFree, new tables, the stack before the segments.   *)
(* The bitmap of the heap keeps its bits.                                     *)
Exec(p, image) ==
    LET m == CheckRip(MapAll(Fresh(AfterFree(p)), Stack \o Segments(image)), Entry(image))
    IN /\ state[p] = "INUSE"
       /\ pgdir' = [pgdir EXCEPT ![p] = m.dir]
       /\ used_pages' = [used_pages EXCEPT ![p] = m.used]
       /\ heap_allocations' = [heap_allocations EXCEPT ![p] = AllocationsAfterFree(p)]
       /\ rip' = [rip EXCEPT ![p] = Entry(image)]
       /\ held' = m.held /\ panic' = m.panic
       /\ freed' = [freed EXCEPT ![p] = FALSE] /\ inherited' = [inherited EXCEPT ![p] = FALSE]
       /\ UNCHANGED <<state, user_heap_bitmap, stray>>

(* Mutant: the frames are given back at exit and the process stays in use. *)
ExitStaysInUse(p) ==
    /\ state[p] = "INUSE"
    /\ held' = AfterFree(p)
    /\ UNCHANGED <<procVars, panic, freed, inherited, stray>>

(* SYSHANDLER_exit: ProcessFree; the page tables stay as they are. *)
Exit(p) ==
    /\ state[p] = "INUSE"
    /\ state' = [state EXCEPT ![p] = "EXITED"]
    /\ used_pages' = [used_pages EXCEPT ![p] = <<>>]
    /\ heap_allocations' = [heap_allocations EXCEPT ![p] = AllocationsAfterFree(p)]
    /\ held' = AfterFree(p)
    /\ UNCHANGED <<pgdir, user_heap_bitmap, rip, panic, freed, inherited, stray>>

-----------------------------------------------------------------------------
(* The heap: SYSHANDLER_sbrk and SYSHANDLER_free *)

(* Mutant: an unsigned 1 in the shift. *)
UnsignedShift(bit) == {bit % IntBits}

(* The bits of 1 << bit: an int shift counts modulo the width, and the        *)
(* highest bit of an int extends its sign over the word.                      *)
Shift(bit) == IF bit % IntBits = IntBits - 1 THEN IntBits - 1 .. Word - 1 ELSE {bit % IntBits}

IsFreeRun(p, l, n) == \A k \in l .. l + n - 1 : Bit(k)[2] \notin user_heap_bitmap[p][Bit(k)[1]]
FreeRuns(p, n) == {l \in 0 .. Word * Words - n : IsFreeRun(p, l, n)}

(* The two loops of sbrk and of FreeUserHeapBits: every word from the first   *)
(* to the last, with the bits of the first to the last.                       *)
Loop(from, to) ==
    LET width == to[2] - from[2] + 1
    IN IF width <= 0 THEN <<>>
       ELSE [k \in 1 .. (to[1] - from[1] + 1) * width |->
                <<from[1] + (k - 1) \div width, from[2] + ((k - 1) % width)>>]

HeapPage(l) == [va |-> USER_HEAP_START - l, pdt |-> 3, pd |-> 2 + l \div TableSize, load |-> TRUE]

(* One round of the loop; without a frame the rest is given up. *)
SbrkStep(m, at) ==
    LET page == HeapPage(at[1] * Word + at[2])
    IN IF m.failed \/ m.panic # "none" THEN m
       ELSE IF FreeFrames(m) = {} THEN [m EXCEPT !.failed = TRUE]
       ELSE [MapNew(m, page) EXCEPT !.bits[at[1]] = @ \cup Shift(at[2]),
                                    !.end = page.va]

SbrkAll(m, places) ==
    LET done[i \in 0 .. Len(places)] == IF i = 0 THEN m ELSE SbrkStep(done[i - 1], places[i])
    IN done[Len(places)]

(* The pointer is the page of the run's first bit, the highest of the run:    *)
(* the heap grows downwards.                                                  *)
sbrk(p, n) ==
    LET l    == Min(FreeRuns(p, n))
        to   == Bit(l + n - 1)
        ptr  == USER_HEAP_START - l
        m    == SbrkAll([dir |-> pgdir[p], used |-> used_pages[p], held |-> held, panic |-> "none",
                         bits |-> user_heap_bitmap[p], end |-> None, failed |-> FALSE],
                        Loop(Bit(l), to))
        alloc == [from |-> Bit(l), to |-> to, start |-> ptr, end |-> m.end]
    IN /\ state[p] = "INUSE" /\ FreeRuns(p, n) # {}
       /\ pgdir' = [pgdir EXCEPT ![p] = m.dir]
       /\ used_pages' = [used_pages EXCEPT ![p] = m.used]
       /\ user_heap_bitmap' = [user_heap_bitmap EXCEPT ![p] = m.bits]
       /\ heap_allocations' = IF m.failed THEN heap_allocations
                              ELSE [heap_allocations EXCEPT ![p] = <<alloc>> \o @]
       /\ held' = m.held /\ panic' = m.panic
       /\ UNCHANGED <<state, rip, freed, inherited, stray>>

Suffix(list, i) == SubSeq(list, i + 1, Len(list))

(* The loops of FreeUserHeapBits: each word loses the bits of its rounds. *)
Cleared(bits, places) ==
    [w \in DOMAIN bits |->
        bits[w] \ UNION {Shift(places[k][2]) : k \in {j \in DOMAIN places : places[j][1] = w}}]

(* FreeHeapAllocEntry, for any address: one that is in no entry changes       *)
(* nothing.  The entry of a run of several pages ends below its start and is  *)
(* never found.  Of the page's entry the frame stays out; the frame of the    *)
(* next older entry is given back instead.                                    *)
free(p, address) ==
    LET allocs == heap_allocations[p]
        found  == {i \in DOMAIN allocs : allocs[i].start <= address /\ address <= allocs[i].end}
        alloc  == allocs[Min(found)]
        used   == used_pages[p]
        pages  == {i \in DOMAIN used : alloc.start <= used[i].va /\ used[i].va <= alloc.end}
        page   == Min(pages)
        next   == IF page < Len(used) THEN {used[page + 1].pa} ELSE {}
    IN /\ state[p] = "INUSE"
       /\ IF found = {} THEN UNCHANGED <<heap_allocations, user_heap_bitmap, freed>>
          ELSE /\ heap_allocations' = [heap_allocations EXCEPT ![p] = Suffix(allocs, Min(found))]
               /\ user_heap_bitmap' = [user_heap_bitmap EXCEPT ![p] = Cleared(@, Loop(alloc.from, alloc.to))]
               /\ freed' = [freed EXCEPT ![p] = TRUE]
       /\ IF found = {} \/ pages = {} THEN UNCHANGED <<used_pages, held, stray>>
          ELSE /\ used_pages' = [used_pages EXCEPT ![p] = Suffix(used, page)]
               /\ held' = held \ next
               /\ stray' = stray \cup next \cup {used[i].pa : i \in 1 .. page}
       /\ UNCHANGED <<state, pgdir, rip, panic, inherited>>

-----------------------------------------------------------------------------
(* Addresses a program may pass to free(): pages of the heap, and others. *)
Addresses == HeapPages \cup {USER_HEAP_START + 1}

SystemCall(p) == \/ Fork(p) \/ Exit(p)
                 \/ \E image \in Images : Exec(p, image)
                 \/ \E n \in Sizes : sbrk(p, n)
                 \/ \E address \in Addresses : free(p, address)

Next == /\ panic = "none" /\ calls < MaxCalls
        /\ calls' = calls + 1
        /\ \E p \in Procs : SystemCall(p)

Spec == Init /\ [][Next]_vars

-----------------------------------------------------------------------------
(* The layout of the address space *)

(* The pages a process can have: of the stack, of a program, of the heap. *)
StackArea   == {Stack[i] : i \in 1 .. StackPages}
ProgramArea == UNION {{FirstPage(image.segments[i]) : i \in DOMAIN image.segments} : image \in Images}
HeapArea    == {HeapPage(l) : l \in 0 .. Word * Words - 1}
Mappable    == StackArea \cup ProgramArea \cup HeapArea

(* map_4kb_page_user stores the entry of the highest table without looking at *)
(* the old one.  So what shares that entry has to share the table: stack,     *)
(* heap and programs are in different GBs.                                    *)
AreasApart == \A x, y \in Mappable : pdpt_index(x.va) = pdpt_index(y.va) => x.pdt = y.pdt

(* What the areas have to be for no program to meet a panic of                *)
(* map_4kb_page_user by itself: the first pages of a program's segments and   *)
(* the pages of the stack fit one table each, and those of the heap have      *)
(* tables of their own, below the table 500 of the stack.                     *)
LayoutFits ==
    /\ AreasApart
    /\ StackPages <= TableSize
    /\ Word * Words <= TableSize * TableSize /\ Word * Words <= 498 * TableSize
    /\ \A image \in Images : \A i, j \in DOMAIN image.segments :
          LET x == FirstPage(image.segments[i])
              y == FirstPage(image.segments[j])
          IN i # j /\ x.load /\ y.load => pt_index(x.va) # pt_index(y.va)

-----------------------------------------------------------------------------
(* Properties *)

Live == {p \in Procs : state[p] = "INUSE"}
Listed == UNION {{<<p, i>> : i \in DOMAIN used_pages[p]} : p \in Live}
Pa(x) == used_pages[x[1]][x[2]].pa

(* No frame is mapped twice, in one process or in two, whatever they fork,    *)
(* execute and allocate, except for the frames free() has lost track of.      *)
FramesPrivate == \A x, y \in Listed : Pa(x) = Pa(y) /\ x # y => Pa(x) \in stray

(* ProcessFree "frees all pages allocated to a process": a frame that is out  *)
(* belongs to a process that is alive, again except for free().               *)
NoFrameLeak == panic = "none" => held \ stray \subseteq {Pa(x) : x \in Listed}

(* The list of pages that fork copies and exit frees and the tables the       *)
(* processor walks tell the same: every listed page translates to its frame,  *)
(* and without a free() every mapped page is listed.                          *)
ListIsTables ==
    \A p \in Live :
        /\ \A i \in DOMAIN used_pages[p] :
              Translate(pgdir[p], used_pages[p][i].va) = used_pages[p][i].pa
        /\ ~ freed[p] => Cardinality(DOMAIN pgdir[p].pd) = Len(used_pages[p])

(* A heap page that is mapped has its bit set, so that sbrk, which panics on  *)
(* a mapped page, does not choose it again: in spite of the int shift and of  *)
(* runs across words, as long as no free() and no fork took part.  The panics *)
(* of map_4kb_page_user need one of these before them.                        *)
BitsCoverPages ==
    /\ panic \in {"pd", "pdt"} => \E p \in Live : freed[p] \/ inherited[p]
    /\ \A p \in Live : panic = "none" /\ ~ freed[p] /\ ~ inherited[p] =>
        \A l \in 0 .. Word * Words - 1 :
            Translate(pgdir[p], USER_HEAP_START - l) # None =>
                Bit(l)[2] \in user_heap_bitmap[p][Bit(l)[1]]
=============================================================================
