--------------------------- MODULE PhysicalMemory ---------------------------
(***************************************************************************)
(* The physical memory manager, pmm.c: the bitmap of 2MB frames, filled    *)
(* from the multiboot memory map, and the small page manager that cuts a   *)
(* 2MB frame into 4KB frames.                                              *)
(*                                                                         *)
(* Addresses count in units of which HUGEPGSIZE make a 2MB frame; frame f  *)
(* starts at f * HUGEPGSIZE.  Each of PMM.lock and spm_lock makes one step *)
(* of what it protects; physical_frame_request_4kb goes through the two,   *)
(* one after the other.  A HugeChunk_2mb is named by the frame it cuts up, *)
(* since a frame is never given back to the bitmap, and its heap block is  *)
(* new, since kfree never recycles one (KernelHeap).  The chunk list is a  *)
(* stack list of LinkedList.                                               *)
(***************************************************************************)
EXTENDS Integers, Sequences, FiniteSets

CONSTANTS
    CPUs,
    HUGEPGSIZE,
    NFrames,       \* frames the bitmap has bits for (32768)
    KernelFrames,  \* frames below 1GB
    HeapFrames,    \* frames kheap_init maps (1024)
    CHUNK,         \* 4KB frames a chunk hands out (500)
    Counts,        \* values of the use_count field (2^32)
    BootInfos      \* what the boot loader may pass: sequences of multiboot tags

Frames  == 0 .. NFrames - 1
Indexes == 0 .. CHUNK - 1
None    == -1

ASSUME MemoryAssumption ==
    /\ HUGEPGSIZE \in Nat \ {0} /\ NFrames \in Nat /\ KernelFrames \in Nat
    /\ HeapFrames \in Nat /\ CHUNK \in Nat \ {0} /\ Counts \in Nat \ {0}

Entry == [addr : Nat, len : Nat, type : {"AVAILABLE", "RESERVED"}]

ASSUME BootAssumption ==
    \A info \in BootInfos : info \in Seq([type : {"FRAMEBUFFER", "MMAP", "OTHER"}, entries : Seq(Entry)])

VARIABLES
    info,                \* the boot information
    entry,               \* index of the memory map entry parsed next
    init_success,        \* PMM.init_success
    heap,                \* frames kheap_init has mapped
    PhysicalPageBitmap,  \* TRUE: in use
    free_framecount,
    list,                \* manager_4kb.head, first chunk first
    use_count,           \* HugeChunk_2mb fields, by frame
    frame_bitmap,
    pc, frame,           \* progress of a CPU in physical_frame_request_4kb
    panic,
    huge, handed         \* how often a frame, or a 4KB frame, is with a caller

bootVars  == <<info, entry, init_success>>
chunkVars == <<list, use_count, frame_bitmap>>
vars == <<bootVars, heap, PhysicalPageBitmap, free_framecount, chunkVars, pc, frame, panic, huge, handed>>

TypeOK ==
    /\ info \in BootInfos
    /\ entry \in Nat
    /\ init_success \in BOOLEAN
    /\ heap \in Nat
    /\ PhysicalPageBitmap \in [Frames -> BOOLEAN]
    /\ free_framecount \in Int
    /\ list \in Seq(Frames)
    /\ use_count \in [Frames -> 0 .. Counts - 1]
    /\ frame_bitmap \in [Frames -> SUBSET Indexes]
    /\ pc \in [CPUs -> {"idle", "request", "create"}]
    /\ frame \in [CPUs -> Frames \cup {None}]
    /\ panic \in {"none", "boot", "free", "overrun", "checkout", "kernel_frame", "heap", "kalloc"}
    /\ huge \in [Frames -> Nat]
    /\ handed \in [Frames -> [Indexes -> Nat]]

(* init_PMM: page_bitmap_whiteout sets every bit. *)
Init ==
    /\ info \in BootInfos
    /\ entry = 0
    /\ init_success = FALSE
    /\ heap = 0
    /\ PhysicalPageBitmap = [f \in Frames |-> TRUE]
    /\ free_framecount = 0
    /\ list = <<>>
    /\ use_count = [f \in Frames |-> 0]
    /\ frame_bitmap = [f \in Frames |-> {}]
    /\ pc = [c \in CPUs |-> "idle"]
    /\ frame = [c \in CPUs |-> None]
    /\ panic = "none"
    /\ huge = [f \in Frames |-> 0]
    /\ handed = [f \in Frames |-> [i \in Indexes |-> 0]]

-----------------------------------------------------------------------------
(* Boot: parse_multiboot_info and parse_multiboot_mmap_entries *)

(* The walk over the tags stops at the first one of the type. *)
HasTag(type)   == \E i \in DOMAIN info : info[i].type = type
FirstTag(type) == info[CHOOSE i \in DOMAIN info : /\ info[i].type = type
                                                  /\ \A j \in 1 .. i - 1 : info[j].type # type]
mmap == FirstTag("MMAP").entries

(* Without a framebuffer or a memory map the boot ends in a panic. *)
parse_multiboot_info ==
    /\ entry = 0 /\ ~ init_success
    /\ IF HasTag("FRAMEBUFFER") /\ HasTag("MMAP")
       THEN entry' = 1 /\ UNCHANGED panic
       ELSE panic' = "boot" /\ UNCHANGED entry
    /\ UNCHANGED <<info, init_success, heap, PhysicalPageBitmap, free_framecount, chunkVars,
                   pc, frame, huge, handed>>

(* The macro moves an aligned size up a whole frame. *)
HUGEPGROUNDUP(sz) == (sz + HUGEPGSIZE) - ((sz + HUGEPGSIZE) % HUGEPGSIZE)

check_kernel_frame(f) == f < KernelFrames

(* Mutant: the start is rounded down. *)
RangeFromBelow(start, end) ==
    {f \in 0 .. end : /\ end - start >= HUGEPGSIZE
                      /\ start - (start % HUGEPGSIZE) <= f * HUGEPGSIZE
                      /\ f * HUGEPGSIZE + HUGEPGSIZE < end}

(* free_hugeframe_range: the frames of the loop, wherever the region ends.    *)
HugeFrameRange(start, end) ==
    {f \in 0 .. end : /\ end - start >= HUGEPGSIZE
                      /\ HUGEPGROUNDUP(start) <= f * HUGEPGSIZE
                      /\ f * HUGEPGSIZE + HUGEPGSIZE < end}

(* What checking and clearing the bits of these frames can end in.  A bit     *)
(* behind the bitmap is some bit of the manager's own fields: where it is     *)
(* clear, the check panics; where all of them are set, clearing them has      *)
(* overrun the fields, and what the kernel does then is not modelled.         *)
FreeOutcomes(freed) ==
    CASE \E f \in freed \cap Frames : ~ PhysicalPageBitmap[f] -> {"free"}
      [] freed \subseteq Frames /\ \A f \in freed : PhysicalPageBitmap[f] -> {panic}
      [] OTHER -> {"free", "overrun"}

(* Mutant: the count goes up for the kernel's frames too. *)
CountEveryFrame(range) ==
    LET freed == {f \in range : ~ check_kernel_frame(f)}
    IN /\ panic' \in FreeOutcomes(freed)
       /\ PhysicalPageBitmap' = [f \in Frames |-> PhysicalPageBitmap[f] /\ f \notin freed]
       /\ free_framecount' = free_framecount + Cardinality(range)

(* physical_frame_free of each frame, at boot: kernel frames stay in use, and *)
(* a frame that is already free is a panic.  There is no upper bound.         *)
physical_frame_free(range) ==
    LET freed == {f \in range : ~ check_kernel_frame(f)}
    IN /\ panic' \in FreeOutcomes(freed)
       /\ PhysicalPageBitmap' = [f \in Frames |-> PhysicalPageBitmap[f] /\ f \notin freed]
       /\ free_framecount' = free_framecount + Cardinality(freed)

ParseEntry ==
    /\ entry > 0 /\ entry \in DOMAIN mmap
    /\ IF mmap[entry].type = "AVAILABLE"
       THEN physical_frame_free(HugeFrameRange(mmap[entry].addr, mmap[entry].addr + mmap[entry].len))
       ELSE UNCHANGED <<panic, PhysicalPageBitmap, free_framecount>>
    /\ entry' = entry + 1
    /\ UNCHANGED <<info, init_success, heap, chunkVars, pc, frame, huge, handed>>

ParseEnd ==
    /\ ~ init_success /\ entry > 0 /\ entry \notin DOMAIN mmap
    /\ init_success' = TRUE
    /\ UNCHANGED <<info, entry, heap, PhysicalPageBitmap, free_framecount, chunkVars,
                   pc, frame, panic, huge, handed>>

-----------------------------------------------------------------------------
(* 2MB frames *)

FirstFree(f) == /\ f \in Frames /\ ~ PhysicalPageBitmap[f]
                /\ \A g \in Frames : ~ PhysicalPageBitmap[g] => f <= g

NoFrame == free_framecount = 0 \/ \A f \in Frames : PhysicalPageBitmap[f]

physical_frame_checkout(f) ==
    /\ panic' = CASE PhysicalPageBitmap[f] -> "checkout"
                  [] check_kernel_frame(f) -> "kernel_frame"
                  [] OTHER -> panic
    /\ PhysicalPageBitmap' = [PhysicalPageBitmap EXCEPT ![f] = TRUE]
    /\ free_framecount' = free_framecount - 1

(* physical_frame_request found f; its check that f is above 1GB is the       *)
(* second case of physical_frame_checkout.                                    *)
physical_frame_request(f) ==
    /\ free_framecount # 0 /\ FirstFree(f)
    /\ physical_frame_checkout(f)

(* kheap_init, before the other CPUs run. *)
kheap_init ==
    /\ init_success /\ heap < HeapFrames
    /\ \/ /\ \E f \in Frames : /\ physical_frame_request(f)
                               /\ huge' = [huge EXCEPT ![f] = @ + 1]
          /\ heap' = heap + 1
       \/ /\ NoFrame /\ panic' = "heap"
          /\ UNCHANGED <<heap, PhysicalPageBitmap, free_framecount, huge>>
    /\ UNCHANGED <<bootVars, chunkVars, pc, frame, handed>>

Booted == init_success /\ heap = HeapFrames

-----------------------------------------------------------------------------
(* 4KB frames: physical_frame_request_4kb and try_free_chunked_frame *)

(* The chunk loop takes this index of the i-th chunk. *)
Available(i, k) ==
    /\ i \in DOMAIN list /\ k \in Indexes
    /\ use_count[list[i]] < CHUNK /\ k \notin frame_bitmap[list[i]]

FirstAvailable(i, k) ==
    /\ Available(i, k)
    /\ \A j \in DOMAIN list, m \in Indexes : Available(j, m) => i < j \/ (i = j /\ k <= m)

Hand(f, k) == handed' = [handed EXCEPT ![f][k] = @ + 1]

(* Mutant: the bit is not set. *)
HandWithoutBit(c) ==
    /\ Booted /\ pc[c] = "idle"
    /\ \E i \in DOMAIN list, k \in Indexes :
          /\ FirstAvailable(i, k)
          /\ use_count' = [use_count EXCEPT ![list[i]] = (@ + 1) % Counts]
          /\ Hand(list[i], k)
    /\ UNCHANGED <<bootVars, heap, PhysicalPageBitmap, free_framecount, list, frame_bitmap, pc, frame, panic, huge>>

check_available_chunked_frame(c) ==
    /\ Booted /\ pc[c] = "idle"
    /\ \E i \in DOMAIN list, k \in Indexes :
          /\ FirstAvailable(i, k)
          /\ frame_bitmap' = [frame_bitmap EXCEPT ![list[i]] = @ \cup {k}]
          /\ use_count' = [use_count EXCEPT ![list[i]] = (@ + 1) % Counts]
          /\ Hand(list[i], k)
    /\ UNCHANGED <<bootVars, heap, PhysicalPageBitmap, free_framecount, list, pc, frame, panic, huge>>

NoChunkedFrame(c) ==
    /\ Booted /\ pc[c] = "idle" /\ \A i \in DOMAIN list, k \in Indexes : ~ Available(i, k)
    /\ pc' = [pc EXCEPT ![c] = "request"]
    /\ UNCHANGED <<bootVars, heap, PhysicalPageBitmap, free_framecount, chunkVars, frame, panic, huge, handed>>

(* Another CPU may have chunked a frame since; this one asks for a new one.   *)
RequestForChunk(c) ==
    /\ pc[c] = "request"
    /\ \/ \E f \in Frames : /\ physical_frame_request(f)
                            /\ frame' = [frame EXCEPT ![c] = f]
                            /\ pc' = [pc EXCEPT ![c] = "create"]
       \/ /\ NoFrame /\ pc' = [pc EXCEPT ![c] = "idle"]
          /\ UNCHANGED <<PhysicalPageBitmap, free_framecount, frame, panic>>
    /\ UNCHANGED <<bootVars, heap, chunkVars, huge, handed>>

(* kalloc of the chunk succeeds: use_count counts on from what the memory     *)
(* held, the code never initialises it.                                       *)
create_new_chunked_frame(c) ==
    /\ pc[c] = "create"
    /\ \E garbage \in 0 .. Counts - 1 :
          use_count' = [use_count EXCEPT ![frame[c]] = (garbage + 1) % Counts]
    /\ frame_bitmap' = [frame_bitmap EXCEPT ![frame[c]] = {0}]
    /\ list' = <<frame[c]>> \o list
    /\ Hand(frame[c], 0)
    /\ pc' = [pc EXCEPT ![c] = "idle"] /\ frame' = [frame EXCEPT ![c] = None]
    /\ UNCHANGED <<bootVars, heap, PhysicalPageBitmap, free_framecount, panic, huge>>

ChunkAllocFails(c) ==
    /\ pc[c] = "create" /\ panic' = "kalloc"
    /\ UNCHANGED <<bootVars, heap, PhysicalPageBitmap, free_framecount, chunkVars, pc, frame, huge, handed>>

(* The chunk of the address, if the list has it, loses the bit; with its      *)
(* count at zero it is unlinked, and the newer chunks with it.  Its 2MB frame *)
(* is not given back.                                                         *)
try_free_chunked_frame(f, k) ==
    IF \A i \in DOMAIN list : list[i] # f THEN UNCHANGED chunkVars
    ELSE /\ frame_bitmap' = [frame_bitmap EXCEPT ![f] = @ \ {k}]
         /\ use_count' = [use_count EXCEPT ![f] = (@ - 1) % Counts]
         /\ list' = IF use_count'[f] # 0 THEN list
                    ELSE LET i == CHOOSE i \in DOMAIN list : list[i] = f
                         IN SubSeq(list, i + 1, Len(list))

(* A caller gives back a 4KB frame it holds. *)
Free(f, k) ==
    /\ handed[f][k] > 0
    /\ try_free_chunked_frame(f, k)
    /\ handed' = [handed EXCEPT ![f][k] = @ - 1]
    /\ UNCHANGED <<bootVars, heap, PhysicalPageBitmap, free_framecount, pc, frame, panic, huge>>

-----------------------------------------------------------------------------
Boot == parse_multiboot_info \/ ParseEntry \/ ParseEnd \/ kheap_init

Request4kb(c) == \/ check_available_chunked_frame(c) \/ NoChunkedFrame(c)
                 \/ RequestForChunk(c) \/ create_new_chunked_frame(c) \/ ChunkAllocFails(c)

Run == \/ Boot
       \/ \E c \in CPUs : Request4kb(c)
       \/ \E f \in Frames, k \in Indexes : Free(f, k)

(* panic stops the machine. *)
Next == panic = "none" /\ Run

Spec == Init /\ [][Next]_vars

-----------------------------------------------------------------------------
(* Properties *)

(* "We must synchronize requests for physical pages so we do not give to      *)
(* threads the same page": no 4KB frame is with two callers, and a frame used *)
(* whole by the heap is not cut up, though request and creation are three     *)
(* lock sections and a chunk's count starts from garbage.                     *)
FramesExclusive ==
    \A f \in Frames : /\ huge[f] <= 1
                      /\ \A k \in Indexes : handed[f][k] + huge[f] <= 1

(* What the manager may give out lies inside a region the boot loader calls   *)
(* AVAILABLE, and never below 1GB, where the kernel is.                       *)
FreeFramesUsable ==
    \A f \in Frames : ~ PhysicalPageBitmap[f] =>
        /\ ~ check_kernel_frame(f)
        /\ \E e \in DOMAIN mmap : /\ mmap[e].type = "AVAILABLE"
                                  /\ mmap[e].addr <= f * HUGEPGSIZE
                                  /\ (f + 1) * HUGEPGSIZE <= mmap[e].addr + mmap[e].len

(* No AVAILABLE region has a frame the bitmap, made for 64GB, has no bit for. *)
MapFits ==
    HasTag("MMAP") => \A e \in DOMAIN mmap : mmap[e].type = "AVAILABLE" =>
        HugeFrameRange(mmap[e].addr, mmap[e].addr + mmap[e].len) \subseteq Frames

(* No two AVAILABLE regions overlap. *)
MapApart ==
    HasTag("MMAP") => \A d, e \in DOMAIN mmap :
        /\ mmap[d].type = "AVAILABLE" /\ mmap[e].type = "AVAILABLE" /\ d # e
        => \/ mmap[d].addr + mmap[d].len <= mmap[e].addr
           \/ mmap[e].addr + mmap[e].len <= mmap[d].addr

(* The count physical_frame_request decides by is the number of clear bits    *)
(* for as long as the machine runs, no frame in use and no kernel frame is    *)
(* ever taken, and of the memory maps only one with overlapping regions, or   *)
(* with memory above the 64GB of the bitmap, makes the boot free a frame that *)
(* is free or a bit that is no frame's.                                       *)
CountExact ==
    /\ panic \notin {"checkout", "kernel_frame"}
    /\ MapFits /\ MapApart => panic \notin {"free", "overrun"}
    /\ panic \notin {"free", "overrun"} =>
          free_framecount = Cardinality({f \in Frames : ~ PhysicalPageBitmap[f]})

=============================================================================
