------------------------ MODULE PhysicalMemoryProofs ------------------------
(* The physical memory manager gives no frame to two callers and nothing out  *)
(* of the memory the boot loader reserved, for any number of CPUs, any sizes  *)
(* and any memory map.                                                        *)
EXTENDS PhysicalMemory, FiniteSetTheorems, SequenceTheorems, WellFoundedInduction, TLAPS

Listed(f) == \E i \in DOMAIN list : list[i] = f

(* No caller has the frame or a part of it, and none can get a part. *)
Untouched(f) == ~ Listed(f) /\ huge[f] = 0 /\ \A k \in Indexes : handed[f][k] = 0

(* The bitmap is filled before anything is given out. *)
BootFirst ==
    /\ entry > 0 => HasTag("MMAP")
    /\ init_success => entry > 0 /\ entry \notin DOMAIN mmap
    /\ ~ init_success => /\ \A c \in CPUs : pc[c] = "idle"
                         /\ \A f \in Frames : Untouched(f)

FreeUntouched == \A f \in Frames : ~ PhysicalPageBitmap[f] => Untouched(f)

(* A frame between its request and its chunk belongs to one CPU. *)
PendingPrivate ==
    /\ \A c \in CPUs : pc[c] = "create" =>
          frame[c] \in Frames /\ PhysicalPageBitmap[frame[c]] /\ Untouched(frame[c])
    /\ \A c, d \in CPUs : pc[c] = "create" /\ pc[d] = "create" /\ frame[c] = frame[d] => c = d

HugePrivate ==
    \A f \in Frames : /\ huge[f] <= 1
                      /\ huge[f] = 1 => ~ Listed(f) /\ \A k \in Indexes : handed[f][k] = 0

(* A chunk that can give out a 4KB frame has marked the ones it gave out. *)
ListedBits ==
    \A f \in Frames : Listed(f) => \A k \in Indexes : handed[f][k] > 0 => k \in frame_bitmap[f]

HandedOnce == \A f \in Frames, k \in Indexes : handed[f][k] <= 1

FramesInv == TypeOK /\ BootFirst /\ FreeUntouched /\ PendingPrivate /\ HugePrivate /\ ListedBits /\ HandedOnce

-----------------------------------------------------------------------------
(* The boot information *)

LEMMA LessThan == \E R : IsWellFoundedOn(R, Nat) /\ \A x, y \in Nat : y < x => <<y, x>> \in R
<1>1. IsWellFoundedOn(OpToRel(<, Nat), Nat)
  BY NatLessThanWellFounded
<1>2. \A x, y \in Nat : y < x => <<y, x>> \in OpToRel(<, Nat)
  BY DEF OpToRel
<1> WITNESS OpToRel(<, Nat)
<1> QED BY <1>1, <1>2

LEMMA Least == ASSUME NEW T \in SUBSET Nat, T # {} PROVE \E x \in T : \A y \in T : x <= y
<1>1. PICK R : IsWellFoundedOn(R, Nat) /\ \A x, y \in Nat : y < x => <<y, x>> \in R
  BY LessThan
<1>2. PICK x \in T : \A y \in T : ~ (<<y, x>> \in R)
  BY <1>1, WFMin
<1>3. \A y \in T : ~ (y < x)
  BY <1>1, <1>2, Zenon
<1> QED BY <1>3

(* A boot information with a memory map has a first one, a list of entries. *)
LEMMA MmapType == TypeOK /\ HasTag("MMAP") => mmap \in Seq(Entry)
<1> SUFFICES ASSUME TypeOK, HasTag("MMAP") PROVE mmap \in Seq(Entry)
  OBVIOUS
<1> DEFINE Tag == [type : {"FRAMEBUFFER", "MMAP", "OTHER"}, entries : Seq(Entry)]
           T == {i \in DOMAIN info : info[i].type = "MMAP"}
           First(i) == info[i].type = "MMAP" /\ \A j \in 1 .. i - 1 : info[j].type # "MMAP"
<1>1. info \in Seq(Tag)
  BY BootAssumption DEF TypeOK
<1> HIDE DEF Tag
<1>2. DOMAIN info = 1 .. Len(info) /\ Len(info) \in Nat /\ \A i \in DOMAIN info : info[i] \in Tag
  BY <1>1
<1>3. T \in SUBSET Nat /\ T # {}
  BY <1>2 DEF HasTag
<1>4. PICK x \in T : \A y \in T : x <= y
  BY <1>3, Least
<1>5. x \in DOMAIN info /\ First(x)
  BY <1>2, <1>4
<1> HIDE DEF First, T
<1>6. (CHOOSE i \in DOMAIN info : First(i)) \in DOMAIN info
  BY <1>5
<1>7. mmap = info[CHOOSE i \in DOMAIN info : First(i)].entries
  BY DEF mmap, FirstTag, First
<1> QED BY <1>2, <1>6, <1>7 DEF Tag

LEMMA MmapStays == info' = info => mmap' = mmap /\ \A type : HasTag(type)' = HasTag(type)
BY DEF mmap, FirstTag, HasTag

-----------------------------------------------------------------------------
(* Usable memory *)

LEMMA RoundUp == \A a \in Nat : HUGEPGROUNDUP(a) \in Nat /\ a <= HUGEPGROUNDUP(a)
<1> SUFFICES ASSUME NEW a \in Nat PROVE HUGEPGROUNDUP(a) \in Nat /\ a <= HUGEPGROUNDUP(a)
  OBVIOUS
<1>1. (a + HUGEPGSIZE) % HUGEPGSIZE \in 0 .. HUGEPGSIZE - 1
  BY MemoryAssumption
<1> QED BY <1>1, MemoryAssumption DEF HUGEPGROUNDUP

(* The frames of the loop lie inside the region. *)
LEMMA RangeInside ==
    ASSUME NEW a \in Nat, NEW len \in Nat, NEW f \in HugeFrameRange(a, a + len)
    PROVE  a <= f * HUGEPGSIZE /\ (f + 1) * HUGEPGSIZE <= a + len
<1>1. f \in Int /\ HUGEPGSIZE \in Int /\ f * HUGEPGSIZE \in Int
  BY MemoryAssumption DEF HugeFrameRange
<1>2. (f + 1) * HUGEPGSIZE = f * HUGEPGSIZE + HUGEPGSIZE
  BY <1>1
<1>3. HUGEPGROUNDUP(a) <= f * HUGEPGSIZE /\ f * HUGEPGSIZE + HUGEPGSIZE < a + len
  BY DEF HugeFrameRange
<1> QED BY <1>1, <1>2, <1>3, RoundUp

-----------------------------------------------------------------------------
(* Types *)

(* The loop of free_hugeframe_range ends, whatever the region. *)
LEMMA RangeFinite == \A a, b \in Nat : HugeFrameRange(a, b) \subseteq Nat /\ IsFiniteSet(HugeFrameRange(a, b))
<1> SUFFICES ASSUME NEW a \in Nat, NEW b \in Nat
             PROVE  HugeFrameRange(a, b) \subseteq Nat /\ IsFiniteSet(HugeFrameRange(a, b))
  OBVIOUS
<1>1. HugeFrameRange(a, b) \subseteq 0 .. b
  BY DEF HugeFrameRange
<1>2. IsFiniteSet(0 .. b)
  BY FS_Interval
<1> QED BY <1>1, <1>2, FS_Subset

LEMMA FreeOutcome ==
    ASSUME NEW freed, NEW out \in FreeOutcomes(freed)
    PROVE  /\ out \in {"free", "overrun", panic}
           /\ out \notin {"free", "overrun"} => freed \subseteq Frames /\ \A f \in freed : PhysicalPageBitmap[f]
<1>1. CASE \E f \in freed \cap Frames : ~ PhysicalPageBitmap[f]
  BY <1>1 DEF FreeOutcomes
<1>2. CASE freed \subseteq Frames /\ \A f \in freed : PhysicalPageBitmap[f]
  BY <1>2 DEF FreeOutcomes
<1>3. CASE /\ ~ \E f \in freed \cap Frames : ~ PhysicalPageBitmap[f]
           /\ ~ (freed \subseteq Frames /\ \A f \in freed : PhysicalPageBitmap[f])
  BY <1>3 DEF FreeOutcomes
<1> QED BY <1>1, <1>2, <1>3

LEMMA CountModulo == \A a \in Int : a % Counts \in 0 .. Counts - 1
BY MemoryAssumption

(* physical_frame_request and physical_frame_free keep the bitmap's types. *)
LEMMA BitmapTypes ==
    ASSUME TypeOK,
           \/ \E range : IsFiniteSet(range) /\ physical_frame_free(range)
           \/ \E f \in Frames : physical_frame_request(f)
           \/ UNCHANGED <<PhysicalPageBitmap, free_framecount, panic>>
    PROVE  /\ PhysicalPageBitmap' \in [Frames -> BOOLEAN]
           /\ free_framecount' \in Int
           /\ panic' \in {"none", "boot", "free", "overrun", "checkout", "kernel_frame", "heap", "kalloc"}
<1>1. ASSUME NEW range, IsFiniteSet(range), physical_frame_free(range)
      PROVE  /\ PhysicalPageBitmap' \in [Frames -> BOOLEAN]
             /\ free_framecount' \in Int
             /\ panic' \in {"none", "boot", "free", "overrun", "checkout", "kernel_frame", "heap", "kalloc"}
  <2>1. free_framecount' \in Int
    <3>1. Cardinality({f \in range : ~ check_kernel_frame(f)}) \in Nat
      BY <1>1, FS_Subset, FS_CardinalityType
    <3> QED BY <1>1, <3>1 DEF physical_frame_free, TypeOK
  <2>2. PhysicalPageBitmap' \in [Frames -> BOOLEAN]
    BY <1>1, Zenon DEF physical_frame_free, TypeOK
  <2>3. panic' \in {"free", "overrun", panic}
    BY <1>1, FreeOutcome, Zenon DEF physical_frame_free
  <2> QED BY <2>1, <2>2, <2>3 DEF TypeOK
<1>2. ASSUME NEW f \in Frames, physical_frame_request(f)
      PROVE  /\ PhysicalPageBitmap' \in [Frames -> BOOLEAN]
             /\ free_framecount' \in Int
             /\ panic' \in {"none", "boot", "free", "overrun", "checkout", "kernel_frame", "heap", "kalloc"}
  BY <1>2 DEF physical_frame_request, physical_frame_checkout, TypeOK
<1>3. CASE UNCHANGED <<PhysicalPageBitmap, free_framecount, panic>>
  BY <1>3 DEF TypeOK
<1> QED BY <1>1, <1>2, <1>3

(* What is left of the chunk list when a chunk is unlinked. *)
LEMMA CutList ==
    ASSUME TypeOK, NEW i \in DOMAIN list
    PROVE  /\ SubSeq(list, i + 1, Len(list)) \in Seq(Frames)
           /\ \A j \in DOMAIN SubSeq(list, i + 1, Len(list)) :
                \E m \in DOMAIN list : SubSeq(list, i + 1, Len(list))[j] = list[m]
<1> DEFINE n == Len(list)
           cut == SubSeq(list, i + 1, n)
<1>1. list \in Seq(Frames) /\ n \in Nat /\ DOMAIN list = 1 .. n /\ i \in 1 .. n
  BY DEF TypeOK
<1>2. \A j \in i + 1 .. n : list[j] \in Frames
  BY <1>1
<1>3. /\ cut \in Seq(Frames)
      /\ Len(cut) = IF i + 1 <= n THEN n - (i + 1) + 1 ELSE 0
      /\ \A j \in 1 .. n - (i + 1) + 1 : cut[j] = list[i + 1 + j - 1]
  BY <1>1, <1>2, SubSeqProperties
<1> HIDE DEF cut
<1>4. \A j \in DOMAIN cut : j \in 1 .. n - i /\ j + i \in DOMAIN list /\ cut[j] = list[j + i]
  <2>1. DOMAIN cut = 1 .. Len(cut)
    BY <1>3
  <2>2. \A j \in 1 .. n - i : i + 1 + j - 1 = j + i /\ n - (i + 1) + 1 = n - i /\ j + i \in 1 .. n
    BY <1>1
  <2>3. DOMAIN cut = 1 .. n - i
    BY <1>1, <1>3, <2>1
  <2> QED BY <1>1, <1>3, <2>2, <2>3
<1>5. cut \in Seq(Frames) /\ \A j \in DOMAIN cut : \E m \in DOMAIN list : cut[j] = list[m]
  BY <1>3, <1>4
<1> QED BY <1>5 DEF cut

LEMMA FreeChunk ==
    ASSUME TypeOK, NEW f \in Frames, NEW k \in Indexes, try_free_chunked_frame(f, k)
    PROVE  /\ list' \in Seq(Frames)
           /\ use_count' \in [Frames -> 0 .. Counts - 1]
           /\ frame_bitmap' \in [Frames -> SUBSET Indexes]
           /\ \A g \in Frames : Listed(g)' => Listed(g)
           /\ \A g \in Frames : frame_bitmap[g] \ frame_bitmap'[g] \subseteq (IF g = f THEN {k} ELSE {})
<1>1. CASE \A i \in DOMAIN list : list[i] # f
  BY <1>1 DEF try_free_chunked_frame, chunkVars, TypeOK, Listed
<1>2. CASE \E i \in DOMAIN list : list[i] = f
  <2> DEFINE i == CHOOSE i \in DOMAIN list : list[i] = f
  <2>1. i \in DOMAIN list
    BY <1>2
  <2>2. list' = IF use_count'[f] # 0 THEN list ELSE SubSeq(list, i + 1, Len(list))
    BY <1>2 DEF try_free_chunked_frame
  <2>3. /\ frame_bitmap' = [frame_bitmap EXCEPT ![f] = @ \ {k}]
        /\ use_count' = [use_count EXCEPT ![f] = (@ - 1) % Counts]
    BY <1>2 DEF try_free_chunked_frame
  <2> HIDE DEF i
  <2>4. list' \in Seq(Frames) /\ \A g \in Frames : Listed(g)' => Listed(g)
    BY <2>1, <2>2, CutList, ZenonT(30) DEF TypeOK, Listed
  <2>5. use_count' \in [Frames -> 0 .. Counts - 1]
    <3>1. use_count[f] - 1 \in Int
      BY MemoryAssumption DEF TypeOK
    <3>2. (use_count[f] - 1) % Counts \in 0 .. Counts - 1
      BY <3>1, CountModulo
    <3> QED BY <2>3, <3>2 DEF TypeOK
  <2> QED BY <2>3, <2>4, <2>5 DEF TypeOK
<1> QED BY <1>1, <1>2

-----------------------------------------------------------------------------
(* Boot *)

LEMMA InitFrames == Init => FramesInv
<1> SUFFICES ASSUME Init PROVE FramesInv
  OBVIOUS
<1>1. TypeOK
  <2>1. /\ entry \in Nat /\ heap \in Nat /\ free_framecount \in Int
        /\ use_count \in [Frames -> 0 .. Counts - 1]
        /\ huge \in [Frames -> Nat] /\ handed \in [Frames -> [Indexes -> Nat]]
    BY MemoryAssumption DEF Init
  <2>2. init_success \in BOOLEAN /\ PhysicalPageBitmap \in [Frames -> BOOLEAN]
    BY DEF Init
  <2>3. list \in Seq(Frames) /\ frame_bitmap \in [Frames -> SUBSET Indexes]
    BY DEF Init
  <2> QED BY <2>1, <2>2, <2>3 DEF Init, TypeOK
<1>2. \A f \in Frames : Untouched(f)
  BY DEF Init, Untouched, Listed
<1>3. BootFirst
  BY <1>2 DEF Init, BootFirst
<1>4. FreeUntouched /\ PendingPrivate /\ HugePrivate /\ ListedBits /\ HandedOnce
  BY DEF Init, FreeUntouched, PendingPrivate, HugePrivate, ListedBits, HandedOnce
<1> QED BY <1>1, <1>3, <1>4 DEF FramesInv

(* Steps of the boot that only touch the bitmap. *)
LEMMA ParseKeeps ==
    ASSUME FramesInv, parse_multiboot_info \/ ParseEntry \/ ParseEnd
    PROVE  FramesInv'
<1>1. UNCHANGED <<info, heap, chunkVars, pc, frame, huge, handed>>
  BY DEF parse_multiboot_info, ParseEntry, ParseEnd
<1>2. ~ init_success
  BY DEF FramesInv, BootFirst, parse_multiboot_info, ParseEntry, ParseEnd
<1>3. \A f \in Frames : Untouched(f) /\ Untouched(f)'
  BY <1>1, <1>2 DEF FramesInv, BootFirst, Untouched, Listed, chunkVars
<1>4. \A c \in CPUs : pc[c] = "idle"
  BY <1>2 DEF FramesInv, BootFirst
<1>5. TypeOK'
  <2>1. entry' \in Nat /\ init_success' \in BOOLEAN
    <3>1. entry' = 1 \/ entry' = entry \/ entry' = entry + 1
      BY DEF parse_multiboot_info, ParseEntry, ParseEnd
    <3>2. init_success' = TRUE \/ init_success' = init_success
      BY DEF parse_multiboot_info, ParseEntry, ParseEnd
    <3>3. entry' \in Nat
      BY <3>1 DEF FramesInv, TypeOK
    <3> QED BY <3>2, <3>3 DEF FramesInv, TypeOK
  <2>2. /\ PhysicalPageBitmap' \in [Frames -> BOOLEAN]
        /\ free_framecount' \in Int
        /\ panic' \in {"none", "boot", "free", "overrun", "checkout", "kernel_frame", "heap", "kalloc"}
    <3>1. CASE parse_multiboot_info
      BY <3>1 DEF parse_multiboot_info, FramesInv, TypeOK
    <3>2. CASE ParseEntry
      <4>1. CASE mmap[entry].type = "AVAILABLE"
        <5>1. HasTag("MMAP") /\ entry \in DOMAIN mmap
          BY <3>2 DEF ParseEntry, FramesInv, BootFirst
        <5>2. mmap[entry] \in Entry
          BY <5>1, MmapType DEF FramesInv
        <5>3. PICK a \in Nat, b \in Nat : a = mmap[entry].addr /\ b = mmap[entry].addr + mmap[entry].len
          BY <5>2 DEF Entry
        <5>4. IsFiniteSet(HugeFrameRange(a, b)) /\ physical_frame_free(HugeFrameRange(a, b))
          BY <3>2, <4>1, <5>3, RangeFinite DEF ParseEntry
        <5> QED BY <5>4, BitmapTypes DEF FramesInv
      <4>2. CASE mmap[entry].type # "AVAILABLE"
        BY <3>2, <4>2, BitmapTypes DEF ParseEntry, FramesInv
      <4> QED BY <4>1, <4>2
    <3>3. CASE ParseEnd
      BY <3>3 DEF ParseEnd, FramesInv, TypeOK
    <3> QED BY <3>1, <3>2, <3>3
  <2> QED BY <1>1, <2>1, <2>2 DEF FramesInv, TypeOK, chunkVars
<1>6. BootFirst'
  <2>1. mmap' = mmap /\ HasTag("MMAP")' = HasTag("MMAP")
    BY <1>1, MmapStays
  <2>2. CASE parse_multiboot_info
    BY <1>1, <1>3, <1>4, <2>1, <2>2 DEF parse_multiboot_info, BootFirst
  <2>3. CASE ParseEntry
    BY <1>1, <1>2, <1>3, <1>4, <2>1, <2>3 DEF ParseEntry, FramesInv, BootFirst
  <2>4. CASE ParseEnd
    BY <1>1, <2>1, <2>4 DEF ParseEnd, FramesInv, BootFirst
  <2> QED BY <2>2, <2>3, <2>4
<1>7. FreeUntouched' /\ HugePrivate' /\ ListedBits' /\ HandedOnce'
  BY <1>3 DEF FreeUntouched, HugePrivate, ListedBits, HandedOnce, Untouched
<1>8. PendingPrivate'
  BY <1>1, <1>4 DEF PendingPrivate
<1> QED BY <1>5, <1>6, <1>7, <1>8 DEF FramesInv

(* A frame that physical_frame_request finds is nobody's, and then in use. *)
LEMMA Requested ==
    ASSUME FramesInv, NEW f \in Frames, physical_frame_request(f)
    PROVE  /\ Untouched(f)
           /\ PhysicalPageBitmap' = [PhysicalPageBitmap EXCEPT ![f] = TRUE]
           /\ \A c \in CPUs : pc[c] = "create" => frame[c] # f
           /\ PhysicalPageBitmap' \in [Frames -> BOOLEAN]
           /\ free_framecount' \in Int
           /\ panic' \in {"none", "boot", "free", "overrun", "checkout", "kernel_frame", "heap", "kalloc"}
<1>1. ~ PhysicalPageBitmap[f] /\ PhysicalPageBitmap' = [PhysicalPageBitmap EXCEPT ![f] = TRUE]
  BY DEF physical_frame_request, FirstFree, physical_frame_checkout
<1>2. Untouched(f) /\ \A c \in CPUs : pc[c] = "create" => frame[c] # f
  BY <1>1 DEF FramesInv, FreeUntouched, PendingPrivate
<1> QED BY <1>1, <1>2, BitmapTypes DEF FramesInv

LEMMA HeapKeeps ==
    ASSUME FramesInv, kheap_init
    PROVE  FramesInv'
<1>1. UNCHANGED <<bootVars, chunkVars, pc, frame, handed>> /\ init_success
  BY DEF kheap_init
<1>2. BootFirst'
  BY <1>1, MmapStays DEF bootVars, FramesInv, BootFirst
<1>3. CASE UNCHANGED <<heap, PhysicalPageBitmap, free_framecount, huge>> /\ panic' = "heap"
  <2>1. TypeOK'
    BY <1>1, <1>3 DEF FramesInv, TypeOK, bootVars, chunkVars
  <2>2. FreeUntouched' /\ PendingPrivate' /\ HugePrivate' /\ ListedBits' /\ HandedOnce'
    BY <1>1, <1>3 DEF FramesInv, FreeUntouched, PendingPrivate, HugePrivate, ListedBits, HandedOnce,
                      Untouched, Listed, chunkVars
  <2> QED BY <1>2, <2>1, <2>2 DEF FramesInv
<1>4. ASSUME NEW f \in Frames, physical_frame_request(f), huge' = [huge EXCEPT ![f] = @ + 1],
             heap' = heap + 1
      PROVE  FramesInv'
  <2>1. Untouched(f) /\ PhysicalPageBitmap' = [PhysicalPageBitmap EXCEPT ![f] = TRUE]
    BY <1>4, Requested
  <2>2. TypeOK'
    BY <1>1, <1>4, Requested DEF FramesInv, TypeOK, bootVars, chunkVars
  <2>3. huge' \in [Frames -> Nat] /\ huge'[f] = 1 /\ \A g \in Frames \ {f} : huge'[g] = huge[g]
    BY <1>4, <2>1 DEF FramesInv, TypeOK, Untouched
  <2>4. \A g \in Frames : Listed(g)' = Listed(g)
    BY <1>1 DEF Listed, chunkVars
  <2>5. FreeUntouched'
    BY <1>1, <2>1, <2>3, <2>4 DEF FramesInv, TypeOK, FreeUntouched, Untouched
  <2>6. PendingPrivate'
    <3>1. \A c \in CPUs : pc[c] = "create" => frame[c] # f
      BY <1>4, Requested
    <3> QED BY <1>1, <2>1, <2>3, <2>4, <3>1 DEF FramesInv, TypeOK, PendingPrivate, Untouched
  <2>7. HugePrivate'
    BY <1>1, <2>1, <2>3, <2>4 DEF FramesInv, HugePrivate, Untouched
  <2>8. ListedBits' /\ HandedOnce'
    BY <1>1, <2>4 DEF FramesInv, ListedBits, HandedOnce, chunkVars
  <2> QED BY <1>2, <2>2, <2>5, <2>6, <2>7, <2>8 DEF FramesInv
<1> QED BY <1>3, <1>4 DEF kheap_init

-----------------------------------------------------------------------------
(* Requests for 4KB frames *)

LEMMA NoChunkKeeps ==
    ASSUME FramesInv, NEW c \in CPUs, NoChunkedFrame(c) \/ ChunkAllocFails(c)
    PROVE  FramesInv'
<1>1. /\ UNCHANGED <<bootVars, heap, PhysicalPageBitmap, free_framecount, chunkVars, frame, huge, handed>>
      /\ pc' = pc \/ pc' = [pc EXCEPT ![c] = "request"]
      /\ init_success
  BY DEF NoChunkedFrame, ChunkAllocFails, Booted, FramesInv, BootFirst
<1>2. TypeOK'
  BY <1>1 DEF NoChunkedFrame, ChunkAllocFails, FramesInv, TypeOK, bootVars, chunkVars
<1>3. \A f \in Frames : Untouched(f)' = Untouched(f) /\ Listed(f)' = Listed(f)
  BY <1>1 DEF Untouched, Listed, chunkVars
<1>4. BootFirst'
  BY <1>1, <1>3, MmapStays DEF FramesInv, BootFirst, bootVars
<1>5. PendingPrivate'
  BY <1>1, <1>3 DEF FramesInv, TypeOK, PendingPrivate
<1>6. FreeUntouched' /\ HugePrivate' /\ ListedBits' /\ HandedOnce'
  BY <1>1, <1>3 DEF FramesInv, FreeUntouched, HugePrivate, ListedBits, HandedOnce, chunkVars
<1> QED BY <1>2, <1>4, <1>5, <1>6 DEF FramesInv

LEMMA RequestKeeps ==
    ASSUME FramesInv, NEW c \in CPUs, RequestForChunk(c)
    PROVE  FramesInv'
<1>1. UNCHANGED <<bootVars, heap, chunkVars, huge, handed>> /\ init_success
  BY DEF RequestForChunk, FramesInv, BootFirst
<1>2. \A f \in Frames : Untouched(f)' = Untouched(f) /\ Listed(f)' = Listed(f)
  BY <1>1 DEF Untouched, Listed, chunkVars
<1>3. BootFirst'
  BY <1>1, MmapStays DEF FramesInv, BootFirst, bootVars
<1>4. HugePrivate' /\ ListedBits' /\ HandedOnce'
  BY <1>1, <1>2 DEF FramesInv, HugePrivate, ListedBits, HandedOnce, chunkVars
<1>5. CASE pc' = [pc EXCEPT ![c] = "idle"] /\ UNCHANGED <<PhysicalPageBitmap, free_framecount, frame, panic>>
  <2>1. TypeOK'
    BY <1>1, <1>5 DEF FramesInv, TypeOK, bootVars, chunkVars
  <2>2. FreeUntouched' /\ PendingPrivate'
    BY <1>2, <1>5 DEF FramesInv, TypeOK, FreeUntouched, PendingPrivate
  <2> QED BY <1>3, <1>4, <2>1, <2>2 DEF FramesInv
<1>6. ASSUME NEW f \in Frames, physical_frame_request(f), frame' = [frame EXCEPT ![c] = f],
             pc' = [pc EXCEPT ![c] = "create"]
      PROVE  FramesInv'
  <2>1. /\ Untouched(f) /\ PhysicalPageBitmap' = [PhysicalPageBitmap EXCEPT ![f] = TRUE]
        /\ \A d \in CPUs : pc[d] = "create" => frame[d] # f
    BY <1>6, Requested
  <2>2. TypeOK'
    BY <1>1, <1>6, Requested DEF FramesInv, TypeOK, bootVars, chunkVars
  <2>3. FreeUntouched'
    BY <1>2, <2>1 DEF FramesInv, TypeOK, FreeUntouched
  <2>4. PendingPrivate'
    BY <1>2, <1>6, <2>1 DEF FramesInv, TypeOK, PendingPrivate
  <2> QED BY <1>3, <1>4, <2>2, <2>3, <2>4 DEF FramesInv
<1> QED BY <1>5, <1>6 DEF RequestForChunk

(* A 4KB frame of a listed chunk goes to one caller. *)
LEMMA AvailableKeeps ==
    ASSUME FramesInv, NEW c \in CPUs, check_available_chunked_frame(c)
    PROVE  FramesInv'
<1>1. PICK i \in DOMAIN list, k \in Indexes :
        /\ k \notin frame_bitmap[list[i]]
        /\ frame_bitmap' = [frame_bitmap EXCEPT ![list[i]] = @ \cup {k}]
        /\ use_count' = [use_count EXCEPT ![list[i]] = (@ + 1) % Counts]
        /\ Hand(list[i], k)
  BY DEF check_available_chunked_frame, FirstAvailable, Available
<1> DEFINE f == list[i]
<1>2. f \in Frames /\ Listed(f)
  BY DEF FramesInv, TypeOK, Listed
<1> HIDE DEF f
<1>3. UNCHANGED <<bootVars, heap, PhysicalPageBitmap, free_framecount, list, pc, frame, panic, huge>> /\ init_success
  BY DEF check_available_chunked_frame, Booted
<1>4. /\ handed \in [Frames -> [Indexes -> Nat]] /\ handed[f][k] = 0
      /\ handed' = [handed EXCEPT ![f][k] = @ + 1]
  BY <1>1, <1>2 DEF FramesInv, TypeOK, ListedBits, Hand, f
<1>5. /\ handed' \in [Frames -> [Indexes -> Nat]] /\ handed'[f][k] = 1
      /\ \A g \in Frames, m \in Indexes : g # f \/ m # k => handed'[g][m] = handed[g][m]
  BY <1>2, <1>4
<1>6. TypeOK'
  <2>1. use_count[f] + 1 \in Int
    BY <1>2, MemoryAssumption DEF FramesInv, TypeOK
  <2>2. (use_count[f] + 1) % Counts \in 0 .. Counts - 1
    BY <2>1, CountModulo
  <2>3. use_count' \in [Frames -> 0 .. Counts - 1] /\ frame_bitmap' \in [Frames -> SUBSET Indexes]
    BY <1>1, <1>2, <2>2 DEF FramesInv, TypeOK, f
  <2> QED BY <1>3, <1>5, <2>3 DEF FramesInv, TypeOK, bootVars
<1>7. \A g \in Frames : Listed(g)' = Listed(g)
  BY <1>3 DEF Listed
<1>8. \A g \in Frames : Untouched(g) => Untouched(g)'
  BY <1>2, <1>3, <1>5, <1>7 DEF Untouched
<1>9. BootFirst'
  BY <1>3, MmapStays DEF FramesInv, BootFirst, bootVars
<1>10. FreeUntouched' /\ PendingPrivate'
  BY <1>3, <1>8 DEF FramesInv, FreeUntouched, PendingPrivate
<1>11. HugePrivate'
  BY <1>2, <1>3, <1>5, <1>7 DEF FramesInv, HugePrivate
<1>12. ListedBits'
  <2>1. k \in frame_bitmap'[f] /\ \A g \in Frames : frame_bitmap[g] \subseteq frame_bitmap'[g]
    BY <1>1, <1>2 DEF FramesInv, TypeOK, f
  <2> QED BY <1>5, <1>7, <2>1 DEF FramesInv, ListedBits
<1>13. HandedOnce'
  BY <1>5 DEF FramesInv, HandedOnce
<1> QED BY <1>6, <1>9, <1>10, <1>11, <1>12, <1>13 DEF FramesInv

(* The CPU's own frame becomes a chunk and its first 4KB frame is handed out. *)
LEMMA CreateKeeps ==
    ASSUME FramesInv, NEW c \in CPUs, create_new_chunked_frame(c)
    PROVE  FramesInv'
<1> DEFINE f == frame[c]
<1>1. f \in Frames /\ Untouched(f) /\ PhysicalPageBitmap[f] /\ init_success /\ 0 \in Indexes
  BY MemoryAssumption DEF create_new_chunked_frame, FramesInv, PendingPrivate, BootFirst, Indexes
<1>2. /\ UNCHANGED <<bootVars, heap, PhysicalPageBitmap, free_framecount, panic, huge>>
      /\ pc[c] = "create" /\ pc' = [pc EXCEPT ![c] = "idle"] /\ frame' = [frame EXCEPT ![c] = None]
      /\ frame_bitmap' = [frame_bitmap EXCEPT ![f] = {0}]
      /\ list' = <<f>> \o list
      /\ handed' = [handed EXCEPT ![f][0] = @ + 1]
  BY DEF create_new_chunked_frame, Hand
<1>3. PICK garbage \in 0 .. Counts - 1 : use_count' = [use_count EXCEPT ![f] = (garbage + 1) % Counts]
  BY DEF create_new_chunked_frame
<1>4. \A d \in CPUs \ {c} : pc[d] = "create" => frame[d] # f
  BY <1>2 DEF FramesInv, PendingPrivate
<1> HIDE DEF f
<1>5. /\ handed' \in [Frames -> [Indexes -> Nat]] /\ handed'[f][0] = 1
      /\ \A g \in Frames, m \in Indexes : g # f \/ m # 0 => handed'[g][m] = handed[g][m]
  BY <1>1, <1>2 DEF FramesInv, TypeOK, Untouched
<1>6. list' \in Seq(Frames) /\ \A g \in Frames : Listed(g)' => g = f \/ Listed(g)
  <2>1. list \in Seq(Frames) /\ <<f>> \in Seq(Frames) /\ Len(<<f>>) = 1 /\ <<f>>[1] = f
    BY <1>1 DEF FramesInv, TypeOK
  <2>2. /\ list' \in Seq(Frames)
        /\ Len(list') = 1 + Len(list)
        /\ \A j \in 1 .. 1 + Len(list) : list'[j] = IF j <= 1 THEN <<f>>[j] ELSE list[j - 1]
    BY <1>2, <2>1, ConcatProperties
  <2>3. \A j \in DOMAIN list' : list'[j] = f \/ (j - 1 \in DOMAIN list /\ list'[j] = list[j - 1])
    BY <2>1, <2>2
  <2> QED BY <2>2, <2>3 DEF Listed
<1>7. TypeOK'
  <2>1. (garbage + 1) % Counts \in 0 .. Counts - 1
    <3>1. garbage + 1 \in Int
      BY MemoryAssumption
    <3> QED BY <3>1, CountModulo
  <2>2. use_count' \in [Frames -> 0 .. Counts - 1] /\ frame_bitmap' \in [Frames -> SUBSET Indexes]
    BY <1>1, <1>2, <1>3, <2>1 DEF FramesInv, TypeOK
  <2>3. /\ pc' \in [CPUs -> {"idle", "request", "create"}]
        /\ frame' \in [CPUs -> Frames \cup {None}]
    BY <1>2 DEF FramesInv, TypeOK
  <2> QED BY <1>2, <1>5, <1>6, <2>2, <2>3 DEF FramesInv, TypeOK, bootVars
<1>8. \A g \in Frames \ {f} : Untouched(g) => Untouched(g)'
  BY <1>2, <1>5, <1>6 DEF Untouched
<1>9. BootFirst'
  BY <1>1, <1>2, MmapStays DEF FramesInv, BootFirst, bootVars
<1>10. FreeUntouched'
  BY <1>1, <1>2, <1>8 DEF FramesInv, FreeUntouched
<1>11. PendingPrivate'
  <2>1. \A d \in CPUs : pc'[d] = "create" => d # c /\ pc[d] = "create" /\ frame'[d] = frame[d]
    BY <1>2 DEF FramesInv, TypeOK
  <2> QED BY <1>2, <1>4, <1>8, <2>1 DEF FramesInv, PendingPrivate
<1>12. HugePrivate'
  BY <1>1, <1>2, <1>5, <1>6 DEF FramesInv, HugePrivate, Untouched
<1>13. ListedBits'
  <2>1. frame_bitmap'[f] = {0} /\ \A g \in Frames \ {f} : frame_bitmap'[g] = frame_bitmap[g]
    BY <1>1, <1>2 DEF FramesInv, TypeOK
  <2>2. \A m \in Indexes : m # 0 => handed'[f][m] = 0
    BY <1>1, <1>5 DEF Untouched
  <2>3. ASSUME NEW g \in Frames, Listed(g)', NEW m \in Indexes, handed'[g][m] > 0
        PROVE  m \in frame_bitmap'[g]
    <3>1. CASE g = f
      BY <2>1, <2>2, <2>3, <3>1
    <3>2. CASE g # f
      BY <1>5, <1>6, <2>1, <2>3, <3>2 DEF FramesInv, ListedBits
    <3> QED BY <3>1, <3>2
  <2> QED BY <2>3 DEF ListedBits
<1>14. HandedOnce'
  BY <1>5 DEF FramesInv, HandedOnce
<1> QED BY <1>7, <1>9, <1>10, <1>11, <1>12, <1>13, <1>14 DEF FramesInv

(* Giving back may unlink a chunk; it lists nothing and unmarks one frame. *)
LEMMA FreeKeeps ==
    ASSUME FramesInv, NEW f \in Frames, NEW k \in Indexes, Free(f, k)
    PROVE  FramesInv'
<1>1. /\ UNCHANGED <<bootVars, heap, PhysicalPageBitmap, free_framecount, pc, frame, panic, huge>>
      /\ handed[f][k] = 1 /\ handed' = [handed EXCEPT ![f][k] = @ - 1]
  BY DEF Free, FramesInv, TypeOK, HandedOnce
<1>2. init_success
  BY <1>1 DEF FramesInv, BootFirst, Untouched
<1>3. /\ handed' \in [Frames -> [Indexes -> Nat]] /\ handed'[f][k] = 0
      /\ \A g \in Frames, m \in Indexes : g # f \/ m # k => handed'[g][m] = handed[g][m]
  BY <1>1 DEF FramesInv, TypeOK
<1>4. /\ list' \in Seq(Frames)
      /\ use_count' \in [Frames -> 0 .. Counts - 1]
      /\ frame_bitmap' \in [Frames -> SUBSET Indexes]
      /\ \A g \in Frames : Listed(g)' => Listed(g)
      /\ \A g \in Frames : frame_bitmap[g] \ frame_bitmap'[g] \subseteq (IF g = f THEN {k} ELSE {})
  BY FreeChunk DEF FramesInv, Free
<1>5. TypeOK'
  BY <1>1, <1>3, <1>4 DEF FramesInv, TypeOK, bootVars
<1>6. \A g \in Frames : Untouched(g) => Untouched(g)'
  BY <1>1, <1>3, <1>4 DEF Untouched
<1>7. BootFirst'
  BY <1>1, <1>2, MmapStays DEF FramesInv, BootFirst, bootVars
<1>8. FreeUntouched' /\ PendingPrivate'
  BY <1>1, <1>6 DEF FramesInv, FreeUntouched, PendingPrivate
<1>9. HugePrivate'
  BY <1>1, <1>3, <1>4 DEF FramesInv, HugePrivate
<1>10. ListedBits'
  <2>1. ASSUME NEW g \in Frames, Listed(g)', NEW m \in Indexes, handed'[g][m] > 0
        PROVE  m \in frame_bitmap'[g]
    <3>1. Listed(g) /\ (g # f \/ m # k) /\ handed[g][m] > 0
      BY <1>3, <1>4, <2>1
    <3>2. m \in frame_bitmap[g]
      BY <3>1 DEF FramesInv, ListedBits
    <3> QED BY <1>4, <3>1, <3>2
  <2> QED BY <2>1 DEF ListedBits
<1>11. HandedOnce'
  BY <1>3 DEF FramesInv, HandedOnce
<1> QED BY <1>5, <1>7, <1>8, <1>9, <1>10, <1>11 DEF FramesInv

LEMMA NextFrames == FramesInv /\ [Next]_vars => FramesInv'
<1> SUFFICES ASSUME FramesInv, [Next]_vars PROVE FramesInv'
  OBVIOUS
<1>1. CASE UNCHANGED vars
  <2>1. info' = info /\ mmap' = mmap /\ HasTag("MMAP")' = HasTag("MMAP")
    BY <1>1, MmapStays DEF vars, bootVars
  <2>2. \A f \in Frames : Untouched(f)' = Untouched(f) /\ Listed(f)' = Listed(f)
    BY <1>1 DEF vars, chunkVars, Untouched, Listed
  <2>3. TypeOK' /\ BootFirst'
    BY <1>1, <2>1, <2>2 DEF vars, bootVars, chunkVars, FramesInv, TypeOK, BootFirst
  <2>4. FreeUntouched' /\ PendingPrivate' /\ HugePrivate' /\ ListedBits' /\ HandedOnce'
    BY <1>1, <2>2 DEF vars, chunkVars, FramesInv, FreeUntouched, PendingPrivate, HugePrivate, ListedBits, HandedOnce
  <2> QED BY <2>3, <2>4 DEF FramesInv
<1>2. CASE Boot
  BY <1>2, ParseKeeps, HeapKeeps DEF Boot
<1>3. ASSUME NEW c \in CPUs, Request4kb(c) PROVE FramesInv'
  BY <1>3, AvailableKeeps, NoChunkKeeps, RequestKeeps, CreateKeeps DEF Request4kb
<1> QED BY <1>1, <1>2, <1>3, FreeKeeps DEF Next, Run

-----------------------------------------------------------------------------
(* FreeFramesUsable is inductive: only the parser of the memory map clears    *)
(* bits. *)
LEMMA NextUsable == FramesInv /\ FreeFramesUsable /\ [Next]_vars => FreeFramesUsable'
<1> SUFFICES ASSUME FramesInv, FreeFramesUsable, [Next]_vars PROVE FreeFramesUsable'
  OBVIOUS
<1>1. info' = info
  BY DEF Next, Run, Boot, parse_multiboot_info, ParseEntry, ParseEnd, kheap_init, Request4kb,
         check_available_chunked_frame, NoChunkedFrame, RequestForChunk, create_new_chunked_frame,
         ChunkAllocFails, Free, vars, bootVars
<1>2. mmap' = mmap
  BY <1>1, MmapStays
<1>3. CASE \A f \in Frames : PhysicalPageBitmap[f] => PhysicalPageBitmap'[f]
  BY <1>2, <1>3 DEF FreeFramesUsable, check_kernel_frame
<1>4. CASE ParseEntry /\ mmap[entry].type = "AVAILABLE"
  <2>1. HasTag("MMAP") /\ entry \in DOMAIN mmap
    BY <1>4 DEF ParseEntry, FramesInv, BootFirst
  <2>2. mmap[entry] \in Entry
    BY <2>1, MmapType DEF FramesInv
  <2> DEFINE e == mmap[entry]
             range == HugeFrameRange(e.addr, e.addr + e.len)
  <2>3. e.addr \in Nat /\ e.len \in Nat
    BY <2>2 DEF Entry
  <2>4. PhysicalPageBitmap' = [f \in Frames |-> PhysicalPageBitmap[f] /\ f \notin {g \in range : ~ check_kernel_frame(g)}]
    BY <1>4 DEF ParseEntry, physical_frame_free
  <2>5. \A f \in range : e.addr <= f * HUGEPGSIZE /\ (f + 1) * HUGEPGSIZE <= e.addr + e.len
    BY <2>3, RangeInside
  <2> HIDE DEF range
  <2>6. ASSUME NEW f \in Frames, ~ PhysicalPageBitmap'[f]
        PROVE  ~ PhysicalPageBitmap[f] \/ (f \in range /\ ~ check_kernel_frame(f))
    BY <2>4, <2>6, Zenon
  <2> QED BY <1>2, <1>4, <2>1, <2>5, <2>6 DEF FreeFramesUsable, check_kernel_frame
<1>5. ~ (ParseEntry /\ mmap[entry].type = "AVAILABLE") =>
        \A f \in Frames : PhysicalPageBitmap[f] => PhysicalPageBitmap'[f]
  <2>1. ASSUME NEW f \in Frames, physical_frame_request(f)
        PROVE  \A g \in Frames : PhysicalPageBitmap[g] => PhysicalPageBitmap'[g]
    BY <2>1, Requested DEF FramesInv, TypeOK
  <2>2. SUFFICES ASSUME ~ (ParseEntry /\ mmap[entry].type = "AVAILABLE")
        PROVE  \/ PhysicalPageBitmap' = PhysicalPageBitmap
               \/ \E f \in Frames : physical_frame_request(f)
    BY <2>1
  <2> QED BY <2>2
      DEF Next, Run, Boot, parse_multiboot_info, ParseEntry, ParseEnd, kheap_init, Request4kb,
          check_available_chunked_frame, NoChunkedFrame, RequestForChunk, create_new_chunked_frame,
          ChunkAllocFails, Free, vars
<1> QED BY <1>3, <1>4, <1>5

-----------------------------------------------------------------------------
(* The state of pmm.c stays well-formed: counts wrap, the chunk list holds    *)
(* frames.                                                                    *)
THEOREM MemoryTypes == Spec => []TypeOK
<1>1. Spec => []FramesInv
  BY InitFrames, NextFrames, PTL DEF Spec
<1>2. FramesInv => TypeOK
  BY DEF FramesInv
<1> QED BY <1>1, <1>2, PTL

(* physical_frame_request and physical_frame_request_4kb give no frame to two *)
(* callers, whatever value an uninitialised use_count starts from.            *)
THEOREM MemoryFramesExclusive == Spec => []FramesExclusive
<1>1. Spec => []FramesInv
  BY InitFrames, NextFrames, PTL DEF Spec
<1>2. FramesInv => FramesExclusive
  BY DEF FramesInv, TypeOK, HugePrivate, HandedOnce, FramesExclusive
<1> QED BY <1>1, <1>2, PTL

(* free_hugeframe_range frees only whole frames of AVAILABLE regions above    *)
(* the kernel's first GB, for every memory map.                               *)
THEOREM MemoryFreeFramesUsable == Spec => []FreeFramesUsable
<1>1. Init => FreeFramesUsable
  BY DEF Init, FreeFramesUsable
<1> QED BY <1>1, InitFrames, NextFrames, NextUsable, PTL DEF Spec

-----------------------------------------------------------------------------
(* The count.  A memory map whose AVAILABLE regions overlap makes the parser  *)
(* free a frame twice, and one with memory above 64GB makes it clear bits     *)
(* behind the bitmap: that neither happens needs a map with its regions apart *)
(* and within the bitmap, the rest does not.                                  *)

Clear == {f \in Frames : ~ PhysicalPageBitmap[f]}

Inside(f, e) == e.addr <= f * HUGEPGSIZE /\ (f + 1) * HUGEPGSIZE <= e.addr + e.len

CountInv ==
    /\ panic \notin {"checkout", "kernel_frame"}
    /\ panic \notin {"free", "overrun"} => free_framecount = Cardinality(Clear)

(* A clear bit comes from an entry the parser has passed. *)
FreedBefore ==
    \A f \in Clear : \E e \in DOMAIN mmap :
        e \in 1 .. entry - 1 /\ mmap[e].type = "AVAILABLE" /\ Inside(f, mmap[e])

LEMMA ClearFinite == IsFiniteSet(Clear) /\ Cardinality(Clear) \in Nat
<1>1. IsFiniteSet(Frames)
  BY FS_Interval, MemoryAssumption DEF Frames
<1>2. Clear \subseteq Frames
  BY DEF Clear
<1> QED BY <1>1, <1>2, FS_Subset, FS_CardinalityType

(* physical_frame_free counts what it clears. *)
LEMMA FreeCounts ==
    ASSUME TypeOK, NEW range, physical_frame_free(range), panic = "none", CountInv
    PROVE  CountInv' /\ panic' \in {"none", "free", "overrun"}
<1> DEFINE freed == {f \in range : ~ check_kernel_frame(f)}
<1>1. /\ panic' \in FreeOutcomes(freed)
      /\ PhysicalPageBitmap' = [f \in Frames |-> PhysicalPageBitmap[f] /\ f \notin freed]
      /\ free_framecount' = free_framecount + Cardinality(freed)
  BY DEF physical_frame_free
<1> HIDE DEF freed
<1>2. /\ panic' \in {"free", "overrun", panic}
      /\ panic' \notin {"free", "overrun"} => freed \subseteq Frames /\ \A f \in freed : PhysicalPageBitmap[f]
  BY <1>1, FreeOutcome, Zenon
<1>3. CASE panic' \in {"free", "overrun"}
  BY <1>3 DEF CountInv
<1>4. CASE panic' = "none"
  <2>1. freed \subseteq Frames /\ \A f \in freed : PhysicalPageBitmap[f]
    BY <1>2, <1>4
  <2>2. Clear' = Clear \cup freed
    BY <1>1, <2>1, Zenon DEF Clear
  <2>3. Clear \cap freed = {}
    BY <2>1 DEF Clear
  <2>4. IsFiniteSet(freed) /\ Cardinality(freed) \in Nat
    <3>1. IsFiniteSet(Frames)
      BY FS_Interval, MemoryAssumption DEF Frames
    <3> QED BY <2>1, <3>1, FS_Subset, FS_CardinalityType
  <2>5. Cardinality(Clear \cup freed) = Cardinality(Clear) + Cardinality(freed)
    <3>1. Cardinality(Clear \cup freed) = Cardinality(Clear) + Cardinality(freed) - Cardinality(Clear \cap freed)
      BY <2>4, ClearFinite, FS_Union
    <3>2. Cardinality(Clear \cap freed) = 0
      BY <2>3, FS_EmptySet
    <3> QED BY <2>4, <3>1, <3>2, ClearFinite
  <2> QED BY <1>1, <1>4, <2>2, <2>5 DEF CountInv
<1> QED BY <1>2, <1>3, <1>4

(* physical_frame_request finds a clear bit above the kernel: no sanity check *)
(* of physical_frame_checkout fires.                                          *)
LEMMA RequestCounts ==
    ASSUME TypeOK, FreeFramesUsable, NEW f \in Frames, physical_frame_request(f), panic = "none", CountInv
    PROVE  CountInv' /\ panic' = "none"
<1>1. ~ PhysicalPageBitmap[f]
  BY DEF physical_frame_request, FirstFree
<1>2. ~ check_kernel_frame(f)
  BY <1>1 DEF FreeFramesUsable
<1>3. /\ panic' = "none"
      /\ PhysicalPageBitmap' = [PhysicalPageBitmap EXCEPT ![f] = TRUE]
      /\ free_framecount' = free_framecount - 1
  BY <1>1, <1>2 DEF physical_frame_request, physical_frame_checkout
<1>4. Clear' = Clear \ {f} /\ f \in Clear
  BY <1>1, <1>3, Zenon DEF Clear, TypeOK
<1>5. Cardinality(Clear \ {f}) = Cardinality(Clear) - 1
  BY <1>4, ClearFinite, FS_RemoveElement
<1> QED BY <1>3, <1>4, <1>5 DEF CountInv

(* Every step clears bits in ParseEntry, sets one in a request, or leaves the *)
(* bitmap alone.                                                              *)
LEMMA BitmapSteps ==
    ASSUME [Next]_vars
    PROVE  /\ info' = info
           /\ \/ UNCHANGED <<PhysicalPageBitmap, free_framecount>> /\ (panic' = panic \/ panic' \in {"boot", "heap", "kalloc"})
                 /\ (entry' = entry \/ (entry = 0 /\ entry' = 1) \/ entry' = entry + 1)
              \/ panic = "none" /\ entry' = entry /\ \E f \in Frames : physical_frame_request(f)
              \/ /\ panic = "none" /\ entry > 0 /\ entry \in DOMAIN mmap /\ entry' = entry + 1
                 /\ mmap[entry].type = "AVAILABLE"
                 /\ physical_frame_free(HugeFrameRange(mmap[entry].addr, mmap[entry].addr + mmap[entry].len))
<1>1. CASE UNCHANGED vars
  BY <1>1 DEF vars, bootVars
<1>2. CASE panic = "none" /\ Boot
  BY <1>2 DEF Boot, parse_multiboot_info, ParseEntry, ParseEnd, kheap_init, bootVars
<1>3. ASSUME NEW c \in CPUs, panic = "none" /\ Request4kb(c)
      PROVE  /\ info' = info /\ entry' = entry
             /\ \/ UNCHANGED <<PhysicalPageBitmap, free_framecount>> /\ (panic' = panic \/ panic' = "kalloc")
                \/ \E f \in Frames : physical_frame_request(f)
  BY <1>3 DEF Request4kb, check_available_chunked_frame, NoChunkedFrame, RequestForChunk,
              create_new_chunked_frame, ChunkAllocFails, bootVars
<1>4. ASSUME NEW f \in Frames, NEW k \in Indexes, Free(f, k)
      PROVE  UNCHANGED <<info, entry, PhysicalPageBitmap, free_framecount, panic>>
  BY <1>4 DEF Free, bootVars
<1> QED BY <1>1, <1>2, <1>3, <1>4 DEF Next, Run

LEMMA NextCount == FramesInv /\ FreeFramesUsable /\ CountInv /\ [Next]_vars => CountInv'
<1> SUFFICES ASSUME FramesInv, FreeFramesUsable, CountInv, [Next]_vars PROVE CountInv'
  OBVIOUS
<1>1. CASE UNCHANGED <<PhysicalPageBitmap, free_framecount>> /\ (panic' = panic \/ panic' \in {"boot", "heap", "kalloc"})
  <2>1. panic \in {"free", "overrun"} => panic' = panic
    BY <1>1, Zenon DEF Next, vars
  <2> QED BY <1>1, <2>1 DEF CountInv, Clear
<1>2. CASE panic = "none" /\ \E f \in Frames : physical_frame_request(f)
  BY <1>2, RequestCounts DEF FramesInv
<1>3. CASE panic = "none" /\ physical_frame_free(HugeFrameRange(mmap[entry].addr, mmap[entry].addr + mmap[entry].len))
  <2>1. PICK range : range = HugeFrameRange(mmap[entry].addr, mmap[entry].addr + mmap[entry].len)
    OBVIOUS
  <2>2. physical_frame_free(range)
    BY <1>3, <2>1
  <2> QED BY <1>3, <2>2, FreeCounts DEF FramesInv
<1> QED BY <1>1, <1>2, <1>3, BitmapSteps

(* A frame of two regions would be in two places of the map. *)
LEMMA InsideOnce ==
    ASSUME NEW d \in Entry, NEW e \in Entry, NEW f \in Frames, Inside(f, d), Inside(f, e)
    PROVE  ~ (d.addr + d.len <= e.addr) /\ ~ (e.addr + e.len <= d.addr)
<1>1. d.addr \in Nat /\ d.len \in Nat /\ e.addr \in Nat /\ e.len \in Nat
  BY DEF Entry
<1>2. PICK p \in Int, h \in Nat \ {0} : p = f * HUGEPGSIZE /\ h = HUGEPGSIZE
  BY MemoryAssumption DEF Frames
<1>3. (f + 1) * HUGEPGSIZE = p + h
  <2>1. f \in Int /\ HUGEPGSIZE \in Int
    BY MemoryAssumption DEF Frames
  <2> QED BY <1>2, <2>1
<1> QED BY <1>1, <1>2, <1>3 DEF Inside

(* With its regions apart and within the bitmap, the map never makes the      *)
(* parser free a frame twice or a bit behind the bitmap.                      *)
Freed == FreedBefore /\ (MapFits /\ MapApart => panic \notin {"free", "overrun"})

LEMMA NextFreed == FramesInv /\ FreeFramesUsable /\ CountInv /\ Freed /\ [Next]_vars => Freed'
<1> SUFFICES ASSUME FramesInv, FreeFramesUsable, CountInv, Freed, [Next]_vars PROVE Freed'
  OBVIOUS
<1>1. mmap' = mmap /\ MapApart' = MapApart /\ MapFits' = MapFits
  BY BitmapSteps, MmapStays DEF MapApart, MapFits, HugeFrameRange
<1>2. entry \in Nat
  BY DEF FramesInv, TypeOK
<1>3. CASE /\ UNCHANGED <<PhysicalPageBitmap, free_framecount>> /\ (panic' = panic \/ panic' \in {"boot", "heap", "kalloc"})
           /\ (entry' = entry \/ (entry = 0 /\ entry' = 1) \/ entry' = entry + 1)
  <2>1. entry' \in Nat /\ entry <= entry'
    BY <1>2, <1>3
  <2>2. Clear' = Clear
    BY <1>3 DEF Clear
  <2>3. FreedBefore'
    <3>1. ASSUME NEW f \in Clear PROVE \E e \in DOMAIN mmap : e \in 1 .. entry' - 1 /\ mmap[e].type = "AVAILABLE" /\ Inside(f, mmap[e])
      <4>1. PICK e \in DOMAIN mmap : e \in 1 .. entry - 1 /\ mmap[e].type = "AVAILABLE" /\ Inside(f, mmap[e])
        BY DEF Freed, FreedBefore
      <4> QED BY <1>2, <2>1, <4>1
    <3> QED BY <1>1, <2>2, <3>1 DEF FreedBefore, Inside
  <2> QED BY <1>1, <1>3, <2>3 DEF Freed
<1>4. ASSUME panic = "none", entry' = entry, NEW f \in Frames, physical_frame_request(f)
      PROVE  Freed'
  <2>1. panic' = "none"
    BY <1>4, RequestCounts DEF FramesInv
  <2>2. Clear' \subseteq Clear
    BY <1>4, Requested, Zenon DEF Clear, FramesInv, TypeOK
  <2> QED BY <1>1, <1>4, <2>1, <2>2 DEF Freed, FreedBefore, Inside
<1>5. CASE /\ panic = "none" /\ entry > 0 /\ entry \in DOMAIN mmap /\ entry' = entry + 1
           /\ mmap[entry].type = "AVAILABLE"
           /\ physical_frame_free(HugeFrameRange(mmap[entry].addr, mmap[entry].addr + mmap[entry].len))
  <2>1. mmap \in Seq(Entry) /\ HasTag("MMAP")
    BY <1>5, MmapType DEF FramesInv, BootFirst
  <2>2. PICK m \in Entry : m = mmap[entry]
    BY <1>5, <2>1
  <2>3. PICK range : range = HugeFrameRange(m.addr, m.addr + m.len)
    OBVIOUS
  <2>4. \A f \in range : Inside(f, m)
    <3>1. m.addr \in Nat /\ m.len \in Nat
      BY DEF Entry
    <3> QED BY <2>3, <3>1, RangeInside DEF Inside
  <2>5. /\ panic' \in FreeOutcomes({g \in range : ~ check_kernel_frame(g)})
        /\ PhysicalPageBitmap' = [f \in Frames |-> PhysicalPageBitmap[f] /\ f \notin {g \in range : ~ check_kernel_frame(g)}]
    BY <1>5, <2>2, <2>3 DEF physical_frame_free
  <2>6. \A f \in Clear' : f \in Clear \/ f \in range
    BY <2>5, Zenon DEF Clear
  <2>7. FreedBefore'
    <3>1. ASSUME NEW f \in Clear' PROVE \E e \in DOMAIN mmap : e \in 1 .. entry' - 1 /\ mmap[e].type = "AVAILABLE" /\ Inside(f, mmap[e])
      <4>1. CASE f \in range
        BY <1>2, <1>5, <2>2, <2>4, <4>1
      <4>2. CASE f \in Clear
        <5>1. PICK e \in DOMAIN mmap : e \in 1 .. entry - 1 /\ mmap[e].type = "AVAILABLE" /\ Inside(f, mmap[e])
          BY <4>2 DEF Freed, FreedBefore
        <5> QED BY <1>2, <1>5, <5>1
      <4> QED BY <2>6, <4>1, <4>2
    <3> QED BY <1>1, <3>1 DEF FreedBefore, Inside
  <2>8. ASSUME MapFits, MapApart PROVE panic' \notin {"free", "overrun"}
    <3>0. range \subseteq Frames
      BY <1>5, <2>1, <2>2, <2>3, <2>8 DEF MapFits
    <3> SUFFICES ASSUME NEW f \in range, ~ PhysicalPageBitmap[f] PROVE FALSE
      <4>1. PICK freed : freed = {g \in range : ~ check_kernel_frame(g)}
        OBVIOUS
      <4>2. freed \subseteq Frames /\ \A f \in freed : PhysicalPageBitmap[f]
        BY <3>0, <4>1
      <4>3. FreeOutcomes(freed) = {panic}
        BY <4>2, Zenon DEF FreeOutcomes
      <4> QED BY <1>5, <2>5, <4>1, <4>3
    <3>1. f \in Clear
      BY <3>0 DEF Clear
    <3>2. PICK e \in DOMAIN mmap : e \in 1 .. entry - 1 /\ mmap[e].type = "AVAILABLE" /\ Inside(f, mmap[e])
      BY <3>1 DEF Freed, FreedBefore
    <3>3. e # entry /\ mmap[e] \in Entry
      BY <1>2, <2>1, <3>2
    <3>4. \/ mmap[e].addr + mmap[e].len <= m.addr
          \/ m.addr + m.len <= mmap[e].addr
      BY <1>5, <2>1, <2>2, <2>8, <3>2, <3>3 DEF MapApart
    <3> QED BY <3>0, <2>4, <3>2, <3>3, <3>4, InsideOnce
  <2> QED BY <1>1, <2>7, <2>8 DEF Freed
<1> QED BY <1>3, <1>4, <1>5, BitmapSteps

(* free_framecount is the number of clear bits until a frame is freed twice   *)
(* or a bit behind the bitmap is cleared, and physical_frame_checkout's       *)
(* sanity checks never fire, for any memory map whatsoever.                   *)
THEOREM MemoryCount == Spec => []CountInv
<1>1. Init => CountInv /\ FreeFramesUsable
  <2>1. ASSUME Init PROVE Clear = {}
    BY <2>1 DEF Init, Clear
  <2> QED BY <2>1, FS_EmptySet DEF Init, CountInv, FreeFramesUsable
<1> QED BY <1>1, InitFrames, NextFrames, NextUsable, NextCount, PTL DEF Spec

(* For every memory map the count is exact as long as the machine runs; with  *)
(* AVAILABLE regions that do not overlap and stay within the 64GB of the      *)
(* bitmap, no sanity check of the bitmap fires and no bit behind it is        *)
(* touched.  The other maps are those pmm.c does not check for.               *)
THEOREM MemoryCountExact == Spec => []CountExact
<1>1. Init => CountInv /\ FreeFramesUsable /\ Freed
  <2>1. ASSUME Init PROVE Clear = {}
    BY <2>1 DEF Init, Clear
  <2>2. ASSUME Init PROVE Freed
    BY <2>1, <2>2 DEF Init, Freed, FreedBefore
  <2> QED BY <2>1, <2>2, FS_EmptySet DEF Init, CountInv, FreeFramesUsable
<1>2. CountInv /\ Freed => CountExact
  BY DEF CountInv, Freed, CountExact, Clear
<1> QED BY <1>1, <1>2, InitFrames, NextFrames, NextUsable, NextCount, NextFreed, PTL DEF Spec
=============================================================================
