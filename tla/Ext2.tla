-------------------------------- MODULE Ext2 --------------------------------
(***************************************************************************)
(* ext2.c: mounting the file system, finding a file by its path, reading   *)
(* it into a buffer, and the address arithmetic underneath.                *)
(*                                                                         *)
(* The disk is read only.  What is on it is a file system image (inodes,   *)
(* directory blocks and indirect blocks) and a layout (the numbers of the  *)
(* superblock and the block group descriptors); both are chosen once.      *)
(* A block's data is its number, and what it reads as when it is taken for *)
(* a directory.  A path is the sequence of its names, "/" the empty        *)
(* sequence.  Inode numbers that are not "real" are those lookups can come *)
(* by although the disk has no such inode: 0, and what is read out of data *)
(* or of memory behind a block.  ext2_read_inode makes some inode of them, *)
(* fixed by the image.                                                     *)
(***************************************************************************)
EXTENDS Integers, Sequences, Functions

CONSTANTS
    Images, Layouts,
    Rests,             \* what the memory behind a block in the heap may read as
    NDIRECT,           \* direct blocks of an inode (12)
    NPOINTERS,         \* pointers in an indirect block (1024, for blocks of 4 KB)
    DISK_SECTOR_SIZE,  \* 512
    KB,                \* 1024, the smallest block size
    DEVICE_START,      \* first sector of the partition (2048)
    WORD,              \* 2^32: block numbers and offsets are 32 bits wide
    HEAP_MINBLOCK,     \* smallest section kalloc hands out (64 KB)
    HEAP_LEVELS        \* doublings from there to the largest one (15)

ASSUME UnitAssumption ==
    /\ {NDIRECT, NPOINTERS, DISK_SECTOR_SIZE, KB, DEVICE_START, WORD, HEAP_MINBLOCK} \subseteq Nat \ {0}
    /\ KB % DISK_SECTOR_SIZE = 0
    /\ HEAP_LEVELS \in Nat

Power2[k \in Nat] == IF k = 0 THEN 1 ELSE 2 * Power2[k - 1]

DivCeil(x, y) == (x + y - 1) \div y

(* The entries of a table before the first 0. *)
UpToZero(s) ==
    SubSeq(s, 1, CHOOSE k \in 0 .. Len(s) : (\A i \in 1 .. k : s[i] # 0) /\ (k < Len(s) => s[k + 1] = 0))

-----------------------------------------------------------------------------
(* Disks *)

BlockSize(l) == KB * Power2[l.log2block_size]

(* The inode tables are on the disk, one for each block group. *)
LayoutConsistent(l) ==
    /\ l \in [magic : BOOLEAN, log2block_size : Nat, inode_size : Nat \ {0}, inodes_per_group : Nat \ {0},
              inode_table : Seq(Nat), total_blocks : Nat, blocks_per_group : Nat \ {0}, total_inodes : Nat]
    /\ Len(l.inode_table) = DivCeil(l.total_blocks, l.blocks_per_group)
    /\ \A g \in DOMAIN l.inode_table :
          l.inode_table[g] * BlockSize(l) + l.inodes_per_group * l.inode_size <= l.total_blocks * BlockSize(l)

ASSUME LayoutAssumption == \A l \in Layouts : LayoutConsistent(l)

DirectOf(im, n)   == UpToZero(SubSeq(im.inode[n].blocks, 1, NDIRECT))
IndirectOf(im, b) == UpToZero(im.pointers[b])

(* The entries of a directory that name an inode, in any block of it. *)
EntriesOf(im, n) == {e \in UNION {Range(im.entries[b]) : b \in Range(DirectOf(im, n))} : e.inode # 0}

ImageTyped(im) ==
    LET blocks == DOMAIN im.entries IN
    /\ {0, 2} \subseteq DOMAIN im.inode /\ DOMAIN im.inode \subseteq Nat
    /\ im.real \subseteq DOMAIN im.inode \ {0} /\ 2 \in im.real
    /\ DOMAIN im.pointers = blocks
    /\ \A n \in DOMAIN im.inode :
          im.inode[n] \in [mode : {"file", "dir", "other"}, blocks : [1 .. NDIRECT + 2 -> blocks \cup {0}],
                          nblocks : Nat, slack : Nat]
    /\ \A b \in blocks : /\ b \in Nat
                         /\ im.entries[b] \in Seq([name : STRING, inode : DOMAIN im.inode \cup {0}])
                         /\ im.pointers[b] = <<>> \/ im.pointers[b] \in [1 .. NPOINTERS -> blocks \cup {0}]

(* Names are not empty and not used twice in a directory, and what they name  *)
(* is on the disk.  What the data of a file reads as is not restricted.       *)
NamesConsistent(im) ==
    \A n \in im.real :
        im.inode[n].mode = "dir" =>
            /\ \A e, f \in EntriesOf(im, n) : e.name = f.name => e.inode = f.inode
            /\ \A e \in EntriesOf(im, n) : e.name # "" /\ e.inode \in im.real

(* A file has no holes: an indirect block is there only when the blocks       *)
(* before it are full, and the size is that of the blocks.                    *)
FileConsistent(im, n) ==
    LET d      == Len(DirectOf(im, n))
        single == im.inode[n].blocks[NDIRECT + 1]
        double == im.inode[n].blocks[NDIRECT + 2]
        groups == IndirectOf(im, double)
    IN /\ single # 0 => d = NDIRECT /\ im.pointers[single] # <<>>
       /\ double # 0 => /\ single # 0 /\ Len(IndirectOf(im, single)) = NPOINTERS
                        /\ Len(groups) > 0
                        /\ \A i \in DOMAIN groups : im.pointers[groups[i]] # <<>>
                        /\ \A i \in 1 .. Len(groups) - 1 : Len(IndirectOf(im, groups[i])) = NPOINTERS
       /\ im.inode[n].nblocks =
             d + (IF single = 0 THEN 0 ELSE Len(IndirectOf(im, single)))
               + (IF double = 0 THEN 0 ELSE (Len(groups) - 1) * NPOINTERS + Len(IndirectOf(im, groups[Len(groups)])))
       /\ \A l \in Layouts : im.inode[n].slack < BlockSize(l)
       /\ im.inode[n].nblocks = 0 => im.inode[n].slack = 0

ASSUME ImageAssumption ==
    \A im \in Images :
        /\ ImageTyped(im) /\ NamesConsistent(im)
        /\ \A n \in im.real : im.inode[n].mode = "file" => FileConsistent(im, n)

ASSUME RestAssumption ==
    /\ Rests # {}
    /\ \A r \in Rests, im \in Images : r \in Seq([name : STRING, inode : DOMAIN im.inode \cup {0}])

VARIABLES image, layout,
          mounted,  \* ext2_driver_init has finished
          failure   \* "none", or the panic that stopped the machine

diskVars == <<image, layout>>

-----------------------------------------------------------------------------
(* Addresses *)

block_size == BlockSize(layout)

ext2_block_to_disk_sector(b) == DEVICE_START + ((b * block_size) % WORD) \div DISK_SECTOR_SIZE

ext2_disk_sector_to_block(s) == (s \div Power2[layout.log2block_size]) \div KB

(* Mutant: inode numbers start at 0. *)
group_from_zero(n) == n \div layout.inodes_per_group

ext2_GetInodeBlockGroup(n)      == (n - 1) \div layout.inodes_per_group
ext2_GetInodeBlockGroupIndex(n) == (n - 1) % layout.inodes_per_group

ext2_GetInodeOffset(n) ==
    (block_size * layout.inode_table[ext2_GetInodeBlockGroup(n) + 1]
     + ext2_GetInodeBlockGroupIndex(n) * layout.inode_size) % WORD

(* ext2_read_inode: the sector read, and where in it the inode is taken from. *)
InodePlace(n) ==
    << DEVICE_START + ext2_GetInodeOffset(n) \div DISK_SECTOR_SIZE,
       (ext2_GetInodeBlockGroupIndex(n) * layout.inode_size) % DISK_SECTOR_SIZE >>

-----------------------------------------------------------------------------
(* ext2_driver_init *)

bgdt_block == ext2_disk_sector_to_block(DEVICE_START) + 1

(* The descriptors follow the block the superblock is in, 1 KB into the disk. *)
TrueBgdtBlock == KB \div block_size + 1

(* Group descriptors read from another block are not descriptors, and the     *)
(* root inode found through them is not a directory.                          *)
MountFailure ==
    IF ~ layout.magic THEN "superblock"
    ELSE IF DivCeil(layout.total_blocks, layout.blocks_per_group)
            # DivCeil(layout.total_inodes, layout.inodes_per_group) THEN "groups"
    ELSE IF bgdt_block # TrueBgdtBlock \/ image.inode[2].mode # "dir" THEN "root"
    ELSE "none"

ext2_driver_init ==
    /\ failure = "none" /\ ~ mounted
    /\ failure' = MountFailure
    /\ mounted' = (MountFailure = "none")
    /\ UNCHANGED diskVars

-----------------------------------------------------------------------------
(* Directories *)

(* The walk over entries ends at one without inode. *)
Search(name, es) ==
    LET hit == {i \in DOMAIN es : es[i].name = name /\ \A j \in 1 .. i : es[j].inode # 0}
    IN IF hit = {} THEN 0 ELSE es[CHOOSE i \in hit : \A j \in hit : i <= j].inode

(* Behind the block's last entry it goes on in the rest of the heap section   *)
(* the block was read into.                                                   *)
ext2_read_from_directory(name, b, rest) ==
    LET es == image.entries[b]
    IN IF Search(name, es) = 0 /\ \A i \in DOMAIN es : es[i].inode # 0 THEN Search(name, rest)
       ELSE Search(name, es)

(* The blocks a loop over the direct blocks visits: it ends at a 0. *)
DirectBlocks(n) == DirectOf(image, n)

ext2_read_from_root_directory(name, rest) ==
    LET bs  == DirectBlocks(2)
        hit == {i \in DOMAIN bs : ext2_read_from_directory(name, bs[i], rest) # 0}
    IN IF hit = {} THEN 0 ELSE ext2_read_from_directory(name, bs[CHOOSE i \in hit : \A j \in hit : i <= j], rest)

NotFound == -1

(* Mutant: a name that is not found leaves the search where it is. *)
DescendOrStay(n, name, rest) ==
    IF n = NotFound \/ DirectBlocks(n) = <<>> THEN n
    ELSE LET found == ext2_read_from_directory(name, DirectBlocks(n)[1], rest)
         IN IF found # 0 THEN found ELSE n

(* One turn of the loop over the rest of the path: only the first block of    *)
(* the directory is searched, and an inode without blocks is kept.            *)
Descend(n, name, rest) ==
    IF n = NotFound \/ DirectBlocks(n) = <<>> THEN n
    ELSE LET found == ext2_read_from_directory(name, DirectBlocks(n)[1], rest)
         IN IF found # 0 THEN found ELSE NotFound

(* The inode after each turn of the loop.  It takes as many turns as the path *)
(* has names, the first of which has been used already: in the last turn the  *)
(* name is the empty string behind the path.                                  *)
NameAt(path, k) == IF k <= Len(path) THEN path[k] ELSE ""

Visited(path, rest) ==
    LET at[k \in 0 .. Len(path)] ==
            IF k = 0 THEN ext2_read_from_root_directory(path[1], rest)
            ELSE Descend(at[k - 1], NameAt(path, k + 1), rest)
    IN at

(* The number of a name missing in the root directory is 0, which only a path *)
(* of one name is tested for.                                                 *)
ext2_find_file_inode(path, rest) ==
    IF path = <<>> THEN 2
    ELSE IF Len(path) = 1
         THEN LET n == ext2_read_from_root_directory(path[1], rest) IN IF n = 0 THEN NotFound ELSE n
         ELSE Visited(path, rest)[Len(path)]

ModeOf(path, rest) == LET n == ext2_find_file_inode(path, rest)
                IN IF n = NotFound THEN "none" ELSE image.inode[n].mode

ext2_file_exists(path, rest) == ModeOf(path, rest) = "file"
ext2_dir_exists(path, rest)  == path = <<>> \/ ModeOf(path, rest) = "dir"

-----------------------------------------------------------------------------
(* Files *)

(* ext2_get_file_size; a size is stored as what it lacks to whole blocks. *)
SizeOf(inode) == inode.nblocks * block_size - inode.slack

ext2_get_file_size(n) ==
    IF image.inode[n].mode = "file" THEN SizeOf(image.inode[n]) ELSE 4 * KB

UINT64_MAX == -1

PathToFileSize(path, rest) ==
    IF ext2_file_exists(path, rest) THEN ext2_get_file_size(ext2_find_file_inode(path, rest))
    ELSE IF ext2_dir_exists(path, rest) THEN 4 * KB * NDIRECT
    ELSE UINT64_MAX

(* An indirect block as the sequence of its pointers, 0 for an unused one.    *)
(* Unless all are used, ext2_read_single_indirect panics: "Misalignment".     *)
Misaligned(b) == \E i \in 1 .. NPOINTERS : image.pointers[b][i] = 0

ext2_read_single_indirect(b) == image.pointers[b]

(* Every group of blocks is copied to the start of the buffer, the last one   *)
(* last; the rest of the buffer is never written.                             *)
Unwritten == -1
Groups(b) == IndirectOf(image, b)

ext2_read_double_indirect(b) ==
    LET last == ext2_read_single_indirect(Groups(b)[Len(Groups(b))])
    IN [i \in 1 .. Len(Groups(b)) * NPOINTERS |-> IF i <= NPOINTERS THEN last[i] ELSE Unwritten]

Single(n) == image.inode[n].blocks[NDIRECT + 1]
Double(n) == image.inode[n].blocks[NDIRECT + 2]
FullDirect(n) == Len(DirectBlocks(n)) = NDIRECT

(* kalloc: the smallest section that is large enough, if one is. *)
Levels(size) == {k \in 0 .. HEAP_LEVELS : HEAP_MINBLOCK * Power2[k] >= size}

(* Mutant: a heap that hands out exactly what was asked for. *)
SectionExact(size) == size

Section(size) == HEAP_MINBLOCK * Power2[CHOOSE k \in Levels(size) : \A j \in Levels(size) : k <= j]

(* What of the disk ext2_read_file panics on: the buffer, then the blocks. *)
Unreadable(n) ==
    \/ Levels(ext2_get_file_size(n)) = {}
    \/ FullDirect(n) /\
        \/ Single(n) # 0 /\ Misaligned(Single(n))
        \/ Double(n) # 0 /\ \E i \in DOMAIN Groups(Double(n)) : Misaligned(Groups(Double(n))[i])

(* The pointers of an indirect block are counted up to a zero one: if all are *)
(* used, up to one in the memory behind it, and more than max_blocks is a     *)
(* panic.                                                                     *)
Overcounted(rest) == rest # <<>> /\ rest[1].inode # 0

ReadPanics(n, rest) ==
    \/ Unreadable(n)
    \/ FullDirect(n) /\ Overcounted(rest) /\
        \/ Single(n) # 0
        \/ Double(n) # 0 /\ Groups(Double(n)) # <<>>

(* Mutant: the single indirect blocks are copied to the start of the buffer. *)
read_file_forgets_offset(n) ==
    IF ~ FullDirect(n) \/ Single(n) = 0 THEN DirectBlocks(n)
    ELSE ext2_read_single_indirect(Single(n))

(* ext2_read_file: the blocks in the buffer, in order. *)
ext2_read_file(n) ==
    IF ~ FullDirect(n) THEN DirectBlocks(n)
    ELSE DirectBlocks(n)
         \o (IF Single(n) # 0 THEN ext2_read_single_indirect(Single(n)) ELSE <<>>)
         \o (IF Double(n) # 0 THEN ext2_read_double_indirect(Double(n)) ELSE <<>>)

-----------------------------------------------------------------------------
(* Reference definitions *)

(* The inode a name of a directory stands for, and those along a path. *)
Child(n, name) ==
    IF n # NotFound /\ image.inode[n].mode = "dir" /\ \E e \in EntriesOf(image, n) : e.name = name
    THEN (CHOOSE e \in EntriesOf(image, n) : e.name = name).inode ELSE NotFound

TrueTrail(path) ==
    LET at[k \in 0 .. Len(path)] == IF k = 0 THEN 2 ELSE Child(at[k - 1], path[k])
    IN at

TrueLookup(path) == TrueTrail(path)[Len(path)]

(* The i-th block of a file. *)
TrueBlock(n, i) ==
    LET j == i - NDIRECT - NPOINTERS - 1
    IN CASE i <= NDIRECT -> image.inode[n].blocks[i]
         [] i > NDIRECT /\ i <= NDIRECT + NPOINTERS -> image.pointers[Single(n)][i - NDIRECT]
         [] OTHER -> image.pointers[image.pointers[Double(n)][(j \div NPOINTERS) + 1]][(j % NPOINTERS) + 1]
=============================================================================
