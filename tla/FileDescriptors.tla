-------------------------- MODULE FileDescriptors --------------------------
(***************************************************************************)
(* The system calls on files (syscalls.c: open, read, fstat, close) with   *)
(* the file descriptors of the processes, on top of Ext2.  A call of one   *)
(* process is one step: it reads the disk, which nobody writes, and the    *)
(* descriptors of its own process, whose one thread is in the call.  fork  *)
(* copies the descriptors, exec and exit clear them.                       *)
(*                                                                         *)
(* Descriptor numbers come from the user unchecked: one outside the table  *)
(* makes read and fstat take other memory for a descriptor, and close      *)
(* clear it.                                                               *)
(***************************************************************************)
EXTENDS Ext2

CONSTANTS
    MAX_FILE_DESC,  \* 16
    Procs,
    Paths,          \* paths the processes name
    WORD64,         \* 2^64: amounts and offsets are 64 bits wide
    Counts          \* amounts they read, and the offsets they give

ASSUME FdAssumption ==
    /\ MAX_FILE_DESC \in Nat \ {0} /\ Paths \subseteq Seq(STRING)
    /\ WORD64 \in Nat \ {0} /\ Counts \subseteq 0 .. WORD64 - 1

VARIABLES
    fd,   \* Process.fd
    ret   \* the call that returned last, and what it returned

fdVars == <<diskVars, mounted, failure, fd, ret>>

Fds == 0 .. MAX_FILE_DESC - 1

(* A path that could not be fetched from user memory is the empty string, as  *)
(* is the path of a descriptor that is not in use; a lookup takes it for one  *)
(* empty name in the root directory.                                          *)
EmptyPath == <<"">>
Free      == [in_use |-> FALSE, path |-> EmptyPath]
NoTable   == [i \in Fds |-> Free]

(* Any memory taken for a descriptor. *)
Descriptors == [in_use : BOOLEAN, path : Paths \cup {EmptyPath}]

Result(call, value, path, off, src, len) ==
    [call |-> call, value |-> value, path |-> path, off |-> off, src |-> src, len |-> len]
Returns(call, value) == ret' = Result(call, value, EmptyPath, 0, <<>>, 0)

FdInit ==
    /\ image \in Images /\ layout \in Layouts
    /\ mounted = FALSE /\ failure = "none"
    /\ fd = [p \in Procs |-> NoTable]
    /\ ret = Result("none", 0, EmptyPath, 0, <<>>, 0)

Mount == ext2_driver_init /\ UNCHANGED <<fd, ret>>

Ready == mounted /\ failure = "none"
Panic(what) == failure' = what /\ UNCHANGED <<diskVars, mounted, fd, ret>>

(* Each lookup finds the memory behind its blocks as it happens to be. *)
Lookups(path)  == {ext2_file_exists(path, r) : r \in Rests} \X {ext2_dir_exists(path, r) : r \in Rests}
MayExist(path) == Lookups(path) # {<<FALSE, FALSE>>}
MayMiss(path)  == <<FALSE, FALSE>> \in Lookups(path)

-----------------------------------------------------------------------------
(* open *)

(* The first descriptor with this path, used or not. *)
Matching(p, path) == {i \in Fds : fd[p][i].path = path}

OpenAgain(p, path) ==
    /\ Ready
    /\ \E i \in Matching(p, path) :
         /\ \A j \in Matching(p, path) : i <= j
         /\ fd' = [fd EXCEPT ![p][i].in_use = TRUE]
         /\ Returns("open", i)
    /\ UNCHANGED <<diskVars, mounted, failure>>

(* Mutant: the file is not looked for. *)
OpenUnchecked(p, path) ==
    /\ Ready /\ Matching(p, path) = {}
    /\ IF fd[p][0].in_use THEN Panic("page fault")
       ELSE /\ fd' = [fd EXCEPT ![p][0] = [in_use |-> TRUE, path |-> path]]
            /\ Returns("open", 0) /\ UNCHANGED <<diskVars, mounted, failure>>

(* The loop looks for a free descriptor but tests descriptor 0 every time:    *)
(* while that one is in use, min_fd keeps UINT32_MAX, and storing to          *)
(* fd[UINT32_MAX], a terabyte away, is a page fault.                          *)
OpenNew(p, path) ==
    /\ Ready /\ Matching(p, path) = {}
    /\ \/ /\ MayMiss(path)
          /\ Returns("open", UINT64_MAX)
          /\ UNCHANGED <<diskVars, mounted, failure, fd>>
       \/ /\ MayExist(path) /\ fd[p][0].in_use
          /\ Panic("page fault")
       \/ /\ MayExist(path) /\ ~ fd[p][0].in_use
          /\ fd' = [fd EXCEPT ![p][0] = [in_use |-> TRUE, path |-> path]]
          /\ Returns("open", 0)
          /\ UNCHANGED <<diskVars, mounted, failure>>

-----------------------------------------------------------------------------
(* read and fstat *)

(* Number i of a process is a descriptor of its table or, when i is not a     *)
(* number of the table, other memory taken for one, or no memory at all       *)
(* (FaultOutside).  Between them read and fstat may find anything.            *)
FaultOutside == Ready /\ Panic("page fault")

(* Sum and difference are unsigned 64-bit numbers: an offset behind the end   *)
(* of the file makes the amount a very large one, and a large amount is not   *)
(* noticed if the sum wraps.                                                  *)
ToRead(size, rcx, r8) == IF (r8 + rcx) % WORD64 > size THEN (size - r8) % WORD64 ELSE rcx

(* The inode whose blocks ext2_read_file returns, NotFound for NULL. *)
Panicked == -2
InodeRead(path, rest) ==
    LET n == ext2_find_file_inode(path, rest)
    IN IF ModeOf(path, rest) \notin {"file", "dir"} THEN NotFound
       ELSE IF ReadPanics(n, rest) THEN Panicked ELSE n

(* The size and the file are looked up one after the other, each with its own *)
(* memory behind the blocks.  The bytes come from the start of the buffer,    *)
(* whatever the offset is.  The copy may fail at any user page (WriteStruct); *)
(* one longer than the heap section of the buffer may also leave the heap.    *)
read(d) ==
    /\ Ready
    /\ \E size \in {PathToFileSize(d.path, r) : r \in Rests}, n \in {InodeRead(d.path, r) : r \in Rests} :
         IF ~ d.in_use \/ size = UINT64_MAX \/ n = NotFound
         THEN Returns("read", UINT64_MAX) /\ UNCHANGED <<diskVars, mounted, failure, fd>>
         ELSE IF n = Panicked THEN Panic("ext2_read_file")
         ELSE \E rcx, r8 \in Counts :
              LET k == ToRead(size, rcx, r8) IN
              \/ /\ ret' = Result("read", 0, d.path, r8, ext2_read_file(n), k)
                 /\ UNCHANGED <<diskVars, mounted, failure, fd>>
              \/ /\ k # 0 /\ Returns("read", UINT64_MAX)
                 /\ UNCHANGED <<diskVars, mounted, failure, fd>>
              \/ k > Section(ext2_get_file_size(n)) /\ Panic("page fault")

(* fill_statbuf stores the block size in st_size, and returns no value: its   *)
(* caller may take what is in the register for -1.                            *)
fstat(d) ==
    /\ Ready
    /\ \/ /\ d.in_use /\ MayExist(d.path)
          /\ Returns("fstat", block_size)
       \/ Returns("fstat", UINT64_MAX)
    /\ UNCHANGED <<diskVars, mounted, failure, fd>>

-----------------------------------------------------------------------------
close(p, i) ==
    /\ Ready
    /\ fd' = [fd EXCEPT ![p][i] = Free]
    /\ Returns("close", 0)
    /\ UNCHANGED <<diskVars, mounted, failure>>

(* The descriptors of a process after memory they are part of was cleared:    *)
(* where that starts, the path of descriptor j is cut short, to any path; the *)
(* next one is not in use any more and loses its path, unless the cleared     *)
(* part ends in between.  Only one of them if that is at an end of the table. *)
Cleared(table, j, path, next) ==
    [i \in Fds |-> IF i = j /\ table[i].path # EmptyPath THEN [table[i] EXCEPT !.path = path]
                  ELSE IF i = j + 1 THEN [in_use |-> FALSE, path |-> IF next THEN EmptyPath ELSE table[i].path]
                  ELSE table[i]]

(* close of a number outside the table.  What else was in that memory is not  *)
(* known, so nothing is said of the machine from here on.                     *)
CloseOutside ==
    /\ Ready
    /\ \/ UNCHANGED fd
       \/ \E q \in Procs, j \in -1 .. MAX_FILE_DESC - 1, path \in Paths \cup {EmptyPath}, next \in BOOLEAN :
             fd' = [fd EXCEPT ![q] = Cleared(fd[q], j, path, next)]
    /\ failure' = "memory cleared"
    /\ Returns("close", 0)
    /\ UNCHANGED <<diskVars, mounted>>

(* ForkUserProcess: the memcpy of the descriptors. *)
ForkDescriptors(p, q) ==
    /\ Ready /\ p # q /\ fd[q] = NoTable
    /\ fd' = [fd EXCEPT ![q] = fd[p]]
    /\ UNCHANGED <<diskVars, mounted, failure, ret>>

(* ProcessFree, in exec and in exit. *)
ProcessFreeFileDescriptors(p) ==
    /\ Ready
    /\ fd' = [fd EXCEPT ![p] = NoTable]
    /\ UNCHANGED <<diskVars, mounted, failure, ret>>

FdHalted == failure # "none" /\ UNCHANGED fdVars

FdNext ==
    \/ Mount \/ FdHalted \/ FaultOutside \/ CloseOutside
    \/ \E d \in Descriptors : read(d) \/ fstat(d)
    \/ \E p \in Procs :
         \/ \E path \in Paths \cup {EmptyPath} : OpenAgain(p, path) \/ OpenNew(p, path)
         \/ \E i \in Fds : close(p, i)
         \/ \E q \in Procs : ForkDescriptors(p, q)
         \/ ProcessFreeFileDescriptors(p)

FdSpec == FdInit /\ [][FdNext]_fdVars

-----------------------------------------------------------------------------
(* Properties *)

(* No memory behind a block reads as an entry with this name. *)
Unread(name) == \A r \in Rests : Search(name, r) = 0

FoundInRoot(name) == \E i \in DOMAIN DirectBlocks(2) : Search(name, image.entries[DirectBlocks(2)[i]]) # 0

(* The data of n, which is no directory, reads as an entry with this name. *)
Misread(n, name) ==
    /\ image.inode[n].mode # "dir" /\ DirectBlocks(n) # <<>>
    /\ Search(name, image.entries[DirectBlocks(n)[1]]) # 0

(* A path the lookup is not led astray on.  With several names the first is   *)
(* found in the root directory, no inode before the last one is without       *)
(* blocks, and no data on the way reads as an entry with the name looked for, *)
(* the empty one behind the path included.                                    *)
Passable(path) ==
    /\ \A name \in Range(path) : Unread(name)
    /\ Len(path) > 1 =>
        /\ Unread("") /\ FoundInRoot(path[1])
        /\ \A k \in 1 .. Len(path) :
              LET n == TrueTrail(path)[k] IN
              n # NotFound => /\ k < Len(path) => DirectBlocks(n) # <<>>
                              /\ ~ Misread(n, NameAt(path, k + 1))

NoDeletedEntry == \A i \in DOMAIN DirectBlocks(2) :
                     \A e \in Range(image.entries[DirectBlocks(2)[i]]) : e.inode # 0

(* A lookup never ends at a wrong inode: it finds the one the path names or   *)
(* none, for every passable path.  In the root directory it finds every file, *)
(* in whichever of its blocks, if no entry was deleted.                       *)
LookupSound ==
    mounted => \A path \in Paths, r \in Rests :
        Passable(path) =>
            /\ ext2_find_file_inode(path, r) \in {NotFound, TrueLookup(path)}
            /\ Len(path) = 1 /\ NoDeletedEntry => ext2_find_file_inode(path, r) = TrueLookup(path)

(* Every descriptor that has a path is in use, and the path, if lookups are   *)
(* not led astray on it, names a file or directory of the disk: across open,  *)
(* fork, exec, exit and close, until close clears other memory.               *)
DescriptorNamesFile ==
    failure # "memory cleared" =>
        \A p \in Procs, i \in Fds :
            LET path == fd[p][i].path IN
            path # EmptyPath => fd[p][i].in_use /\ (Passable(path) => TrueLookup(path) # NotFound)

(* "do not read beyond EOF": what a read from offset 0 copies to the user are *)
(* the first bytes of the file the path names, and no more than it has, for   *)
(* passable paths and files of at most one group of doubly indirect blocks.   *)
ReadDelivers ==
    LET n == TrueLookup(ret.path) IN
    /\ ret.call = "read" /\ ret.value = 0 /\ ret.off = 0 /\ Passable(ret.path)
    /\ n # NotFound /\ image.inode[n].mode = "file"
    => /\ ret.len <= SizeOf(image.inode[n])
       /\ Double(n) = 0 \/ Len(Groups(Double(n))) = 1 =>
             \A i \in 1 .. DivCeil(ret.len, block_size) :
                 i \in DOMAIN ret.src /\ ret.src[i] = TrueBlock(n, i)

(* ext2_read_file copies whole blocks to a buffer of the size the inode       *)
(* states, or for a directory of 4 KB: it stays inside the heap section it    *)
(* was given, since no section is smaller than HEAP_MINBLOCK.  A directory    *)
(* must have direct blocks only, and blocks 12 of which fit into a section.   *)
BufferFits ==
    mounted /\ HEAP_MINBLOCK % block_size = 0 =>
        \A n \in image.real :
            /\ \/ image.inode[n].mode = "file"
               \/ /\ image.inode[n].mode = "dir" /\ Single(n) = 0 /\ Double(n) = 0
                  /\ NDIRECT * block_size <= HEAP_MINBLOCK
            /\ ~ Unreadable(n)
            => Len(ext2_read_file(n)) * block_size <= Section(ext2_get_file_size(n))

(* On a mounted disk of less than 4 GB every block and every inode is read    *)
(* from the sector, and the inode from the offset in it, where it is stored.  *)
AddressesExact ==
    mounted /\ layout.total_blocks * block_size <= WORD =>
        /\ \A b \in 0 .. layout.total_blocks - 1 :
             ext2_block_to_disk_sector(b) = DEVICE_START + (b * block_size) \div DISK_SECTOR_SIZE
        /\ \A n \in 1 .. layout.total_inodes :
             LET g    == (n - 1) \div layout.inodes_per_group
                 byte == layout.inode_table[g + 1] * block_size
                         + (n - 1 - g * layout.inodes_per_group) * layout.inode_size
             IN InodePlace(n) = <<DEVICE_START + byte \div DISK_SECTOR_SIZE, byte % DISK_SECTOR_SIZE>>
=============================================================================
