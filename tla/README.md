# A TLA+ verification project for swagOS

swagOS is a small x86-64 SMP operating system in C (`src/kernel`), with a user-mode
shell and a few programs (`src/user`). This project models the kernel: its locks,
scheduler, memory, processes, file system, console and multiprocessor boot. TLC checks
each part on a small instance, and TLAPS proves the central invariants for every instance.
Paths below are relative to the repository's `src`.

## 1. The system

| component | state | operations | works with |
|---|---|---|---|
| Spinlocks (`kernel/spinlock.c`, `cpu.c`, `idt.c`, `isr.asm`, `apic.c`) | `is_locked`, `owner_cpu` per lock; `cli_count`, `noINT`, IF per CPU | `acquire_Spinlock`, `release_Spinlock`, `inc_cli`, `dec_cli`, trap entry, end of interrupt | everything |
| Scheduler, threads (`scheduler.c`, `proc.c`) | thread table (`status`, `can_wakeup`, `sleep_channel`), `current_thread` per CPU, kernel stacks | `InvokeScheduler`, `schedule`, `ThreadSleep`, `Wakeup`, thread creation and exit | timer and int3 traps, spinlocks |
| Sleeplocks (`sleeplock.c`) | `is_locked`, `owner_tid`, an inner spinlock | `acquire_Sleeplock`, `release_Sleeplock`, `holdingsleep` | scheduler, buffer cache |
| Kernel heap (`mem/vmm.c`) | buddy tree (`in_use`, `flags` per section), `KernelHeapLock` | `kalloc`, `kfree` | every allocation of the kernel |
| Buffer cache, IDE (`fs/buffered_io.c`, `drivers/ide.c`) | 16 buffers (block, count, flags, sleeplock), request queue, drive | `bread`, `bwrite`, `brelse`, `iderw`, `ideintr` | sleeplocks, scheduler, heap, ext2 |
| Linked list (`data_structures/linked_list.c`) | `first`, `last`, `entry_count`, links | insert at head or tail, remove | disk queue, chunks, pages, threads of a process |
| Physical memory (`mem/pmm.c`, multiboot) | bitmap of 2 MB frames, list of chunks of 4 KB frames | boot from the memory map, request, free | heap, processes, sbrk |
| User memory (`mem/pmm.c`, `proc.c`, `fs/elf_load.c`, `syscalls.c`) | page tables, list of used pages, heap bitmap and allocation list per process | map, load, copy in fork, free in exit, sbrk, free | physical memory, processes |
| Processes (`proc.c`, `syscalls.c`) | 64 process slots, thread count, wait lock | fork, exec, exit, waitpid | scheduler, user memory, descriptors |
| File descriptors (`syscalls.c`, `fs/vfs.c`) | 16 descriptors per process | open, read, fstat, close | ext2, fork, exec, exit |
| ext2 (`fs/ext2.c`) | superblock, group descriptors, inodes | mount, path lookup, reading direct and indirect blocks, address arithmetic | buffer cache, heap |
| Keyboard, terminal (`ps2_keyboard.c`, `terminal.c`, `video.c`) | one character, shift state; screen buffer and its write location | interrupt handler, getchar, printf, clear | scheduler, spinlocks |
| SMP boot (`acpi.c`, `cpu.c`, `apic.c`, `smp_boot.asm`) | CPU table, start-up record shared by all CPUs, stacks | `parse_madt`, `InitCPUByID`, INIT and start-up IPIs, the magic number | scheduler, idle thread |
| Serial log, PCI, AHCI, libc, user programs | device state, strings | port I/O, helpers | - |

What is hard here:

* *Interleaving.* Two or more CPUs, a timer tick on each, device interrupts. Interrupts are
  masked by a counter per CPU (`cli_count`) and a flag set by every trap (`noINT`), both
  shared by all code that runs on the CPU, across context switches. Several pieces of state
  are used outside the lock meant for them: the keyboard's buffer, the terminal's location
  in `clear`, a process's state in waitpid, the fields `ThreadSleep` writes.
* *Sleep and wakeup.* `ThreadSleep` writes the thread's fields without `proc_table.lock`,
  releases the caller's lock, tests the status again and executes `int3`. Ticks and wakeups
  come in between; the flag `can_wakeup` is there for that.
* *No schedule.* When nothing else is ready, `InvokeScheduler` returns into the thread that
  wanted to sleep.
* *Resources.* Thread slots, process slots, buffers, frames and heap sections are reused (or
  are not) while others may still refer to them.
* *Failure.* A drive that reports an error, a kalloc that fails, a table that is full, a
  memory map with odd borders, a lost start-up IPI, a processor that is not there.
* *Arithmetic.* 32-bit shifts in 64-bit words, rounding of regions, pointer and block
  arithmetic, counters that start from uninitialised memory.

`PROJECT.json` lists these hazards line by line with the properties that cover them.

## 2. Modules

`LockSpec` is the abstract lock: who is inside a critical section.

`Spinlock` has one step for each load or store of shared state of `acquire_Spinlock` and
`release_Spinlock` (`pc` names the next one) and the traps around them: interrupts between
any two instructions while IF is set, the `int3` of `ThreadSleep`, system calls with and
without end of interrupt, the `sti` of two system calls, and the context switch, which
replaces the registers the locks depend on by those of another suspended thread. The spin
loop is a step that is not enabled. `MayAcquire` is the discipline of the call sites: they
nest locks in one order.

`Scheduler` has one step for each section under `proc_table.lock`; that such a section is
one step is what `Spinlock` shows. `stack` says whose kernel stack a CPU executes on: it
changes with the `iretq` (`Iret`), after `current_thread` (`InvokeScheduler`).
`ThreadSleep` is split at every point where interrupts are on or another CPU can look at
the thread. Threads run the most general code: they enter spinlock sections, sleep on any
channel, create and exit; a Wakeup of any channel comes at any time. A panic sets
`panic`, after which nothing happens.

`Sleeplock` and `Process` EXTEND `Scheduler`: each of their actions is an action of the
scheduler together with the fields of the sleeplock or the process table it reads and
writes. In `Process` the channel of waitpid is the process; fork, exit and the second half
of exec are one step under `proc_table.lock`, waitpid is not, since exit does not take the
lock it holds.

`KernelHeap` models `kalloc` and `kfree` as steps on the tree, an array where the children
of n are 2n and 2n+1 and section 0 has section 1 as its only child. Sizes are scaled so
that the smallest block is 2. `find_heap_frame` is a search from the left for the one size
class that fits (`FirstFit`). Its last path has no return statement; the Makefile builds
with `-O0`, where the failed inner call's result is returned. `kfree` leaves the tree
unchanged, because the code assigns to copies. A failed `kalloc`, and a `kfree` of an address
it finds no section for (`kfree_outside`), leave the lock held.

`BufferCache` models `buffered_io.c` and `ide.c` together. A section under `bcache.lock`
or `ide_lock` is a step, the sleeplock of a buffer is the abstract lock, the queue is a
sequence with the counter that the list and the driver both change (two per request). The
drive is external: it finishes its one command or fails it, and then `ideintr` runs.
Contents are the number of the write that made them. Callers hold one buffer at a time, as
ext2 does after boot.

`LinkedList` has the pointer operations as the code writes them, through a header that has
the layout of an entry, and beside them `members`, the sequence the list is meant to be.
The kernel uses a list as a stack (insert at the head, remove anything) or as a queue.

`PhysicalMemory` boots the frame bitmap from any of a set of memory maps, maps the heap's
frames, and serves 4 KB frames: a chunk search, a request for a new 2 MB frame and the
creation of its chunk are three lock sections. A new chunk's `use_count` has every value,
since the code does not initialise it. Freeing the frames of a region has no upper bound:
behind the bitmap it meets memory that reads as a free frame (the panic of a double free) or
is changed (`"overrun"`, where the model stops). `MapFits` and `MapApart` say which maps do
not get there.

`UserMemory` has the page tables of the processes as nested functions, a list of used
pages beside them, and as actions the system calls that change either: the first process,
fork (copies every listed page), exec (loads the segments of a file), exit, sbrk and free.
The bitmap of the heap keeps the widths of its words and of the `1 << bit` that fills it.
Every index of a walk is taken modulo the table size, and all entries of the pml4t lead to the
one pdpt of a process, so addresses alias as they do in the code. `Translate` is the
processor's walk; `is_frame_mapped_thread` is the kernel's, which misses an absent page table
and takes the frame at address 0 for it: `ZeroPage` is the set of entries that look present
there. `KernelPages` are the pages the kernel's tables map, which a copy refuses. `free` takes
any address.

`Ext2` is a module of operators over a disk image and a layout, both chosen once: mounting,
`ext2_find_file_inode`, `ext2_read_file` with its three ways to a block, the sector
arithmetic. The reference definitions it is compared with (`TrueLookup`, `TrueBlock`)
follow the format of the disk. Two assumptions on the constants say what a disk is:
`LayoutAssumption` (inode tables lie on the disk, one per group) and `ImageAssumption`
(pointers lead to blocks, names in a directory are not empty and unique, files have no holes
and the size their blocks say). The driver checks none of this. What the data of a file reads
as when it is taken for directory entries is not restricted, nor is what the memory behind a
block in its heap section reads as (`Rests`): the walk over entries goes on there when the
block has no entry without inode. Inode numbers that come from such data, and 0, which a
missing first name leaves, are no inodes of the disk; reading one gives some inode fixed by
the image. `FileDescriptors` EXTENDS `Ext2` with the descriptors of the processes and the
calls on them. A call takes any descriptor number: read and fstat take any memory for a
descriptor, or fault, and close clears a descriptor's worth of memory anywhere
(`CloseOutside`), which may lie across two descriptors of any process. After that nothing is
said of the machine.

`Console` composes the keyboard's interrupt handler, getchar, printf of a character, and
clear. Every access to `character_buf` and to `buffer_write_location` is a step; the statement
that ends a line loads the location twice, in either order. Pressing
shift makes the handler use an uninitialised character: any value.

`SmpBoot` is the boot processor's walk over the MADT, its start of the other processors,
the code each of them runs up to the scheduler, lost start-up IPIs, and timer ticks from
the moment a CPU has its timer and interrupts on. `rsp` is the stack a processor booted on;
the stack of the idle thread, which all processors share after their first tick, is left out.

`MC*` modules hold the instances; `*Proofs` the theorems. The entries of `PROJECT.json`
under "map" give the lines of each definition. Definitions under a comment that begins
"Mutant" are deliberately wrong versions of the one below them, used to see that each
property can fail.

What composes what: `Scheduler` relies on sections being atomic (`Spinlock`); `Sleeplock`
and `Process` are written on top of `Scheduler`; `BufferCache` uses the abstract lock that
`Sleeplock` implements; `PhysicalMemory` and `UserMemory` use the stack list that
`LinkedList` shows to be one, `BufferCache` the queue; `FileDescriptors` stands on `Ext2`.

## 3. Runs

| run | instance | distinct states |
|---|---|---|
| MCSpinlock | 2 CPUs, 2 locks in order, at most 2 trap frames per CPU | 219 thousand |
| MCScheduler | 2 CPUs, 3 slots, 1 channel, 2 creations | 292 thousand |
| MCSleeplock | 2 CPUs, 3 threads, 1 lock | 307 thousand |
| MCKernelHeap | 8 smallest blocks, 7 sizes | 44 thousand |
| MCBufferCache | 3 threads, 3 blocks, 2 buffers, 1 write, 1 drive error | 532 thousand |
| MCLinkedList | 3 entries, both uses | 655 |
| MCPhysicalMemory | 2 CPUs, 7 frames of 2 parts, 30 boot informations | 642 thousand |
| MCUserMemory | 3 processes, 11 frames, tables of 4, 7 system calls | 375 thousand |
| MCProcess | 2 CPUs, 3 thread slots, 3 process slots | 1.2 million |
| MCFileDescriptors | 2 processes, 2 descriptors, 3 images, 5 layouts, 2 amounts and offsets, 2 kinds of memory behind a block | 47 thousand |
| MCConsole | 2 threads, 3 keys, 2 clears, a screen of 3 cells in rows of 2 | 2.0 million |
| MCSmpBoot | up to 4 processors, 1 lost IPI | 1.7 thousand |

*MCSpinlock*: `MutualExclusion`, `Uninterruptible`, `NoPanic`, the refinement of `LockSpec`
and `SpinnersProgress` (a lock that CPUs spin on is taken). `MaxFrames` is 2 so that an
interrupt inside an interrupt, which must not happen, could.

*MCScheduler*: `OneCpuPerThread`, `RunningIffCurrent`, `NoUnexpectedState`, `RunnableRuns`.
Three slots make the scan wrap around and leave a thread waiting; creations are bounded
because every exit makes a CPU scan from slot 0 again, and endless creation and exit in low
slots would starve a higher one.

*MCSleeplock*: `HoldingsleepExact`, `NoLostWakeup`, the refinement of `LockSpec`. One lock is
enough: calls on different locks share only the scheduler.

*MCKernelHeap*: `RegionsDisjoint` compares the bytes handed out, `InUseExact` the marks in
the tree; the sizes are half a block, one, one and a half, several, exactly the half below
the wrapper, the wrapper itself and too much. Addresses that belong to no section are freed
at any time.

*MCBufferCache*: `RefcntExact`, `CacheCoherent` (one buffer per block, the drive works for
the head of the queue, contents agree with the disk) and `RequestFinishes`. Three threads on
two buffers share, recycle and run out of buffers.

*MCLinkedList*: `ListSound`: the loop over the links meets exactly the members, and the guard
of `remove_dll_entry_head` holds exactly while a queue has members. A removal
from a stack list unlinks the newer entries too, because inserting at the head leaves the
links back behind; `members` says so, and the users of the lists inherit it.

*MCPhysicalMemory*: `FramesExclusive`, `FreeFramesUsable`, `CountExact`. The memory maps have
regions at every alignment to the frame, one or two of them, none, regions that overlap,
cross the end of the bitmap or lie behind it, a second map behind the first, and lack the
framebuffer or the map. `CountExact` excludes the double free and the overrun for the maps
that fit and are apart, and shows for the others that the count is right until then.

*MCUserMemory*: `FramesPrivate`, `NoFrameLeak`, `ListIsTables`, `BitsCoverPages`. Words of 4
bits, ints of 2 and tables of 4 entries make runs cross all three borders within two calls
of sbrk; frames run out in the third process. One program has its segment in a page of the
kernel and its entry point in a table that is not there. The exceptions the properties name (`stray`,
`freed`, `inherited`) are the effects of `free()` and of forking a heap, findings below.

*MCProcess*: `ProcessHasThread`, `WaiterIsWoken`, `ReleasePanicNeedsInit` and the action
property `WaitpidReturnsAfterExit`. Three processes make slots of threads be reused, two
waiters wait for one process, and fork run out of processes.

*MCFileDescriptors*: `LookupSound`, `DescriptorNamesFile`, `ReadDelivers`, `BufferFits`,
`AddressesExact`. Two direct blocks and two pointers per block stand for 12 and 1024; the
files end at every border between direct, indirect and doubly indirect blocks. Two processes
share what fork copies and lose it in exec and exit; numbers outside the table reach any
memory, and `DescriptorNamesFile` speaks of the time before close clears such memory
(finding 10). One file's data has an entry with a name, one's an entry with an empty name,
as an ELF header has, and the memory behind a block may have an entry. The lookup
properties, `DescriptorNamesFile` included, speak of `Passable` paths. A path is not
passable when the lookup is led astray on it: the memory behind a block reads as one of its
names; it has several names and the first is missing (the lookup goes on from inode 0); an
inode before the last has no blocks, where the lookup stays (`/d/c/z` is `/d/c` if that is
empty); or data on the way reads as an entry with the name looked for, the empty name behind
the path included (finding 9). The run has a path for each of these conditions on which
`LookupSound` fails without it, but for memory that reads as an entry with the empty name,
which would make every path of several names not passable. `ReadDelivers` is about reads
from offset 0: other offsets only shorten the amount (finding 10). An amount larger than any
file, with an offset as large, wraps around 2^64.

*MCConsole*: `KeysInOrder`, `ReaderIsWoken`, `TerminalInBounds`. Two clears let one reset
meet a backspace and another meet the wrapped location. WORD is 8 for 2^32: it must only be
larger than the screen and a row.

*MCSmpBoot*: `CpuTableExact`, `StacksPrivate`, `BootFinishes`. The tables have processors in
and out of order, disabled, only online-capable, with differing ids, and behind the table
zeroes, a long item, and what looks like a processor. `StacksPrivate` is about the stacks
processors boot on, not about the one they share when idle.

Deadlock is checked except where the system may stop: after a panic in `PhysicalMemory`
and `SmpBoot`, and at the bounds on calls and counts in `UserMemory` and `LinkedList`.

Fairness. `Spinlock`: a CPU executes the straight-line code of acquire and release, and a
critical section ends (strong fairness of its release, because an interrupt of the section's
surroundings may come and go). `Scheduler`: the APIC timer is periodic and a tick stays
pending while interrupts are off, hence strong fairness of `Timer`; a CPU finishes
`schedule` and executes its thread. `BufferCache`: a busy drive finishes or fails and its
interrupt is handled. `SmpBoot`: a processor executes its instructions. Nothing is assumed
of wakeups or of the order in which threads get a lock. `RequestFinishes` is about the
request; that the thread runs afterwards is what finding 2 is about.

### Differences between comments and code

Met while modelling; the modules follow the code, and the properties state what holds around
it. `PROJECT.json` quotes each comment with its line.

1. `ThreadSleep` tests the status and executes `int3` with interrupts on in between; a tick
   there makes `isr_handler` panic ("Bad INT3").
2. "We just reschedule the old thread": a thread resumed from its `int3` without a wakeup
   goes on as SLEEPING; its next preemption leaves it WAKEUP_READY without a channel.
3. "We cannot share kernel stacks between threads": `schedule` releases `proc_table.lock`
   on the old thread's stack.
4. Heap: `kfree` clears the marks of copies; the search by offset stops at section 0; the
   smallest block is 64 KB, not 4; a failed `kalloc`, and a `kfree` that finds no section,
   return with the lock held.
5. `ideintr` sets B_VALID for a read that failed.
6. `exec` re-initialises a wait lock that may be held.
7. A chunk whose count reaches zero is unlinked (with the newer ones) and its 2 MB frame is
   not given back; `free()` gives back the frame of a neighbouring page and leaves the page
   mapped; `sbrk` returns the highest page of a run that grows downwards.
8. The ELF loader maps one page per segment.
9. ext2: the lookup of a path of several names takes one turn too many and searches the
   file's data for an entry with the empty name: it finds nothing unless the file is empty,
   and for an ELF file, whose header reads as such an entry, inode 0x464c457f. It goes on
   through inode 0 if the first name is missing; entries behind a deleted one are not seen,
   and a full block's walk goes on in uninitialised memory; partly used indirect blocks panic,
   groups of a doubly indirect block overwrite each other, the descriptor table's block is
   miscomputed except for the layouts in use.
10. `open` tests descriptor 0 for every descriptor; `read`, `fstat` and `close` test no range
    of the descriptor number, and `close` clears memory outside the table; `read` ignores its
    offset but for the length; `fstat` reports the block size as the size.
11. MADT: processors that are only online-capable count as enabled; the ACPI id is stored
    where the APIC id is documented.
12. "64GB maximum memory that we will support": freeing the frames of the memory map has no
    upper bound and runs past the bitmap.
13. "Make sure that the address is mapped": the precedence of `&` and `==` makes the test for
    a missing page table always fail.

## 4. Proofs

All for arbitrary constants that satisfy the named assumptions of the modules.

* `SpinlockProofs`: `SpinlockMutex`, `SpinlockUninterruptible`, `SpinlockNoPanic`,
  `SpinlockNoRecursiveInterrupt`, `SpinlockRefinement`. The inductive invariant `IInv` adds
  that `cli_count` is the number of locks the CPU holds or is busy with (`CountInv`), that
  interrupts are on only outside sections and handlers (`IntInv`), that `owner_cpu` follows
  the section (`OwnerInv`) and that nobody acquires what it holds (`ArgInv`). Mutual
  exclusion alone is not inductive: the release check relies on the owner, and that no
  handler sees a half-done acquire relies on the counter.
* `ThreadProofs` has the theorems of `Scheduler` and of the two modules written on it.
  *Scheduler*: `SchedulerTypes`, `SchedulerOneCpu`, `SchedulerRunning`,
  `SchedulerNoUnexpectedState`. `SchedInv` is their conjunction: the status tells every CPU
  which threads nobody runs, and a thread leaves its CPU only through the one that had it.
  *Sleeplock*: `SleeplockImplementsScheduler` (so `SchedInv` is inherited),
  `SleeplockHolding`, `SleeplockNoLostWakeup`, `SleeplockRefinement`. `LockInv` relates the
  thread inside the inner spinlock to its code, and extends the wakeup property to threads
  whose context is not saved yet.
  *Process*: `ProcessTypes`, `ProcessesKeepScheduler`, `OneThreadPerProcess`, `WaiterWoken`,
  `ReleasePanicCause` and the action property `WaitpidReturns`. Exec and exit write the
  status of threads outside the scheduler, so `ProcInv` carries `SchedInv` through them. It
  adds where in the calls a thread may be for each status, what a waiter that has tested
  the state but not slept yet is owed, and who holds a wait lock.
* `KernelDataProofs` has the theorems of `KernelHeap` and `LinkedList`.
  *Heap*: `HeapNotNested`, `HeapInUseExact`, `HeapRegionsDisjoint`, for trees of any depth. The first two need each other: a section is free of allocated parts because
  `in_use` says so. The third turns tree paths into bytes: what the recursive functions
  `Path` and `Section` are is derived from their definitions (`TreeRecursion`), then a
  section lies in its parent, the two halves of a parent share nothing, and so do sections
  of which neither is above the other.
  *Lists*: `ListsSound`, for any number of entries. `ListInv` says where every link of a member
  leads. In a queue both directions are exact; in a stack the links back are not, since the
  insert at the head does not set them, and `ListInv` says that they lead to the header. That
  is why removing an entry cuts off all newer ones: `Cut` is that step, and the rest of the
  sequence keeps its links.
* `PhysicalMemoryProofs`: `MemoryTypes`, `MemoryFramesExclusive`, `MemoryFreeFramesUsable`,
  `MemoryCount`, `MemoryCountExact`, for any memory map and any sizes. `FramesInv` says that a
  free frame, and one between its request and its chunk, is `Untouched`; that a listed chunk
  has marked what it handed out (`ListedBits`); and that the bitmap is filled before anything
  is given out (`BootFirst`): parsing an entry later would free frames in use. That the
  memory map is well-typed needs a first tag of its kind, which follows from the
  well-foundedness of the naturals (`Least`). `MemoryCount` needs no hypothesis: up to the
  panic about a frame freed twice, the count is the number of clear bits (`CountInv`). That
  this panic is not reached is false for a map with overlapping AVAILABLE regions, or with
  memory above what the bitmap stands for, neither of which the code checks for. So `CountExact`
  excludes it, in `MemoryCountExact` too, for maps that are `MapApart` and `MapFits` only;
  `Freed` then says which frames are free after each entry of the map.
* `FileSystemProofs` has the theorems of `BufferCache` and of `FileDescriptors` with `Ext2`.
  *Cache*: `CacheTypes`, `ReferencesExact`, `Coherence`, `RequestsAreHeld`, for any
  number of threads, blocks and buffers. `CacheInv` adds to the properties that whoever is
  past `bget` holds the sleeplock of what it uses, that a queued buffer is queued once and
  its holder sleeps (`QueueDistinct`, `QueueWaits`), that a dirty buffer is filled and on its
  way to the disk (`DirtyHeld`), and what the drive's command was copied from. Coherence is
  not inductive without them: a buffer is recycled by its count, read by its flags and
  written by its position in the queue.
  *Files*: `LookupsSound`, `DescriptorsNameFiles`, `ReadsDeliver`, `BuffersFit`,
  `AddressesAreExact`, for any disks that satisfy the two assumptions, whatever file data and
  the memory behind blocks read as, any block sizes, tables, descriptor numbers and paths of
  any length, those about lookups for `Passable` paths. `FdInv` says that the disk is one that can be mounted, that a
  descriptor with a path is the one `open` stored, and what the last read took from the disk;
  since nobody writes the disk, what a lookup or a read gives now is what it gave then
  (`DiskKept`). The rest is about the operators. `FindsTrue`: after k turns the loop is at the
  inode the first k + 1 names lead to, or has given up; each condition of `Passable` excludes
  one way to another inode. `FileRead`: the buffer has as many
  blocks as the inode states, at the positions the format says. `InodeOnDisk`: an inode of a
  group that exists lies in front of the end of its table, so the 32-bit offset does not wrap.
* `UserMemoryProofs`: `UserFramesPrivate`, `UserNoFrameLeak`, `UserListIsTables`,
  `UserBitsCoverPages`. `MemInv` says
  that listed frames are out (so that a frame which is not out is new to every list), that
  lists hold no frame twice and share none, and that what is out is listed, each but for
  `stray`. The calls map one page after the other; `Grown` is what holds between two pages,
  and carries over any number of them by `Count`, induction for a set of numbers, after the
  recursive functions of `MapAll` and `SbrkAll` are shown to exist. `TablesInv` says that the
  walk to a listed page meets the tables it was mapped with. `map_4kb_page_user` stores the
  highest entry without looking at the old one, so this needs `AreasApart`: pages that share
  this entry share the table. It holds for the stack and the heap of `proc.h` (entries 63
  and 507) with programs in other GBs, which the loader does not check, and in the instance
  of the run. `LoopInHeap` shows that the rectangle of words and bits that sbrk walks stays
  inside the bitmap.
  `BitsInv` gives `BitsCoverPages`. Of a process without a `free()` or an inherited heap it
  says that its tables hold nothing but its listed pages (`Covers`), and that a listed heap
  page has its bit (`HeapBits`). Of every bitmap it says that a word has all bits from the
  sign of an int upwards or none of them (`Shaped`): `1 << bit` sets and clears them
  together. This is why the int shift does no harm before a `free()`: the lowest free run
  does not begin above a sign bit (`LowestRun`), so the loop has met the sign bit of a word
  before any bit above it (`LoopOrder`), and the bit of every page it maps is set, though not
  by the page's own round (`RoundNext`). No round meets a present entry, so
  `map_4kb_page_user` does not panic. The theorem assumes `LayoutFits`: `AreasApart`, room for
  the stack in one table and for the heap in the tables 2 to 499 of one GB (`proc.h` uses 5
  pages and 64 tables of 512 entries), and programs whose segments begin in different pages,
  modulo the size of a table. ELF files are linked that way; the loader does not check it,
  and panics otherwise. The instance of the run states `LayoutFits` as an assumption, which
  TLC evaluates.
* `SmpBootProofs`: `BootStacksPrivate` and `BootCpuTable`, for every MADT. `BootInv` says that
  between the INIT IPI and the magic number there is one processor, the one the shared
  structure is made out to, and that the number is not there yet (`OneStarts`,
  `InfoForCurrent`). `ParseInv` says how far the sum of lengths is ahead of the items read:
  by the item at hand, less the first. Hence a round reads an item of the table and nothing
  behind it (`MoreIsInside`), and each processor found is at its rank (`Built`). `WalkEnds`,
  the hypothesis inside `CpuTableExact`, is needed: a zero length keeps parse_madt where it
  is, and a short item behind the table makes it go on.
* `ConsoleProofs`: `ConsoleTypes`, `ConsoleKeysInOrder`, `ConsoleReaderIsWoken`,
  `ConsoleTerminalInBounds`, for any screen and any number of threads, keys and clears.
  `Control` says that a thread inside printf owns `terminal_lock`, so that `TermInv`, what
  that thread has tested and loaded, is about one thread and disturbed only by
  `terminal_reset`; `KeyInv` that a buffered key is newer than any returned; `WakeInv`
  extends the wakeup property to readers that have decided to sleep.

The provers take no induction rule with a predicate as a parameter. Where a recursive
function matters, the proofs use the rule for sets, which follows from the least element of
a set of naturals, as `TreeInduction` and `Count` do.

Only model-checked: the liveness properties (`SpinnersProgress`, `RunnableRuns`,
`RequestFinishes`, `BootFinishes`), since TLAPS has no fairness reasoning.

## 5. Not modelled

* PCI and AHCI enumerate devices and print what they find; nothing else reads it. The serial
  log is debug output.
* libc and the user programs are string helpers and demonstrations; the programs enter as
  the callers of system calls.
* Pixels, fonts and colours of the terminal; the kernel's own page tables, filled once with
  fixed addresses; the search for the RSDT, APIC and IDT register programming, and the
  assembly that enters long mode: straight-line machine set-up without a choice.
* What the file system does outside the properties' reach: a directory entry of size 0, on
  which the walk never ends; the page fault that reading the inode of a number no group has may
  cause; the buffer `ext2_read_from_root_directory` does not give back (`kfree` gives nothing
  back either). One lookup finds the same memory behind each of its blocks.
* `ext2_read_dir` returns NULL wherever it is called; triply indirect blocks are ignored by
  the code itself.
* Weak memory: the lock operations are x86 locked instructions with barriers, and the
  fields outside locks are single stores, which x86 keeps in order.
