---------------------------- MODULE BufferCache ----------------------------
(***************************************************************************)
(* The disk block cache of buffered_io.c and the IDE driver below it       *)
(* (ide.c): threads that bread, bwrite and brelse blocks, the request      *)
(* queue, the disk and its interrupt.                                      *)
(*                                                                         *)
(* A section under bcache.lock or ide_lock is one step (module Spinlock).  *)
(* The sleeplock of a buffer is the abstract lock that module Sleeplock    *)
(* implements.  iderw sets its channel under ide_lock, and ideintr sets    *)
(* the flags and calls Wakeup under it; a thread that ThreadSleep returns  *)
(* from early finds the flags unchanged and sleeps again, which is no      *)
(* change here.  The pointer list of the queue is a sequence; its          *)
(* entry_count, which list and driver both change, is kept.                *)
(***************************************************************************)
EXTENDS Integers, FiniteSets, Sequences

CONSTANTS
    Threads,
    Blocks,     \* block numbers of device 0, 0 included
    NBUF,       \* size of the cache
    NULL,
    MaxWrites,  \* bound on the calls of bwrite, which number the contents
    MaxErrors   \* bound on the commands that the disk fails

Bufs == 0 .. NBUF - 1

ASSUME BlockAssumption == Blocks \subseteq Nat /\ 0 \in Blocks
ASSUME NbufAssumption  == NBUF \in Nat \ {0}
ASSUME ThreadAssumption == NULL \notin Threads \cup Bufs
ASSUME LimitAssumption == MaxWrites \in Nat /\ MaxErrors \in Nat

VARIABLES
    blockno, refcnt, data,  \* fields of iobuf
    valid, dirty,           \* B_VALID and B_DIRTY of iobuf.flags
    lock,                   \* the owner of iobuf.lock
    queue, entry_count,     \* ide_request_queue.queue: buffers, and its counter
    disk,                   \* contents of the blocks
    command, ata,           \* the drive's command, and what the drive does with it
    pc, buf,                \* where a thread is, and the buffer it is about
    bad,                    \* buffers whose last command failed
    panic, writes, errors

cacheVars == <<blockno, refcnt, data, valid, dirty>>
ideVars   == <<queue, entry_count, command, ata>>
limitVars == <<panic, writes, errors>>
vars == <<cacheVars, lock, ideVars, disk, pc, buf, bad, limitVars>>

Contents == 0 .. MaxWrites
NoData   == -1   \* what a buffer holds that was never filled
NoCommand == [blockno |-> NULL, write |-> FALSE, data |-> NoData]
Commands == [blockno : Blocks, write : BOOLEAN, data : Contents \cup {NoData}]

(* "lock": waits for the sleeplock; "io": calls iderw; "asleep": waits for the  *)
(* interrupt; "use": has the buffer; "deref": brelse after the sleeplock.       *)
PCs == {"idle", "lock", "io", "asleep", "use", "deref"}

TypeOK ==
    /\ blockno \in [Bufs -> Blocks]
    /\ refcnt \in [Bufs -> Nat]
    /\ data \in [Bufs -> Contents \cup {NoData}]
    /\ valid \in [Bufs -> BOOLEAN] /\ dirty \in [Bufs -> BOOLEAN]
    /\ lock \in [Bufs -> Threads \cup {NULL}]
    /\ queue \in Seq(Bufs) /\ entry_count \in Nat
    /\ disk \in [Blocks -> Contents]
    /\ command \in Commands \cup {NoCommand} /\ ata \in {"ready", "busy", "done", "error"}
    /\ pc \in [Threads -> PCs] /\ buf \in [Threads -> Bufs]
    /\ bad \subseteq Bufs
    /\ panic \in {"none", "no_buffers", "not_locked", "nothing_to_do"}
    /\ writes \in 0 .. MaxWrites /\ errors \in 0 .. MaxErrors

(* binit and ideinit: the buffers are zero, so all of them claim block 0. *)
Init ==
    /\ blockno = [i \in Bufs |-> 0] /\ refcnt = [i \in Bufs |-> 0]
    /\ data = [i \in Bufs |-> NoData]
    /\ valid = [i \in Bufs |-> FALSE] /\ dirty = [i \in Bufs |-> FALSE]
    /\ lock = [i \in Bufs |-> NULL]
    /\ queue = <<>> /\ entry_count = 0
    /\ disk = [k \in Blocks |-> 0]
    /\ command = NoCommand /\ ata = "ready"
    /\ pc = [t \in Threads |-> "idle"] /\ buf = [t \in Threads |-> 0]
    /\ bad = {}
    /\ panic = "none" /\ writes = 0 /\ errors = 0

At(t, label)   == panic = "none" /\ pc[t] = label
Goto(t, label) == pc' = [pc EXCEPT ![t] = label]
First(i, S)    == i \in S /\ \A j \in S : i <= j

-----------------------------------------------------------------------------
(* bget and bread *)

Cached(k) == {i \in Bufs : blockno[i] = k}

Unused == {i \in Bufs : refcnt[i] = 0 /\ ~ dirty[i]}

BgetHit(t, k, i) ==
    /\ At(t, "idle") /\ First(i, Cached(k))
    /\ refcnt' = [refcnt EXCEPT ![i] = @ + 1]
    /\ buf' = [buf EXCEPT ![t] = i]
    /\ Goto(t, "lock")
    /\ UNCHANGED <<blockno, data, valid, dirty, lock, ideVars, disk, bad, limitVars>>

(* Mutant: the flags of the old block stay. *)
BgetRecycleKeepsFlags(t, k, i) ==
    /\ At(t, "idle") /\ Cached(k) = {} /\ First(i, Unused)
    /\ blockno' = [blockno EXCEPT ![i] = k]
    /\ refcnt' = [refcnt EXCEPT ![i] = 1]
    /\ buf' = [buf EXCEPT ![t] = i]
    /\ Goto(t, "lock")
    /\ UNCHANGED <<data, valid, dirty, lock, ideVars, disk, bad, limitVars>>

BgetRecycle(t, k, i) ==
    /\ At(t, "idle") /\ Cached(k) = {} /\ First(i, Unused)
    /\ blockno' = [blockno EXCEPT ![i] = k]
    /\ valid' = [valid EXCEPT ![i] = FALSE]
    /\ dirty' = [dirty EXCEPT ![i] = FALSE]
    /\ refcnt' = [refcnt EXCEPT ![i] = 1]
    /\ buf' = [buf EXCEPT ![t] = i]
    /\ bad' = bad \ {i}
    /\ Goto(t, "lock")
    /\ UNCHANGED <<data, lock, ideVars, disk, limitVars>>

BgetPanics(t, k) ==
    /\ At(t, "idle") /\ Cached(k) = {} /\ Unused = {}
    /\ panic' = "no_buffers"
    /\ UNCHANGED <<cacheVars, lock, ideVars, disk, pc, buf, bad, writes, errors>>

LockBuffer(t) ==
    /\ At(t, "lock") /\ lock[buf[t]] = NULL
    /\ lock' = [lock EXCEPT ![buf[t]] = t]
    /\ Goto(t, IF valid[buf[t]] THEN "use" ELSE "io")
    /\ UNCHANGED <<cacheVars, ideVars, disk, buf, bad, limitVars>>

-----------------------------------------------------------------------------
(* bwrite, iderw and idestart *)

holdingsleep(t, i) == lock[i] = t

(* The caller changes the data and calls bwrite. *)
Bwrite(t) ==
    /\ At(t, "use") /\ writes < MaxWrites
    /\ IF holdingsleep(t, buf[t])
       THEN /\ writes' = writes + 1
            /\ data' = [data EXCEPT ![buf[t]] = writes + 1]
            /\ dirty' = [dirty EXCEPT ![buf[t]] = TRUE]
            /\ Goto(t, "io") /\ UNCHANGED panic
       ELSE /\ panic' = "not_locked" /\ UNCHANGED <<writes, data, dirty, pc>>
    /\ UNCHANGED <<blockno, refcnt, valid, lock, ideVars, disk, buf, bad, errors>>

(* The drive takes the data of a write with the command. *)
idestart(i) == /\ command' = [blockno |-> blockno[i], write |-> dirty[i], data |-> data[i]]
               /\ ata' = "busy"

Enqueue(i) ==
    /\ queue' = Append(queue, i) /\ entry_count' = entry_count + 2
    /\ IF Head(queue') = i THEN idestart(i) ELSE UNCHANGED <<command, ata>>

(* Nothing to do, or nothing left to do. *)
Finished(i) == valid[i] /\ ~ dirty[i]

Iderw(t) ==
    LET i == buf[t] IN
    /\ At(t, "io")
    /\ IF ~ holdingsleep(t, i)
       THEN panic' = "not_locked" /\ UNCHANGED <<ideVars, pc>>
       ELSE IF Finished(i)
       THEN panic' = "nothing_to_do" /\ UNCHANGED <<ideVars, pc>>
       ELSE Enqueue(i) /\ Goto(t, "asleep") /\ UNCHANGED panic
    /\ UNCHANGED <<cacheVars, lock, disk, buf, bad, writes, errors>>

(* ThreadSleep returns and the loop finds the request finished. *)
IderwReturns(t) ==
    /\ At(t, "asleep") /\ Finished(buf[t])
    /\ Goto(t, "use")
    /\ UNCHANGED <<cacheVars, lock, ideVars, disk, buf, bad, limitVars>>

-----------------------------------------------------------------------------
(* brelse: the sleeplock first, the reference after it. *)

BrelseUnlock(t) ==
    /\ At(t, "use")
    /\ IF holdingsleep(t, buf[t])
       THEN /\ lock' = [lock EXCEPT ![buf[t]] = NULL]
            /\ Goto(t, "deref") /\ UNCHANGED panic
       ELSE panic' = "not_locked" /\ UNCHANGED <<lock, pc>>
    /\ UNCHANGED <<cacheVars, ideVars, disk, buf, bad, writes, errors>>

(* Mutant: the last user forgets its reference. *)
BrelseDerefToZero(t) ==
    /\ At(t, "deref")
    /\ refcnt' = [refcnt EXCEPT ![buf[t]] = 0]
    /\ buf' = [buf EXCEPT ![t] = 0]
    /\ Goto(t, "idle")
    /\ UNCHANGED <<blockno, data, valid, dirty, lock, ideVars, disk, bad, limitVars>>

BrelseDeref(t) ==
    /\ At(t, "deref")
    /\ refcnt' = [refcnt EXCEPT ![buf[t]] = @ - 1]
    /\ buf' = [buf EXCEPT ![t] = 0]
    /\ Goto(t, "idle")
    /\ UNCHANGED <<blockno, data, valid, dirty, lock, ideVars, disk, bad, limitVars>>

-----------------------------------------------------------------------------
(* The drive (external), and its interrupt handler *)

DriveDone ==
    /\ panic = "none" /\ ata = "busy"
    /\ disk' = IF command.write THEN [disk EXCEPT ![command.blockno] = command.data] ELSE disk
    /\ ata' = "done"
    /\ UNCHANGED <<cacheVars, lock, queue, entry_count, command, pc, buf, bad, limitVars>>

DriveFails ==
    /\ panic = "none" /\ ata = "busy" /\ errors < MaxErrors
    /\ errors' = errors + 1
    /\ ata' = "error"
    /\ UNCHANGED <<cacheVars, lock, queue, entry_count, command, disk, pc, buf, bad, panic, writes>>

(* What ideintr leaves in the first buffer of the queue. *)
Transferred(i) == IF ~ dirty[i] /\ ata = "done" THEN disk[command.blockno] ELSE data[i]

DriveReady == command' = NoCommand /\ ata' = "ready"

(* Mutant: the next request is not started. *)
StartNextForgotten(rest) == DriveReady

StartNext(rest) ==
    IF entry_count' # 0 THEN idestart(Head(rest)) ELSE DriveReady

ideintr ==
    /\ panic = "none" /\ ata \in {"done", "error"}
    /\ IF entry_count = 0
       THEN DriveReady /\ UNCHANGED <<queue, entry_count, data, valid, dirty, bad>>
       ELSE LET i == Head(queue) IN
            /\ queue' = Tail(queue) /\ entry_count' = entry_count - 2
            /\ data' = [data EXCEPT ![i] = Transferred(i)]
            /\ valid' = [valid EXCEPT ![i] = TRUE]
            /\ dirty' = [dirty EXCEPT ![i] = FALSE]
            /\ bad' = IF ata = "error" THEN bad \cup {i} ELSE bad \ {i}
            /\ StartNext(Tail(queue))
    /\ UNCHANGED <<blockno, refcnt, lock, disk, pc, buf, limitVars>>

-----------------------------------------------------------------------------
ThreadStep(t) == \/ LockBuffer(t) \/ Bwrite(t) \/ Iderw(t) \/ IderwReturns(t)
                 \/ BrelseUnlock(t) \/ BrelseDeref(t)

Bget(t, k) == \/ \E i \in Bufs : BgetHit(t, k, i) \/ BgetRecycle(t, k, i)
              \/ BgetPanics(t, k)

Halted == panic # "none" /\ UNCHANGED vars

Next == \/ \E t \in Threads : ThreadStep(t) \/ \E k \in Blocks : Bget(t, k)
        \/ DriveDone \/ DriveFails \/ ideintr
        \/ Halted

Spec == Init /\ [][Next]_vars

(* A busy drive finishes or fails, and its interrupt, pending until some CPU   *)
(* has interrupts on, is handled.                                              *)
Fairness == WF_vars(DriveDone \/ DriveFails) /\ WF_vars(ideintr)

FairSpec == Spec /\ Fairness

-----------------------------------------------------------------------------
(* Properties *)

(* Threads between bget and the end of brelse. *)
Users(i) == {t \in Threads : pc[t] # "idle" /\ buf[t] = i}

(* bget's "recycle an unused buffer" relies on refcnt: it counts exactly the  *)
(* threads that are on their way to the buffer, have it or are leaving it,    *)
(* although brelse frees the sleeplock first.  The panics of bwrite, brelse   *)
(* and iderw ("not locked", "nothing to do") are unreachable.                 *)
RefcntExact ==
    /\ \A i \in Bufs : refcnt[i] = Cardinality(Users(i))
    /\ panic \notin {"not_locked", "nothing_to_do"}

(* A block that is in use, or cached with its contents, is in one buffer,     *)
(* although zeroed buffers all claim block 0.                                 *)
OneCopy ==
    \A i, j \in Bufs : /\ blockno[i] = blockno[j]
                       /\ refcnt[i] > 0 \/ valid[i]
                       /\ refcnt[j] > 0 \/ valid[j]
                       => i = j

(* "First queued buffer is the active request" (ideintr): the drive works on  *)
(* the first request of the queue, it has work exactly while the queue has a  *)
(* request, and the doubled counter agrees with the list.                     *)
DriveServesHead ==
    /\ entry_count = 2 * Len(queue)
    /\ ata = "ready" <=> queue = <<>>
    /\ queue # <<>> => /\ command.blockno = blockno[Head(queue)]
                       /\ command.write = dirty[Head(queue)]

(* The cache is "a synchronization point for disk blocks used by multiple     *)
(* processes": a block has one buffer, the drive works for the buffer it will *)
(* be credited to, and what a reader finds in a valid buffer is what the disk *)
(* has, unless the drive failed (ideintr sets B_VALID then, too) or the       *)
(* holder's write is still on its way.                                        *)
CacheCoherent ==
    /\ OneCopy /\ DriveServesHead
    /\ \A i \in Bufs : valid[i] /\ ~ dirty[i] /\ i \notin bad => data[i] = disk[blockno[i]]

(* Every request of iderw is finished by the interrupt handler in the end,    *)
(* whatever is queued in front of it.                                         *)
RequestFinishes ==
    \A t \in Threads : pc[t] = "asleep" ~> (pc[t] # "asleep" \/ Finished(buf[t]) \/ panic # "none")
=============================================================================
