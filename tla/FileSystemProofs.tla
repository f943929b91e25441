------------------------- MODULE FileSystemProofs --------------------------
(* The file system, bottom up.  The block cache: its reference counts are     *)
(* exact and its contents are those of the disk, for any number of threads,   *)
(* buffers and blocks.  ext2 and the file descriptors: lookups, addresses and *)
(* buffers are right for every consistent disk, and what a process reads is   *)
(* what is in the file.                                                       *)
EXTENDS BufferCache, FileDescriptors, FiniteSetTheorems, SequenceTheorems,
        NaturalsInduction, WellFoundedInduction, TLAPS

(* refcnt counts the users of a buffer, of which there are finitely many. *)
UsersCounted ==
    \A i \in Bufs : IsFiniteSet(Users(i)) /\ refcnt[i] = Cardinality(Users(i))

(* The sleeplock of a buffer belongs to the thread that has the buffer. *)
HolderLocked ==
    \A t \in Threads : pc[t] \in {"io", "asleep", "use"} => lock[buf[t]] = t

Holder(t, i) == t \in Threads /\ lock[i] = t /\ buf[t] = i

(* A request is queued once, unfinished, by a thread that waits for it. *)
QueueWaits ==
    \A n \in 1 .. Len(queue) :
        /\ ~ Finished(queue[n])
        /\ \E t \in Threads : Holder(t, queue[n]) /\ pc[t] = "asleep"

QueueDistinct ==
    \A m, n \in 1 .. Len(queue) : queue[m] = queue[n] => m = n

(* A dirty buffer is filled, and is on its way to the disk. *)
DirtyHeld ==
    \A i \in Bufs : dirty[i] =>
        /\ data[i] \in Contents
        /\ \E t \in Threads : Holder(t, i) /\ pc[t] \in {"io", "asleep"}

IoHasWork == \A t \in Threads : pc[t] = "io" => ~ Finished(buf[t])

(* Of the buffers that claim a block, only the first one bget finds counts. *)
FirstClaims ==
    \A i, j \in Bufs : i < j /\ blockno[i] = blockno[j] => refcnt[j] = 0 /\ ~ valid[j]

(* The drive writes the data of the first request. *)
CommandOfHead ==
    queue # <<>> =>
        /\ command \in Commands
        /\ command.data = data[Head(queue)]
        /\ ata = "done" /\ command.write => disk[command.blockno] = command.data

NoFalsePanic == panic \notin {"not_locked", "nothing_to_do"}

ContentsAgree ==
    \A i \in Bufs : valid[i] /\ ~ dirty[i] /\ i \notin bad => data[i] = disk[blockno[i]]

CacheInv ==
    /\ TypeOK /\ UsersCounted /\ NoFalsePanic
    /\ HolderLocked /\ DirtyHeld /\ IoHasWork /\ FirstClaims
    /\ QueueWaits /\ QueueDistinct /\ DriveServesHead /\ CommandOfHead
    /\ ContentsAgree

-----------------------------------------------------------------------------
(* The initial state *)

LEMMA BufFacts == 0 \in Bufs /\ Bufs \subseteq Nat /\ NULL \notin Bufs /\ NULL \notin Threads
BY NbufAssumption, ThreadAssumption DEF Bufs

LEMMA InitType == Init => TypeOK
<1> SUFFICES ASSUME Init PROVE TypeOK
  OBVIOUS
<1>1. /\ blockno \in [Bufs -> Blocks] /\ refcnt \in [Bufs -> Nat]
      /\ data \in [Bufs -> Contents \cup {NoData}]
  BY BlockAssumption DEF Init
<1>2. valid \in [Bufs -> BOOLEAN] /\ dirty \in [Bufs -> BOOLEAN]
  BY Zenon DEF Init
<1>3. lock \in [Bufs -> Threads \cup {NULL}] /\ queue \in Seq(Bufs) /\ entry_count \in Nat
  BY DEF Init
<1>4. disk \in [Blocks -> Contents]
  BY LimitAssumption DEF Init, Contents
<1>5. pc \in [Threads -> PCs] /\ buf \in [Threads -> Bufs] /\ bad \subseteq Bufs
  BY BufFacts DEF Init, PCs
<1>6. writes \in 0 .. MaxWrites /\ errors \in 0 .. MaxErrors
  BY LimitAssumption DEF Init
<1> QED BY <1>1, <1>2, <1>3, <1>4, <1>5, <1>6 DEF Init, TypeOK

LEMMA InitCache == Init => CacheInv
<1> SUFFICES ASSUME Init PROVE CacheInv
  OBVIOUS
<1>1. UsersCounted
  <2> SUFFICES ASSUME NEW i \in Bufs
               PROVE  IsFiniteSet(Users(i)) /\ refcnt[i] = Cardinality(Users(i))
    BY DEF UsersCounted
  <2>1. Users(i) = {}
    BY DEF Init, Users
  <2> QED BY <2>1, FS_EmptySet DEF Init
<1>2. NoFalsePanic /\ HolderLocked /\ IoHasWork
  BY DEF Init, NoFalsePanic, HolderLocked, IoHasWork
<1>3. \A i \in Bufs : ~ dirty[i] /\ ~ valid[i] /\ refcnt[i] = 0
  BY DEF Init
<1>4. DirtyHeld /\ FirstClaims /\ ContentsAgree
  BY <1>3 DEF DirtyHeld, FirstClaims, ContentsAgree
<1>5. QueueWaits /\ QueueDistinct /\ DriveServesHead /\ CommandOfHead
  BY DEF Init, QueueWaits, QueueDistinct, DriveServesHead, CommandOfHead
<1> QED BY InitType, <1>1, <1>2, <1>4, <1>5 DEF CacheInv

-----------------------------------------------------------------------------
(* What the invariant says of a step *)

LEMMA UserHasRef ==
  ASSUME CacheInv, NEW t \in Threads, pc[t] # "idle"
  PROVE  buf[t] \in Bufs /\ t \in Users(buf[t]) /\ refcnt[buf[t]] > 0
<1>1. buf[t] \in Bufs
  BY DEF CacheInv, TypeOK
<1>2. t \in Users(buf[t])
  BY DEF Users
<1>3. IsFiniteSet(Users(buf[t])) /\ refcnt[buf[t]] = Cardinality(Users(buf[t]))
  BY <1>1 DEF CacheInv, UsersCounted
<1>4. Cardinality(Users(buf[t])) # 0
  BY <1>2, <1>3, FS_EmptySet
<1>5. refcnt[buf[t]] \in Nat
  BY <1>1 DEF CacheInv, TypeOK
<1> QED BY <1>1, <1>2, <1>3, <1>4, <1>5

LEMMA HeadFacts ==
  ASSUME CacheInv, queue # <<>>
  PROVE  /\ Len(queue) \in Nat \ {0} /\ Head(queue) = queue[1] /\ Head(queue) \in Bufs
         /\ ~ Finished(Head(queue))
         /\ \E t \in Threads : Holder(t, Head(queue)) /\ pc[t] = "asleep"
         /\ refcnt[Head(queue)] > 0
<1>1. /\ Len(queue) \in Nat \ {0} /\ Head(queue) = queue[1] /\ Head(queue) \in Bufs
  BY EmptySeq, HeadTailProperties DEF CacheInv, TypeOK
<1>2. 1 \in 1 .. Len(queue)
  BY <1>1
<1>3. /\ ~ Finished(Head(queue))
      /\ \E t \in Threads : Holder(t, Head(queue)) /\ pc[t] = "asleep"
  BY <1>1, <1>2 DEF CacheInv, QueueWaits
<1>4. refcnt[Head(queue)] > 0
  BY <1>3, UserHasRef DEF Holder
<1> QED BY <1>1, <1>3, <1>4

LEMMA QueuedFacts ==
  ASSUME CacheInv, NEW n \in 1 .. Len(queue)
  PROVE  queue[n] \in Bufs /\ refcnt[queue[n]] > 0
<1>1. queue[n] \in Bufs
  BY DEF CacheInv, TypeOK
<1>2. PICK t \in Threads : Holder(t, queue[n]) /\ pc[t] = "asleep"
  BY DEF CacheInv, QueueWaits
<1> QED BY <1>1, <1>2, UserHasRef DEF Holder

LEMMA BwriteStep ==
  ASSUME CacheInv, NEW t \in Threads, Bwrite(t)
  PROVE  /\ pc[t] = "use" /\ lock[buf[t]] = t /\ writes < MaxWrites
         /\ writes' = writes + 1 /\ panic' = panic
         /\ data' = [data EXCEPT ![buf[t]] = writes + 1]
         /\ dirty' = [dirty EXCEPT ![buf[t]] = TRUE]
         /\ pc' = [pc EXCEPT ![t] = "io"]
         /\ UNCHANGED <<blockno, refcnt, valid, lock, ideVars, disk, buf, bad, errors>>
BY DEF CacheInv, HolderLocked, Bwrite, At, Goto, holdingsleep

LEMMA IderwStep ==
  ASSUME CacheInv, NEW t \in Threads, Iderw(t)
  PROVE  /\ pc[t] = "io" /\ lock[buf[t]] = t /\ ~ Finished(buf[t])
         /\ Enqueue(buf[t]) /\ panic' = panic
         /\ pc' = [pc EXCEPT ![t] = "asleep"]
         /\ UNCHANGED <<cacheVars, lock, disk, buf, bad, writes, errors>>
BY DEF CacheInv, HolderLocked, IoHasWork, Iderw, At, Goto, holdingsleep

LEMMA BrelseUnlockStep ==
  ASSUME CacheInv, NEW t \in Threads, BrelseUnlock(t)
  PROVE  /\ pc[t] = "use" /\ lock[buf[t]] = t /\ panic' = panic
         /\ lock' = [lock EXCEPT ![buf[t]] = NULL]
         /\ pc' = [pc EXCEPT ![t] = "deref"]
         /\ UNCHANGED <<cacheVars, ideVars, disk, buf, bad, writes, errors>>
BY DEF CacheInv, HolderLocked, BrelseUnlock, At, Goto, holdingsleep

LEMMA IdeintrStep ==
  ASSUME CacheInv, ideintr
  PROVE  /\ queue # <<>> /\ ata \in {"done", "error"}
         /\ queue' = Tail(queue) /\ entry_count' = entry_count - 2
         /\ data' = [data EXCEPT ![Head(queue)] = Transferred(Head(queue))]
         /\ valid' = [valid EXCEPT ![Head(queue)] = TRUE]
         /\ dirty' = [dirty EXCEPT ![Head(queue)] = FALSE]
         /\ bad' = IF ata = "error" THEN bad \cup {Head(queue)} ELSE bad \ {Head(queue)}
         /\ StartNext(Tail(queue))
         /\ UNCHANGED <<blockno, refcnt, lock, disk, pc, buf, limitVars>>
<1>1. ata \in {"done", "error"}
  BY DEF ideintr
<1>2. queue # <<>>
  BY <1>1 DEF CacheInv, DriveServesHead
<1>3. entry_count # 0
  BY <1>2, HeadFacts DEF CacheInv, DriveServesHead
<1> QED BY <1>1, <1>2, <1>3 DEF ideintr

LEMMA EnqueueFacts ==
  ASSUME CacheInv, NEW i \in Bufs, Enqueue(i)
  PROVE  /\ queue' \in Seq(Bufs) /\ Len(queue') = Len(queue) + 1 /\ Len(queue) \in Nat
         /\ \A n \in 1 .. Len(queue) : queue'[n] = queue[n]
         /\ queue'[Len(queue) + 1] = i
         /\ queue' # <<>> /\ Head(queue') = queue'[1]
         /\ entry_count' = entry_count + 2
<1>1. queue \in Seq(Bufs) /\ queue' = Append(queue, i) /\ entry_count' = entry_count + 2
  BY DEF CacheInv, TypeOK, Enqueue
<1>2. /\ queue' \in Seq(Bufs) /\ Len(queue') = Len(queue) + 1
      /\ \A n \in 1 .. Len(queue) : queue'[n] = queue[n]
      /\ queue'[Len(queue) + 1] = i
  BY <1>1, AppendProperties
<1>3. Len(queue) \in Nat
  BY <1>1
<1>4. queue' # <<>>
  BY <1>2, <1>3
<1>5. Head(queue') = queue'[1]
  BY <1>2, <1>4, HeadTailProperties
<1> QED BY <1>1, <1>2, <1>3, <1>4, <1>5

LEMMA TailFacts ==
  ASSUME CacheInv, queue # <<>>
  PROVE  /\ Tail(queue) \in Seq(Bufs) /\ Len(Tail(queue)) = Len(queue) - 1
         /\ \A n \in 1 .. Len(queue) - 1 : /\ Tail(queue)[n] = queue[n + 1]
                                           /\ n + 1 \in 1 .. Len(queue)
         /\ Tail(queue) = <<>> <=> Len(queue) = 1
         /\ Tail(queue) # <<>> => Head(Tail(queue)) = Tail(queue)[1] /\ Head(Tail(queue)) = queue[2]
<1>1. queue \in Seq(Bufs) /\ Len(queue) \in Nat \ {0}
  BY HeadFacts DEF CacheInv, TypeOK
<1>2. /\ Tail(queue) \in Seq(Bufs) /\ Len(Tail(queue)) = Len(queue) - 1
      /\ \A n \in 1 .. Len(queue) - 1 : Tail(queue)[n] = queue[n + 1]
  BY <1>1, HeadTailProperties
<1>3. \A n \in 1 .. Len(queue) - 1 : n + 1 \in 1 .. Len(queue)
  BY <1>1
<1>4. Tail(queue) = <<>> <=> Len(queue) = 1
  <2>1. \A s \in Seq(Bufs) : s = <<>> <=> Len(s) = 0
    BY EmptySeq
  <2>2. Tail(queue) = <<>> <=> Len(Tail(queue)) = 0
    BY <2>1, <1>2
  <2> QED BY <2>2, <1>1, <1>2
<1>5. ASSUME Tail(queue) # <<>>
      PROVE  Head(Tail(queue)) = Tail(queue)[1] /\ Head(Tail(queue)) = queue[2]
  <2>1. Head(Tail(queue)) = Tail(queue)[1]
    BY <1>2, <1>5, HeadTailProperties
  <2>2. 1 \in 1 .. Len(queue) - 1
    BY <1>1, <1>4, <1>5
  <2> QED BY <2>1, <2>2, <1>2
<1> QED BY <1>2, <1>3, <1>4, <1>5

-----------------------------------------------------------------------------
(* Types *)

LEMMA TypeSteps == CacheInv /\ [Next]_vars => TypeOK'
<1> SUFFICES ASSUME CacheInv, [Next]_vars PROVE TypeOK'
  OBVIOUS
<1> USE BufFacts, BlockAssumption, LimitAssumption
<1>0. TypeOK
  BY DEF CacheInv
<1>1. ASSUME NEW t \in Threads, NEW k \in Blocks, NEW i \in Bufs, BgetHit(t, k, i) PROVE TypeOK'
  BY <1>0, <1>1 DEF TypeOK, BgetHit, Goto, PCs, ideVars, limitVars
<1>2. ASSUME NEW t \in Threads, NEW k \in Blocks, NEW i \in Bufs, BgetRecycle(t, k, i) PROVE TypeOK'
  <2>1. /\ blockno' \in [Bufs -> Blocks] /\ refcnt' \in [Bufs -> Nat]
        /\ buf' \in [Threads -> Bufs] /\ pc' \in [Threads -> PCs] /\ bad' \subseteq Bufs
    BY <1>0, <1>2 DEF TypeOK, BgetRecycle, Goto, PCs
  <2>2. valid' \in [Bufs -> BOOLEAN] /\ dirty' \in [Bufs -> BOOLEAN]
    BY <1>0, <1>2 DEF TypeOK, BgetRecycle
  <2> QED BY <1>0, <1>2, <2>1, <2>2 DEF TypeOK, BgetRecycle, ideVars, limitVars
<1>3. ASSUME NEW t \in Threads, NEW k \in Blocks, BgetPanics(t, k) PROVE TypeOK'
  BY <1>0, <1>3 DEF TypeOK, BgetPanics, cacheVars, ideVars
<1>4. ASSUME NEW t \in Threads, LockBuffer(t) PROVE TypeOK'
  <2>1. lock' \in [Bufs -> Threads \cup {NULL}]
    BY <1>0, <1>4 DEF TypeOK, LockBuffer
  <2>2. pc' \in [Threads -> PCs]
    BY <1>0, <1>4 DEF TypeOK, LockBuffer, Goto, PCs
  <2> QED BY <1>0, <1>4, <2>1, <2>2 DEF TypeOK, LockBuffer, cacheVars, ideVars, limitVars
<1>5. ASSUME NEW t \in Threads, Bwrite(t) PROVE TypeOK'
  <2>1. writes' \in 0 .. MaxWrites /\ data' \in [Bufs -> Contents \cup {NoData}]
    BY <1>0, <1>5, BwriteStep DEF TypeOK, Contents
  <2>2. dirty' \in [Bufs -> BOOLEAN]
    BY <1>0, <1>5, BwriteStep DEF TypeOK
  <2>3. pc' \in [Threads -> PCs]
    BY <1>0, <1>5, BwriteStep DEF TypeOK, PCs
  <2> QED BY <1>0, <1>5, <2>1, <2>2, <2>3, BwriteStep DEF TypeOK, ideVars
<1>6. ASSUME NEW i \in Bufs, idestart(i) PROVE command' \in Commands /\ ata' = "busy"
  BY <1>0, <1>6 DEF TypeOK, idestart, Commands
<1>7. ASSUME NEW t \in Threads, Iderw(t) PROVE TypeOK'
  <2>1. buf[t] \in Bufs /\ Enqueue(buf[t])
    BY <1>0, <1>7, IderwStep DEF TypeOK
  <2>2. queue' \in Seq(Bufs) /\ entry_count' \in Nat
    <3>1. PICK i \in Bufs : i = buf[t] /\ Enqueue(i)
      BY <2>1
    <3>2. queue' \in Seq(Bufs) /\ entry_count' = entry_count + 2
      BY <3>1, EnqueueFacts
    <3>3. entry_count \in Nat
      BY <1>0 DEF TypeOK
    <3> QED BY <3>2, <3>3
  <2>3. command' \in Commands \cup {NoCommand} /\ ata' \in {"ready", "busy", "done", "error"}
    BY <1>0, <1>6, <2>1 DEF TypeOK, Enqueue
  <2>4. pc' \in [Threads -> PCs]
    BY <1>0, <1>7, IderwStep DEF TypeOK, PCs
  <2> QED BY <1>0, <1>7, <2>2, <2>3, <2>4, IderwStep DEF TypeOK, cacheVars
<1>8. ASSUME NEW t \in Threads, IderwReturns(t) PROVE TypeOK'
  BY <1>0, <1>8 DEF TypeOK, IderwReturns, Goto, PCs, cacheVars, ideVars, limitVars
<1>9. ASSUME NEW t \in Threads, BrelseUnlock(t) PROVE TypeOK'
  <2>1. lock' \in [Bufs -> Threads \cup {NULL}] /\ pc' \in [Threads -> PCs]
    BY <1>0, <1>9, BrelseUnlockStep DEF TypeOK, PCs
  <2> QED BY <1>0, <1>9, <2>1, BrelseUnlockStep DEF TypeOK, cacheVars, ideVars
<1>10. ASSUME NEW t \in Threads, BrelseDeref(t) PROVE TypeOK'
  <2>1. refcnt' \in [Bufs -> Nat]
    BY <1>0, <1>10, UserHasRef DEF TypeOK, BrelseDeref, At
  <2>2. pc' \in [Threads -> PCs] /\ buf' \in [Threads -> Bufs]
    BY <1>0, <1>10 DEF TypeOK, BrelseDeref, Goto, PCs
  <2> QED BY <1>0, <1>10, <2>1, <2>2 DEF TypeOK, BrelseDeref, ideVars, limitVars
<1>11. CASE DriveDone
  <2>1. queue # <<>>
    BY <1>11 DEF DriveDone, CacheInv, DriveServesHead
  <2>2. /\ command \in Commands /\ command.data = data[Head(queue)]
        /\ command.write = dirty[Head(queue)] /\ Head(queue) \in Bufs
    BY <2>1, HeadFacts DEF CacheInv, CommandOfHead, DriveServesHead
  <2>3. command.write => command.data \in Contents
    BY <2>2 DEF CacheInv, DirtyHeld
  <2>4. disk' \in [Blocks -> Contents]
    BY <1>0, <1>11, <2>2, <2>3 DEF TypeOK, DriveDone, Commands
  <2> QED BY <1>0, <1>11, <2>4 DEF TypeOK, DriveDone, cacheVars, limitVars
<1>12. CASE DriveFails
  BY <1>0, <1>12 DEF TypeOK, DriveFails, cacheVars
<1>13. CASE ideintr
  <2>0. queue # <<>> /\ Head(queue) \in Bufs /\ Len(queue) \in Nat \ {0}
    BY <1>13, IdeintrStep, HeadFacts
  <2>1. queue' \in Seq(Bufs)
    BY <1>13, <2>0, IdeintrStep, TailFacts
  <2>2. entry_count' \in Nat /\ (entry_count' # 0 => Len(queue) > 1)
    <3>1. entry_count = 2 * Len(queue) /\ entry_count' = entry_count - 2
      BY <1>13, IdeintrStep DEF CacheInv, DriveServesHead
    <3> QED BY <2>0, <3>1
  <2>3. command \in Commands
    BY <2>0 DEF CacheInv, CommandOfHead
  <2>4. Transferred(Head(queue)) \in Contents \cup {NoData}
    BY <1>0, <2>0, <2>3 DEF TypeOK, Transferred, Commands
  <2>5. data' \in [Bufs -> Contents \cup {NoData}] /\ bad' \subseteq Bufs
    <3>1. data' = [data EXCEPT ![Head(queue)] = Transferred(Head(queue))]
      BY <1>13, IdeintrStep
    <3>2. bad' = bad \cup {Head(queue)} \/ bad' = bad \ {Head(queue)}
      BY <1>13, IdeintrStep
    <3>3. data' \in [Bufs -> Contents \cup {NoData}]
      BY <1>0, <2>0, <2>4, <3>1 DEF TypeOK
    <3>4. bad' \subseteq Bufs
      BY <1>0, <2>0, <3>2 DEF TypeOK
    <3> QED BY <3>3, <3>4
  <2>6. valid' \in [Bufs -> BOOLEAN] /\ dirty' \in [Bufs -> BOOLEAN]
    BY <1>0, <1>13, <2>0, IdeintrStep DEF TypeOK
  <2>7. command' \in Commands \cup {NoCommand} /\ ata' \in {"ready", "busy", "done", "error"}
    <3>1. CASE entry_count' # 0
      <4>1. Tail(queue) # <<>>
        BY <3>1, <2>0, <2>2, TailFacts
      <4>2. Head(Tail(queue)) \in Bufs
        BY <4>1, <2>0, TailFacts, HeadTailProperties
      <4> QED BY <3>1, <4>2, <1>6, <1>13, IdeintrStep DEF StartNext
    <3>2. CASE entry_count' = 0
      BY <3>2, <1>13, IdeintrStep DEF StartNext, DriveReady
    <3> QED BY <3>1, <3>2
  <2> QED BY <1>0, <1>13, <2>1, <2>2, <2>5, <2>6, <2>7, IdeintrStep DEF TypeOK, limitVars
<1>14. CASE UNCHANGED vars
  BY <1>0, <1>14 DEF TypeOK, vars, cacheVars, ideVars, limitVars
<1> QED BY <1>1, <1>2, <1>3, <1>4, <1>5, <1>7, <1>8, <1>9, <1>10, <1>11, <1>12, <1>13, <1>14
        DEF Next, ThreadStep, Bget, Halted

-----------------------------------------------------------------------------
(* References *)

LEMMA UserJoins ==
  ASSUME CacheInv, NEW t \in Threads, pc[t] = "idle", NEW i \in Bufs,
         buf' = [buf EXCEPT ![t] = i], pc' = [pc EXCEPT ![t] = "lock"],
         refcnt' = [refcnt EXCEPT ![i] = refcnt[i] + 1]
  PROVE  UsersCounted'
<1> SUFFICES ASSUME NEW j \in Bufs
             PROVE  IsFiniteSet(Users(j)') /\ refcnt'[j] = Cardinality(Users(j)')
  BY DEF UsersCounted
<1>0. TypeOK
  BY DEF CacheInv
<1>1. IsFiniteSet(Users(j)) /\ refcnt[j] = Cardinality(Users(j)) /\ t \notin Users(j)
  BY DEF CacheInv, UsersCounted, Users
<1>2. CASE j = i
  <2>1. Users(j)' = Users(j) \cup {t}
    BY <1>0, <1>2 DEF Users, TypeOK
  <2>2. refcnt'[j] = refcnt[j] + 1
    BY <1>0, <1>2 DEF TypeOK
  <2> QED BY <1>1, <2>1, <2>2, FS_AddElement
<1>3. CASE j # i
  <2>1. Users(j)' = Users(j)
    BY <1>0, <1>3 DEF Users, TypeOK
  <2>2. refcnt'[j] = refcnt[j]
    BY <1>0, <1>3 DEF TypeOK
  <2> QED BY <1>1, <2>1, <2>2
<1> QED BY <1>2, <1>3

LEMMA UserLeaves ==
  ASSUME CacheInv, NEW t \in Threads, pc[t] = "deref",
         buf' = [buf EXCEPT ![t] = 0], pc' = [pc EXCEPT ![t] = "idle"],
         refcnt' = [refcnt EXCEPT ![buf[t]] = refcnt[buf[t]] - 1]
  PROVE  UsersCounted'
<1> SUFFICES ASSUME NEW j \in Bufs
             PROVE  IsFiniteSet(Users(j)') /\ refcnt'[j] = Cardinality(Users(j)')
  BY DEF UsersCounted
<1>0. TypeOK
  BY DEF CacheInv
<1>1. IsFiniteSet(Users(j)) /\ refcnt[j] = Cardinality(Users(j))
  BY DEF CacheInv, UsersCounted
<1>2. CASE j = buf[t]
  <2>1. Users(j)' = Users(j) \ {t} /\ t \in Users(j)
    BY <1>0, <1>2 DEF Users, TypeOK
  <2>2. refcnt'[j] = refcnt[j] - 1
    BY <1>0, <1>2 DEF TypeOK
  <2> QED BY <1>1, <2>1, <2>2, FS_RemoveElement
<1>3. CASE j # buf[t]
  <2>1. Users(j)' = Users(j)
    BY <1>0, <1>3 DEF Users, TypeOK
  <2>2. refcnt'[j] = refcnt[j]
    BY <1>0, <1>3 DEF TypeOK
  <2> QED BY <1>1, <2>1, <2>2
<1> QED BY <1>2, <1>3

LEMMA UsersStay ==
  ASSUME CacheInv, UNCHANGED <<buf, refcnt>>,
         \A t \in Threads : pc'[t] = "idle" <=> pc[t] = "idle"
  PROVE  UsersCounted'
<1>1. \A j \in Bufs : Users(j)' = Users(j)
  BY DEF Users
<1> QED BY <1>1 DEF UsersCounted, CacheInv

LEMMA CountSteps == CacheInv /\ [Next]_vars => UsersCounted' /\ NoFalsePanic'
<1> SUFFICES ASSUME CacheInv, [Next]_vars PROVE UsersCounted' /\ NoFalsePanic'
  OBVIOUS
<1>0. TypeOK /\ NoFalsePanic
  BY DEF CacheInv
<1>1. ASSUME NEW t \in Threads, NEW k \in Blocks, NEW i \in Bufs, BgetHit(t, k, i)
      PROVE  UsersCounted' /\ NoFalsePanic'
  BY <1>0, <1>1, UserJoins DEF BgetHit, At, Goto, limitVars, NoFalsePanic
<1>2. ASSUME NEW t \in Threads, NEW k \in Blocks, NEW i \in Bufs, BgetRecycle(t, k, i)
      PROVE  UsersCounted' /\ NoFalsePanic'
  <2>1. refcnt[i] = 0
    BY <1>2 DEF BgetRecycle, First, Unused
  <2>2. refcnt' = [refcnt EXCEPT ![i] = refcnt[i] + 1]
    BY <1>0, <1>2, <2>1 DEF TypeOK, BgetRecycle
  <2>3. pc[t] = "idle" /\ buf' = [buf EXCEPT ![t] = i] /\ pc' = [pc EXCEPT ![t] = "lock"]
    BY <1>2 DEF BgetRecycle, At, Goto
  <2>4. UsersCounted'
    BY <2>2, <2>3, UserJoins
  <2> QED BY <1>0, <1>2, <2>4 DEF BgetRecycle, limitVars, NoFalsePanic
<1>3. ASSUME NEW t \in Threads, NEW k \in Blocks, BgetPanics(t, k)
      PROVE  UsersCounted' /\ NoFalsePanic'
  BY <1>3, UsersStay DEF BgetPanics, NoFalsePanic, cacheVars
<1>4. ASSUME NEW t \in Threads, LockBuffer(t) PROVE UsersCounted' /\ NoFalsePanic'
  BY <1>0, <1>4, UsersStay DEF TypeOK, LockBuffer, At, Goto, cacheVars, limitVars, NoFalsePanic
<1>5. ASSUME NEW t \in Threads, Bwrite(t) PROVE UsersCounted' /\ NoFalsePanic'
  BY <1>0, <1>5, UsersStay, BwriteStep DEF TypeOK, NoFalsePanic
<1>6. ASSUME NEW t \in Threads, Iderw(t) PROVE UsersCounted' /\ NoFalsePanic'
  BY <1>0, <1>6, UsersStay, IderwStep DEF TypeOK, NoFalsePanic, cacheVars
<1>7. ASSUME NEW t \in Threads, IderwReturns(t) PROVE UsersCounted' /\ NoFalsePanic'
  BY <1>0, <1>7, UsersStay DEF TypeOK, IderwReturns, At, Goto, cacheVars, limitVars, NoFalsePanic
<1>8. ASSUME NEW t \in Threads, BrelseUnlock(t) PROVE UsersCounted' /\ NoFalsePanic'
  BY <1>0, <1>8, UsersStay, BrelseUnlockStep DEF TypeOK, NoFalsePanic, cacheVars
<1>9. ASSUME NEW t \in Threads, BrelseDeref(t) PROVE UsersCounted' /\ NoFalsePanic'
  BY <1>0, <1>9, UserLeaves DEF BrelseDeref, At, Goto, limitVars, NoFalsePanic
<1>10. CASE DriveDone
  BY <1>0, <1>10, UsersStay DEF DriveDone, cacheVars, limitVars, NoFalsePanic
<1>11. CASE DriveFails
  BY <1>0, <1>11, UsersStay DEF DriveFails, cacheVars, NoFalsePanic
<1>12. CASE ideintr
  BY <1>0, <1>12, UsersStay, IdeintrStep DEF limitVars, NoFalsePanic
<1>13. CASE UNCHANGED vars
  BY <1>0, <1>13, UsersStay DEF vars, cacheVars, limitVars, NoFalsePanic
<1> QED BY <1>1, <1>2, <1>3, <1>4, <1>5, <1>6, <1>7, <1>8, <1>9, <1>10, <1>11, <1>12, <1>13
        DEF Next, ThreadStep, Bget, Halted

-----------------------------------------------------------------------------
(* Who holds a buffer *)

(* A step that leaves a holder where it is, leaves it the holder. *)
LEMMA LockSteps == CacheInv /\ [Next]_vars => HolderLocked'
<1> SUFFICES ASSUME CacheInv, [Next]_vars PROVE HolderLocked'
  OBVIOUS
<1>0. TypeOK /\ HolderLocked
  BY DEF CacheInv
<1> USE BufFacts
<1>1. ASSUME NEW t \in Threads, NEW k \in Blocks, NEW i \in Bufs,
             BgetHit(t, k, i) \/ BgetRecycle(t, k, i)
      PROVE  HolderLocked'
  BY <1>0, <1>1 DEF TypeOK, HolderLocked, BgetHit, BgetRecycle, At, Goto
<1>2. ASSUME NEW t \in Threads, LockBuffer(t) PROVE HolderLocked'
  <2>1. PICK label \in {"use", "io"} : pc' = [pc EXCEPT ![t] = label]
    BY <1>2 DEF LockBuffer, Goto
  <2>2. lock[buf[t]] = NULL /\ lock' = [lock EXCEPT ![buf[t]] = t] /\ buf' = buf
    BY <1>2 DEF LockBuffer
  <2> QED BY <1>0, <2>1, <2>2 DEF TypeOK, HolderLocked
<1>3. ASSUME NEW t \in Threads, Bwrite(t) PROVE HolderLocked'
  BY <1>0, <1>3, BwriteStep DEF TypeOK, HolderLocked
<1>4. ASSUME NEW t \in Threads, Iderw(t) PROVE HolderLocked'
  BY <1>0, <1>4, IderwStep DEF TypeOK, HolderLocked
<1>5. ASSUME NEW t \in Threads, IderwReturns(t) PROVE HolderLocked'
  BY <1>0, <1>5 DEF TypeOK, HolderLocked, IderwReturns, At, Goto
<1>6. ASSUME NEW t \in Threads, BrelseUnlock(t) PROVE HolderLocked'
  <2>1. /\ lock[buf[t]] = t /\ lock' = [lock EXCEPT ![buf[t]] = NULL]
        /\ pc' = [pc EXCEPT ![t] = "deref"] /\ buf' = buf
    BY <1>6, BrelseUnlockStep
  <2> SUFFICES ASSUME NEW u \in Threads, pc'[u] \in {"io", "asleep", "use"}
               PROVE  lock'[buf[u]] = u
    BY <2>1 DEF HolderLocked
  <2>2. u # t /\ pc[u] \in {"io", "asleep", "use"}
    BY <1>0, <2>1 DEF TypeOK
  <2>3. lock[buf[u]] = u /\ buf[u] # buf[t] /\ buf[u] \in Bufs
    BY <1>0, <2>1, <2>2 DEF TypeOK, HolderLocked
  <2> QED BY <1>0, <2>1, <2>3 DEF TypeOK
<1>7. ASSUME NEW t \in Threads, BrelseDeref(t) PROVE HolderLocked'
  BY <1>0, <1>7 DEF TypeOK, HolderLocked, BrelseDeref, At, Goto
<1>8. CASE UNCHANGED <<pc, buf, lock>>
  BY <1>0, <1>8 DEF HolderLocked
<1>9. ASSUME NEW t \in Threads, NEW k \in Blocks, BgetPanics(t, k) PROVE UNCHANGED <<pc, buf, lock>>
  BY <1>9 DEF BgetPanics
<1>10. DriveDone \/ DriveFails \/ ideintr \/ UNCHANGED vars => UNCHANGED <<pc, buf, lock>>
  BY DEF DriveDone, DriveFails, ideintr, vars
<1> QED BY <1>1, <1>2, <1>3, <1>4, <1>5, <1>6, <1>7, <1>8, <1>9, <1>10
        DEF Next, ThreadStep, Bget, Halted

(* A thread that waits for unfinished work keeps its buffer. *)
LEMMA HolderStays ==
  ASSUME CacheInv, [Next]_vars, NEW u \in Threads, NEW i \in Bufs,
         Holder(u, i), pc[u] \in {"io", "asleep"}, ~ Finished(i)
  PROVE  /\ Holder(u, i)' /\ pc'[u] \in {"io", "asleep"}
         /\ pc[u] = "asleep" => pc'[u] = "asleep"
<1> DEFINE Stays == UNCHANGED <<lock[i], buf[u], pc[u]>>
<1>0. TypeOK /\ HolderLocked /\ lock[i] = u /\ buf[u] = i
  BY DEF CacheInv, Holder
<1> USE BufFacts
<1>1. ASSUME NEW t \in Threads, NEW k \in Blocks, NEW j \in Bufs,
             BgetHit(t, k, j) \/ BgetRecycle(t, k, j)
      PROVE  Stays
  BY <1>0, <1>1 DEF TypeOK, BgetHit, BgetRecycle, At, Goto
<1>2. ASSUME NEW t \in Threads, LockBuffer(t) PROVE Stays
  <2>1. pc[t] = "lock" /\ lock[buf[t]] = NULL /\ lock' = [lock EXCEPT ![buf[t]] = t] /\ buf' = buf
    BY <1>2 DEF LockBuffer, At
  <2>2. buf[t] # i /\ buf[t] \in Bufs /\ t # u
    BY <1>0, <2>1 DEF TypeOK
  <2>3. pc'[u] = pc[u]
    BY <1>0, <1>2, <2>2 DEF TypeOK, LockBuffer, Goto
  <2> QED BY <1>0, <2>1, <2>2, <2>3 DEF TypeOK
<1>3. ASSUME NEW t \in Threads, Bwrite(t) PROVE Stays
  BY <1>0, <1>3, BwriteStep DEF TypeOK
<1>4. ASSUME NEW t \in Threads, Iderw(t), t # u PROVE Stays
  BY <1>0, <1>4, IderwStep DEF TypeOK
<1>5. CASE Iderw(u)
  BY <1>0, <1>5, IderwStep DEF TypeOK, Holder
<1>6. ASSUME NEW t \in Threads, IderwReturns(t) PROVE Stays
  BY <1>0, <1>6 DEF TypeOK, IderwReturns, At, Goto
<1>7. ASSUME NEW t \in Threads, BrelseUnlock(t) PROVE Stays
  <2>1. /\ pc[t] = "use" /\ lock[buf[t]] = t /\ lock' = [lock EXCEPT ![buf[t]] = NULL]
        /\ pc' = [pc EXCEPT ![t] = "deref"] /\ buf' = buf
    BY <1>7, BrelseUnlockStep
  <2>2. buf[t] # i /\ buf[t] \in Bufs /\ t # u
    BY <1>0, <2>1 DEF TypeOK
  <2> QED BY <1>0, <2>1, <2>2 DEF TypeOK
<1>8. ASSUME NEW t \in Threads, BrelseDeref(t) PROVE Stays
  BY <1>0, <1>8 DEF TypeOK, BrelseDeref, At, Goto
<1>9. ASSUME NEW t \in Threads, NEW k \in Blocks, BgetPanics(t, k) PROVE Stays
  BY <1>9 DEF BgetPanics
<1>10. DriveDone \/ DriveFails \/ ideintr \/ UNCHANGED vars => Stays
  BY DEF DriveDone, DriveFails, ideintr, vars
<1>11. Stays \/ Iderw(u)
  BY <1>1, <1>2, <1>3, <1>4, <1>6, <1>7, <1>8, <1>9, <1>10 DEF Next, ThreadStep, Bget, Halted
<1> QED BY <1>0, <1>5, <1>11 DEF Holder

(* What can happen to the fields of a buffer: nothing, or bget recycles it,  *)
(* its holder writes it, or the interrupt handler completes its request.     *)
Kept(i) == /\ UNCHANGED <<blockno[i], valid[i], dirty[i], data[i]>>
           /\ i \in bad' <=> i \in bad

Recycled(i) == /\ refcnt[i] = 0 /\ ~ dirty[i]
               /\ ~ valid'[i] /\ ~ dirty'[i]
               /\ \A j \in Bufs : blockno[j] # blockno'[i] /\ (j # i => blockno'[j] = blockno[j])

Written(t, i) == /\ buf[t] = i /\ pc[t] = "use" /\ buf' = buf
                 /\ lock[i] = t /\ lock' = lock
                 /\ pc' = [pc EXCEPT ![t] = "io"]
                 /\ dirty'[i] /\ data'[i] \in Contents
                 /\ UNCHANGED <<blockno[i], valid[i]>>

Completed(i) == /\ queue # <<>> /\ i = Head(queue) /\ ideintr
                /\ valid'[i] /\ ~ dirty'[i] /\ blockno'[i] = blockno[i]
                /\ data'[i] = Transferred(i)
                /\ i \in bad' <=> ata = "error"

LEMMA BufferSteps ==
  ASSUME CacheInv, [Next]_vars, NEW i \in Bufs
  PROVE  Kept(i) \/ Recycled(i) \/ (\E t \in Threads : Written(t, i)) \/ Completed(i)
<1>0. TypeOK
  BY DEF CacheInv
<1>1. ASSUME NEW t \in Threads, NEW k \in Blocks, NEW j \in Bufs, BgetHit(t, k, j)
      PROVE  Kept(i)
  BY <1>1 DEF BgetHit, Kept
<1>2. ASSUME NEW t \in Threads, NEW k \in Blocks, NEW j \in Bufs, BgetRecycle(t, k, j)
      PROVE  Kept(i) \/ Recycled(i)
  <2>1. CASE i = j
    <3>1. refcnt[i] = 0 /\ ~ dirty[i]
      BY <1>2, <2>1 DEF BgetRecycle, First, Unused
    <3>2. ~ valid'[i] /\ ~ dirty'[i]
      BY <1>0, <1>2, <2>1 DEF BgetRecycle, TypeOK
    <3>3. blockno'[i] = k /\ \A b \in Bufs : b # i => blockno'[b] = blockno[b]
      BY <1>0, <1>2, <2>1 DEF BgetRecycle, TypeOK
    <3>4. \A b \in Bufs : blockno[b] # k
      BY <1>2 DEF BgetRecycle, Cached
    <3> QED BY <3>1, <3>2, <3>3, <3>4 DEF Recycled
  <2>2. CASE i # j
    BY <1>0, <1>2, <2>2 DEF BgetRecycle, Kept, TypeOK
  <2> QED BY <2>1, <2>2
<1>3. ASSUME NEW t \in Threads, NEW k \in Blocks, BgetPanics(t, k) PROVE Kept(i)
  BY <1>3 DEF BgetPanics, Kept, cacheVars
<1>4. ASSUME NEW t \in Threads, Bwrite(t) PROVE Kept(i) \/ Written(t, i)
  <2>1. CASE i = buf[t]
    <3>1. /\ buf' = buf /\ lock' = lock /\ lock[i] = t /\ pc[t] = "use"
          /\ pc' = [pc EXCEPT ![t] = "io"] /\ blockno' = blockno /\ valid' = valid
      BY <1>4, <2>1, BwriteStep
    <3>2. dirty'[i]
      BY <1>0, <1>4, <2>1, BwriteStep DEF TypeOK
    <3>3. data'[i] \in Contents
      BY <1>0, <1>4, <2>1, BwriteStep, LimitAssumption DEF TypeOK, Contents
    <3> QED BY <2>1, <3>1, <3>2, <3>3 DEF Written
  <2>2. CASE i # buf[t]
    BY <1>0, <1>4, <2>2, BwriteStep DEF Kept, TypeOK
  <2> QED BY <2>1, <2>2
<1>5. ASSUME NEW t \in Threads,
             LockBuffer(t) \/ Iderw(t) \/ IderwReturns(t) \/ BrelseUnlock(t) \/ BrelseDeref(t)
      PROVE  Kept(i)
  BY <1>5 DEF LockBuffer, Iderw, IderwReturns, BrelseUnlock, BrelseDeref, cacheVars, Kept
<1>6. CASE DriveDone \/ DriveFails \/ UNCHANGED vars
  BY <1>6 DEF DriveDone, DriveFails, vars, cacheVars, Kept
<1>7. CASE ideintr
  <2>0. queue # <<>> /\ Head(queue) \in Bufs
    BY <1>7, IdeintrStep, HeadFacts
  <2>1. CASE i = Head(queue)
    <3>1. valid'[i] /\ ~ dirty'[i]
      BY <1>0, <1>7, <2>1, IdeintrStep DEF TypeOK
    <3>2. data'[i] = Transferred(i) /\ blockno'[i] = blockno[i]
      BY <1>0, <1>7, <2>1, IdeintrStep DEF TypeOK
    <3>3. i \in bad' <=> ata = "error"
      BY <1>7, <2>1, IdeintrStep
    <3> QED BY <1>7, <2>0, <2>1, <3>1, <3>2, <3>3 DEF Completed
  <2>2. CASE i # Head(queue)
    <3>1. i \in bad' <=> i \in bad
      BY <1>7, <2>2, IdeintrStep
    <3>2. UNCHANGED <<blockno[i], valid[i], dirty[i], data[i]>>
      BY <1>0, <1>7, <2>2, IdeintrStep DEF TypeOK
    <3> QED BY <3>1, <3>2 DEF Kept
  <2> QED BY <2>1, <2>2
<1> QED BY <1>1, <1>2, <1>3, <1>4, <1>5, <1>6, <1>7 DEF Next, ThreadStep, Bget, Halted

LEMMA DirtySteps == CacheInv /\ [Next]_vars => DirtyHeld'
<1> SUFFICES ASSUME CacheInv, [Next]_vars, NEW i \in Bufs, dirty'[i]
             PROVE  /\ data'[i] \in Contents
                    /\ \E t \in Threads : Holder(t, i)' /\ pc'[t] \in {"io", "asleep"}
  BY DEF DirtyHeld
<1>1. CASE Kept(i)
  <2>1. dirty[i] /\ data'[i] = data[i]
    BY <1>1 DEF Kept
  <2>2. data[i] \in Contents /\ ~ Finished(i)
    BY <2>1 DEF CacheInv, DirtyHeld, Finished
  <2>3. PICK t \in Threads : Holder(t, i) /\ pc[t] \in {"io", "asleep"}
    BY <2>1 DEF CacheInv, DirtyHeld
  <2> QED BY <2>1, <2>2, <2>3, HolderStays
<1>2. ASSUME NEW t \in Threads, Written(t, i)
      PROVE  /\ data'[i] \in Contents /\ Holder(t, i)' /\ pc'[t] \in {"io", "asleep"}
  BY <1>2 DEF Written, Holder, CacheInv, TypeOK
<1>3. ~ Recycled(i) /\ ~ Completed(i)
  BY DEF Recycled, Completed
<1> QED BY <1>1, <1>2, <1>3, BufferSteps

LEMMA IoSteps == CacheInv /\ [Next]_vars => IoHasWork'
<1> SUFFICES ASSUME CacheInv, [Next]_vars, NEW t \in Threads, pc'[t] = "io"
             PROVE  ~ Finished(buf[t])'
  BY DEF IoHasWork
<1>0. TypeOK
  BY DEF CacheInv
<1>1. CASE LockBuffer(t)
  <2>1. ~ valid[buf[t]] /\ valid' = valid /\ buf' = buf
    BY <1>0, <1>1 DEF LockBuffer, Goto, TypeOK, cacheVars
  <2> QED BY <2>1 DEF Finished
<1>2. CASE Bwrite(t)
  <2>1. dirty'[buf[t]] /\ buf' = buf
    BY <1>0, <1>2, BwriteStep DEF TypeOK
  <2> QED BY <2>1 DEF Finished
<1>3. CASE pc[t] = "io" /\ buf'[t] = buf[t]
  <2>0. PICK i \in Bufs : i = buf[t]
    BY <1>0 DEF TypeOK
  <2>1. ~ Finished(i) /\ lock[i] = t
    BY <2>0, <1>3 DEF TypeOK, CacheInv, IoHasWork, HolderLocked
  <2>2. ~ Recycled(i)
    BY <2>0, <1>3, UserHasRef DEF Recycled
  <2>3. ASSUME NEW u \in Threads PROVE ~ Written(u, i)
    BY <1>3, <2>1 DEF Written
  <2>4. ~ Completed(i)
    <3> SUFFICES ASSUME Completed(i) PROVE FALSE
      OBVIOUS
    <3>1. PICK u \in Threads : Holder(u, i) /\ pc[u] = "asleep"
      BY HeadFacts DEF Completed
    <3> QED BY <3>1, <1>3, <2>1 DEF Holder
  <2>5. Kept(i)
    BY <2>1, <2>2, <2>3, <2>4, BufferSteps
  <2>6. ~ (valid'[i] /\ ~ dirty'[i])
    BY <2>1, <2>5 DEF Kept, Finished
  <2> QED BY <2>0, <1>3, <2>6 DEF Finished
<1>4. ~ LockBuffer(t) /\ ~ Bwrite(t) => pc[t] = "io" /\ buf'[t] = buf[t]
  <2> SUFFICES ASSUME ~ LockBuffer(t), ~ Bwrite(t) PROVE pc[t] = "io" /\ buf'[t] = buf[t]
    OBVIOUS
  <2>1. ASSUME NEW u \in Threads, NEW k \in Blocks, NEW j \in Bufs,
               BgetHit(u, k, j) \/ BgetRecycle(u, k, j)
        PROVE  pc[t] = "io" /\ buf'[t] = buf[t]
    BY <1>0, <2>1 DEF TypeOK, BgetHit, BgetRecycle, Goto
  <2>2. ASSUME NEW u \in Threads, u # t, LockBuffer(u) PROVE pc[t] = "io" /\ buf'[t] = buf[t]
    BY <1>0, <2>2 DEF TypeOK, LockBuffer, Goto
  <2>3. ASSUME NEW u \in Threads, u # t, Bwrite(u) PROVE pc[t] = "io" /\ buf'[t] = buf[t]
    BY <1>0, <2>3, BwriteStep DEF TypeOK
  <2>4. ASSUME NEW u \in Threads, Iderw(u) PROVE pc[t] = "io" /\ buf'[t] = buf[t]
    BY <1>0, <2>4, IderwStep DEF TypeOK
  <2>5. ASSUME NEW u \in Threads, IderwReturns(u) PROVE pc[t] = "io" /\ buf'[t] = buf[t]
    BY <1>0, <2>5 DEF TypeOK, IderwReturns, Goto
  <2>6. ASSUME NEW u \in Threads, BrelseUnlock(u) PROVE pc[t] = "io" /\ buf'[t] = buf[t]
    BY <1>0, <2>6, BrelseUnlockStep DEF TypeOK
  <2>7. ASSUME NEW u \in Threads, BrelseDeref(u) PROVE pc[t] = "io" /\ buf'[t] = buf[t]
    BY <1>0, <2>7 DEF TypeOK, BrelseDeref, Goto
  <2>8. ASSUME NEW u \in Threads, NEW k \in Blocks, BgetPanics(u, k)
        PROVE  pc[t] = "io" /\ buf'[t] = buf[t]
    BY <2>8 DEF BgetPanics
  <2>9. DriveDone \/ DriveFails \/ ideintr \/ UNCHANGED vars => pc[t] = "io" /\ buf'[t] = buf[t]
    BY DEF DriveDone, DriveFails, ideintr, vars
  <2> QED BY <2>1, <2>2, <2>3, <2>4, <2>5, <2>6, <2>7, <2>8, <2>9
          DEF Next, ThreadStep, Bget, Halted
<1> QED BY <1>1, <1>2, <1>3, <1>4

-----------------------------------------------------------------------------
(* One buffer per block *)

LEMMA RefSteps ==
  ASSUME CacheInv, [Next]_vars, NEW j \in Bufs, refcnt[j] = 0, refcnt'[j] # 0
  PROVE  Recycled(j) \/ \E k \in Blocks : First(j, Cached(k)) /\ blockno' = blockno
<1>0. TypeOK
  BY DEF CacheInv
<1>1. ASSUME NEW t \in Threads, NEW k \in Blocks, NEW i \in Bufs, BgetHit(t, k, i)
      PROVE  First(j, Cached(k)) /\ blockno' = blockno
  BY <1>0, <1>1 DEF TypeOK, BgetHit
<1>2. ASSUME NEW t \in Threads, NEW k \in Blocks, NEW i \in Bufs, BgetRecycle(t, k, i)
      PROVE  Recycled(j)
  <2>1. j = i
    BY <1>0, <1>2 DEF TypeOK, BgetRecycle
  <2>2. blockno'[j] = k /\ \A b \in Bufs : blockno[b] # k
    BY <1>0, <1>2, <2>1 DEF TypeOK, BgetRecycle, Cached
  <2>3. ~ Kept(j)
    BY <2>2 DEF Kept
  <2>4. \A t1 \in Threads : ~ Written(t1, j)
    BY <2>2 DEF Written
  <2>5. ~ Completed(j)
    BY <2>2 DEF Completed
  <2> QED BY <2>3, <2>4, <2>5, BufferSteps
<1>3. ASSUME NEW t \in Threads, BrelseDeref(t) PROVE FALSE
  <2>1. refcnt' = [refcnt EXCEPT ![buf[t]] = @ - 1] /\ pc[t] = "deref"
    BY <1>3 DEF BrelseDeref, At
  <2>2. refcnt[buf[t]] > 0
    BY <2>1, UserHasRef
  <2> QED BY <1>0, <2>1, <2>2 DEF TypeOK
<1>4. ASSUME NEW t \in Threads,
             LockBuffer(t) \/ Bwrite(t) \/ Iderw(t) \/ IderwReturns(t) \/ BrelseUnlock(t)
      PROVE  FALSE
  BY <1>4 DEF LockBuffer, Bwrite, Iderw, IderwReturns, BrelseUnlock, cacheVars
<1>5. ASSUME NEW t \in Threads, NEW k \in Blocks, BgetPanics(t, k) PROVE FALSE
  BY <1>5 DEF BgetPanics, cacheVars
<1>6. ~ DriveDone /\ ~ DriveFails /\ ~ ideintr /\ ~ UNCHANGED vars
  BY DEF DriveDone, DriveFails, ideintr, vars, cacheVars
<1> QED BY <1>1, <1>2, <1>3, <1>4, <1>5, <1>6 DEF Next, ThreadStep, Bget, Halted

LEMMA ClaimSteps == CacheInv /\ [Next]_vars => FirstClaims'
<1> SUFFICES ASSUME CacheInv, [Next]_vars, NEW i \in Bufs, NEW j \in Bufs,
                    i < j, blockno'[i] = blockno'[j]
             PROVE  refcnt'[j] = 0 /\ ~ valid'[j]
  BY DEF FirstClaims
<1>0. i # j /\ i \in Nat /\ j \in Nat
  BY BufFacts
<1>1. ~ Recycled(i) /\ ~ Recycled(j)
  BY <1>0 DEF Recycled
<1>2. blockno'[i] = blockno[i] /\ blockno'[j] = blockno[j]
  BY <1>1, BufferSteps DEF Kept, Written, Completed
<1>3. refcnt[j] = 0 /\ ~ valid[j]
  BY <1>2 DEF CacheInv, FirstClaims
<1>4. ~ valid'[j]
  <2>1. ASSUME NEW t \in Threads PROVE ~ Written(t, j)
    BY <1>3, UserHasRef DEF Written
  <2>2. ~ Completed(j)
    BY <1>3, HeadFacts DEF Completed
  <2>3. Kept(j)
    BY <1>1, <2>1, <2>2, BufferSteps
  <2> QED BY <1>3, <2>3 DEF Kept
<1>5. refcnt'[j] = 0
  <2> SUFFICES ASSUME refcnt'[j] # 0 PROVE FALSE
    OBVIOUS
  <2>1. PICK k \in Blocks : First(j, Cached(k))
    BY <1>1, <1>3, RefSteps
  <2>2. i \in Cached(k)
    BY <2>1, <1>2 DEF First, Cached
  <2> QED BY <1>0, <2>1, <2>2 DEF First
<1> QED BY <1>4, <1>5

-----------------------------------------------------------------------------
(* The request queue and the drive *)

LEMMA QueueSteps ==
  ASSUME CacheInv, [Next]_vars
  PROVE  UNCHANGED <<queue, entry_count, command>> \/ (\E t \in Threads : Iderw(t)) \/ ideintr
<1>1. ASSUME NEW t \in Threads, NEW k \in Blocks, NEW i \in Bufs,
             BgetHit(t, k, i) \/ BgetRecycle(t, k, i)
      PROVE  UNCHANGED <<queue, entry_count, command>>
  BY <1>1 DEF BgetHit, BgetRecycle, ideVars
<1>2. ASSUME NEW t \in Threads, NEW k \in Blocks, BgetPanics(t, k)
      PROVE  UNCHANGED <<queue, entry_count, command>>
  BY <1>2 DEF BgetPanics, ideVars
<1>3. ASSUME NEW t \in Threads,
             LockBuffer(t) \/ Bwrite(t) \/ IderwReturns(t) \/ BrelseUnlock(t) \/ BrelseDeref(t)
      PROVE  UNCHANGED <<queue, entry_count, command>>
  BY <1>3 DEF LockBuffer, Bwrite, IderwReturns, BrelseUnlock, BrelseDeref, ideVars
<1>4. DriveDone \/ DriveFails \/ UNCHANGED vars => UNCHANGED <<queue, entry_count, command>>
  BY DEF DriveDone, DriveFails, vars, ideVars
<1> QED BY <1>1, <1>2, <1>3, <1>4 DEF Next, ThreadStep, Bget, Halted

(* What the drive does while the queue stays as it is. *)
LEMMA DriveSteps ==
  ASSUME CacheInv, [Next]_vars, ~ ideintr, \A t \in Threads : ~ Iderw(t)
  PROVE  /\ ata' = "ready" <=> ata = "ready"
         /\ DriveDone \/ (disk' = disk /\ (ata' = "done" <=> ata = "done"))
<1>1. ASSUME NEW t \in Threads, NEW k \in Blocks, NEW i \in Bufs,
             BgetHit(t, k, i) \/ BgetRecycle(t, k, i)
      PROVE  UNCHANGED <<ata, disk>>
  BY <1>1 DEF BgetHit, BgetRecycle, ideVars
<1>2. ASSUME NEW t \in Threads, NEW k \in Blocks, BgetPanics(t, k)
      PROVE  UNCHANGED <<ata, disk>>
  BY <1>2 DEF BgetPanics, ideVars
<1>3. ASSUME NEW t \in Threads,
             LockBuffer(t) \/ Bwrite(t) \/ IderwReturns(t) \/ BrelseUnlock(t) \/ BrelseDeref(t)
      PROVE  UNCHANGED <<ata, disk>>
  BY <1>3 DEF LockBuffer, Bwrite, IderwReturns, BrelseUnlock, BrelseDeref, ideVars
<1>4. DriveDone => ata = "busy" /\ ata' = "done"
  BY DEF DriveDone
<1>5. DriveFails => ata = "busy" /\ ata' = "error" /\ disk' = disk
  BY DEF DriveFails
<1>6. UNCHANGED vars => UNCHANGED <<ata, disk>>
  BY DEF vars, ideVars
<1>7. UNCHANGED <<ata, disk>> \/ DriveDone \/ DriveFails
  BY <1>1, <1>2, <1>3, <1>6 DEF Next, ThreadStep, Bget, Halted
<1> QED BY <1>4, <1>5, <1>7

(* The fields of a queued buffer change only when its request completes. *)
LEMMA QueuedKept ==
  ASSUME CacheInv, [Next]_vars, NEW n \in 1 .. Len(queue), NEW b, b = queue[n], ~ Completed(b)
  PROVE  /\ b \in Bufs /\ Kept(b) /\ ~ Finished(b)'
         /\ \E t \in Threads : Holder(t, b)' /\ pc'[t] = "asleep"
<1>1. b \in Bufs /\ refcnt[b] > 0
  BY QueuedFacts
<1>2. PICK t \in Threads : Holder(t, b) /\ pc[t] = "asleep"
  BY DEF CacheInv, QueueWaits
<1>3. ~ Finished(b)
  BY DEF CacheInv, QueueWaits
<1>4. ~ Recycled(b)
  BY <1>1 DEF Recycled
<1>5. ASSUME NEW u \in Threads PROVE ~ Written(u, b)
  BY <1>2 DEF Written, Holder
<1>6. Kept(b)
  BY <1>1, <1>4, <1>5, BufferSteps
<1>7. ~ Finished(b)'
  BY <1>3, <1>6 DEF Kept, Finished
<1> QED BY <1>1, <1>2, <1>3, <1>6, <1>7, HolderStays

LEMMA WaitSteps == CacheInv /\ [Next]_vars => QueueWaits' /\ QueueDistinct'
<1> SUFFICES ASSUME CacheInv, [Next]_vars PROVE QueueWaits' /\ QueueDistinct'
  OBVIOUS
<1> DEFINE Waits(b) == ~ Finished(b)' /\ \E t \in Threads : Holder(t, b)' /\ pc'[t] = "asleep"
<1>0. TypeOK /\ QueueDistinct
  BY DEF CacheInv
<1>1. ASSUME ~ ideintr, \A t \in Threads : ~ Iderw(t) PROVE QueueWaits' /\ QueueDistinct'
  <2>1. queue' = queue
    BY <1>1, QueueSteps
  <2>2. ASSUME NEW n \in 1 .. Len(queue), NEW b, b = queue[n] PROVE Waits(b)
    BY <1>1, <2>2, QueuedKept DEF Completed
  <2>3. QueueWaits'
    BY <2>1, <2>2 DEF QueueWaits
  <2> QED BY <1>0, <2>1, <2>3 DEF QueueDistinct
<1>2. ASSUME NEW t \in Threads, Iderw(t) PROVE QueueWaits' /\ QueueDistinct'
  <2>1. PICK i \in Bufs : i = buf[t]
    BY <1>0 DEF TypeOK
  <2>2. /\ pc[t] = "io" /\ lock[i] = t /\ ~ Finished(i) /\ Enqueue(i)
        /\ pc' = [pc EXCEPT ![t] = "asleep"]
        /\ UNCHANGED <<cacheVars, lock, buf>>
    BY <1>2, <2>1, IderwStep
  <2>3. ~ ideintr
    <3>1. pc' # pc
      BY <1>0, <2>2 DEF TypeOK
    <3> QED BY <3>1 DEF ideintr
  <2>4. Waits(i)
    BY <1>0, <2>1, <2>2 DEF Finished, Holder, TypeOK, cacheVars
  <2>5. ASSUME NEW n \in 1 .. Len(queue) PROVE queue[n] # i
    <3>1. PICK u \in Threads : Holder(u, queue[n]) /\ pc[u] = "asleep"
      BY DEF CacheInv, QueueWaits
    <3> QED BY <2>2, <3>1 DEF Holder
  <2>6. ASSUME NEW n \in 1 .. Len(queue), NEW b, b = queue[n] PROVE Waits(b)
    BY <2>3, <2>6, QueuedKept DEF Completed
  <2>7. /\ Len(queue') = Len(queue) + 1 /\ Len(queue) \in Nat
        /\ \A n \in 1 .. Len(queue) : queue'[n] = queue[n]
        /\ queue'[Len(queue) + 1] = i
    BY <2>2, EnqueueFacts
  <2>8. \A n \in 1 .. Len(queue') : n \in 1 .. Len(queue) \/ n = Len(queue) + 1
    BY <2>7
  <2>9. QueueWaits'
    BY <2>4, <2>6, <2>7, <2>8 DEF QueueWaits
  <2>10. QueueDistinct'
    BY <1>0, <2>5, <2>7, <2>8 DEF QueueDistinct
  <2> QED BY <2>9, <2>10
<1>3. CASE ideintr
  <2>1. queue # <<>> /\ queue' = Tail(queue) /\ Len(queue) \in Nat \ {0} /\ Head(queue) = queue[1]
    BY <1>3, IdeintrStep, HeadFacts
  <2>2. /\ Len(queue') = Len(queue) - 1
        /\ \A n \in 1 .. Len(queue') : queue'[n] = queue[n + 1] /\ n + 1 \in 1 .. Len(queue)
    BY <2>1, TailFacts
  <2>3. ASSUME NEW n \in 1 .. Len(queue'), NEW b, b = queue'[n] PROVE Waits(b)
    <3>1. n + 1 # 1 /\ 1 \in 1 .. Len(queue) /\ n + 1 \in 1 .. Len(queue)
      BY <2>1, <2>2
    <3>2. queue[n + 1] # Head(queue)
      BY <1>0, <2>1, <3>1 DEF QueueDistinct
    <3>3. b = queue[n + 1]
      BY <2>2, <2>3
    <3>4. ~ Completed(b)
      BY <3>2, <3>3 DEF Completed
    <3> QED BY <3>1, <3>3, <3>4, QueuedKept
  <2>4. QueueWaits'
    BY <2>3 DEF QueueWaits
  <2>5. QueueDistinct'
    <3> SUFFICES ASSUME NEW m \in 1 .. Len(queue'), NEW n \in 1 .. Len(queue'),
                        queue'[m] = queue'[n]
                 PROVE  m = n
      BY DEF QueueDistinct
    <3>1. m + 1 = n + 1
      BY <1>0, <2>2 DEF QueueDistinct
    <3> QED BY <3>1
  <2> QED BY <2>4, <2>5
<1> QED BY <1>1, <1>2, <1>3

(* The command that idestart gives the drive. *)
LEMMA Started ==
  ASSUME CacheInv, NEW i \in Bufs, idestart(i)
  PROVE  /\ command' \in Commands /\ ata' = "busy"
         /\ command'.blockno = blockno[i] /\ command'.write = dirty[i]
         /\ command'.data = data[i]
BY DEF CacheInv, TypeOK, idestart, Commands

LEMMA HeadSteps == CacheInv /\ [Next]_vars => DriveServesHead' /\ CommandOfHead'
<1> SUFFICES ASSUME CacheInv, [Next]_vars PROVE DriveServesHead' /\ CommandOfHead'
  OBVIOUS
<1>0. TypeOK /\ DriveServesHead /\ CommandOfHead
  BY DEF CacheInv
<1>1. ASSUME ~ ideintr, \A t \in Threads : ~ Iderw(t) PROVE DriveServesHead' /\ CommandOfHead'
  <2>1. queue' = queue /\ entry_count' = entry_count /\ command' = command
    BY <1>1, QueueSteps
  <2>2. ata' = "ready" <=> ata = "ready"
    BY <1>1, DriveSteps
  <2>3. CASE queue = <<>>
    BY <1>0, <2>1, <2>2, <2>3 DEF DriveServesHead, CommandOfHead
  <2>4. CASE queue # <<>>
    <3>1. PICK b \in Bufs : b = Head(queue) /\ b = queue[1]
      BY <2>4, HeadFacts
    <3>2. 1 \in 1 .. Len(queue)
      BY <2>4, HeadFacts
    <3>3. Kept(b)
      BY <1>1, <3>1, <3>2, QueuedKept DEF Completed
    <3>4. /\ command \in Commands /\ command.blockno = blockno[b] /\ command.write = dirty[b]
          /\ command.data = data[b]
          /\ ata = "done" /\ command.write => disk[command.blockno] = command.data
      BY <1>0, <2>4, <3>1 DEF DriveServesHead, CommandOfHead
    <3>5. DriveServesHead'
      BY <1>0, <2>1, <2>2, <3>1, <3>3, <3>4 DEF DriveServesHead, Kept
    <3>6. ata' = "done" /\ command.write => disk'[command.blockno] = command.data
      <4>1. CASE DriveDone
        BY <1>0, <3>4, <4>1 DEF DriveDone, TypeOK, Commands
      <4>2. CASE disk' = disk /\ (ata' = "done" <=> ata = "done")
        BY <3>4, <4>2
      <4> QED BY <1>1, <4>1, <4>2, DriveSteps
    <3> QED BY <2>1, <3>1, <3>3, <3>4, <3>5, <3>6 DEF CommandOfHead, Kept
  <2> QED BY <2>3, <2>4
<1>2. ASSUME NEW t \in Threads, Iderw(t) PROVE DriveServesHead' /\ CommandOfHead'
  <2>1. PICK i \in Bufs : i = buf[t]
    BY <1>0 DEF TypeOK
  <2>2. /\ Enqueue(i) /\ pc[t] = "io" /\ lock[i] = t
        /\ UNCHANGED <<blockno, dirty, data, disk>>
    BY <1>2, <2>1, IderwStep DEF cacheVars
  <2>3. /\ Len(queue') = Len(queue) + 1 /\ Len(queue) \in Nat
        /\ \A n \in 1 .. Len(queue) : queue'[n] = queue[n]
        /\ queue'[Len(queue) + 1] = i
        /\ queue' # <<>> /\ Head(queue') = queue'[1]
        /\ entry_count' = entry_count + 2
    BY <2>2, EnqueueFacts
  <2>4. entry_count' = 2 * Len(queue')
    <3>1. entry_count = 2 * Len(queue)
      BY <1>0 DEF DriveServesHead
    <3> QED BY <2>3, <3>1
  <2>5. CASE queue = <<>>
    <3>1. Len(queue) = 0
      BY <2>5
    <3>2. Head(queue') = i
      BY <2>3, <3>1
    <3>3. idestart(i)
      BY <2>2, <3>2 DEF Enqueue
    <3>4. /\ command' \in Commands /\ ata' = "busy"
          /\ command'.blockno = blockno[i] /\ command'.write = dirty[i]
          /\ command'.data = data[i]
      BY <3>3, Started
    <3> QED BY <2>2, <2>3, <2>4, <3>2, <3>4 DEF DriveServesHead, CommandOfHead
  <2>6. CASE queue # <<>>
    <3>1. PICK b \in Bufs : b = Head(queue) /\ b = queue[1]
      BY <2>6, HeadFacts
    <3>2. 1 \in 1 .. Len(queue)
      BY <2>6, HeadFacts
    <3>3. b # i
      <4>1. PICK u \in Threads : Holder(u, b) /\ pc[u] = "asleep"
        BY <2>6, <3>1, HeadFacts
      <4> QED BY <2>2, <4>1 DEF Holder
    <3>4. Head(queue') = b
      BY <2>3, <3>1, <3>2
    <3>5. command' = command /\ ata' = ata
      BY <2>2, <3>3, <3>4 DEF Enqueue
    <3>6. /\ command \in Commands /\ command.blockno = blockno[b] /\ command.write = dirty[b]
          /\ command.data = data[b] /\ ata # "ready"
          /\ ata = "done" /\ command.write => disk[command.blockno] = command.data
      BY <1>0, <2>6, <3>1 DEF DriveServesHead, CommandOfHead
    <3> QED BY <2>2, <2>3, <2>4, <3>4, <3>5, <3>6 DEF DriveServesHead, CommandOfHead
  <2> QED BY <2>5, <2>6
<1>3. CASE ideintr
  <2>1. /\ queue # <<>> /\ queue' = Tail(queue) /\ entry_count' = entry_count - 2
        /\ StartNext(Tail(queue))
    BY <1>3, IdeintrStep
  <2>2. Len(queue) \in Nat \ {0} /\ Len(queue') = Len(queue) - 1 /\ Head(queue) = queue[1]
    BY <2>1, HeadFacts, TailFacts
  <2>3. entry_count' = 2 * Len(queue')
    <3>1. entry_count = 2 * Len(queue)
      BY <1>0 DEF DriveServesHead
    <3> QED BY <2>1, <2>2, <3>1
  <2>4. CASE Tail(queue) = <<>>
    <3>1. Len(queue) = 1
      BY <2>1, <2>4, TailFacts
    <3>2. entry_count' = 0
      BY <2>2, <2>3, <3>1
    <3>3. ata' = "ready"
      BY <2>1, <3>2 DEF StartNext, DriveReady
    <3> QED BY <2>1, <2>3, <2>4, <3>3 DEF DriveServesHead, CommandOfHead
  <2>5. CASE Tail(queue) # <<>>
    <3>1. Len(queue) > 1 /\ Head(Tail(queue)) = queue[2]
      BY <2>1, <2>2, <2>5, TailFacts
    <3>2. 1 \in 1 .. Len(queue) /\ 2 \in 1 .. Len(queue)
      BY <2>2, <3>1
    <3>3. PICK b \in Bufs : b = queue[2]
      BY <3>2, QueuedFacts
    <3>4. b # Head(queue)
      BY <2>2, <3>2, <3>3 DEF CacheInv, QueueDistinct
    <3>5. Kept(b)
      BY <3>2, <3>3, <3>4, QueuedKept DEF Completed
    <3>6. entry_count' # 0
      BY <2>2, <2>3, <3>1
    <3>7. idestart(b)
      BY <2>1, <3>1, <3>3, <3>6 DEF StartNext
    <3>8. /\ command' \in Commands /\ ata' = "busy"
          /\ command'.blockno = blockno[b] /\ command'.write = dirty[b]
          /\ command'.data = data[b]
      BY <3>7, Started
    <3>9. Head(queue') = b /\ queue' # <<>>
      BY <2>1, <2>5, <3>1, <3>3
    <3> QED BY <2>3, <3>5, <3>8, <3>9 DEF DriveServesHead, CommandOfHead, Kept
  <2> QED BY <2>4, <2>5
<1> QED BY <1>1, <1>2, <1>3

-----------------------------------------------------------------------------
(* Contents *)

LEMMA InUseIsOneCopy ==
  ASSUME CacheInv, NEW i \in Bufs, NEW j \in Bufs, blockno[i] = blockno[j],
         refcnt[i] > 0 \/ valid[i], refcnt[j] > 0 \/ valid[j]
  PROVE  i = j
<1>1. ~ i < j /\ ~ j < i
  BY DEF CacheInv, FirstClaims
<1> QED BY <1>1, BufFacts

LEMMA ContentSteps == CacheInv /\ [Next]_vars => ContentsAgree'
<1> SUFFICES ASSUME CacheInv, [Next]_vars, NEW i \in Bufs, valid'[i], ~ dirty'[i], i \notin bad'
             PROVE  data'[i] = disk'[blockno'[i]]
  BY DEF ContentsAgree
<1>0. TypeOK
  BY DEF CacheInv
<1>1. CASE Kept(i)
  <2>1. /\ valid[i] /\ ~ dirty[i] /\ i \notin bad
        /\ data'[i] = data[i] /\ blockno'[i] = blockno[i]
    BY <1>1 DEF Kept
  <2>2. data[i] = disk[blockno[i]]
    BY <2>1 DEF CacheInv, ContentsAgree
  <2>3. ideintr \/ (\E t \in Threads : Iderw(t)) => disk' = disk
    BY DEF ideintr, Iderw
  <2>4. CASE DriveDone
    <3>1. queue # <<>>
      BY <2>4 DEF DriveDone, CacheInv, DriveServesHead
    <3>2. PICK b \in Bufs : b = Head(queue) /\ refcnt[b] > 0
      BY <3>1, HeadFacts
    <3>3. command.blockno = blockno[b] /\ command.write = dirty[b]
      BY <3>1, <3>2 DEF CacheInv, DriveServesHead
    <3>4. command.write => blockno[i] # command.blockno
      BY <2>1, <3>2, <3>3, InUseIsOneCopy
    <3>5. blockno[i] \in Blocks
      BY <1>0 DEF TypeOK
    <3>6. disk'[blockno[i]] = disk[blockno[i]]
      BY <1>0, <2>4, <3>4, <3>5 DEF DriveDone, TypeOK
    <3> QED BY <2>1, <2>2, <3>6
  <2>5. CASE ~ DriveDone
    BY <2>1, <2>2, <2>3, <2>5, DriveSteps
  <2> QED BY <2>4, <2>5
<1>2. CASE Completed(i)
  <2>1. ata = "done" /\ disk' = disk /\ data'[i] = Transferred(i) /\ blockno'[i] = blockno[i]
    BY <1>2, IdeintrStep DEF Completed
  <2>2. /\ command.blockno = blockno[i] /\ command.write = dirty[i] /\ command.data = data[i]
        /\ command.write => disk[command.blockno] = command.data
    BY <1>2, <2>1 DEF Completed, CacheInv, DriveServesHead, CommandOfHead
  <2> QED BY <2>1, <2>2 DEF Transferred
<1>3. ~ Recycled(i) /\ \A t \in Threads : ~ Written(t, i)
  BY DEF Recycled, Written
<1> QED BY <1>1, <1>2, <1>3, BufferSteps

-----------------------------------------------------------------------------
(* Theorems *)

(* The invariant that the theorems below are read from. *)
THEOREM CacheInvariant == Spec => []CacheInv
<1>1. CacheInv /\ [Next]_vars => CacheInv'
  BY TypeSteps, CountSteps, LockSteps, DirtySteps, IoSteps, ClaimSteps, WaitSteps, HeadSteps,
     ContentSteps DEF CacheInv
<1> QED BY <1>1, InitCache, PTL DEF Spec

(* Every buffer, request and command of the block cache keeps its type: a    *)
(* reference count never falls below zero, a write never carries a buffer    *)
(* that was not filled to the disk.                                          *)
THEOREM CacheTypes == Spec => []TypeOK
BY CacheInvariant, PTL DEF CacheInv

(* refcnt is the number of threads between bget and the end of brelse, and   *)
(* the panics of bwrite, brelse and iderw are never reached.                 *)
THEOREM ReferencesExact == Spec => []RefcntExact
<1>1. CacheInv => RefcntExact
  BY DEF CacheInv, UsersCounted, NoFalsePanic, RefcntExact
<1> QED BY <1>1, CacheInvariant, PTL

(* A block is cached once, the drive works on the first request of the       *)
(* queue, and a clean valid buffer holds what the disk holds, for any number *)
(* of threads that read, write and recycle.                                  *)
THEOREM Coherence == Spec => []CacheCoherent
<1>1. CacheInv => OneCopy
  BY InUseIsOneCopy DEF OneCopy
<1>2. CacheInv => CacheCoherent
  BY <1>1 DEF CacheInv, ContentsAgree, CacheCoherent
<1> QED BY <1>2, CacheInvariant, PTL

(* A request is queued once and by a thread that holds the buffer's          *)
(* sleeplock and waits for the interrupt: iderw never puts a buffer on the   *)
(* queue twice.                                                              *)
THEOREM RequestsAreHeld == Spec => [](QueueDistinct /\ QueueWaits)
BY CacheInvariant, PTL DEF CacheInv

-----------------------------------------------------------------------------
(* Numbers *)

LEMMA LessThan == \E R : IsWellFoundedOn(R, Nat) /\ \A x, y \in Nat : y < x => <<y, x>> \in R
<1>1. IsWellFoundedOn(OpToRel(<, Nat), Nat)
  BY NatLessThanWellFounded
<1>2. \A x, y \in Nat : y < x => <<y, x>> \in OpToRel(<, Nat)
  BY Zenon DEF OpToRel
<1> WITNESS OpToRel(<, Nat)
<1> QED BY <1>1, <1>2

LEMMA Least == ASSUME NEW T \in SUBSET Nat, T # {} PROVE \E x \in T : \A y \in T : x <= y
<1>1. PICK R : IsWellFoundedOn(R, Nat) /\ \A x, y \in Nat : y < x => <<y, x>> \in R
  BY LessThan
<1>2. PICK x \in T : \A y \in T : ~ (<<y, x>> \in R)
  BY <1>1, WFMin
<1>3. \A y \in T : ~ (y < x)
  BY <1>1, <1>2, Zenon
<1> QED BY <1>3

(* What holds of 0 and of a number whenever it holds of the one before. *)
LEMMA Count ==
    ASSUME NEW n \in Nat, NEW S, 0 \in S, \A i \in 1 .. n : i - 1 \in S => i \in S
    PROVE  n \in S
<1> DEFINE T == {i \in 0 .. n : i \notin S}
<1> SUFFICES ASSUME T # {} PROVE FALSE
  OBVIOUS
<1>1. T \in SUBSET Nat
  OBVIOUS
<1>2. PICK i \in T : \A y \in T : i <= y
  BY <1>1, Least
<1>3. i \in 1 .. n /\ i - 1 \in 0 .. n /\ ~ (i <= i - 1)
  BY <1>2
<1>4. i - 1 \in S
  BY <1>2, <1>3
<1> QED BY <1>2, <1>3, <1>4

(* The powers of two: a table of them up to any number, and Power2 itself. *)
Powers(f, n) == f = [k \in 0 .. n |-> IF k = 0 THEN 1 ELSE 2 * f[k - 1]]

LEMMA PowersExist == ASSUME NEW n \in Nat PROVE \E f : Powers(f, n)
<1> DEFINE S == {k \in 0 .. n : \E f : Powers(f, k)}
<1>1. 0 \in S
  <2>1. PICK f : f = [k \in 0 .. 0 |-> 1]
    OBVIOUS
  <2>2. f = [k \in 0 .. 0 |-> IF k = 0 THEN 1 ELSE 2 * f[k - 1]]
    BY <2>1
  <2> QED BY <2>2 DEF Powers
<1>2. ASSUME NEW k \in 1 .. n, k - 1 \in S PROVE k \in S
  <2>1. PICK f : Powers(f, k - 1)
    BY <1>2
  <2>2. PICK h : h = [i \in 0 .. k |-> IF i = k THEN 2 * f[k - 1] ELSE f[i]]
    OBVIOUS
  <2>3. k # 0 /\ k - 1 \in 0 .. k /\ k - 1 # k /\ k \in 0 .. n
    OBVIOUS
  <2>4. ASSUME NEW i \in 0 .. k PROVE h[i] = IF i = 0 THEN 1 ELSE 2 * h[i - 1]
    <3>1. CASE i = k
      <4>1. h[k - 1] = f[k - 1] /\ h[k] = 2 * f[k - 1]
        BY <2>2, <2>3
      <4> QED BY <2>3, <3>1, <4>1
    <3>2. CASE i # k
      <4>1. i \in 0 .. k - 1 /\ h[i] = f[i]
        BY <2>2, <3>2
      <4>2. ASSUME i # 0 PROVE h[i - 1] = f[i - 1]
        <5>1. i - 1 \in 0 .. k /\ i - 1 # k
          BY <4>1, <4>2
        <5> QED BY <2>2, <5>1
      <4>3. f[i] = IF i = 0 THEN 1 ELSE 2 * f[i - 1]
        BY <2>1, <4>1 DEF Powers
      <4> QED BY <4>1, <4>2, <4>3
    <3> QED BY <3>1, <3>2
  <2>5. h = [i \in 0 .. k |-> IF i = 0 THEN 1 ELSE 2 * h[i - 1]]
    BY <2>2, <2>4, Zenon
  <2> QED BY <2>3, <2>5 DEF Powers
<1>3. n \in S
  <2> HIDE DEF S
  <2> QED BY <1>1, <1>2, Count
<1> QED BY <1>3

LEMMA PowersAgree ==
    ASSUME NEW m \in Nat, NEW n \in Nat, NEW f, Powers(f, m), NEW g, Powers(g, n), m <= n
    PROVE  g[m] = f[m] /\ f[m] \in Nat \ {0}
<1> DEFINE S == {k \in 0 .. m : g[k] = f[k] /\ f[k] \in Nat \ {0}}
<1>1. 0 \in S
  BY DEF Powers
<1>2. ASSUME NEW k \in 1 .. m, k - 1 \in S PROVE k \in S
  <2>1. k \in 0 .. m /\ k \in 0 .. n /\ k # 0
    OBVIOUS
  <2>2. f[k] = 2 * f[k - 1] /\ g[k] = 2 * g[k - 1]
    BY <2>1 DEF Powers
  <2>3. g[k - 1] = f[k - 1] /\ f[k - 1] \in Nat \ {0}
    BY <1>2
  <2> QED BY <2>1, <2>2, <2>3
<1>3. m \in S
  <2> HIDE DEF S
  <2> QED BY <1>1, <1>2, Count
<1> QED BY <1>3

LEMMA Power2Is ==
    /\ Power2[0] = 1
    /\ \A k \in Nat : Power2[k] \in Nat \ {0} /\ Power2[k + 1] = 2 * Power2[k]
<1>1. PICK g : g = [k \in Nat |-> (CHOOSE f : Powers(f, k))[k]]
  OBVIOUS
<1>2. ASSUME NEW k \in Nat, NEW f, Powers(f, k)
      PROVE  g[k] = f[k] /\ g[k] \in Nat \ {0}
  <2>1. PICK c : c = CHOOSE h : Powers(h, k)
    OBVIOUS
  <2>2. Powers(c, k)
    BY <1>2, <2>1
  <2>3. g[k] = c[k]
    BY <1>1, <2>1
  <2> QED BY <1>2, <2>2, <2>3, PowersAgree
<1>3. ASSUME NEW k \in Nat PROVE g[k] = IF k = 0 THEN 1 ELSE 2 * g[k - 1]
  <2>1. PICK f : Powers(f, k)
    BY PowersExist
  <2>2. g[k] = f[k]
    BY <1>2, <2>1
  <2>3. CASE k = 0
    BY <2>1, <2>2, <2>3 DEF Powers
  <2>4. CASE k # 0
    <3>1. k - 1 \in Nat /\ k - 1 <= k /\ k \in 0 .. k
      BY <2>4
    <3>2. PICK h : Powers(h, k - 1)
      BY <3>1, PowersExist
    <3>3. g[k - 1] = h[k - 1]
      BY <1>2, <3>1, <3>2
    <3>4. f[k - 1] = h[k - 1]
      BY <2>1, <3>1, <3>2, PowersAgree
    <3>5. f[k] = 2 * f[k - 1]
      BY <2>1, <2>4, <3>1 DEF Powers
    <3> QED BY <2>2, <2>4, <3>3, <3>4, <3>5
  <2> QED BY <2>3, <2>4
<1>4. g = [k \in Nat |-> IF k = 0 THEN 1 ELSE 2 * g[k - 1]]
  BY <1>1, <1>3, Zenon
<1>5. Power2 = [k \in Nat |-> IF k = 0 THEN 1 ELSE 2 * Power2[k - 1]]
  <2>1. \E f : f = [k \in Nat |-> IF k = 0 THEN 1 ELSE 2 * f[k - 1]]
    BY <1>4, Zenon
  <2> QED BY <2>1 DEF Power2
<1>6. Power2[0] = 1
  BY <1>5
<1>7. ASSUME NEW k \in Nat PROVE Power2[k + 1] = 2 * Power2[k]
  <2>1. k + 1 \in Nat /\ k + 1 # 0 /\ k + 1 - 1 = k
    OBVIOUS
  <2> QED BY <1>5, <2>1
<1>8. ASSUME NEW n \in Nat PROVE Power2[n] \in Nat \ {0}
  <2> DEFINE S == {k \in 0 .. n : Power2[k] \in Nat \ {0}}
  <2>1. 0 \in S
    BY <1>6
  <2>2. ASSUME NEW k \in 1 .. n, k - 1 \in S PROVE k \in S
    <3>1. k - 1 \in Nat /\ k - 1 + 1 = k /\ Power2[k - 1] \in Nat \ {0}
      BY <2>2
    <3>2. Power2[k] = 2 * Power2[k - 1]
      BY <1>7, <3>1
    <3> QED BY <3>1, <3>2
  <2>3. n \in S
    <3> HIDE DEF S
    <3> QED BY <2>1, <2>2, Count
  <2> QED BY <2>3
<1> QED BY <1>6, <1>7, <1>8

(* Division *)
LEMMA DivMod ==
    ASSUME NEW a \in Nat, NEW b \in Nat \ {0}
    PROVE  /\ a \div b \in Nat /\ a % b \in 0 .. b - 1
           /\ a = b * (a \div b) + (a % b)
OBVIOUS

LEMMA Times ==
    ASSUME NEW a \in Nat, NEW b \in Nat, NEW c \in Nat
    PROVE  /\ a <= b => c * a <= c * b
           /\ a < b /\ c # 0 => c * a < c * b
           /\ c # 0 /\ c * a <= c * b => a <= b
           /\ c * a \in Nat /\ a * c = c * a /\ c * (a + b) = c * a + c * b
OBVIOUS

LEMMA DivModUnique ==
    ASSUME NEW b \in Nat \ {0}, NEW q \in Nat, NEW r \in 0 .. b - 1
    PROVE  (b * q + r) \div b = q /\ (b * q + r) % b = r
<1>1. PICK x \in Nat : x = b * q + r
  BY Times
<1>2. PICK d \in Nat, m \in 0 .. b - 1 : d = x \div b /\ m = x % b /\ x = b * d + m
  BY DivMod
<1>3. ASSUME q < d PROVE FALSE
  <2>1. b * (q + 1) <= b * d /\ b * (q + 1) = b * q + b
    BY <1>3, Times
  <2> QED BY <1>1, <1>2, <2>1, Times
<1>4. ASSUME d < q PROVE FALSE
  <2>1. b * (d + 1) <= b * q /\ b * (d + 1) = b * d + b
    BY <1>4, Times
  <2> QED BY <1>1, <1>2, <2>1, Times
<1>5. q = d
  BY <1>3, <1>4
<1> QED BY <1>1, <1>2, <1>5, Times

LEMMA SmallMod == ASSUME NEW w \in Nat \ {0}, NEW x \in 0 .. w - 1 PROVE x % w = x
<1>1. (w * 0 + x) % w = x
  BY DivModUnique
<1> QED BY <1>1

-----------------------------------------------------------------------------
(* The entries of a table before the first 0 *)

LEMMA UpToZeroIs ==
    ASSUME NEW s \in Seq(Nat)
    PROVE  /\ UpToZero(s) \in Seq(Nat) /\ Len(UpToZero(s)) \in 0 .. Len(s)
           /\ \A i \in 1 .. Len(UpToZero(s)) : UpToZero(s)[i] = s[i] /\ s[i] # 0
           /\ Len(UpToZero(s)) < Len(s) => s[Len(UpToZero(s)) + 1] = 0
<1> DEFINE P(k) == (\A i \in 1 .. k : s[i] # 0) /\ (k < Len(s) => s[k + 1] = 0)
           T == {k \in 0 .. Len(s) : k = Len(s) \/ s[k + 1] = 0}
<1>1. Len(s) \in Nat
  OBVIOUS
<1>2. PICK k \in T : \A j \in T : k <= j
  <2>1. T \in SUBSET Nat /\ Len(s) \in T
    BY <1>1
  <2> QED BY <2>1, Least
<1>3. k \in 0 .. Len(s) /\ P(k)
  <2>1. ASSUME NEW i \in 1 .. k, s[i] = 0 PROVE FALSE
    <3>1. i - 1 \in 0 .. Len(s) /\ i - 1 + 1 = i /\ ~ (k <= i - 1)
      BY <1>1, <1>2
    <3>2. i - 1 \in T
      BY <2>1, <3>1
    <3> QED BY <1>2, <3>1, <3>2
  <2> QED BY <1>2, <2>1
<1>4. PICK c : c = CHOOSE j \in 0 .. Len(s) : P(j)
  OBVIOUS
<1>5. c \in 0 .. Len(s) /\ P(c)
  BY <1>3, <1>4
<1>6. UpToZero(s) = SubSeq(s, 1, c)
  BY <1>4 DEF UpToZero
<1>7. SubSeq(s, 1, c) \in Seq(Nat) /\ Len(SubSeq(s, 1, c)) = c /\ \A i \in 1 .. c : SubSeq(s, 1, c)[i] = s[i]
  BY <1>1, <1>5, SubSeqProperties
<1> QED BY <1>5, <1>6, <1>7

-----------------------------------------------------------------------------
(* What is on the disk *)

LEMMA ImageIs ==
    ASSUME image \in Images
    PROVE  /\ ImageTyped(image) /\ NamesConsistent(image)
           /\ \A n \in image.real : image.inode[n].mode = "file" => FileConsistent(image, n)
BY ImageAssumption

LEMMA RealIs ==
    ASSUME image \in Images
    PROVE  /\ image.real \subseteq DOMAIN image.inode \ {0} /\ 2 \in image.real /\ 0 \in DOMAIN image.inode
           /\ NotFound \notin DOMAIN image.inode
<1>1. ImageTyped(image)
  BY ImageIs
<1>2. DOMAIN image.inode \subseteq Nat
  BY <1>1 DEF ImageTyped
<1>3. NotFound \notin DOMAIN image.inode
  BY <1>2 DEF NotFound
<1> QED BY <1>1, <1>3 DEF ImageTyped

LEMMA InodeIs ==
    ASSUME image \in Images, NEW n \in DOMAIN image.inode
    PROVE  /\ n \in Nat
           /\ image.inode[n].mode \in {"file", "dir", "other"}
           /\ image.inode[n].blocks \in [1 .. NDIRECT + 2 -> DOMAIN image.entries \cup {0}]
           /\ image.inode[n].nblocks \in Nat /\ image.inode[n].slack \in Nat
<1>1. image.inode[n] \in [mode : {"file", "dir", "other"},
                          blocks : [1 .. NDIRECT + 2 -> DOMAIN image.entries \cup {0}],
                          nblocks : Nat, slack : Nat]
  BY ImageIs DEF ImageTyped
<1>2. n \in Nat
  BY ImageIs DEF ImageTyped
<1> QED BY <1>1, <1>2

LEMMA BlockIs ==
    ASSUME image \in Images, NEW b \in DOMAIN image.entries
    PROVE  /\ b \in Nat
           /\ image.entries[b] \in Seq([name : STRING, inode : DOMAIN image.inode \cup {0}])
           /\ image.pointers[b] = <<>> \/ image.pointers[b] \in [1 .. NPOINTERS -> DOMAIN image.entries \cup {0}]
BY ImageIs DEF ImageTyped

(* A table of pointers is a sequence of numbers. *)
LEMMA TableIs ==
    ASSUME image \in Images, NEW n \in Nat, NEW s \in [1 .. n -> DOMAIN image.entries \cup {0}]
    PROVE  s \in Seq(Nat) /\ Len(s) = n
<1>1. DOMAIN image.entries \subseteq Nat
  BY BlockIs
<1>2. s \in [1 .. n -> Nat]
  BY <1>1
<1> QED BY <1>2

LEMMA DirectIs ==
    ASSUME image \in Images, NEW n \in DOMAIN image.inode
    PROVE  /\ DirectBlocks(n) \in Seq(Nat) /\ Len(DirectBlocks(n)) \in 0 .. NDIRECT
           /\ \A i \in 1 .. Len(DirectBlocks(n)) :
                 /\ DirectBlocks(n)[i] = image.inode[n].blocks[i]
                 /\ DirectBlocks(n)[i] \in DOMAIN image.entries
<1>1. NDIRECT \in Nat /\ NDIRECT + 2 \in Nat
  BY UnitAssumption
<1>2. PICK s : s = image.inode[n].blocks
  OBVIOUS
<1>3. s \in [1 .. NDIRECT + 2 -> DOMAIN image.entries \cup {0}]
  BY <1>2, InodeIs
<1>4. s \in Seq(Nat) /\ Len(s) = NDIRECT + 2
  BY <1>1, <1>3, TableIs
<1>5. PICK t : t = SubSeq(s, 1, NDIRECT)
  OBVIOUS
<1>6. t \in Seq(Nat) /\ Len(t) = NDIRECT /\ \A i \in 1 .. NDIRECT : t[i] = s[i]
  BY <1>1, <1>4, <1>5, SubSeqProperties
<1>7. PICK u : u = UpToZero(t)
  OBVIOUS
<1>8. u \in Seq(Nat) /\ Len(u) \in 0 .. NDIRECT /\ \A i \in 1 .. Len(u) : u[i] = t[i] /\ t[i] # 0
  BY <1>6, <1>7, UpToZeroIs
<1>9. DirectBlocks(n) = u
  BY <1>2, <1>5, <1>7 DEF DirectBlocks, DirectOf
<1>10. ASSUME NEW i \in 1 .. Len(u) PROVE u[i] = s[i] /\ u[i] \in DOMAIN image.entries
  <2>1. i \in 1 .. NDIRECT /\ i \in 1 .. NDIRECT + 2
    BY <1>1, <1>8
  <2> QED BY <1>3, <1>6, <1>8, <2>1
<1> QED BY <1>2, <1>8, <1>9, <1>10

(* The pointers of an indirect block. *)
LEMMA IndirectIs ==
    ASSUME image \in Images, NEW b \in DOMAIN image.entries, image.pointers[b] # <<>>
    PROVE  /\ image.pointers[b] \in Seq(Nat) /\ Len(image.pointers[b]) = NPOINTERS
           /\ IndirectOf(image, b) \in Seq(Nat) /\ Len(IndirectOf(image, b)) \in 0 .. NPOINTERS
           /\ \A i \in 1 .. Len(IndirectOf(image, b)) :
                 /\ IndirectOf(image, b)[i] = image.pointers[b][i]
                 /\ IndirectOf(image, b)[i] \in DOMAIN image.entries
           /\ ~ Misaligned(b) => Len(IndirectOf(image, b)) = NPOINTERS
<1>1. NPOINTERS \in Nat
  BY UnitAssumption
<1>2. PICK s : s = image.pointers[b]
  OBVIOUS
<1>3. s \in [1 .. NPOINTERS -> DOMAIN image.entries \cup {0}]
  BY <1>2, BlockIs
<1>4. s \in Seq(Nat) /\ Len(s) = NPOINTERS
  BY <1>1, <1>3, TableIs
<1>5. PICK u : u = UpToZero(s)
  OBVIOUS
<1>6. /\ u \in Seq(Nat) /\ Len(u) \in 0 .. NPOINTERS /\ \A i \in 1 .. Len(u) : u[i] = s[i] /\ s[i] # 0
      /\ Len(u) < NPOINTERS => s[Len(u) + 1] = 0
  BY <1>4, <1>5, UpToZeroIs
<1>7. IndirectOf(image, b) = u
  BY <1>2, <1>5 DEF IndirectOf
<1>8. ASSUME NEW i \in 1 .. Len(u) PROVE u[i] \in DOMAIN image.entries
  <2>1. i \in 1 .. NPOINTERS
    BY <1>1, <1>6
  <2> QED BY <1>3, <1>6, <2>1
<1>9. ASSUME ~ Misaligned(b), Len(u) # NPOINTERS PROVE FALSE
  <2>1. Len(u) + 1 \in 1 .. NPOINTERS /\ Len(u) < NPOINTERS
    BY <1>1, <1>6, <1>9
  <2> QED BY <1>2, <1>6, <1>9, <2>1 DEF Misaligned
<1> QED BY <1>2, <1>4, <1>6, <1>7, <1>8, <1>9

-----------------------------------------------------------------------------
(* Directories *)

LEMMA EntryIs ==
    ASSUME NEW N, NEW es \in Seq([name : STRING, inode : N])
    PROVE  /\ Len(es) \in Nat /\ DOMAIN es = 1 .. Len(es)
           /\ \A i \in DOMAIN es : es[i] \in Range(es) /\ es[i].inode \in N
           /\ \A e \in Range(es) : e.inode \in N
<1>1. PICK E : E = [name : STRING, inode : N]
  OBVIOUS
<1>2. es \in Seq(E) /\ \A e \in E : e.inode \in N
  BY <1>1
<1>3. Len(es) \in Nat /\ DOMAIN es = 1 .. Len(es) /\ \A i \in DOMAIN es : es[i] \in E
  BY <1>2
<1> QED BY <1>2, <1>3 DEF Range

(* The inode r a walk over the entries gives for a name is that of one of them. *)
FoundIn(name, es, r) ==
    /\ r # 0 => \E e \in Range(es) : e.name = name /\ e.inode = r
    /\ r = 0 /\ (\A e \in Range(es) : e.inode # 0) => \A e \in Range(es) : e.name # name

LEMMA SearchIs ==
    ASSUME NEW N, NEW es \in Seq([name : STRING, inode : N]), NEW name
    PROVE  Search(name, es) \in N \cup {0} /\ FoundIn(name, es, Search(name, es))
<1>1. PICK r : r = Search(name, es)
  OBVIOUS
<1>2. SUFFICES r \in N \cup {0} /\ FoundIn(name, es, r)
  BY <1>1
<1>3. Len(es) \in Nat /\ DOMAIN es = 1 .. Len(es)
      /\ \A i \in DOMAIN es : es[i] \in Range(es) /\ es[i].inode \in N
  BY EntryIs
<1>4. PICK hit : hit = {i \in DOMAIN es : es[i].name = name /\ \A j \in 1 .. i : es[j].inode # 0}
  OBVIOUS
<1>5. r = IF hit = {} THEN 0 ELSE es[CHOOSE i \in hit : \A j \in hit : i <= j].inode
  BY <1>1, <1>4 DEF Search
<1>6. CASE hit = {}
  <2>1. ASSUME \A e \in Range(es) : e.inode # 0, NEW e \in Range(es), e.name = name PROVE FALSE
    <3>1. PICK i \in DOMAIN es : e = es[i]
      BY DEF Range
    <3>2. \A j \in 1 .. i : j \in DOMAIN es
      BY <1>3
    <3>3. \A j \in 1 .. i : es[j].inode # 0
      BY <1>3, <2>1, <3>2
    <3> QED BY <1>4, <1>6, <2>1, <3>1, <3>3
  <2> QED BY <1>5, <1>6, <2>1 DEF FoundIn
<1>7. CASE hit # {}
  <2>1. hit \in SUBSET Nat
    BY <1>3, <1>4
  <2>2. \E i \in hit : \A j \in hit : i <= j
    BY <1>7, <2>1, Least
  <2>3. PICK i : i = CHOOSE k \in hit : \A j \in hit : k <= j
    OBVIOUS
  <2>4. i \in hit
    BY <2>2, <2>3
  <2>5. i \in DOMAIN es /\ es[i].name = name /\ i \in 1 .. i /\ r = es[i].inode
    BY <1>3, <1>4, <1>5, <1>7, <2>3, <2>4
  <2>6. r # 0
    BY <1>4, <2>4, <2>5
  <2> QED BY <1>3, <2>5, <2>6 DEF FoundIn
<1> QED BY <1>6, <1>7

(* A directory block gives an inode that one of its entries names, unless the  *)
(* memory behind it has one for the name.                                      *)
LEMMA DirectoryIs ==
    ASSUME image \in Images, NEW b \in DOMAIN image.entries, NEW rest \in Rests, NEW name, NEW r,
           r = ext2_read_from_directory(name, b, rest)
    PROVE  /\ r \in DOMAIN image.inode
           /\ Search(name, rest) = 0 => r = Search(name, image.entries[b])
           /\ Search(name, image.entries[b]) # 0 =>
                 \E e \in Range(image.entries[b]) : e.name = name /\ e.inode = Search(name, image.entries[b])
           /\ Search(name, image.entries[b]) = 0 /\ (\A e \in Range(image.entries[b]) : e.inode # 0)
                => \A e \in Range(image.entries[b]) : e.name # name
<1>1. PICK es : es = image.entries[b]
  OBVIOUS
<1>2. es \in Seq([name : STRING, inode : DOMAIN image.inode \cup {0}]) /\ 0 \in DOMAIN image.inode
  BY <1>1, BlockIs, RealIs
<1>3. rest \in Seq([name : STRING, inode : DOMAIN image.inode \cup {0}])
  BY RestAssumption
<1>4. PICK a, c : a = Search(name, es) /\ c = Search(name, rest)
  OBVIOUS
<1>4a. PICK N : N = DOMAIN image.inode /\ N \cup {0} = N
  BY <1>2
<1>5. /\ a \in DOMAIN image.inode
      /\ a # 0 => \E e \in Range(es) : e.name = name /\ e.inode = a
      /\ a = 0 /\ (\A e \in Range(es) : e.inode # 0) => \A e \in Range(es) : e.name # name
  <2>1. es \in Seq([name : STRING, inode : N])
    BY <1>2, <1>4a
  <2>2. Search(name, es) \in N \cup {0} /\ FoundIn(name, es, Search(name, es))
    BY <2>1, SearchIs, Zenon
  <2> QED BY <1>4, <1>4a, <2>2 DEF FoundIn
<1>6. c \in DOMAIN image.inode
  <2>1. rest \in Seq([name : STRING, inode : N])
    BY <1>3, <1>4a
  <2>2. Search(name, rest) \in N \cup {0}
    BY <2>1, SearchIs, Zenon
  <2> QED BY <1>4, <1>4a, <2>2
<1>7. r = a \/ (r = c /\ a = 0)
  BY <1>1, <1>4 DEF ext2_read_from_directory
<1> QED BY <1>1, <1>4, <1>5, <1>6, <1>7

(* What a directory names is an inode of the disk, and one only. *)
LEMMA EntriesAre ==
    ASSUME image \in Images, NEW n \in image.real
    PROVE  /\ image.inode[n].mode = "dir" =>
                 /\ \A e \in EntriesOf(image, n) : e.inode \in image.real /\ e.name # ""
                 /\ \A e, f \in EntriesOf(image, n) : e.name = f.name => e.inode = f.inode
           /\ \A i \in 1 .. Len(DirectBlocks(n)) : \A e \in Range(image.entries[DirectBlocks(n)[i]]) :
                 e.inode # 0 => e \in EntriesOf(image, n)
<1>1. n \in DOMAIN image.inode
  BY RealIs
<1>2. ASSUME NEW i \in 1 .. Len(DirectBlocks(n)), NEW e \in Range(image.entries[DirectBlocks(n)[i]]), e.inode # 0
      PROVE  e \in EntriesOf(image, n)
  <2>1. DirectBlocks(n)[i] \in Range(DirectBlocks(n))
    BY <1>1, DirectIs DEF Range
  <2> QED BY <1>2, <2>1 DEF EntriesOf, DirectBlocks
<1> QED BY <1>2, ImageIs DEF NamesConsistent

LEMMA ChildIs ==
    ASSUME image \in Images, NEW n \in image.real, NEW name
    PROVE  /\ Child(n, name) \in image.real \cup {NotFound}
           /\ Child(NotFound, name) = NotFound
           /\ image.inode[n].mode = "dir" => \A e \in EntriesOf(image, n) : e.name = name => Child(n, name) = e.inode
           /\ (\A e \in EntriesOf(image, n) : e.name # name) => Child(n, name) = NotFound
<1>1. n # NotFound
  BY RealIs
<1>2. Child(NotFound, name) = NotFound
  BY DEF Child
<1>3. CASE (\A e \in EntriesOf(image, n) : e.name # name) \/ image.inode[n].mode # "dir"
  BY <1>2, <1>3 DEF Child
<1>4. CASE (\E e \in EntriesOf(image, n) : e.name = name) /\ image.inode[n].mode = "dir"
  <2>2. PICK c : c = CHOOSE e \in EntriesOf(image, n) : e.name = name
    OBVIOUS
  <2>3. c \in EntriesOf(image, n) /\ c.name = name
    BY <1>4, <2>2
  <2>4. Child(n, name) = c.inode
    BY <1>1, <1>4, <2>2 DEF Child
  <2> QED BY <1>2, <1>4, <2>3, <2>4, EntriesAre
<1> QED BY <1>3, <1>4

-----------------------------------------------------------------------------
(* Lookup *)

RootIsDirectory == image \in Images /\ image.inode[2].mode = "dir"

LEMMA RootIs ==
    ASSUME RootIsDirectory, NEW name, NEW rest \in Rests, NEW r, r = ext2_read_from_root_directory(name, rest)
    PROVE  /\ r \in DOMAIN image.inode
           /\ Search(name, rest) = 0 =>
                 /\ r # 0 => r = Child(2, name)
                 /\ r = 0 /\ NoDeletedEntry => Child(2, name) = NotFound
                 /\ FoundInRoot(name) => r # 0
<1>1. image \in Images /\ 2 \in image.real /\ 2 \in DOMAIN image.inode /\ 0 \in DOMAIN image.inode
  BY RealIs DEF RootIsDirectory
<1>2. PICK bs : bs = DirectBlocks(2)
  OBVIOUS
<1>3. /\ Len(bs) \in Nat /\ DOMAIN bs = 1 .. Len(bs) /\ \A i \in 1 .. Len(bs) : bs[i] \in DOMAIN image.entries
  <2>1. bs \in Seq(Nat)
    BY <1>1, <1>2, DirectIs
  <2>2. \A i \in 1 .. Len(bs) : bs[i] \in DOMAIN image.entries
    BY <1>1, <1>2, DirectIs
  <2> QED BY <2>1, <2>2
<1>4. PICK hit : hit = {i \in DOMAIN bs : ext2_read_from_directory(name, bs[i], rest) # 0}
  OBVIOUS
<1>5. r = IF hit = {} THEN 0 ELSE ext2_read_from_directory(name, bs[CHOOSE i \in hit : \A j \in hit : i <= j], rest)
  BY <1>2, <1>4 DEF ext2_read_from_root_directory
<1>6. CASE hit = {}
  <2>1. ASSUME Search(name, rest) = 0, NoDeletedEntry, NEW e \in EntriesOf(image, 2), e.name = name PROVE FALSE
    <3>1. PICK b \in Range(bs) : e \in Range(image.entries[b])
      BY <1>2 DEF EntriesOf, DirectBlocks
    <3>2. PICK i \in DOMAIN bs : b = bs[i]
      BY DEF Range
    <3>3. b \in DOMAIN image.entries
      BY <1>3, <3>2
    <3>4. \A f \in Range(image.entries[b]) : f.inode # 0
      BY <1>2, <2>1, <3>2 DEF NoDeletedEntry
    <3>5. ext2_read_from_directory(name, b, rest) = 0
      BY <1>4, <1>6, <3>2
    <3>6. Search(name, image.entries[b]) = 0
      BY <1>1, <2>1, <3>3, <3>5, DirectoryIs
    <3> QED BY <1>1, <2>1, <3>1, <3>3, <3>4, <3>6, DirectoryIs
  <2>2. Search(name, rest) = 0 /\ NoDeletedEntry => Child(2, name) = NotFound
    BY <1>1, <2>1, ChildIs
  <2>3. ASSUME Search(name, rest) = 0, FoundInRoot(name) PROVE FALSE
    <3>1. PICK i \in DOMAIN bs : Search(name, image.entries[bs[i]]) # 0
      BY <1>2, <2>3 DEF FoundInRoot
    <3>2. bs[i] \in DOMAIN image.entries
      BY <1>3
    <3>3. ext2_read_from_directory(name, bs[i], rest) # 0
      BY <1>1, <2>3, <3>1, <3>2, DirectoryIs
    <3> QED BY <1>4, <1>6, <3>3
  <2> QED BY <1>1, <1>5, <1>6, <2>2, <2>3
<1>7. CASE hit # {}
  <2>1. hit \in SUBSET Nat
    BY <1>3, <1>4
  <2>2. \E i \in hit : \A j \in hit : i <= j
    BY <1>7, <2>1, Least
  <2>3. PICK i : i = CHOOSE k \in hit : \A j \in hit : k <= j
    OBVIOUS
  <2>4. i \in hit
    BY <2>2, <2>3
  <2>5. i \in 1 .. Len(bs) /\ bs[i] \in DOMAIN image.entries /\ r = ext2_read_from_directory(name, bs[i], rest) /\ r # 0
    BY <1>3, <1>4, <1>5, <1>7, <2>3, <2>4
  <2>6. r \in DOMAIN image.inode
    BY <1>1, <2>5, DirectoryIs
  <2>7. ASSUME Search(name, rest) = 0 PROVE r = Child(2, name)
    <3>1. r = Search(name, image.entries[bs[i]])
      BY <1>1, <2>5, <2>7, DirectoryIs
    <3>2. PICK e \in Range(image.entries[bs[i]]) : e.name = name /\ e.inode = r
      <4>1. PICK b \in DOMAIN image.entries : b = bs[i]
        BY <2>5
      <4>2. Search(name, image.entries[b]) # 0
        BY <2>5, <3>1, <4>1
      <4>3. \E e \in Range(image.entries[b]) : e.name = name /\ e.inode = Search(name, image.entries[b])
        BY <1>1, <4>2, DirectoryIs
      <4> QED BY <3>1, <4>1, <4>3
    <3>3. e \in EntriesOf(image, 2)
      BY <1>1, <1>2, <2>5, <3>2, EntriesAre
    <3> QED BY <1>1, <3>2, <3>3, ChildIs DEF RootIsDirectory
  <2> QED BY <2>5, <2>6, <2>7
<1> QED BY <1>6, <1>7

LEMMA DescendIs ==
    ASSUME image \in Images, NEW n \in DOMAIN image.inode \cup {NotFound}, NEW name, NEW rest \in Rests
    PROVE  /\ Descend(n, name, rest) \in DOMAIN image.inode \cup {NotFound}
           /\ n = NotFound => Descend(n, name, rest) = NotFound
           /\ n \in image.real /\ DirectBlocks(n) # <<>> /\ Search(name, rest) = 0 /\ ~ Misread(n, name)
                => Descend(n, name, rest) = NotFound \/ (Descend(n, name, rest) = Child(n, name) /\ name # "")
           /\ n \in image.real /\ DirectBlocks(n) = <<>> => Descend(n, name, rest) = n
<1>1. CASE n = NotFound
  BY <1>1, RealIs DEF Descend
<1>2. CASE n # NotFound /\ DirectBlocks(n) = <<>>
  BY <1>2 DEF Descend
<1>3. CASE n # NotFound /\ DirectBlocks(n) # <<>>
  <2>1. n \in DOMAIN image.inode
    BY <1>3
  <2>2. DirectBlocks(n) \in Seq(Nat)
    BY <2>1, DirectIs
  <2>3. 1 \in 1 .. Len(DirectBlocks(n))
    BY <1>3, <2>2, EmptySeq
  <2>4. PICK b : b = DirectBlocks(n)[1]
    OBVIOUS
  <2>5. b \in DOMAIN image.entries
    BY <2>1, <2>3, <2>4, DirectIs
  <2>6. PICK r : r = ext2_read_from_directory(name, b, rest)
    OBVIOUS
  <2>7. Descend(n, name, rest) = IF r # 0 THEN r ELSE NotFound
    BY <1>3, <2>4, <2>6 DEF Descend
  <2>8. r \in DOMAIN image.inode
    BY <2>5, <2>6, DirectoryIs
  <2>9. ASSUME n \in image.real, Search(name, rest) = 0, ~ Misread(n, name), r # 0
        PROVE  r = Child(n, name) /\ name # ""
    <3>1. r = Search(name, image.entries[b])
      BY <2>5, <2>6, <2>9, DirectoryIs
    <3>2. image.inode[n].mode = "dir"
      BY <1>3, <2>4, <2>9, <3>1 DEF Misread
    <3>3. PICK e \in Range(image.entries[b]) : e.name = name /\ e.inode = r
      BY <2>5, <2>9, <3>1, DirectoryIs
    <3>4. e \in EntriesOf(image, n)
      BY <2>3, <2>4, <2>9, <3>3, EntriesAre
    <3>5. Child(n, name) = e.inode
      BY <2>9, <3>2, <3>3, <3>4, ChildIs
    <3>6. e.name # ""
      BY <2>9, <3>2, <3>4, EntriesAre
    <3> QED BY <3>3, <3>5, <3>6
  <2> QED BY <1>3, <2>7, <2>8, <2>9
<1> QED BY <1>1, <1>2, <1>3

(* The loop over the names, as a function of the number of its turns. *)
Visits(f, path, n, rest) ==
    f = [k \in 0 .. n |-> IF k = 0 THEN ext2_read_from_root_directory(path[1], rest)
                          ELSE Descend(f[k - 1], NameAt(path, k + 1), rest)]

LEMMA VisitsExist == ASSUME NEW path, NEW rest, NEW n \in Nat PROVE \E f : Visits(f, path, n, rest)
<1> DEFINE S == {k \in 0 .. n : \E f : Visits(f, path, k, rest)}
<1>0. PICK r : r = ext2_read_from_root_directory(path[1], rest)
  OBVIOUS
<1>1. 0 \in S
  <2>1. PICK f : f = [k \in 0 .. 0 |-> r]
    OBVIOUS
  <2>2. f = [k \in 0 .. 0 |-> IF k = 0 THEN r ELSE Descend(f[k - 1], NameAt(path, k + 1), rest)]
    BY <2>1
  <2> QED BY <1>0, <2>2 DEF Visits
<1>2. ASSUME NEW k \in 1 .. n, k - 1 \in S PROVE k \in S
  <2>1. PICK f : Visits(f, path, k - 1, rest)
    BY <1>2
  <2>2. PICK h : h = [i \in 0 .. k |-> IF i = k THEN Descend(f[k - 1], NameAt(path, k + 1), rest) ELSE f[i]]
    OBVIOUS
  <2>3. k # 0 /\ k - 1 \in 0 .. k /\ k - 1 # k /\ k \in 0 .. n
    OBVIOUS
  <2>4. ASSUME NEW i \in 0 .. k PROVE h[i] = IF i = 0 THEN r ELSE Descend(h[i - 1], NameAt(path, i + 1), rest)
    <3>1. CASE i = k
      <4>1. h[k - 1] = f[k - 1] /\ h[k] = Descend(f[k - 1], NameAt(path, k + 1), rest)
        BY <2>2, <2>3
      <4> QED BY <2>3, <3>1, <4>1
    <3>2. CASE i # k
      <4>1. i \in 0 .. k - 1 /\ h[i] = f[i]
        BY <2>2, <3>2
      <4>2. ASSUME i # 0 PROVE h[i - 1] = f[i - 1]
        <5>1. i - 1 \in 0 .. k /\ i - 1 # k
          BY <4>1, <4>2
        <5> QED BY <2>2, <5>1
      <4>3. f[i] = IF i = 0 THEN r ELSE Descend(f[i - 1], NameAt(path, i + 1), rest)
        BY <1>0, <2>1, <4>1 DEF Visits
      <4> QED BY <4>1, <4>2, <4>3
    <3> QED BY <3>1, <3>2
  <2>5. h = [i \in 0 .. k |-> IF i = 0 THEN r ELSE Descend(h[i - 1], NameAt(path, i + 1), rest)]
    BY <2>2, <2>4, Zenon
  <2> QED BY <1>0, <2>3, <2>5 DEF Visits
<1>3. n \in S
  <2> HIDE DEF S
  <2> QED BY <1>1, <1>2, Count
<1> QED BY <1>3

LEMMA VisitedIs == ASSUME NEW path, NEW rest, Len(path) \in Nat PROVE Visits(Visited(path, rest), path, Len(path), rest)
<1>1. \E f : f = [k \in 0 .. Len(path) |-> IF k = 0 THEN ext2_read_from_root_directory(path[1], rest)
                                           ELSE Descend(f[k - 1], NameAt(path, k + 1), rest)]
  <2>1. PICK f : Visits(f, path, Len(path), rest)
    BY VisitsExist
  <2>2. f = [k \in 0 .. Len(path) |-> IF k = 0 THEN ext2_read_from_root_directory(path[1], rest)
                                      ELSE Descend(f[k - 1], NameAt(path, k + 1), rest)]
    BY <2>1, Zenon DEF Visits
  <2> QED BY <2>2, Zenon
<1> DEFINE at[k \in 0 .. Len(path)] ==
               IF k = 0 THEN ext2_read_from_root_directory(path[1], rest) ELSE Descend(at[k - 1], NameAt(path, k + 1), rest)
<1>2. at = [k \in 0 .. Len(path) |-> IF k = 0 THEN ext2_read_from_root_directory(path[1], rest)
                                     ELSE Descend(at[k - 1], NameAt(path, k + 1), rest)]
  BY <1>1
<1>3. Visited(path, rest) = at
  BY DEF Visited
<1> HIDE DEF at
<1> QED BY <1>2, <1>3 DEF Visits

Trails(f, path, n) == f = [k \in 0 .. n |-> IF k = 0 THEN 2 ELSE Child(f[k - 1], path[k])]

LEMMA TrailsExist == ASSUME NEW path, NEW n \in Nat PROVE \E f : Trails(f, path, n)
<1> DEFINE S == {k \in 0 .. n : \E f : Trails(f, path, k)}
<1>1. 0 \in S
  <2>1. PICK f : f = [k \in 0 .. 0 |-> 2]
    OBVIOUS
  <2>2. f = [k \in 0 .. 0 |-> IF k = 0 THEN 2 ELSE Child(f[k - 1], path[k])]
    BY <2>1
  <2> QED BY <2>2 DEF Trails
<1>2. ASSUME NEW k \in 1 .. n, k - 1 \in S PROVE k \in S
  <2>1. PICK f : Trails(f, path, k - 1)
    BY <1>2
  <2>2. PICK h : h = [i \in 0 .. k |-> IF i = k THEN Child(f[k - 1], path[k]) ELSE f[i]]
    OBVIOUS
  <2>3. k # 0 /\ k - 1 \in 0 .. k /\ k - 1 # k /\ k \in 0 .. n
    OBVIOUS
  <2>4. ASSUME NEW i \in 0 .. k PROVE h[i] = IF i = 0 THEN 2 ELSE Child(h[i - 1], path[i])
    <3>1. CASE i = k
      <4>1. h[k - 1] = f[k - 1] /\ h[k] = Child(f[k - 1], path[k])
        BY <2>2, <2>3
      <4> QED BY <2>3, <3>1, <4>1
    <3>2. CASE i # k
      <4>1. i \in 0 .. k - 1 /\ h[i] = f[i]
        BY <2>2, <3>2
      <4>2. ASSUME i # 0 PROVE h[i - 1] = f[i - 1]
        <5>1. i - 1 \in 0 .. k /\ i - 1 # k
          BY <4>1, <4>2
        <5> QED BY <2>2, <5>1
      <4>3. f[i] = IF i = 0 THEN 2 ELSE Child(f[i - 1], path[i])
        BY <2>1, <4>1 DEF Trails
      <4> QED BY <4>1, <4>2, <4>3
    <3> QED BY <3>1, <3>2
  <2>5. h = [i \in 0 .. k |-> IF i = 0 THEN 2 ELSE Child(h[i - 1], path[i])]
    BY <2>2, <2>4, Zenon
  <2> QED BY <2>3, <2>5 DEF Trails
<1>3. n \in S
  <2> HIDE DEF S
  <2> QED BY <1>1, <1>2, Count
<1> QED BY <1>3

LEMMA TrailIs == ASSUME NEW path, Len(path) \in Nat PROVE Trails(TrueTrail(path), path, Len(path))
<1>1. \E f : f = [k \in 0 .. Len(path) |-> IF k = 0 THEN 2 ELSE Child(f[k - 1], path[k])]
  <2>1. PICK f : Trails(f, path, Len(path))
    BY TrailsExist
  <2>2. f = [k \in 0 .. Len(path) |-> IF k = 0 THEN 2 ELSE Child(f[k - 1], path[k])]
    BY <2>1, Zenon DEF Trails
  <2> QED BY <2>2, Zenon
<1> DEFINE at[k \in 0 .. Len(path)] == IF k = 0 THEN 2 ELSE Child(at[k - 1], path[k])
<1>2. at = [k \in 0 .. Len(path) |-> IF k = 0 THEN 2 ELSE Child(at[k - 1], path[k])]
  BY <1>1
<1>3. TrueTrail(path) = at
  BY DEF TrueTrail
<1> HIDE DEF at
<1> QED BY <1>2, <1>3 DEF Trails

(* Names, the empty one among them. *)
Names == STRING \cup {""}

(* Every lookup ends at an inode, if at any. *)
LEMMA FindIs ==
    ASSUME RootIsDirectory, NEW path \in Seq(Names), NEW rest \in Rests
    PROVE  ext2_find_file_inode(path, rest) \in DOMAIN image.inode \cup {NotFound}
<1>1. image \in Images /\ 2 \in DOMAIN image.inode /\ Len(path) \in Nat
  BY ImageIs DEF ImageTyped, RootIsDirectory
<1>2. PICK f : f = Visited(path, rest)
  OBVIOUS
<1>3. Visits(f, path, Len(path), rest)
  BY <1>1, <1>2, VisitedIs
<1> DEFINE S == {k \in 0 .. Len(path) : f[k] \in DOMAIN image.inode \cup {NotFound}}
<1>4. 0 \in S
  <2>1. f[0] = ext2_read_from_root_directory(path[1], rest)
    BY <1>1, <1>3 DEF Visits
  <2>2. f[0] \in DOMAIN image.inode
    BY <2>1, RootIs
  <2> QED BY <1>1, <2>2
<1>5. ASSUME NEW k \in 1 .. Len(path), k - 1 \in S PROVE k \in S
  <2>1. k \in 0 .. Len(path) /\ k # 0
    BY <1>1
  <2>2. f[k] = Descend(f[k - 1], NameAt(path, k + 1), rest)
    BY <1>3, <2>1 DEF Visits
  <2>3. f[k - 1] \in DOMAIN image.inode \cup {NotFound}
    BY <1>5
  <2> QED BY <1>1, <2>1, <2>2, <2>3, DescendIs
<1>6. Len(path) \in S
  <2> HIDE DEF S
  <2> QED BY <1>1, <1>4, <1>5, Count
<1>7. ext2_read_from_root_directory(path[1], rest) \in DOMAIN image.inode
  BY RootIs
<1>8. Visited(path, rest)[Len(path)] \in DOMAIN image.inode \cup {NotFound}
  BY <1>2, <1>6
<1>9. \/ ext2_find_file_inode(path, rest) = 2
      \/ ext2_find_file_inode(path, rest) = NotFound
      \/ ext2_find_file_inode(path, rest) = ext2_read_from_root_directory(path[1], rest)
      \/ ext2_find_file_inode(path, rest) = Visited(path, rest)[Len(path)]
  BY DEF ext2_find_file_inode
<1> QED BY <1>1, <1>7, <1>8, <1>9

(* The inodes along a path are inodes of the disk. *)
LEMMA TrailReal ==
    ASSUME RootIsDirectory, NEW path \in Seq(Names), NEW g, Trails(g, path, Len(path)), NEW k \in 0 .. Len(path)
    PROVE  g[k] \in image.real \cup {NotFound}
<1>1. image \in Images /\ 2 \in image.real /\ Len(path) \in Nat
  BY RealIs DEF RootIsDirectory
<1> DEFINE S == {i \in 0 .. Len(path) : \A j \in 0 .. i : g[j] \in image.real \cup {NotFound}}
<1>2. 0 \in S
  <2>1. g[0] = 2
    BY <1>1 DEF Trails
  <2>2. \A j \in 0 .. 0 : j = 0
    OBVIOUS
  <2> QED BY <1>1, <2>1, <2>2
<1>3. ASSUME NEW i \in 1 .. Len(path), i - 1 \in S PROVE i \in S
  <2>1. i \in 0 .. Len(path) /\ i # 0 /\ i - 1 \in 0 .. i - 1
    BY <1>1
  <2>2. g[i] = Child(g[i - 1], path[i])
    BY <2>1 DEF Trails
  <2>3. g[i - 1] \in image.real \cup {NotFound}
    BY <1>3, <2>1
  <2>4. g[i] \in image.real \cup {NotFound}
    BY <1>1, <2>2, <2>3, ChildIs
  <2>5. \A j \in 0 .. i : j = i \/ j \in 0 .. i - 1
    BY <2>1
  <2> QED BY <1>3, <2>1, <2>4, <2>5
<1>4. Len(path) \in S
  <2> HIDE DEF S
  <2> QED BY <1>1, <1>2, <1>3, Count
<1> QED BY <1>4

(* A lookup along a passable path is never off the trail. *)
LEMMA FindsTrue ==
    ASSUME RootIsDirectory, NEW path \in Seq(Names), NEW rest \in Rests, Passable(path)
    PROVE  /\ ext2_find_file_inode(path, rest) \in {NotFound, TrueLookup(path)}
           /\ Len(path) = 1 /\ NoDeletedEntry => ext2_find_file_inode(path, rest) = TrueLookup(path)
<1>1. image \in Images /\ 2 \in image.real /\ Len(path) \in Nat /\ DOMAIN path = 1 .. Len(path)
  BY RealIs DEF RootIsDirectory
<1>0. PICK L \in Nat : L = Len(path)
  BY <1>1
<1>2. PICK f : f = Visited(path, rest)
  OBVIOUS
<1>3. PICK g : g = TrueTrail(path)
  OBVIOUS
<1>4. Visits(f, path, Len(path), rest) /\ Trails(g, path, Len(path))
  BY <1>1, <1>2, <1>3, TrailIs, VisitedIs
<1>5. g[0] = 2 /\ TrueLookup(path) = g[Len(path)]
  BY <1>1, <1>3, <1>4 DEF Trails, TrueLookup
<1>6. ASSUME path = <<>> PROVE ext2_find_file_inode(path, rest) = TrueLookup(path)
  BY <1>5, <1>6 DEF ext2_find_file_inode
<1>7. ASSUME path # <<>>
      PROVE  1 \in 0 .. Len(path) /\ 1 \in DOMAIN path /\ g[1] = Child(2, path[1])
  <2>1. 1 \in 0 .. Len(path) /\ 1 \in DOMAIN path
    <3>1. Len(path) # 0
      BY <1>7, EmptySeq
    <3> QED BY <1>1, <3>1
  <2> QED BY <1>4, <1>5, <2>1 DEF Trails
<1>12. ASSUME NEW k \in DOMAIN path PROVE Search(path[k], rest) = 0
  <2>1. path[k] \in Range(path)
    BY DEF Range
  <2> QED BY <2>1 DEF Passable, Unread
<1>8. CASE Len(path) = 1
  <2>1. path # <<>>
    <3>1. path = <<>> => Len(path) = 0
      OBVIOUS
    <3> QED BY <1>8, <3>1
  <2>2. PICK r : r = ext2_read_from_root_directory(path[1], rest)
    OBVIOUS
  <2>3. ext2_find_file_inode(path, rest) = IF r = 0 THEN NotFound ELSE r
    BY <1>8, <2>1, <2>2 DEF ext2_find_file_inode
  <2>4. Search(path[1], rest) = 0
    BY <1>7, <1>12, <2>1
  <2> QED BY <1>5, <1>7, <1>8, <2>1, <2>2, <2>3, <2>4, RootIs
<1>9. CASE Len(path) > 1
  <2>1. path # <<>> /\ Len(path) # 1
    <3>1. path = <<>> => Len(path) = 0
      OBVIOUS
    <3>3. Len(path) # 1 /\ Len(path) # 0
      <4>1. L > 1
        BY <1>0, <1>9
      <4>2. L # 1 /\ L # 0
        BY <4>1
      <4> QED BY <1>0, <4>2
    <3> QED BY <3>1, <3>3
  <2>2. /\ Search("", rest) = 0 /\ FoundInRoot(path[1])
        /\ \A k \in 1 .. Len(path) :
              g[k] # NotFound => /\ k < Len(path) => DirectBlocks(g[k]) # <<>>
                                 /\ ~ Misread(g[k], NameAt(path, k + 1))
    BY <1>3, <1>9 DEF Passable, Unread
  <2>3. ext2_find_file_inode(path, rest) = f[Len(path)]
    BY <1>2, <2>1 DEF ext2_find_file_inode
  <2> DEFINE S == {k \in 0 .. Len(path) - 1 : f[k] \in {NotFound, g[k + 1]}}
  <2>4. 0 \in S
    <3>1. f[0] = ext2_read_from_root_directory(path[1], rest)
      BY <1>1, <1>4 DEF Visits
    <3>2. f[0] = g[1]
      <4>1. Search(path[1], rest) = 0
        BY <1>7, <1>12, <2>1
      <4>2. f[0] # 0
        BY <2>2, <3>1, <4>1, RootIs
      <4>3. f[0] = Child(2, path[1])
        BY <3>1, <4>1, <4>2, RootIs
      <4> QED BY <1>7, <2>1, <4>3
    <3> QED BY <1>1, <2>1, <3>2
  <2>5. ASSUME NEW k \in 1 .. Len(path) - 1, k - 1 \in S PROVE k \in S
    <3>1. /\ k \in 0 .. Len(path) - 1 /\ k \in 0 .. Len(path) /\ k + 1 \in 0 .. Len(path)
          /\ k # 0 /\ k + 1 # 0 /\ k + 1 - 1 = k /\ k - 1 + 1 = k /\ k + 1 <= Len(path)
          /\ k \in 1 .. Len(path) /\ k < Len(path) /\ k + 1 \in 1 .. Len(path)
      BY <1>1
    <3>2. f[k] = Descend(f[k - 1], path[k + 1], rest)
      BY <1>4, <3>1 DEF Visits, NameAt
    <3>3. g[k + 1] = Child(g[k], path[k + 1])
      BY <1>4, <3>1 DEF Trails
    <3>4. g[k] \in image.real \cup {NotFound}
      BY <1>4, <3>1, TrailReal
    <3>5. f[k - 1] \in {NotFound, g[k]}
      BY <2>5, <3>1
    <3>6. CASE f[k - 1] = NotFound
      BY <1>1, <3>1, <3>2, <3>6, DescendIs
    <3>7. CASE f[k - 1] # NotFound
      <4>1. f[k - 1] = g[k] /\ g[k] \in image.real /\ g[k] # NotFound
        BY <3>4, <3>5, <3>7
      <4>2. DirectBlocks(g[k]) # <<>> /\ ~ Misread(g[k], path[k + 1])
        BY <2>2, <3>1, <4>1 DEF NameAt
      <4>3. Search(path[k + 1], rest) = 0
        BY <1>1, <1>12, <3>1
      <4>4. g[k] \in DOMAIN image.inode
        BY <1>1, <4>1, RealIs
      <4>5. Descend(g[k], path[k + 1], rest) \in {NotFound, Child(g[k], path[k + 1])}
        BY <1>1, <4>1, <4>2, <4>3, <4>4, DescendIs
      <4> QED BY <3>1, <3>2, <3>3, <4>1, <4>5
    <3> QED BY <3>6, <3>7
  <2>6. Len(path) - 1 \in Nat
    BY <1>1, <2>1
  <2>7. Len(path) - 1 \in S
    <3> HIDE DEF S
    <3> QED BY <2>4, <2>5, <2>6, Count
  <2>8. PICK last : last = g[Len(path)]
    OBVIOUS
  <2>9. last \in image.real \cup {NotFound} /\ f[Len(path) - 1] \in {NotFound, last}
    <3>1. Len(path) - 1 + 1 = Len(path) /\ Len(path) \in 0 .. Len(path)
      BY <1>1
    <3> QED BY <1>4, <2>7, <2>8, <3>1, TrailReal
  <2>10. f[Len(path)] = Descend(f[Len(path) - 1], "", rest) /\ (last # NotFound => ~ Misread(last, ""))
    <3>1. Len(path) \in 0 .. Len(path) /\ Len(path) # 0 /\ ~ (Len(path) + 1 <= Len(path)) /\ Len(path) \in 1 .. Len(path)
      BY <1>1, <2>1
    <3> QED BY <1>4, <2>2, <2>8, <3>1 DEF Visits, NameAt
  <2>11. f[Len(path)] \in {NotFound, last}
    <3>1. CASE f[Len(path) - 1] = NotFound
      BY <1>1, <2>10, <3>1, DescendIs
    <3>2. CASE f[Len(path) - 1] # NotFound
      <4>1. f[Len(path) - 1] = last /\ last \in image.real /\ last # NotFound
        BY <2>9, <3>2
      <4>2. last \in DOMAIN image.inode
        BY <1>1, <4>1, RealIs
      <4> QED BY <1>1, <2>2, <2>10, <4>1, <4>2, DescendIs
    <3> QED BY <3>1, <3>2
  <2> QED BY <1>5, <2>1, <2>3, <2>8, <2>11
<1>10. CASE path = <<>>
  BY <1>6, <1>10
<1>11. Len(path) = 1 \/ Len(path) > 1 \/ path = <<>>
  <2>1. Len(path) = 0 => path = <<>>
    BY EmptySeq
  <2>2. Len(path) = 0 \/ Len(path) = 1 \/ Len(path) > 1
    <3>1. L = 0 \/ L = 1 \/ L > 1
      OBVIOUS
    <3> QED BY <1>0, <3>1
  <2> QED BY <2>1, <2>2
<1> QED BY <1>8, <1>9, <1>10, <1>11

-----------------------------------------------------------------------------
(* Descriptors *)

(* The disk is one of those assumed, and mounted only if it can be. *)
DiskKnown ==
    /\ image \in Images /\ layout \in Layouts /\ mounted \in BOOLEAN
    /\ mounted => MountFailure = "none"

AnyPath == Paths \cup {EmptyPath}

FdTyped == fd \in [Procs -> [Fds -> Descriptors]]

(* A descriptor with a path is in use, and the path leads to something. *)
Leads(path) == Passable(path) => TrueLookup(path) # NotFound

FdNamed ==
    failure # "memory cleared" =>
        \A p \in Procs, i \in Fds, path \in Paths :
            fd[p][i].path = path /\ path # EmptyPath => mounted /\ fd[p][i].in_use /\ Leads(path)

(* What a read delivers is what ext2_read_file finds for the path. *)
Delivered(n) ==
    /\ n # NotFound /\ ~ Unreadable(n) /\ ret.src = ext2_read_file(n)
    /\ ret.off = 0 /\ image.inode[n].mode = "file" => ret.len \in Nat /\ ret.len <= ext2_get_file_size(n)

ReadIs ==
    ret.call = "read" /\ ret.value = 0 =>
        /\ mounted /\ ret.path \in AnyPath
        /\ Passable(ret.path) => Delivered(TrueLookup(ret.path))

FdInv == DiskKnown /\ FdTyped /\ FdNamed /\ ReadIs

LEMMA Larger == ASSUME NEW S, NEW T, S \subseteq T, NEW s \in Seq(S) PROVE s \in Seq(T)
OBVIOUS

LEMMA Alone == ASSUME NEW S, NEW x \in S PROVE <<x>> \in Seq(S)
OBVIOUS

LEMMA PathsAre == AnyPath \subseteq Seq(Names) /\ 0 \in Fds
<1>1. EmptyPath \in Seq(Names)
  BY Alone DEF EmptyPath, Names
<1>2. 0 \in Fds
  BY FdAssumption DEF Fds
<1>3. \A path \in Paths : path \in Seq(STRING)
  BY FdAssumption
<1>4. \A path \in Paths : path \in Seq(Names)
  BY <1>3, Larger DEF Names
<1> QED BY <1>1, <1>2, <1>4 DEF AnyPath

LEMMA MountedIs == ASSUME DiskKnown, mounted PROVE RootIsDirectory
BY DEF DiskKnown, MountFailure, RootIsDirectory

(* What is read from the disk does not change. *)
LEMMA TrailKept ==
    ASSUME image' = image, NEW path
    PROVE  TrueTrail(path)' = TrueTrail(path) /\ TrueLookup(path)' = TrueLookup(path)
BY DEF TrueTrail, TrueLookup, Child, NotFound

LEMMA PassableKept == ASSUME image' = image, NEW path PROVE Passable(path)' = Passable(path)
<1>1. PICK g : g = TrueTrail(path)
  OBVIOUS
<1>2. TrueTrail(path)' = g
  BY <1>1, TrailKept
<1>3. ASSUME NEW n, NEW name PROVE Misread(n, name)' = Misread(n, name)
  BY DEF Misread, DirectBlocks, Search
<1>4. FoundInRoot(path[1])' = FoundInRoot(path[1])
  BY DEF FoundInRoot, DirectBlocks, Search
<1> QED BY <1>1, <1>2, <1>3, <1>4 DEF Passable, Unread, Search, DirectBlocks, NameAt, NotFound

LEMMA DiskKept ==
    ASSUME image' = image, layout' = layout
    PROVE  /\ MountFailure' = MountFailure
           /\ \A path : Leads(path)' = Leads(path)
           /\ \A n : /\ ext2_read_file(n)' = ext2_read_file(n) /\ Unreadable(n)' = Unreadable(n)
                     /\ ext2_get_file_size(n)' = ext2_get_file_size(n)
<1>1. MountFailure' = MountFailure
  BY DEF MountFailure, bgdt_block, TrueBgdtBlock, ext2_disk_sector_to_block, block_size
<1>2. ASSUME NEW path PROVE Leads(path)' = Leads(path)
  BY PassableKept, TrailKept DEF Leads, NotFound
<1>3. ASSUME NEW n PROVE ext2_get_file_size(n)' = ext2_get_file_size(n)
  BY DEF ext2_get_file_size, SizeOf, block_size
<1>4. ASSUME NEW n PROVE ext2_read_file(n)' = ext2_read_file(n)
  BY DEF ext2_read_file, FullDirect, Single, Double, DirectBlocks, Groups,
         ext2_read_single_indirect, ext2_read_double_indirect
<1>5. ASSUME NEW n PROVE Unreadable(n)' = Unreadable(n)
  BY DEF Unreadable, FullDirect, Single, Double, DirectBlocks, Groups, Misaligned,
         Levels, ext2_get_file_size, SizeOf, block_size
<1> QED BY <1>1, <1>2, <1>3, <1>4, <1>5

LEMMA DiskKnownKept ==
    ASSUME DiskKnown, image' = image, layout' = layout, mounted' = mounted
    PROVE  DiskKnown'
BY DiskKept DEF DiskKnown

LEMMA NamedKept ==
    ASSUME FdNamed, image' = image, layout' = layout, mounted' = mounted, fd' = fd,
           failure = "memory cleared" => failure' = "memory cleared"
    PROVE  FdNamed'
BY DiskKept DEF FdNamed

LEMMA DeliveredKept ==
    ASSUME image' = image, layout' = layout, ret' = ret, NEW path
    PROVE  Delivered(TrueLookup(path))' = Delivered(TrueLookup(path))
<1>1. PICK n : n = TrueLookup(path)
  OBVIOUS
<1>2. TrueLookup(path)' = n
  BY <1>1, TrailKept
<1>3. /\ ext2_read_file(n)' = ext2_read_file(n) /\ Unreadable(n)' = Unreadable(n)
      /\ ext2_get_file_size(n)' = ext2_get_file_size(n)
  BY DiskKept
<1>4. Delivered(TrueLookup(path))' = Delivered(n)'
  BY <1>2 DEF Delivered, NotFound
<1> QED BY <1>1, <1>3, <1>4 DEF Delivered, NotFound

LEMMA ReadKept ==
    ASSUME ReadIs, image' = image, layout' = layout, mounted' = mounted,
           ret' = ret \/ ret'.call # "read" \/ ret'.value # 0
    PROVE  ReadIs'
<1> SUFFICES ASSUME ret'.call = "read", ret'.value = 0
             PROVE  ReadIs'
  BY DEF ReadIs
<1>1. ret' = ret
  OBVIOUS
<1>2. /\ mounted /\ ret.path \in AnyPath
      /\ Passable(ret.path) => Delivered(TrueLookup(ret.path))
  BY <1>1 DEF ReadIs
<1>3. PICK path : path = ret.path
  OBVIOUS
<1>4. Passable(path)' = Passable(path) /\ Delivered(TrueLookup(path))' = Delivered(TrueLookup(path))
  BY <1>1, DeliveredKept, PassableKept
<1>5. path = ret'.path
  BY <1>1, <1>3
<1> QED BY <1>1, <1>2, <1>3, <1>4, <1>5 DEF ReadIs, AnyPath, EmptyPath

-----------------------------------------------------------------------------
(* Sizes *)

LEMMA LayoutIs ==
    ASSUME layout \in Layouts
    PROVE  /\ LayoutConsistent(layout)
           /\ layout.log2block_size \in Nat /\ layout.inode_size \in Nat \ {0}
           /\ layout.inodes_per_group \in Nat \ {0} /\ layout.blocks_per_group \in Nat \ {0}
           /\ layout.inode_table \in Seq(Nat) /\ layout.total_blocks \in Nat /\ layout.total_inodes \in Nat
           /\ block_size \in Nat \ {0} /\ block_size = KB * Power2[layout.log2block_size]
<1>1. LayoutConsistent(layout)
  BY LayoutAssumption
<1>2. layout \in [magic : BOOLEAN, log2block_size : Nat, inode_size : Nat \ {0}, inodes_per_group : Nat \ {0},
                  inode_table : Seq(Nat), total_blocks : Nat, blocks_per_group : Nat \ {0}, total_inodes : Nat]
  BY <1>1 DEF LayoutConsistent
<1>3. block_size = KB * Power2[layout.log2block_size]
  BY DEF block_size, BlockSize
<1>4. KB \in Nat \ {0} /\ Power2[layout.log2block_size] \in Nat \ {0}
  BY <1>2, UnitAssumption, Power2Is
<1>5. block_size \in Nat \ {0}
  <2>1. PICK k \in Nat \ {0}, q \in Nat \ {0} : k = KB /\ q = Power2[layout.log2block_size]
    BY <1>4
  <2>2. k * 0 < k * q /\ k * q \in Nat /\ k * 0 = 0
    BY Times
  <2> QED BY <1>3, <2>1, <2>2
<1> QED BY <1>1, <1>2, <1>3, <1>5

(* The size of a file is that of its blocks, less than one block short.        *)
LEMMA FileSize ==
    ASSUME image \in Images, layout \in Layouts, NEW n \in image.real, image.inode[n].mode = "file"
    PROVE  /\ image.inode[n].nblocks \in Nat /\ block_size \in Nat \ {0}
           /\ SizeOf(image.inode[n]) \in Nat /\ ext2_get_file_size(n) = SizeOf(image.inode[n])
           /\ SizeOf(image.inode[n]) <= image.inode[n].nblocks * block_size
           /\ image.inode[n].nblocks # 0 => (image.inode[n].nblocks - 1) * block_size < SizeOf(image.inode[n])
<1>1. PICK total \in Nat, slack \in Nat, bs \in Nat \ {0} :
          total = image.inode[n].nblocks /\ slack = image.inode[n].slack /\ bs = block_size
  BY RealIs, InodeIs, LayoutIs
<1>2. FileConsistent(image, n)
  BY ImageIs
<1>3. slack < bs /\ (total = 0 => slack = 0)
  BY <1>1, <1>2 DEF FileConsistent, block_size
<1>4. total * bs \in Nat /\ (total - 1) * bs = total * bs - bs
  BY Times
<1>5. total # 0 => bs <= total * bs
  <2>1. total # 0 => bs * 1 <= bs * total
    BY Times
  <2>2. bs * 1 = bs /\ bs * total = total * bs
    BY Times
  <2> QED BY <2>1, <2>2
<1>6. SizeOf(image.inode[n]) = total * bs - slack
  BY <1>1 DEF SizeOf
<1>7. total * bs - slack \in Nat /\ total * bs - slack <= total * bs /\ (total # 0 => (total - 1) * bs < total * bs - slack)
  <2>1. PICK x \in Nat : x = total * bs
    BY <1>4
  <2>2. total = 0 => x = 0
    BY <2>1
  <2> QED BY <1>3, <1>4, <1>5, <2>1, <2>2
<1>8. ext2_get_file_size(n) = SizeOf(image.inode[n])
  BY DEF ext2_get_file_size
<1> QED BY <1>1, <1>6, <1>7, <1>8

-----------------------------------------------------------------------------
(* The steps *)

LEMMA FdStart == FdInit => FdInv
<1> SUFFICES ASSUME FdInit PROVE FdInv
  OBVIOUS
<1>1. DiskKnown
  BY DEF FdInit, DiskKnown
<1>2. Free \in Descriptors /\ Free.path = EmptyPath
  BY DEF Free, Descriptors
<1>3. fd = [p \in Procs |-> [i \in Fds |-> Free]]
  BY DEF FdInit, NoTable
<1>4. FdTyped
  BY <1>2, <1>3 DEF FdTyped
<1>5. FdNamed
  BY <1>2, <1>3 DEF FdNamed
<1>6. ret.call = "none"
  BY DEF FdInit, Result
<1> QED BY <1>1, <1>4, <1>5, <1>6 DEF FdInv, ReadIs

(* A call that leaves the descriptors alone and returns something else than    *)
(* the data of a file.                                                         *)
LEMMA QuietStep ==
    ASSUME FdInv, image' = image, layout' = layout, mounted' = mounted, fd' = fd,
           failure = "memory cleared" => failure' = "memory cleared",
           ret' = ret \/ ret'.call # "read" \/ ret'.value # 0
    PROVE  FdInv'
BY DiskKnownKept, NamedKept, ReadKept DEF FdInv, FdTyped, Descriptors, Fds, EmptyPath

LEMMA MountStep == ASSUME FdInv, Mount PROVE FdInv'
<1>1. /\ image' = image /\ layout' = layout /\ fd' = fd /\ ret' = ret /\ ~ mounted
      /\ failure = "none" /\ mounted' = (MountFailure = "none")
  BY DEF Mount, ext2_driver_init, diskVars
<1>2. DiskKnown'
  BY <1>1, DiskKept DEF FdInv, DiskKnown
<1>3. FdTyped'
  BY <1>1 DEF FdInv, FdTyped, Descriptors, Fds, EmptyPath
<1>4. FdNamed'
  BY <1>1 DEF FdInv, FdNamed
<1>5. ReadIs'
  BY <1>1 DEF FdInv, ReadIs
<1> QED BY <1>2, <1>3, <1>4, <1>5 DEF FdInv

(* A step that changes descriptors: each keeps its path or gets one open() saw. *)
LEMMA FdStep ==
    ASSUME FdInv, image' = image, layout' = layout, mounted' = mounted, failure # "memory cleared",
           ret' = ret \/ ret'.call # "read" \/ ret'.value # 0,
           FdTyped',
           \A p \in Procs, i \in Fds :
               \/ fd'[p][i].path = EmptyPath
               \/ \E q \in Procs : fd'[p][i].path = fd[q][i].path /\ (fd[q][i].in_use => fd'[p][i].in_use)
               \/ mounted /\ fd'[p][i].in_use /\ Leads(fd'[p][i].path)
    PROVE  FdInv'
<1>1. DiskKnown' /\ ReadIs'
  BY DiskKnownKept, ReadKept DEF FdInv
<1>2. ASSUME NEW p \in Procs, NEW i \in Fds, NEW path \in Paths, fd'[p][i].path = path, path # EmptyPath
      PROVE  mounted' /\ fd'[p][i].in_use /\ Leads(path)'
  <2>1. Leads(path)' = Leads(path)
    BY DiskKept
  <2>2. CASE \E q \in Procs : fd'[p][i].path = fd[q][i].path /\ (fd[q][i].in_use => fd'[p][i].in_use)
    <3>1. PICK q \in Procs : fd'[p][i].path = fd[q][i].path /\ (fd[q][i].in_use => fd'[p][i].in_use)
      BY <2>2
    <3>2. fd[q][i].path = path
      BY <1>2, <3>1
    <3>3. mounted /\ fd[q][i].in_use /\ Leads(path)
      BY <1>2, <3>2 DEF FdInv, FdNamed
    <3> QED BY <2>1, <3>1, <3>3
  <2>3. CASE mounted /\ fd'[p][i].in_use /\ Leads(fd'[p][i].path)
    BY <1>2, <2>1, <2>3
  <2> QED BY <1>2, <2>2, <2>3
<1>3. FdNamed'
  <2> SUFFICES ASSUME NEW p \in Procs, NEW i \in Fds, NEW path \in Paths, fd'[p][i].path = path, path # EmptyPath
               PROVE  mounted' /\ fd'[p][i].in_use /\ Leads(path)'
    BY DEF FdNamed
  <2> QED BY <1>2
<1> QED BY <1>1, <1>3 DEF FdInv

LEMMA FdIs ==
    ASSUME FdInv
    PROVE  /\ fd \in [Procs -> [Fds -> Descriptors]] /\ Free \in Descriptors /\ Free.path = EmptyPath
           /\ \A p \in Procs, i \in Fds : fd[p][i] \in Descriptors
BY DEF FdInv, FdTyped, Descriptors, Free

(* open() found the path in some lookup. *)
LEMMA OpenedLeads ==
    ASSUME DiskKnown, mounted, NEW path \in AnyPath, MayExist(path)
    PROVE  Leads(path)
<1> SUFFICES ASSUME Passable(path) PROVE TrueLookup(path) # NotFound
  BY DEF Leads
<1>1. \E r \in Rests : ext2_file_exists(path, r) \/ ext2_dir_exists(path, r)
  <2>1. SUFFICES ASSUME \A r \in Rests : ~ ext2_file_exists(path, r) /\ ~ ext2_dir_exists(path, r) PROVE FALSE
    OBVIOUS
  <2>2. \A r \in Rests : ext2_file_exists(path, r) = FALSE /\ ext2_dir_exists(path, r) = FALSE
    BY <2>1 DEF ext2_file_exists, ext2_dir_exists
  <2>3. {ext2_file_exists(path, r) : r \in Rests} = {FALSE} /\ {ext2_dir_exists(path, r) : r \in Rests} = {FALSE}
    BY <2>2, RestAssumption
  <2>4. Lookups(path) = {FALSE} \X {FALSE}
    BY <2>3 DEF Lookups
  <2>5. {FALSE} \X {FALSE} = {<<FALSE, FALSE>>}
    OBVIOUS
  <2> QED BY <2>4, <2>5 DEF MayExist
<1>2. PICK r \in Rests : ext2_file_exists(path, r) \/ ext2_dir_exists(path, r)
  BY <1>1
<1>3. ext2_find_file_inode(path, r) # NotFound
  BY <1>2 DEF ext2_file_exists, ext2_dir_exists, ModeOf, ext2_find_file_inode, NotFound
<1>4. RootIsDirectory /\ path \in Seq(Names)
  BY MountedIs, PathsAre
<1> QED BY <1>3, <1>4, FindsTrue

LEMMA OpenAgainStep ==
    ASSUME FdInv, NEW p \in Procs, NEW path \in AnyPath, OpenAgain(p, path) PROVE FdInv'
<1>1. PICK i \in Fds : fd' = [fd EXCEPT ![p][i].in_use = TRUE] /\ ret' = Result("open", i, EmptyPath, 0, <<>>, 0)
  BY DEF OpenAgain, Matching, Returns
<1>2. image' = image /\ layout' = layout /\ mounted' = mounted /\ failure # "memory cleared"
  BY DEF OpenAgain, diskVars, Ready
<1>3. ret'.call # "read"
  BY <1>1 DEF Result
<1>4. PICK d : d = [fd[p][i] EXCEPT !.in_use = TRUE]
  OBVIOUS
<1>5. d \in Descriptors /\ d.path = fd[p][i].path /\ d.in_use
  BY <1>4, FdIs DEF Descriptors
<1>6. fd' = [fd EXCEPT ![p][i] = d]
  BY <1>1, <1>4
<1>7. ASSUME NEW q \in Procs, NEW j \in Fds
      PROVE  fd'[q][j].path = fd[q][j].path /\ (fd[q][j].in_use => fd'[q][j].in_use)
  BY <1>5, <1>6, FdIs
<1>8. fd' \in [Procs -> [Fds -> Descriptors]]
  BY <1>5, <1>6, FdIs
<1>9. FdTyped'
  BY <1>8 DEF FdTyped, Descriptors, Fds, EmptyPath
<1> QED BY <1>2, <1>3, <1>7, <1>9, FdStep

LEMMA OpenNewStep ==
    ASSUME FdInv, NEW p \in Procs, NEW path \in AnyPath, OpenNew(p, path) PROVE FdInv'
<1>1. image' = image /\ layout' = layout /\ mounted' = mounted /\ mounted /\ failure # "memory cleared"
  BY DEF OpenNew, diskVars, Panic, Ready
<1>2. CASE fd' = fd /\ (ret' = ret \/ ret'.call = "open")
  BY <1>1, <1>2, QuietStep
<1>3. CASE /\ MayExist(path) /\ ret'.call = "open"
           /\ fd' = [fd EXCEPT ![p][0] = [in_use |-> TRUE, path |-> path]]
  <2>1. PICK d : d = [in_use |-> TRUE, path |-> path]
    OBVIOUS
  <2>2. d \in Descriptors /\ d.path = path /\ d.in_use
    BY <2>1 DEF Descriptors, AnyPath
  <2>3. fd' = [fd EXCEPT ![p][0] = d] /\ 0 \in Fds
    BY <1>3, <2>1, PathsAre
  <2>4. ASSUME NEW q \in Procs, NEW j \in Fds
        PROVE  \/ fd'[q][j].path = fd[q][j].path /\ (fd[q][j].in_use => fd'[q][j].in_use)
               \/ mounted /\ fd'[q][j].in_use /\ Leads(fd'[q][j].path)
    <3>1. CASE q = p /\ j = 0
      <4>1. fd'[q][j] = d
        BY <2>3, <3>1, FdIs
      <4>2. Leads(path)
        BY <1>1, <1>3, OpenedLeads DEF FdInv
      <4> QED BY <1>1, <2>2, <4>1, <4>2
    <3>2. CASE ~ (q = p /\ j = 0)
      BY <2>3, <3>2, FdIs
    <3> QED BY <3>1, <3>2
  <2>5. fd' \in [Procs -> [Fds -> Descriptors]]
    BY <2>2, <2>3, FdIs
  <2>6. FdTyped'
    BY <2>5 DEF FdTyped, Descriptors, Fds, EmptyPath
  <2>7. ret'.call # "read"
    BY <1>3
  <2> QED BY <1>1, <2>4, <2>6, <2>7, FdStep
<1>4. Returns("open", UINT64_MAX) \/ Returns("open", 0) => ret'.call = "open"
  BY DEF Returns, Result
<1> QED BY <1>2, <1>3, <1>4 DEF OpenNew, Panic

(* The amount of a read from offset 0. *)
LEMMA AmountIs ==
    ASSUME NEW size \in Nat, NEW rcx \in Counts
    PROVE  ToRead(size, rcx, 0) \in Nat /\ ToRead(size, rcx, 0) <= size
<1>1. PICK w \in Nat \ {0} : w = WORD64
  BY FdAssumption
<1>2. PICK c \in 0 .. w - 1 : c = rcx
  BY <1>1, FdAssumption
<1>3. c % w = c /\ 0 + c = c /\ size - 0 = size
  BY SmallMod
<1>4. CASE c > size
  <2>1. size \in 0 .. w - 1
    BY <1>4
  <2>2. size % w = size
    BY <2>1, SmallMod
  <2> QED BY <1>1, <1>2, <1>3, <1>4, <2>2 DEF ToRead
<1>5. CASE ~ (c > size)
  BY <1>1, <1>2, <1>3, <1>5 DEF ToRead
<1> QED BY <1>4, <1>5

(* What read() returns with success is the file the path names. *)
LEMMA ReadDelivered ==
    ASSUME DiskKnown, mounted, NEW path \in AnyPath, Passable(path),
           NEW r \in Rests, NEW s \in Rests, NEW size, NEW n, NEW rcx \in Counts, NEW r8 \in Counts,
           size = PathToFileSize(path, r), size # UINT64_MAX,
           n = InodeRead(path, s), n # NotFound, n # Panicked,
           ret' = Result("read", 0, path, r8, ext2_read_file(n), ToRead(size, rcx, r8)),
           image' = image, layout' = layout
    PROVE  Delivered(TrueLookup(path))'
<1>1. RootIsDirectory /\ path \in Seq(Names) /\ image \in Images /\ layout \in Layouts
  BY MountedIs, PathsAre DEF DiskKnown
<1>2. n = ext2_find_file_inode(path, s) /\ ~ ReadPanics(n, s)
  BY DEF InodeRead
<1>3. n = TrueLookup(path)
  BY <1>1, <1>2, FindsTrue
<1>4. ASSUME image.inode[n].mode = "file" PROVE size = ext2_get_file_size(n) /\ size \in Nat
  <2>1. PICK m : m = ext2_find_file_inode(path, r)
    OBVIOUS
  <2>2. m \in {NotFound, n}
    BY <1>1, <1>3, <2>1, FindsTrue
  <2>3. m # NotFound
    <3>1. SUFFICES ASSUME m = NotFound PROVE FALSE
      OBVIOUS
    <3>2. path # <<>>
      BY <2>1, <3>1 DEF ext2_find_file_inode, NotFound
    <3>3. ModeOf(path, r) = "none"
      BY <2>1, <3>1 DEF ModeOf
    <3>4. ~ ext2_file_exists(path, r) /\ ~ ext2_dir_exists(path, r)
      BY <3>2, <3>3 DEF ext2_file_exists, ext2_dir_exists
    <3> QED BY <3>4 DEF PathToFileSize
  <2>4. ModeOf(path, r) = "file"
    BY <1>4, <2>1, <2>2, <2>3 DEF ModeOf
  <2>5. size = ext2_get_file_size(n)
    BY <2>1, <2>2, <2>3, <2>4 DEF PathToFileSize, ext2_file_exists
  <2>6. n \in image.real
    <3>1. Trails(TrueTrail(path), path, Len(path)) /\ Len(path) \in 0 .. Len(path)
      BY <1>1, TrailIs
    <3> QED BY <1>1, <1>3, <3>1, TrailReal DEF TrueLookup
  <2> QED BY <1>1, <1>4, <2>5, <2>6, FileSize
<1>5. /\ ret'.src = ext2_read_file(n) /\ ret'.off = r8 /\ ret'.len = ToRead(size, rcx, r8)
  BY DEF Result
<1>6. r8 = 0 /\ image.inode[n].mode = "file" => ret'.len \in Nat /\ ret'.len <= ext2_get_file_size(n)
  BY <1>4, <1>5, AmountIs
<1>7. /\ ext2_read_file(n)' = ext2_read_file(n) /\ Unreadable(n)' = Unreadable(n)
      /\ ext2_get_file_size(n)' = ext2_get_file_size(n)
  BY DiskKept
<1>8. ~ Unreadable(n)
  BY <1>2 DEF ReadPanics
<1>9. TrueLookup(path)' = n
  BY <1>3, TrailKept
<1>10. Delivered(TrueLookup(path))' = Delivered(n)'
  BY <1>9 DEF Delivered, NotFound
<1>11. Delivered(n)'
  BY <1>5, <1>6, <1>7, <1>8 DEF Delivered, NotFound
<1> QED BY <1>10, <1>11

LEMMA ReadStep == ASSUME FdInv, NEW d \in Descriptors, read(d) PROVE FdInv'
<1>1. /\ image' = image /\ layout' = layout /\ mounted' = mounted /\ fd' = fd
      /\ mounted /\ failure # "memory cleared"
  BY DEF read, diskVars, Panic, Ready
<1>2. PICK path \in AnyPath : path = d.path
  BY DEF Descriptors, AnyPath
<1>3. PICK size \in {PathToFileSize(path, r) : r \in Rests}, n \in {InodeRead(path, r) : r \in Rests} :
         \/ ret' = ret \/ Returns("read", UINT64_MAX)
         \/ /\ size # UINT64_MAX /\ n # NotFound /\ n # Panicked
            /\ \E rcx, r8 \in Counts :
                  ret' = Result("read", 0, path, r8, ext2_read_file(n), ToRead(size, rcx, r8))
  BY <1>2 DEF read, Panic
<1>4. Returns("read", UINT64_MAX) => ret'.value # 0
  BY DEF Returns, Result, UINT64_MAX
<1>5. CASE ret' = ret \/ Returns("read", UINT64_MAX)
  BY <1>1, <1>4, <1>5, QuietStep
<1>6. CASE /\ size # UINT64_MAX /\ n # NotFound /\ n # Panicked
           /\ \E rcx, r8 \in Counts :
                 ret' = Result("read", 0, path, r8, ext2_read_file(n), ToRead(size, rcx, r8))
  <2>1. PICK rcx \in Counts, r8 \in Counts :
            ret' = Result("read", 0, path, r8, ext2_read_file(n), ToRead(size, rcx, r8))
    BY <1>6
  <2>2. PICK r \in Rests, s \in Rests : size = PathToFileSize(path, r) /\ n = InodeRead(path, s)
    BY <1>3
  <2>3. ret'.path = path
    BY <2>1 DEF Result
  <2>4. Passable(path)' = Passable(path)
    BY <1>1, PassableKept
  <2>5. ASSUME Passable(path) PROVE Delivered(TrueLookup(path))'
    BY <1>1, <1>6, <2>1, <2>2, <2>5, ReadDelivered DEF FdInv
  <2>6. ReadIs'
    BY <1>1, <2>3, <2>4, <2>5 DEF ReadIs, AnyPath, EmptyPath
  <2>7. DiskKnown' /\ FdNamed' /\ FdTyped'
    BY <1>1, DiskKnownKept, NamedKept DEF FdInv, FdTyped, Descriptors, Fds, EmptyPath
  <2> QED BY <2>6, <2>7 DEF FdInv
<1> QED BY <1>3, <1>5, <1>6

LEMMA FstatStep == ASSUME FdInv, NEW d \in Descriptors, fstat(d) PROVE FdInv'
<1>1. image' = image /\ layout' = layout /\ mounted' = mounted /\ fd' = fd /\ failure' = failure
  BY DEF fstat, diskVars
<1>2. ret'.call = "fstat"
  BY DEF fstat, Returns, Result
<1> QED BY <1>1, <1>2, QuietStep

LEMMA CloseStep == ASSUME FdInv, NEW p \in Procs, NEW i \in Fds, close(p, i) PROVE FdInv'
<1>1. /\ image' = image /\ layout' = layout /\ mounted' = mounted /\ fd' = [fd EXCEPT ![p][i] = Free]
      /\ failure # "memory cleared"
  BY DEF close, diskVars, Ready
<1>2. ret'.call = "close"
  BY DEF close, Returns, Result
<1>3. fd' \in [Procs -> [Fds -> Descriptors]]
  BY <1>1, FdIs
<1>4. FdTyped'
  BY <1>3 DEF FdTyped, Descriptors, Fds, EmptyPath
<1>5. ASSUME NEW q \in Procs, NEW j \in Fds PROVE fd'[q][j].path = EmptyPath \/ fd'[q][j] = fd[q][j]
  <2>1. fd'[q][j] = Free \/ fd'[q][j] = fd[q][j]
    BY <1>1, FdIs
  <2> QED BY <2>1, FdIs
<1> QED BY <1>1, <1>2, <1>4, <1>5, FdStep

LEMMA CloseOutsideStep == ASSUME FdInv, CloseOutside PROVE FdInv'
<1>1. image' = image /\ layout' = layout /\ mounted' = mounted /\ failure' = "memory cleared"
  BY DEF CloseOutside, diskVars
<1>2. ret'.call = "close"
  BY DEF CloseOutside, Returns, Result
<1>3. fd' \in [Procs -> [Fds -> Descriptors]]
  <2>1. CASE fd' = fd
    BY <2>1, FdIs
  <2>2. CASE fd' # fd
    <3>1. PICK q \in Procs, j \in -1 .. MAX_FILE_DESC - 1, path \in Paths \cup {EmptyPath}, next \in BOOLEAN :
              fd' = [fd EXCEPT ![q] = Cleared(fd[q], j, path, next)]
      BY <2>2 DEF CloseOutside
    <3>2. ASSUME NEW i \in Fds PROVE Cleared(fd[q], j, path, next)[i] \in Descriptors
      <4>1. fd[q][i] \in Descriptors
        BY FdIs
      <4>2. [fd[q][i] EXCEPT !.path = path] \in Descriptors
        BY <4>1 DEF Descriptors
      <4>3. \A x \in Paths \cup {EmptyPath} : [in_use |-> FALSE, path |-> x] \in Descriptors
        BY DEF Descriptors
      <4>4. fd[q][i].path \in Paths \cup {EmptyPath}
        BY <4>1 DEF Descriptors
      <4>5. (IF next THEN EmptyPath ELSE fd[q][i].path) \in Paths \cup {EmptyPath}
        BY <4>4
      <4> QED BY <4>1, <4>2, <4>3, <4>5 DEF Cleared
    <3>3. Cleared(fd[q], j, path, next) \in [Fds -> Descriptors]
      BY <3>2 DEF Cleared
    <3> QED BY <3>1, <3>3, FdIs
  <2> QED BY <2>1, <2>2
<1>4. FdTyped'
  BY <1>3 DEF FdTyped, Descriptors, Fds, EmptyPath
<1>5. DiskKnown' /\ ReadIs'
  BY <1>1, <1>2, DiskKnownKept, ReadKept DEF FdInv
<1> QED BY <1>1, <1>4, <1>5 DEF FdInv, FdNamed

LEMMA ForkStep == ASSUME FdInv, NEW p \in Procs, NEW q \in Procs, ForkDescriptors(p, q) PROVE FdInv'
<1>1. /\ image' = image /\ layout' = layout /\ mounted' = mounted /\ ret' = ret /\ fd' = [fd EXCEPT ![q] = fd[p]]
      /\ failure # "memory cleared"
  BY DEF ForkDescriptors, diskVars, Ready
<1>2. fd' \in [Procs -> [Fds -> Descriptors]]
  BY <1>1, FdIs
<1>3. FdTyped'
  BY <1>2 DEF FdTyped, Descriptors, Fds, EmptyPath
<1>4. ASSUME NEW r \in Procs, NEW j \in Fds PROVE \E s \in Procs : fd'[r][j] = fd[s][j]
  BY <1>1, FdIs
<1> QED BY <1>1, <1>3, <1>4, FdStep

LEMMA FreeStep == ASSUME FdInv, NEW p \in Procs, ProcessFreeFileDescriptors(p) PROVE FdInv'
<1>1. /\ image' = image /\ layout' = layout /\ mounted' = mounted /\ ret' = ret /\ fd' = [fd EXCEPT ![p] = NoTable]
      /\ failure # "memory cleared"
  BY DEF ProcessFreeFileDescriptors, diskVars, Ready
<1>2. NoTable \in [Fds -> Descriptors] /\ \A i \in Fds : NoTable[i].path = EmptyPath
  BY FdIs DEF NoTable
<1>3. fd' \in [Procs -> [Fds -> Descriptors]]
  BY <1>1, <1>2, FdIs
<1>4. FdTyped'
  BY <1>3 DEF FdTyped, Descriptors, Fds, EmptyPath
<1>5. ASSUME NEW q \in Procs, NEW j \in Fds PROVE fd'[q][j].path = EmptyPath \/ fd'[q][j] = fd[q][j]
  BY <1>1, <1>2, FdIs
<1> QED BY <1>1, <1>4, <1>5, FdStep

LEMMA FdNextStep == FdInv /\ [FdNext]_fdVars => FdInv'
<1> SUFFICES ASSUME FdInv, [FdNext]_fdVars PROVE FdInv'
  OBVIOUS
<1>1. CASE UNCHANGED fdVars \/ FdHalted
  BY <1>1, QuietStep DEF fdVars, diskVars, FdHalted
<1>2. CASE Mount
  BY <1>2, MountStep
<1>3. CASE \E p \in Procs : \E path \in AnyPath : OpenAgain(p, path) \/ OpenNew(p, path)
  BY <1>3, OpenAgainStep, OpenNewStep
<1>4. CASE \E d \in Descriptors : read(d) \/ fstat(d)
  BY <1>4, ReadStep, FstatStep
<1>5. CASE \E p \in Procs : \/ \E i \in Fds : close(p, i)
                           \/ \E q \in Procs : ForkDescriptors(p, q)
                           \/ ProcessFreeFileDescriptors(p)
  BY <1>5, CloseStep, ForkStep, FreeStep
<1>6. CASE CloseOutside
  BY <1>6, CloseOutsideStep
<1>7. CASE FaultOutside
  BY <1>7, QuietStep DEF FaultOutside, Panic, Ready, diskVars
<1> QED BY <1>1, <1>2, <1>3, <1>4, <1>5, <1>6, <1>7 DEF FdNext, AnyPath

-----------------------------------------------------------------------------
(* What the invariant gives *)

(* A lookup never ends at a wrong inode (ext2_find_file_inode), for any        *)
(* consistent disk, whatever its data reads as, any memory behind the blocks   *)
(* and any passable path, and finds every file of a root directory without     *)
(* deleted entries.                                                            *)
THEOREM LookupsSound == FdSpec => []LookupSound
<1>1. ASSUME FdInv PROVE LookupSound
  <2> SUFFICES ASSUME mounted, NEW path \in Paths, NEW r \in Rests, Passable(path)
               PROVE  /\ ext2_find_file_inode(path, r) \in {NotFound, TrueLookup(path)}
                      /\ Len(path) = 1 /\ NoDeletedEntry => ext2_find_file_inode(path, r) = TrueLookup(path)
    BY DEF LookupSound
  <2>1. RootIsDirectory
    BY <1>1, MountedIs DEF FdInv
  <2>2. path \in Seq(Names)
    BY PathsAre DEF AnyPath
  <2> QED BY <2>1, <2>2, FindsTrue
<1> QED BY <1>1, FdStart, FdNextStep, PTL DEF FdSpec

(* A descriptor with a path is in use and, if its path is passable, names a    *)
(* file or directory that is on the disk, whatever was opened, closed, forked  *)
(* and freed before, with valid numbers or not, by any number of processes:    *)
(* until a close clears memory outside the table.                              *)
THEOREM DescriptorsNameFiles == FdSpec => []DescriptorNamesFile
<1>1. ASSUME FdInv PROVE DescriptorNamesFile
  <2> SUFFICES ASSUME failure # "memory cleared", NEW p \in Procs, NEW i \in Fds, fd[p][i].path # EmptyPath
               PROVE  /\ fd[p][i].in_use
                      /\ Passable(fd[p][i].path) => TrueLookup(fd[p][i].path) # NotFound
    BY DEF DescriptorNamesFile
  <2>1. PICK path \in Paths : path = fd[p][i].path /\ path # EmptyPath
    BY <1>1, FdIs DEF Descriptors
  <2>2. fd[p][i].in_use /\ Leads(path)
    BY <1>1, <2>1 DEF FdInv, FdNamed
  <2> QED BY <2>1, <2>2 DEF Leads
<1> QED BY <1>1, FdStart, FdNextStep, PTL DEF FdSpec

-----------------------------------------------------------------------------
(* Addresses *)

LEMMA Assoc == ASSUME NEW a \in Nat, NEW b \in Nat, NEW c \in Nat PROVE (a * b) * c = a * (b * c) /\ (a * b) * c \in Nat
OBVIOUS

LEMMA Multiple == ASSUME NEW a \in Nat, NEW b \in Nat \ {0}, a % b = 0 PROVE \E q \in Nat : a = b * q
<1>1. a \div b \in Nat /\ a = b * (a \div b) + (a % b)
  BY DivMod
<1>2. PICK q \in Nat : q = a \div b
  BY <1>1
<1>3. b * q \in Nat
  BY Times
<1>4. a = b * q + 0
  BY <1>1, <1>2
<1> QED BY <1>3, <1>4

LEMMA MultipleMod == ASSUME NEW s \in Nat \ {0}, NEW q \in Nat, NEW x \in Nat PROVE (s * q + x) % s = x % s
<1>1. PICK d \in Nat, m \in 0 .. s - 1 : d = x \div s /\ m = x % s /\ x = s * d + m
  BY DivMod
<1>2. s * q + x = s * (q + d) + m
  BY <1>1
<1>3. (s * (q + d) + m) % s = m
  BY DivModUnique
<1> QED BY <1>1, <1>2, <1>3

(* A block is a whole number of sectors. *)
LEMMA BlockOfSectors ==
    ASSUME layout \in Layouts
    PROVE  \E q \in Nat : block_size = DISK_SECTOR_SIZE * q
<1>1. PICK s \in Nat \ {0}, k \in Nat, e \in Nat :
          s = DISK_SECTOR_SIZE /\ k = KB /\ e = Power2[layout.log2block_size] /\ k % s = 0
  BY LayoutIs, UnitAssumption, Power2Is
<1>2. PICK d \in Nat : k = s * d
  BY <1>1, Multiple
<1>3. k * e = s * (d * e) /\ d * e \in Nat
  BY <1>2, Assoc
<1> QED BY <1>1, <1>3, LayoutIs

(* The group of an inode is one of the groups. *)
LEMMA GroupIs ==
    ASSUME NEW per \in Nat \ {0}, NEW total \in Nat, NEW n \in 1 .. total
    PROVE  /\ (n - 1) \div per \in Nat /\ (n - 1) % per \in 0 .. per - 1
           /\ n - 1 = per * ((n - 1) \div per) + ((n - 1) % per)
           /\ ((n - 1) \div per) + 1 <= DivCeil(total, per)
<1>1. n - 1 \in Nat /\ total + per - 1 \in Nat
  OBVIOUS
<1>2. PICK g \in Nat, r \in 0 .. per - 1 : g = (n - 1) \div per /\ r = (n - 1) % per /\ n - 1 = per * g + r
  BY <1>1, DivMod
<1>3. PICK c \in Nat, m \in 0 .. per - 1 : c = (total + per - 1) \div per /\ total + per - 1 = per * c + m
  BY <1>1, DivMod
<1>4. ASSUME c < g + 1 PROVE FALSE
  <2>1. per * (c + 1) <= per * (g + 1) /\ per * (c + 1) = per * c + per /\ per * (g + 1) = per * g + per
    BY <1>4, Times
  <2>2. per * c \in Nat /\ per * g \in Nat
    BY Times
  <2>3. c <= g
    BY <1>4
  <2>4. per * c <= per * g
    BY <2>3, Times
  <2> QED BY <1>2, <1>3, <2>2, <2>4
<1>5. g + 1 <= c
  BY <1>4
<1> QED BY <1>2, <1>3, <1>5 DEF DivCeil

LEMMA InodeOnDisk ==
    ASSUME layout \in Layouts, MountFailure = "none", layout.total_blocks * block_size <= WORD,
           NEW n \in 1 .. layout.total_inodes,
           NEW g, g = (n - 1) \div layout.inodes_per_group,
           NEW byte, byte = layout.inode_table[g + 1] * block_size
                            + (n - 1 - g * layout.inodes_per_group) * layout.inode_size
    PROVE  InodePlace(n) = <<DEVICE_START + byte \div DISK_SECTOR_SIZE, byte % DISK_SECTOR_SIZE>>
<1>1. PICK per \in Nat \ {0}, isize \in Nat \ {0}, bs \in Nat \ {0}, total \in Nat, w \in Nat \ {0}, s \in Nat \ {0} :
          /\ per = layout.inodes_per_group /\ isize = layout.inode_size /\ bs = block_size
          /\ total = layout.total_blocks /\ w = WORD /\ s = DISK_SECTOR_SIZE
  BY LayoutIs, UnitAssumption
<1>2. /\ g \in Nat /\ (n - 1) % per \in 0 .. per - 1 /\ n - 1 = per * g + ((n - 1) % per)
      /\ g + 1 <= DivCeil(layout.total_inodes, per)
  BY <1>1, LayoutIs, GroupIs
<1>3. PICK r \in 0 .. per - 1 : r = (n - 1) % per /\ n - 1 = per * g + r
  BY <1>2
<1>4. g + 1 \in DOMAIN layout.inode_table
  <2>1. DivCeil(layout.total_blocks, layout.blocks_per_group) = DivCeil(layout.total_inodes, layout.inodes_per_group)
    BY DEF MountFailure
  <2>2. Len(layout.inode_table) = DivCeil(layout.total_inodes, per) /\ Len(layout.inode_table) \in Nat
    BY <1>1, <2>1, LayoutIs DEF LayoutConsistent
  <2>3. g + 1 \in 1 .. Len(layout.inode_table)
    <3>1. PICK L \in Nat : L = Len(layout.inode_table)
      BY <2>2
    <3>2. g + 1 <= L
      BY <1>2, <2>2, <3>1
    <3>3. g + 1 \in 1 .. L
      BY <1>2, <3>2
    <3> QED BY <3>1, <3>3
  <2> QED BY <2>3, LayoutIs
<1>5. PICK t \in Nat : t = layout.inode_table[g + 1]
  BY <1>4, LayoutIs
<1>6. t * bs + per * isize <= total * bs
  BY <1>1, <1>4, <1>5, LayoutIs DEF LayoutConsistent, block_size
<1>7. t * bs \in Nat /\ r * isize \in Nat /\ per * isize \in Nat /\ r * isize < per * isize
  <2>1. isize * r < isize * per /\ isize * r \in Nat /\ isize * per \in Nat /\ bs * t \in Nat
    BY Times
  <2> QED BY <2>1, Times
<1>8. byte = t * bs + r * isize
  <2>1. g * per = per * g
    BY <1>2, Times
  <2>2. n - 1 - g * per = r
    BY <1>2, <1>3, <2>1, Times
  <2> QED BY <1>1, <1>5, <2>2
<1>9. byte \in 0 .. w - 1
  <2>1. total * bs <= w
    BY <1>1
  <2> QED BY <1>6, <1>7, <1>8, <2>1, Times
<1>10. ext2_GetInodeOffset(n) = byte % w
  <2>1. bs * t = t * bs
    BY Times
  <2> QED BY <1>1, <1>3, <1>5, <1>8, <2>1 DEF ext2_GetInodeOffset, ext2_GetInodeBlockGroup, ext2_GetInodeBlockGroupIndex
<1>11. byte % w = byte
  BY <1>9, SmallMod
<1>12. byte % s = (r * isize) % s
  <2>1. PICK q \in Nat : bs = s * q
    BY <1>1, BlockOfSectors
  <2>2. t * bs = s * (q * t) /\ q * t \in Nat
    BY <2>1, Assoc, Times
  <2>3. PICK x \in Nat, y \in Nat : x = r * isize /\ y = q * t
    BY <1>7, <2>2
  <2>4. (s * y + x) % s = x % s
    BY MultipleMod
  <2>5. byte = s * y + x
    BY <1>8, <2>2, <2>3
  <2> QED BY <2>3, <2>4, <2>5
<1>13. InodePlace(n) = <<DEVICE_START + byte \div s, (r * isize) % s>>
  BY <1>1, <1>3, <1>10, <1>11 DEF InodePlace, ext2_GetInodeBlockGroupIndex
<1> QED BY <1>1, <1>12, <1>13

LEMMA BlockOnDisk ==
    ASSUME layout \in Layouts, layout.total_blocks * block_size <= WORD, NEW b \in 0 .. layout.total_blocks - 1
    PROVE  ext2_block_to_disk_sector(b) = DEVICE_START + (b * block_size) \div DISK_SECTOR_SIZE
<1>1. PICK bs \in Nat \ {0}, total \in Nat, w \in Nat \ {0} :
          bs = block_size /\ total = layout.total_blocks /\ w = WORD
  BY LayoutIs, UnitAssumption
<1>2. b \in Nat /\ b < total
  BY <1>1
<1>3. bs * b < bs * total /\ bs * b \in Nat /\ bs * b = b * bs /\ bs * total = total * bs
  BY <1>2, Times
<1>4. total * bs <= w
  BY <1>1
<1>5. b * bs \in 0 .. w - 1
  <2>1. PICK x \in Nat, y \in Int : x = b * bs /\ y = total * bs
    BY <1>2, <1>3
  <2> QED BY <1>3, <1>4, <2>1
<1>6. (b * bs) % w = b * bs
  BY <1>5, SmallMod
<1> QED BY <1>1, <1>6 DEF ext2_block_to_disk_sector

(* Blocks and inodes are read from where they are stored                       *)
(* (ext2_block_to_disk_sector, ext2_GetInodeOffset, ext2_read_inode), for every *)
(* consistent layout of a mounted disk of less than 4 GB.                      *)
THEOREM AddressesAreExact == FdSpec => []AddressesExact
<1>1. ASSUME FdInv PROVE AddressesExact
  <2> SUFFICES ASSUME mounted, layout.total_blocks * block_size <= WORD
               PROVE  AddressesExact
    BY DEF AddressesExact
  <2>1. layout \in Layouts /\ MountFailure = "none"
    BY <1>1 DEF FdInv, DiskKnown
  <2>2. ASSUME NEW b \in 0 .. layout.total_blocks - 1
        PROVE  ext2_block_to_disk_sector(b) = DEVICE_START + (b * block_size) \div DISK_SECTOR_SIZE
    BY <2>1, BlockOnDisk
  <2>3. ASSUME NEW n \in 1 .. layout.total_inodes
        PROVE  LET g    == (n - 1) \div layout.inodes_per_group
                   byte == layout.inode_table[g + 1] * block_size
                           + (n - 1 - g * layout.inodes_per_group) * layout.inode_size
               IN InodePlace(n) = <<DEVICE_START + byte \div DISK_SECTOR_SIZE, byte % DISK_SECTOR_SIZE>>
    BY <2>1, InodeOnDisk
  <2> QED BY <2>2, <2>3 DEF AddressesExact
<1> QED BY <1>1, FdStart, FdNextStep, PTL DEF FdSpec

-----------------------------------------------------------------------------
(* Files *)

LEMMA Join ==
    ASSUME NEW S, NEW a \in Seq(S), NEW b \in Seq(S), NEW m \in Nat, NEW n \in Nat, m = Len(a), n = Len(b)
    PROVE  /\ a \o b \in Seq(S) /\ Len(a \o b) = m + n
           /\ \A i \in 1 .. m : (a \o b)[i] = a[i]
           /\ \A i \in 1 .. n : (a \o b)[m + i] = b[i]
<1>1. /\ a \o b \in Seq(S) /\ Len(a \o b) = m + n
      /\ \A i \in 1 .. m + n : (a \o b)[i] = IF i <= m THEN a[i] ELSE b[i - m]
  BY ConcatProperties
<1>2. ASSUME NEW i \in 1 .. m PROVE (a \o b)[i] = a[i]
  <2>1. i \in 1 .. m + n /\ i <= m
    OBVIOUS
  <2> QED BY <1>1, <2>1
<1>3. ASSUME NEW i \in 1 .. n PROVE (a \o b)[m + i] = b[i]
  <2>1. m + i \in 1 .. m + n /\ ~ (m + i <= m) /\ m + i - m = i
    OBVIOUS
  <2> QED BY <1>1, <2>1
<1> QED BY <1>1, <1>2, <1>3

(* The doubly indirect blocks of a file that read() does not panic on. *)
LEMMA DoubleIs ==
    ASSUME image \in Images, NEW n \in image.real, image.inode[n].mode = "file",
           ~ Unreadable(n), Double(n) # 0, FullDirect(n)
    PROVE  /\ Len(Groups(Double(n))) \in Nat \ {0}
           /\ ext2_read_double_indirect(Double(n)) \in Seq(Int)
           /\ Len(ext2_read_double_indirect(Double(n))) = Len(Groups(Double(n))) * NPOINTERS
           /\ (Len(Groups(Double(n))) - 1) * NPOINTERS + Len(IndirectOf(image, Groups(Double(n))[Len(Groups(Double(n)))]))
              = Len(Groups(Double(n))) * NPOINTERS
           /\ Len(Groups(Double(n))) = 1 =>
                \A i \in 1 .. NPOINTERS :
                    ext2_read_double_indirect(Double(n))[i] = image.pointers[image.pointers[Double(n)][1]][i]
<1>1. PICK b, G, m : b = Double(n) /\ G = Groups(b) /\ m = Len(G)
  OBVIOUS
<1>2. NPOINTERS \in Nat /\ NDIRECT \in Nat
  BY UnitAssumption
<1>3. b \in DOMAIN image.entries
  <2>1. NDIRECT + 2 \in 1 .. NDIRECT + 2
    BY <1>2
  <2>2. image.inode[n].blocks[NDIRECT + 2] \in DOMAIN image.entries \cup {0}
    BY <2>1, RealIs, InodeIs
  <2> QED BY <1>1, <2>2 DEF Double
<1>4. FileConsistent(image, n)
  BY ImageIs
<1>5. m > 0 /\ \A i \in DOMAIN G : image.pointers[G[i]] # <<>>
  BY <1>1, <1>4 DEF FileConsistent, Double, Groups
<1>6. image.pointers[b] # <<>>
  <2>1. SUFFICES ASSUME image.pointers[b] = <<>> PROVE FALSE
    OBVIOUS
  <2>2. <<>> \in Seq(Nat) /\ Len(<<>>) = 0
    BY EmptySeq
  <2>3. G = UpToZero(<<>>)
    BY <1>1, <2>1 DEF Groups, IndirectOf
  <2>4. Len(G) \in 0 .. 0
    BY <2>2, <2>3, UpToZeroIs
  <2> QED BY <1>1, <1>5, <2>4
<1>7. /\ G \in Seq(Nat) /\ m \in 0 .. NPOINTERS
      /\ \A i \in 1 .. m : G[i] = image.pointers[b][i] /\ G[i] \in DOMAIN image.entries
  BY <1>1, <1>3, <1>6, IndirectIs DEF Groups
<1>8. m \in Nat \ {0} /\ DOMAIN G = 1 .. m /\ m \in 1 .. m
  BY <1>1, <1>5, <1>7
<1>9. PICK last, P : last = G[m] /\ P = image.pointers[last]
  OBVIOUS
<1>10. ~ Misaligned(last) /\ last \in DOMAIN image.entries /\ image.pointers[last] # <<>>
  BY <1>1, <1>5, <1>7, <1>8, <1>9 DEF Unreadable
<1>11. P \in Seq(Nat) /\ Len(P) = NPOINTERS /\ Len(IndirectOf(image, last)) = NPOINTERS
  BY <1>9, <1>10, IndirectIs
<1>12. PICK R : R = ext2_read_double_indirect(b)
  OBVIOUS
<1>13. R = [i \in 1 .. m * NPOINTERS |-> IF i <= NPOINTERS THEN P[i] ELSE Unwritten]
  BY <1>1, <1>9, <1>12 DEF ext2_read_double_indirect, ext2_read_single_indirect
<1>14. m * NPOINTERS \in Nat /\ (m - 1) * NPOINTERS + NPOINTERS = m * NPOINTERS
  BY <1>2, <1>8
<1>15. ASSUME NEW i \in 1 .. m * NPOINTERS PROVE R[i] \in Int
  <2>1. CASE i <= NPOINTERS
    <3>1. i \in 1 .. NPOINTERS
      BY <1>2, <1>14, <2>1
    <3>2. P[i] \in Nat
      BY <1>11, <3>1
    <3> QED BY <1>13, <2>1, <3>2
  <2>2. CASE ~ (i <= NPOINTERS)
    BY <1>13, <2>2 DEF Unwritten
  <2> QED BY <2>1, <2>2
<1>16. R \in Seq(Int) /\ Len(R) = m * NPOINTERS
  <2>1. R \in [1 .. m * NPOINTERS -> Int]
    BY <1>13, <1>15
  <2> QED BY <1>14, <2>1
<1>17. ASSUME m = 1, NEW i \in 1 .. NPOINTERS PROVE R[i] = image.pointers[image.pointers[b][1]][i]
  <2>1. i \in 1 .. m * NPOINTERS /\ i <= NPOINTERS
    BY <1>2, <1>17
  <2>2. last = image.pointers[b][1]
    BY <1>7, <1>8, <1>9, <1>17
  <2> QED BY <1>9, <1>13, <2>1, <2>2
<1> QED BY <1>1, <1>8, <1>9, <1>11, <1>12, <1>14, <1>16, <1>17

(* What ext2_read_file copies to the buffer: as many blocks as the inode       *)
(* states, which are those of the file up to one doubly indirect group.        *)
LEMMA FileRead ==
    ASSUME image \in Images, NEW n \in image.real, image.inode[n].mode = "file", ~ Unreadable(n)
    PROVE  /\ ext2_read_file(n) \in Seq(Int) /\ Len(ext2_read_file(n)) = image.inode[n].nblocks
           /\ Double(n) = 0 \/ Len(Groups(Double(n))) = 1 =>
                 \A i \in 1 .. image.inode[n].nblocks : ext2_read_file(n)[i] = TrueBlock(n, i)
<1>1. PICK N \in Nat \ {0}, D \in Nat \ {0} : N = NPOINTERS /\ D = NDIRECT
  BY UnitAssumption
<1>2. PICK A, d, total : A = DirectBlocks(n) /\ d = Len(A) /\ total = image.inode[n].nblocks
  OBVIOUS
<1>3. /\ A \in Seq(Nat) /\ d \in 0 .. D /\ \A i \in 1 .. d : A[i] = image.inode[n].blocks[i]
  BY <1>1, <1>2, RealIs, DirectIs
<1>4. A \in Seq(Int)
  BY <1>3, Larger
<1>5. ASSUME NEW i \in 1 .. d PROVE A[i] = TrueBlock(n, i)
  <2>1. i <= NDIRECT
    BY <1>1, <1>3
  <2>2. ~ (i > NDIRECT)
    BY <1>1, <1>3
  <2>3. TrueBlock(n, i) = image.inode[n].blocks[i]
    BY <2>1, <2>2 DEF TrueBlock
  <2> QED BY <1>3, <2>3
<1>6. FileConsistent(image, n)
  BY ImageIs
<1>7. /\ Single(n) # 0 => d = NDIRECT /\ image.pointers[Single(n)] # <<>>
      /\ Double(n) # 0 => Single(n) # 0
      /\ total = d + (IF Single(n) = 0 THEN 0 ELSE Len(IndirectOf(image, Single(n))))
                   + (IF Double(n) = 0 THEN 0 ELSE (Len(Groups(Double(n))) - 1) * NPOINTERS
                        + Len(IndirectOf(image, Groups(Double(n))[Len(Groups(Double(n)))])))
  BY <1>2, <1>6 DEF FileConsistent, Single, Double, DirectBlocks, Groups
<1>8. CASE Single(n) = 0
  <2>1. total = d
    BY <1>3, <1>7, <1>8
  <2>2. A \o <<>> \o <<>> = A
    BY <1>4, ConcatEmptySeq
  <2>3. ext2_read_file(n) = A
    BY <1>2, <1>7, <1>8, <2>2 DEF ext2_read_file
  <2> QED BY <1>2, <1>4, <1>5, <2>1, <2>3
<1>9. CASE Single(n) # 0
  <2>1. PICK b, P : b = Single(n) /\ P = image.pointers[b]
    OBVIOUS
  <2>2. b \in DOMAIN image.entries
    <3>1. NDIRECT + 1 \in 1 .. NDIRECT + 2
      BY UnitAssumption
    <3>2. image.inode[n].blocks[NDIRECT + 1] \in DOMAIN image.entries \cup {0}
      BY <3>1, RealIs, InodeIs
    <3> QED BY <1>9, <2>1, <3>2 DEF Single
  <2>3. FullDirect(n) /\ d = D
    BY <1>1, <1>2, <1>7, <1>9 DEF FullDirect
  <2>4. ~ Misaligned(b)
    BY <1>9, <2>1, <2>3 DEF Unreadable
  <2>5. P \in Seq(Nat) /\ Len(P) = N /\ Len(IndirectOf(image, b)) = N
    BY <1>1, <1>7, <1>9, <2>1, <2>2, <2>4, IndirectIs
  <2>6. P \in Seq(Int)
    BY <2>5, Larger
  <2>7. PICK B : B = A \o P
    OBVIOUS
  <2>8. /\ B \in Seq(Int) /\ Len(B) = D + N
        /\ \A i \in 1 .. D : B[i] = A[i]
        /\ \A i \in 1 .. N : B[D + i] = P[i]
    <3>1. D = Len(A) /\ N = Len(P) /\ D \in Nat /\ N \in Nat
      BY <1>2, <2>3, <2>5
    <3> QED BY <1>4, <2>6, <2>7, <3>1, Join
  <2>9. ASSUME NEW i \in 1 .. D + N PROVE B[i] = TrueBlock(n, i)
    <3>1. CASE i <= D
      <4>1. i \in 1 .. D
        BY <3>1
      <4> QED BY <1>5, <2>3, <2>8, <4>1
    <3>2. CASE i > D
      <4>1. PICK j \in 1 .. N : i = D + j /\ j = i - D
        BY <3>2
      <4>2. ~ (i <= NDIRECT) /\ i > NDIRECT /\ i <= NDIRECT + NPOINTERS
        BY <1>1, <3>2
      <4>3. TrueBlock(n, i) = P[j]
        BY <1>1, <2>1, <4>1, <4>2 DEF TrueBlock
      <4> QED BY <2>8, <4>1, <4>3
    <3> QED BY <3>1, <3>2
  <2>10. CASE Double(n) = 0
    <3>1. total = D + N
      BY <1>7, <1>9, <2>1, <2>3, <2>5, <2>10
    <3>2. B \o <<>> = B
      BY <2>8, ConcatEmptySeq
    <3>3. ext2_read_file(n) = B
      BY <1>2, <1>9, <2>1, <2>3, <2>7, <2>10, <3>2 DEF ext2_read_file, ext2_read_single_indirect
    <3> QED BY <1>2, <2>8, <2>9, <3>1, <3>3
  <2>11. CASE Double(n) # 0
    <3>1. PICK R, m : R = ext2_read_double_indirect(Double(n)) /\ m = Len(Groups(Double(n)))
      OBVIOUS
    <3>2. /\ m \in Nat \ {0} /\ R \in Seq(Int) /\ Len(R) = m * N
          /\ (m - 1) * N + Len(IndirectOf(image, Groups(Double(n))[m])) = m * N
          /\ m = 1 => \A i \in 1 .. N : R[i] = image.pointers[image.pointers[Double(n)][1]][i]
      BY <1>1, <2>3, <2>11, <3>1, DoubleIs
    <3>3. total = D + N + m * N
      BY <1>1, <1>7, <1>9, <2>1, <2>3, <2>5, <2>11, <3>1, <3>2
    <3>4. m * N \in Nat /\ D + N \in Nat
      BY <3>2
    <3>5. PICK C : C = B \o R
      OBVIOUS
    <3>0. PICK k \in Nat, l \in Nat : k = m * N /\ l = D + N
      BY <3>4
    <3>6. /\ C \in Seq(Int) /\ Len(C) = l + k
          /\ \A i \in 1 .. l : C[i] = B[i]
          /\ \A i \in 1 .. k : C[l + i] = R[i]
      <4>1. B \in Seq(Int) /\ R \in Seq(Int) /\ l = Len(B) /\ k = Len(R)
        BY <2>8, <3>0, <3>2
      <4> QED BY <3>5, <4>1, Join
    <3>7. ext2_read_file(n) = C
      BY <1>2, <1>9, <2>1, <2>3, <2>7, <2>11, <3>1, <3>5 DEF ext2_read_file, ext2_read_single_indirect
    <3>8. ASSUME m = 1, NEW i \in 1 .. total PROVE C[i] = TrueBlock(n, i)
      <4>1. k = N /\ total = D + N + N
        BY <3>0, <3>3, <3>8
      <4>2. CASE i <= D + N
        <5>1. i \in 1 .. D + N
          BY <4>1, <4>2
        <5> QED BY <2>9, <3>0, <3>6, <5>1
      <4>3. CASE i > D + N
        <5>1. PICK j \in 1 .. N : i = D + N + j
          <6>1. i \in Int /\ i - D - N \in 1 .. N /\ i = D + N + (i - D - N)
            BY <4>1, <4>3
          <6> QED BY <6>1
        <5>2. C[i] = image.pointers[image.pointers[Double(n)][1]][j]
          BY <3>0, <3>2, <3>6, <3>8, <4>1, <5>1
        <5>3. i - NDIRECT - NPOINTERS - 1 = j - 1 /\ ~ (i <= NDIRECT) /\ ~ (i <= NDIRECT + NPOINTERS)
          BY <1>1, <5>1
        <5>4. ((j - 1) \div NPOINTERS) + 1 = 1 /\ ((j - 1) % NPOINTERS) + 1 = j
          <6>1. j - 1 \in 0 .. N - 1 /\ N * 0 + (j - 1) = j - 1
            OBVIOUS
          <6>2. (N * 0 + (j - 1)) \div N = 0 /\ (N * 0 + (j - 1)) % N = j - 1
            BY <6>1, DivModUnique
          <6>3. (j - 1) \div N = 0 /\ (j - 1) % N = j - 1
            BY <6>1, <6>2, Zenon
          <6>4. ((j - 1) \div N) + 1 = 1 /\ ((j - 1) % N) + 1 = j
            BY <6>3
          <6> QED BY <1>1, <6>4
        <5>5. TrueBlock(n, i) = image.pointers[image.pointers[Double(n)][1]][j]
          BY <5>3, <5>4 DEF TrueBlock
        <5> QED BY <5>2, <5>5
      <4> QED BY <3>3, <4>1, <4>2, <4>3
    <3>9. C \in Seq(Int) /\ Len(C) = total
      BY <3>0, <3>3, <3>6
    <3> QED BY <1>2, <2>11, <3>1, <3>7, <3>8, <3>9
  <2> QED BY <2>10, <2>11
<1> QED BY <1>8, <1>9

LEMMA CeilBound ==
    ASSUME NEW len \in Nat, NEW bs \in Nat \ {0}, NEW total \in Nat, len <= total * bs
    PROVE  DivCeil(len, bs) \in Nat /\ DivCeil(len, bs) <= total
<1>1. PICK c \in Nat, m \in 0 .. bs - 1 : c = (len + bs - 1) \div bs /\ len + bs - 1 = bs * c + m
  <2>1. len + bs - 1 \in Nat
    OBVIOUS
  <2> QED BY <2>1, DivMod
<1>2. ASSUME total < c PROVE FALSE
  <2>1. bs * (total + 1) <= bs * c /\ bs * (total + 1) = bs * total + bs
    BY <1>2, Times
  <2>2. bs * total = total * bs /\ bs * total \in Nat /\ bs * c \in Nat
    BY Times
  <2> QED BY <1>1, <2>1, <2>2
<1>3. c <= total
  BY <1>2
<1> QED BY <1>1, <1>3 DEF DivCeil

(* "do not read beyond EOF" (SYSHANDLER_read): a read from offset 0 delivers   *)
(* the first bytes of the file a passable path names and no more than the file *)
(* has, for every consistent disk and any number of blocks, up to one group of *)
(* doubly indirect ones.                                                       *)
THEOREM ReadsDeliver == FdSpec => []ReadDelivers
<1>1. ASSUME FdInv PROVE ReadDelivers
  <2>1. PICK path, n : path = ret.path /\ n = TrueLookup(path)
    OBVIOUS
  <2> SUFFICES ASSUME ret.call = "read", ret.value = 0, ret.off = 0, Passable(path),
                      n # NotFound, image.inode[n].mode = "file"
               PROVE  /\ ret.len <= SizeOf(image.inode[n])
                      /\ Double(n) = 0 \/ Len(Groups(Double(n))) = 1 =>
                            \A i \in 1 .. DivCeil(ret.len, block_size) :
                                i \in DOMAIN ret.src /\ ret.src[i] = TrueBlock(n, i)
    BY <2>1 DEF ReadDelivers
  <2>2. mounted /\ path \in AnyPath /\ Delivered(n)
    BY <1>1, <2>1 DEF FdInv, ReadIs
  <2>3. RootIsDirectory /\ image \in Images /\ layout \in Layouts
    BY <1>1, <2>2, MountedIs DEF FdInv, DiskKnown
  <2>4. n \in image.real
    <3>1. path \in Seq(Names)
      BY <2>2, PathsAre
    <3>2. Trails(TrueTrail(path), path, Len(path)) /\ Len(path) \in 0 .. Len(path)
      BY <3>1, TrailIs
    <3>3. n \in image.real \cup {NotFound}
      BY <2>1, <2>3, <3>1, <3>2, TrailReal DEF TrueLookup
    <3> QED BY <3>3
  <2>5. /\ ~ Unreadable(n) /\ ret.src = ext2_read_file(n)
        /\ ret.len \in Nat /\ ret.len <= ext2_get_file_size(n)
    BY <2>2 DEF Delivered
  <2>6. PICK total \in Nat, bs \in Nat \ {0}, len \in Nat, size \in Nat :
            /\ total = image.inode[n].nblocks /\ bs = block_size /\ len = ret.len /\ size = SizeOf(image.inode[n])
            /\ len <= size /\ size <= total * bs
    BY <2>3, <2>4, <2>5, FileSize
  <2>7. DivCeil(len, bs) \in Nat /\ DivCeil(len, bs) <= total
    <3>1. len <= total * bs
      <4>1. PICK x \in Nat : x = total * bs
        BY Times
      <4> QED BY <2>6, <4>1
    <3> QED BY <3>1, CeilBound
  <2>8. /\ ret.src \in Seq(Int) /\ Len(ret.src) = total
        /\ Double(n) = 0 \/ Len(Groups(Double(n))) = 1 => \A i \in 1 .. total : ret.src[i] = TrueBlock(n, i)
    BY <2>3, <2>4, <2>5, <2>6, FileRead
  <2>9. ASSUME Double(n) = 0 \/ Len(Groups(Double(n))) = 1, NEW i \in 1 .. DivCeil(len, bs)
        PROVE  i \in DOMAIN ret.src /\ ret.src[i] = TrueBlock(n, i)
    <3>1. i \in 1 .. total
      BY <2>7
    <3>2. DOMAIN ret.src = 1 .. total
      BY <2>8
    <3> QED BY <2>8, <2>9, <3>1, <3>2
  <2> QED BY <2>6, <2>9
<1> QED BY <1>1, FdStart, FdNextStep, PTL DEF FdSpec

-----------------------------------------------------------------------------
(* Buffers *)

LEMMA SectionIs ==
    ASSUME NEW size, Levels(size) # {}
    PROVE  \E k \in Nat : Section(size) = HEAP_MINBLOCK * Power2[k] /\ HEAP_MINBLOCK * Power2[k] >= size
<1>1. Levels(size) \in SUBSET Nat
  BY UnitAssumption DEF Levels
<1>2. \E k \in Levels(size) : \A j \in Levels(size) : k <= j
  BY <1>1, Least
<1>3. PICK k : k = CHOOSE l \in Levels(size) : \A j \in Levels(size) : l <= j
  OBVIOUS
<1>4. k \in Levels(size)
  BY <1>2, <1>3
<1>5. k \in Nat /\ HEAP_MINBLOCK * Power2[k] >= size
  BY <1>1, <1>4 DEF Levels
<1> QED BY <1>3, <1>5 DEF Section

(* ext2_read_file stays inside the heap section kalloc gave it, whole blocks   *)
(* notwithstanding: for every consistent file it does not panic on, and every  *)
(* directory of direct blocks, if sections are made of blocks.                 *)
THEOREM BuffersFit == FdSpec => []BufferFits
<1>1. ASSUME FdInv PROVE BufferFits
  <2> SUFFICES ASSUME mounted, HEAP_MINBLOCK % block_size = 0, NEW n \in image.real,
                      \/ image.inode[n].mode = "file"
                      \/ /\ image.inode[n].mode = "dir" /\ Single(n) = 0 /\ Double(n) = 0
                         /\ NDIRECT * block_size <= HEAP_MINBLOCK,
                      ~ Unreadable(n)
               PROVE  Len(ext2_read_file(n)) * block_size <= Section(ext2_get_file_size(n))
    BY DEF BufferFits
  <2>1. image \in Images /\ layout \in Layouts
    BY <1>1 DEF FdInv, DiskKnown
  <2>2. PICK bs \in Nat \ {0}, min \in Nat \ {0} : bs = block_size /\ min = HEAP_MINBLOCK /\ min % bs = 0
    BY <2>1, LayoutIs, UnitAssumption
  <2>3. PICK per \in Nat : min = bs * per
    BY <2>2, Multiple
  <2>4. PICK k \in Nat : /\ Section(ext2_get_file_size(n)) = min * Power2[k]
                         /\ min * Power2[k] >= ext2_get_file_size(n)
    BY <2>2, SectionIs DEF Unreadable
  <2>5. PICK e \in Nat \ {0} : e = Power2[k]
    BY Power2Is
  <2>6. PICK q \in Nat : q = per * e /\ min * e = bs * q
    BY <2>3, Assoc
  <2>7. CASE image.inode[n].mode = "file"
    <3>1. PICK total \in Nat, size \in Nat :
              /\ total = image.inode[n].nblocks /\ size = ext2_get_file_size(n)
              /\ total # 0 => (total - 1) * bs < size
      BY <2>1, <2>2, <2>7, FileSize
    <3>2. Len(ext2_read_file(n)) = total
      BY <2>1, <2>7, <3>1, FileRead
    <3>3. total <= q
      <4>1. SUFFICES ASSUME q < total PROVE FALSE
        OBVIOUS
      <4>2. total # 0 /\ total - 1 \in Nat /\ q <= total - 1
        BY <4>1
      <4>3. bs * q <= bs * (total - 1) /\ bs * (total - 1) = (total - 1) * bs
        BY <4>2, Times
      <4>4. bs * q >= size
        BY <2>4, <2>5, <2>6, <3>1
      <4>5. PICK x \in Int, y \in Int : x = bs * q /\ y = (total - 1) * bs
        BY <4>2
      <4> QED BY <3>1, <4>2, <4>3, <4>4, <4>5
    <3>4. bs * total <= bs * q /\ bs * total = total * bs
      BY <3>3, Times
    <3> QED BY <2>2, <2>4, <2>5, <2>6, <3>2, <3>4
  <2>8. CASE /\ image.inode[n].mode = "dir" /\ Single(n) = 0 /\ Double(n) = 0
             /\ NDIRECT * block_size <= HEAP_MINBLOCK
    <3>0. PICK A : A = DirectBlocks(n)
      OBVIOUS
    <3>1. PICK d \in Nat : A = DirectBlocks(n) /\ d = Len(A) /\ d <= NDIRECT /\ A \in Seq(Nat)
      <4>1. A \in Seq(Nat) /\ Len(A) \in 0 .. NDIRECT /\ NDIRECT \in Nat
        BY <2>1, <3>0, RealIs, DirectIs, UnitAssumption
      <4> QED BY <3>0, <4>1
    <3>2. ext2_read_file(n) = A
      BY <2>8, <3>1, ConcatEmptySeq DEF ext2_read_file
    <3>3. PICK D \in Nat : D = NDIRECT
      BY UnitAssumption
    <3>4. bs * d <= bs * D /\ bs * d = d * bs /\ bs * D = D * bs /\ d * bs \in Nat
      BY <3>1, <3>3, Times
    <3>5. min * 1 <= min * e /\ min * 1 = min
      BY Times
    <3>6. D * bs <= min
      BY <2>2, <2>8, <3>3
    <3>7. d * bs <= min * e
      <4>1. PICK x \in Int, y \in Int, z \in Int : x = d * bs /\ y = D * bs /\ z = min * e
        OBVIOUS
      <4> QED BY <3>4, <3>5, <3>6, <4>1
    <3> QED BY <2>2, <2>4, <2>5, <3>1, <3>2, <3>7
  <2> QED BY <2>7, <2>8
<1> QED BY <1>1, FdStart, FdNextStep, PTL DEF FdSpec
=============================================================================
