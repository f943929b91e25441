----------------------------- MODULE Sleeplock -----------------------------
(***************************************************************************)
(* sleeplock.c on top of the scheduler: threads that acquire and release   *)
(* sleeplocks, sleep on a taken one with ThreadSleep and are woken by the  *)
(* Wakeup of release_Sleeplock.  Each action is an action of Scheduler     *)
(* with the lock fields it reads and writes.                               *)
(*                                                                         *)
(* The channel of a sleeplock is its address, so Channels is the set of    *)
(* sleeplocks.  Their users (bget, bread, brelse) hold one at a time.      *)
(***************************************************************************)
EXTENDS Scheduler

VARIABLES
    is_locked,  \* Sleeplock.is_locked
    owner_tid,  \* Sleeplock.owner_tid
    spin,       \* the thread inside the sleeplock's inner spinlock
    op,         \* what the thread does with sleeplock lk[t]
    lk

lockVars == <<is_locked, owner_tid, spin, op, lk>>
vars     == <<schedVars, lockVars>>

Sleeplocks == Channels
NoTid      == -1
Ops        == {"none", "acquire", "own", "release", "wake"}

SleeplockTypeOK ==
    /\ TypeOK
    /\ is_locked \in [Sleeplocks -> BOOLEAN]
    /\ owner_tid \in [Sleeplocks -> Slots \cup {NoTid}]
    /\ spin \in [Sleeplocks -> Slots \cup {NULL}]
    /\ op \in [Slots -> Ops]
    /\ lk \in [Slots -> Sleeplocks \cup {NULL}]

(* init_Sleeplock *)
SleeplockInit ==
    /\ Init
    /\ is_locked = [l \in Sleeplocks |-> FALSE]
    /\ owner_tid = [l \in Sleeplocks |-> 0]
    /\ spin = [l \in Sleeplocks |-> NULL]
    /\ op = [t \in Slots |-> "none"]
    /\ lk = [t \in Slots |-> NULL]

TakeSpin(t, l) == spin[l] = NULL /\ spin' = [spin EXCEPT ![l] = t]
FreeSpin(l)    == spin' = [spin EXCEPT ![l] = NULL]

-----------------------------------------------------------------------------
(* acquire_Sleeplock *)

BeginAcquire(t, l) ==
    /\ op[t] = "none" /\ pc[t] = "run"
    /\ AcquireSpin(t) /\ TakeSpin(t, l)
    /\ op' = [op EXCEPT ![t] = "acquire"] /\ lk' = [lk EXCEPT ![t] = l]
    /\ UNCHANGED <<is_locked, owner_tid>>

(* The loop finds the lock taken: ThreadSleep, with the inner spinlock held   *)
(* until SleepRelease and taken again by Reacquire.                           *)
SleepOnLock(t) ==
    /\ op[t] = "acquire" /\ is_locked[lk[t]]
    /\ SleepBegin(t, lk[t])
    /\ UNCHANGED lockVars

SleepUnlock(t) == SleepRelease(t) /\ FreeSpin(lk[t]) /\ UNCHANGED <<is_locked, owner_tid, op, lk>>

Reacquire(t) ==
    /\ pc[t] = "reacquire" /\ AcquireSpin(t) /\ TakeSpin(t, lk[t])
    /\ UNCHANGED <<is_locked, owner_tid, op, lk>>

(* Mutants: an "if" instead of the loop, and no owner recorded. *)
TakeUnchecked(t) ==
    /\ op[t] = "acquire"
    /\ ReleaseSpin(t) /\ FreeSpin(lk[t])
    /\ is_locked' = [is_locked EXCEPT ![lk[t]] = TRUE]
    /\ owner_tid' = [owner_tid EXCEPT ![lk[t]] = t]
    /\ op' = [op EXCEPT ![t] = "own"]
    /\ UNCHANGED lk

TakeNoOwner(t) ==
    /\ op[t] = "acquire" /\ ~ is_locked[lk[t]]
    /\ ReleaseSpin(t) /\ FreeSpin(lk[t])
    /\ is_locked' = [is_locked EXCEPT ![lk[t]] = TRUE]
    /\ op' = [op EXCEPT ![t] = "own"]
    /\ UNCHANGED <<owner_tid, lk>>

(* The loop finds it free: take it and leave the inner spinlock. *)
Take(t) ==
    /\ op[t] = "acquire" /\ ~ is_locked[lk[t]]
    /\ ReleaseSpin(t) /\ FreeSpin(lk[t])
    /\ is_locked' = [is_locked EXCEPT ![lk[t]] = TRUE]
    /\ owner_tid' = [owner_tid EXCEPT ![lk[t]] = t]
    /\ op' = [op EXCEPT ![t] = "own"]
    /\ UNCHANGED lk

-----------------------------------------------------------------------------
(* release_Sleeplock *)

BeginRelease(t) ==
    /\ op[t] = "own" /\ pc[t] = "run"
    /\ AcquireSpin(t) /\ TakeSpin(t, lk[t])
    /\ op' = [op EXCEPT ![t] = "release"]
    /\ UNCHANGED <<is_locked, owner_tid, lk>>

Release(t) ==
    /\ op[t] = "release"
    /\ ReleaseSpin(t) /\ FreeSpin(lk[t])
    /\ is_locked' = [is_locked EXCEPT ![lk[t]] = FALSE]
    /\ owner_tid' = [owner_tid EXCEPT ![lk[t]] = NoTid]
    /\ op' = [op EXCEPT ![t] = "wake"]
    /\ UNCHANGED lk

(* Wakeup comes after the inner spinlock is free again. *)
WakeSleepers(t) ==
    /\ op[t] = "wake" /\ Running(t)
    /\ Wakeup(lk[t])
    /\ op' = [op EXCEPT ![t] = "none"]
    /\ UNCHANGED <<is_locked, owner_tid, spin, lk>>

(* Read inside the inner spinlock. *)
holdingsleep(t, l) == is_locked[l] /\ owner_tid[l] = t

-----------------------------------------------------------------------------
(* A thread does not exit or fork in the middle of a sleeplock call. *)
ExitUnlocked(c, t) == op[t] = "none" /\ ExitThread(c, t) /\ UNCHANGED lockVars
Create(t, i)       == op[t] = "none" /\ CreateThread(t, i) /\ UNCHANGED lockVars

LockStep(t) == \/ \E l \in Sleeplocks : BeginAcquire(t, l)
               \/ SleepOnLock(t) \/ SleepUnlock(t) \/ Reacquire(t) \/ Take(t)
               \/ BeginRelease(t) \/ Release(t) \/ WakeSleepers(t)

SwitchStep == /\ \/ \E c \in CPUs : Timer(c) \/ Iret(c) \/ \E t \in Slots : Int3(c, t)
                 \/ \E t \in Slots : SleepCheck(t) \/ SleepEnd(t)
                 \/ Halted
              /\ UNCHANGED lockVars

SleeplockNext == \/ \E t \in Slots : LockStep(t) \/ \E i \in Slots : Create(t, i)
                 \/ \E c \in CPUs, t \in Slots : ExitUnlocked(c, t)
                 \/ SwitchStep

SleeplockSpec == SleeplockInit /\ [][SleeplockNext]_vars

-----------------------------------------------------------------------------
(* Properties *)

Owns(t, l) == lk[t] = l /\ op[t] \in {"own", "release"}

(* acquire_Sleeplock and release_Sleeplock implement the abstract lock: the   *)
(* section between them has one thread at a time, across sleeps, early        *)
(* wakeups and threads that are rescheduled without having been woken.        *)
Abs == INSTANCE LockSpec WITH CPUs <- Slots, Locks <- Sleeplocks,
                              holders <- [l \in Sleeplocks |-> {t \in Slots : Owns(t, l)}]
LockRefinement == Abs!Spec

(* The panics of bwrite, brelse and iderw ("not locked") rely on holdingsleep: *)
(* it is true exactly for the thread between acquire and release.             *)
HoldingsleepExact == \A t \in Slots, l \in Sleeplocks : holdingsleep(t, l) <=> Owns(t, l)

(* No lost wakeup: a thread that sleeps on a free lock, and may not run yet,  *)
(* is owed a Wakeup by a thread that has just released the lock.              *)
Forgotten(t, l) == /\ status[t] = "WAKEUP_READY" /\ ~ can_wakeup[t]
                   /\ sleep_channel[t] = l /\ ~ is_locked[l]
NoLostWakeup ==
    \A t \in Slots, l \in Sleeplocks :
        Forgotten(t, l) => \E u \in Slots : op[u] = "wake" /\ lk[u] = l
=============================================================================
