------------------------------ MODULE Process ------------------------------
(***************************************************************************)
(* The process table and the system calls that change it: CreateUserProcess,*)
(* fork, exec, exit and waitpid (proc.c, syscalls.c), on top of the         *)
(* scheduler.  A process has one thread; a thread of no process is the boot *)
(* thread.  fork, exit and the second half of exec run with proc_table.lock *)
(* held and are one step each.  waitpid is not: it tests the state of the   *)
(* process under pid_wait_spinlock, which exit does not take, so the test,  *)
(* the stores of ThreadSleep and the exit interleave.                       *)
(*                                                                          *)
(* The channel of waitpid is the process, so Channels holds the processes.  *)
(* Memory and file descriptors of a process are in UserMemory and           *)
(* FileDescriptors.                                                         *)
(***************************************************************************)
EXTENDS Scheduler

CONSTANT MAX_NUM_PROC

Procs == 0 .. MAX_NUM_PROC - 1

ASSUME ProcAssumption == MAX_NUM_PROC \in Nat \ {0} /\ Procs \subseteq Channels

VARIABLES
    proc_state,   \* Process.state
    threads,      \* Process.threads, the slots the list names
    thread_count, \* Process.thread_count
    owner_proc,   \* Thread.owner_proc
    wait_owner,   \* the thread that holds Process.pid_wait_spinlock
    call,         \* the system call the thread is in
    arg,          \* the process it waits for
    intr,         \* interrupts in the thread's kernel code: see Syscall
    late,         \* history: exited before the sleep of waitpid was complete
    reinit        \* history: processes whose pid_wait_spinlock was initialised while it was held

procVars    == <<proc_state, threads, thread_count, owner_proc>>
callVars    == <<wait_owner, call, arg, intr, late, reinit>>
processVars == <<schedVars, procVars, callVars>>

Live(t) == status[t] \notin {"NOT_INITIALIZED", "KILLED"}

ProcessTypeOK ==
    /\ panic \in {"none", "bad_int3", "unexpected_state", "release"}
    /\ proc_state \in [Procs -> {"FREE", "EXITED", "INUSE"}]
    /\ threads \in [Procs -> SUBSET Slots]
    /\ thread_count \in [Procs -> 0 .. 1]
    /\ owner_proc \in [Slots -> Procs \cup {NULL}]
    /\ wait_owner \in [Procs -> Slots \cup {NULL}]
    /\ call \in [Slots -> {"none", "exec", "waitpid", "sleep"}]
    /\ arg \in [Slots -> Procs \cup {NULL}]
    /\ intr \in [Slots -> {"noINT", "cli", "sti"}]
    /\ late \in [Slots -> BOOLEAN]
    /\ reinit \subseteq Procs

ProcessInit ==
    /\ Init
    /\ proc_state = [p \in Procs |-> "FREE"]
    /\ threads = [p \in Procs |-> {}]
    /\ thread_count = [p \in Procs |-> 0]
    /\ owner_proc = [t \in Slots |-> NULL]
    /\ wait_owner = [p \in Procs |-> NULL]
    /\ call = [t \in Slots |-> "none"]
    /\ arg = [t \in Slots |-> NULL]
    /\ intr = [t \in Slots |-> "sti"]
    /\ late = [t \in Slots |-> FALSE]
    /\ reinit = {}

(* init_Spinlock of pid_wait_spinlock. *)
InitWaitLock(p) ==
    /\ wait_owner' = [wait_owner EXCEPT ![p] = NULL]
    /\ reinit' = IF wait_owner[p] = NULL THEN reinit ELSE reinit \cup {p}

(* Mutant: the process keeps the thread that ran in the slot before. *)
NewProcessKeepsOwner(i, p) ==
    /\ proc_state[p] = "FREE" /\ \A q \in Procs : proc_state[q] = "FREE" => p <= q
    /\ proc_state' = [proc_state EXCEPT ![p] = "INUSE"]
    /\ threads' = [threads EXCEPT ![p] = @ \cup {i}]
    /\ thread_count' = [thread_count EXCEPT ![p] = 1]
    /\ owner_proc' = [owner_proc EXCEPT ![i] = IF @ = NULL THEN p ELSE @]
    /\ InitWaitLock(p)
    /\ UNCHANGED <<call, arg, intr, late>>

(* FindFreeProcess: only a slot never used is free; then the fields that      *)
(* CreateUserProcess and ForkUserProcess set, init_Spinlock included.         *)
NewProcess(i, p) ==
    /\ proc_state[p] = "FREE" /\ \A q \in Procs : proc_state[q] = "FREE" => p <= q
    /\ proc_state' = [proc_state EXCEPT ![p] = "INUSE"]
    /\ threads' = [threads EXCEPT ![p] = @ \cup {i}]
    /\ thread_count' = [thread_count EXCEPT ![p] = 1]
    /\ owner_proc' = [owner_proc EXCEPT ![i] = p]
    /\ InitWaitLock(p)
    /\ UNCHANGED <<call, arg, intr, late>>

(* kernel_main creates the shell, once, when it could read its file, and ends *)
(* the boot thread.                                                           *)
CreateUserProcess(t, i, p) ==
    /\ owner_proc[t] = NULL /\ \A q \in Procs : proc_state[q] = "FREE"
    /\ CreateThread(t, i) /\ NewProcess(i, p)

BootExit(c, t) ==
    /\ owner_proc[t] = NULL /\ ExitThread(c, t)
    /\ UNCHANGED <<procVars, callVars>>

UserMode(t) == owner_proc[t] # NULL /\ call[t] = "none" /\ pc[t] = "run"

Fork(t, i, p) == UserMode(t) /\ CreateThread(t, i) /\ NewProcess(i, p)

(* No process or no thread is free: fork returns -1. *)
ForkFails(t) ==
    /\ Running(t) /\ UserMode(t)
    /\ (\A p \in Procs : proc_state[p] # "FREE") \/ (\A i \in Slots : ~ IsFree(i))
    /\ UNCHANGED processVars

-----------------------------------------------------------------------------
(* exec *)

(* ext2_file_exists and ext2_read_file, before proc_table.lock is taken. *)
ExecLoad(t) ==
    /\ Running(t) /\ UserMode(t)
    /\ call' = [call EXCEPT ![t] = "exec"]
    /\ UNCHANGED <<schedVars, procVars, wait_owner, arg, intr, late, reinit>>

ExecFails(t) ==
    /\ Running(t) /\ call[t] = "exec"
    /\ call' = [call EXCEPT ![t] = "none"]
    /\ UNCHANGED <<schedVars, procVars, wait_owner, arg, intr, late, reinit>>

KilledBy(p) == [u \in Slots |-> IF u \in threads[p] THEN "KILLED" ELSE status[u]]

(* ProcessFree kills the threads of the process, the caller with them; then   *)
(* the process is set up again around the caller.  pid_wait_spinlock is       *)
(* initialised again, whoever holds it.                                       *)
ExecUserProcess(t) ==
    LET p == owner_proc[t] IN
    /\ Running(t) /\ call[t] = "exec"
    /\ status' = [KilledBy(p) EXCEPT ![t] = "RUNNING"]
    /\ threads' = [threads EXCEPT ![p] = {t}]
    /\ thread_count' = [thread_count EXCEPT ![p] = 1]
    /\ proc_state' = [proc_state EXCEPT ![p] = "INUSE"]
    /\ InitWaitLock(p)
    /\ call' = [call EXCEPT ![t] = "none"]
    /\ UNCHANGED <<can_wakeup, sleep_channel, cpuVars, pc, panic, created, owner_proc, arg, intr, late>>

-----------------------------------------------------------------------------
(* exit *)

(* A waiter that has seen p alive but has not done can_wakeup = false.  *)
GoingToSleep(u, p) == arg[u] = p /\ (call[u] = "sleep" /\ pc[u] \in {"locked", "unset"})

(* ProcessFree, PROCESS_STATE_EXITED and NoLockWakeup when the last thread of *)
(* the process exits; the CPU then spins with no current thread.              *)
Exit(c, t) ==
    LET p    == owner_proc[t]
        last == thread_count[p] = 1
    IN
    /\ panic = "none" /\ Executes(c, t) /\ UserMode(t)
    /\ thread_count' = [thread_count EXCEPT ![p] = IF last THEN 0 ELSE @ - 1]
    /\ status' = [(IF last THEN KilledBy(p) ELSE status) EXCEPT ![t] = "KILLED"]
    /\ threads' = [threads EXCEPT ![p] = IF last THEN {} ELSE @]
    /\ proc_state' = [proc_state EXCEPT ![p] = IF last THEN "EXITED" ELSE @]
    /\ can_wakeup' = [u \in Slots |-> can_wakeup[u] \/ (last /\ Wakes(u, p))]
    /\ late' = [u \in Slots |-> late[u] \/ (last /\ GoingToSleep(u, p))]
    /\ current_thread' = [current_thread EXCEPT ![c] = NULL]
    /\ UNCHANGED <<sleep_channel, stack, pc, panic, created, owner_proc, wait_owner, call, arg, intr, reinit>>

-----------------------------------------------------------------------------
(* waitpid.  syscall_handler sets noINT, so that release_Spinlock leaves      *)
(* interrupts off ("noINT") until the first int3, whose end of interrupt      *)
(* clears it; the code behind that int3 still runs with interrupts off        *)
(* ("cli") up to the next release_Spinlock, which turns them on ("sti").      *)

AfterRelease(t) == intr' = [intr EXCEPT ![t] = IF @ = "cli" THEN "sti" ELSE @]

TakeWaitLock(t, p) == wait_owner[p] = NULL /\ wait_owner' = [wait_owner EXCEPT ![p] = t]
FreeWaitLock(p)    == wait_owner' = [wait_owner EXCEPT ![p] = NULL]

WaitBegin(t, p) ==
    /\ UserMode(t) /\ AcquireSpin(t) /\ TakeWaitLock(t, p)
    /\ call' = [call EXCEPT ![t] = "waitpid"] /\ arg' = [arg EXCEPT ![t] = p]
    /\ intr' = [intr EXCEPT ![t] = "noINT"]
    /\ UNCHANGED <<procVars, late, reinit>>

(* The test of the loop. *)
WaitTest(t) ==
    /\ Running(t) /\ call[t] = "waitpid" /\ pc[t] = "locked" /\ proc_state[arg[t]] # "EXITED"
    /\ call' = [call EXCEPT ![t] = "sleep"]
    /\ UNCHANGED <<schedVars, procVars, wait_owner, arg, intr, late, reinit>>

WaitSleep(t) == call[t] = "sleep" /\ SleepBegin(t, arg[t]) /\ UNCHANGED <<procVars, callVars>>

WaitUnlock(t) ==
    /\ SleepRelease(t) /\ wait_owner[arg[t]] = t /\ FreeWaitLock(arg[t])
    /\ AfterRelease(t)
    /\ UNCHANGED <<procVars, call, arg, late, reinit>>

WaitInt3(c, t) ==
    /\ Int3(c, t)
    /\ intr' = [intr EXCEPT ![t] = IF @ = "noINT" THEN "cli" ELSE @]
    /\ UNCHANGED <<procVars, wait_owner, call, arg, late, reinit>>

(* Mutant: ThreadSleep returns without the lock it released. *)
WaitReturnsUnlocked(t) ==
    /\ pc[t] = "reacquire" /\ AcquireSpin(t)
    /\ call' = [call EXCEPT ![t] = "waitpid"]
    /\ UNCHANGED <<procVars, wait_owner, arg, intr, late, reinit>>

WaitReacquire(t) ==
    /\ pc[t] = "reacquire" /\ AcquireSpin(t) /\ TakeWaitLock(t, arg[t])
    /\ call' = [call EXCEPT ![t] = "waitpid"]
    /\ UNCHANGED <<procVars, arg, intr, late, reinit>>

(* Mutant: an "if" instead of the loop. *)
WaitReturnUnchecked(t) ==
    /\ call[t] = "waitpid" /\ ReleaseSpin(t)
    /\ wait_owner[arg[t]] = t /\ FreeWaitLock(arg[t])
    /\ call' = [call EXCEPT ![t] = "none"] /\ arg' = [arg EXCEPT ![t] = NULL]
    /\ intr' = [intr EXCEPT ![t] = "sti"] /\ late' = [late EXCEPT ![t] = FALSE]
    /\ UNCHANGED <<procVars, reinit>>

(* The loop ends; back in user mode interrupts are on. *)
WaitReturn(t) ==
    /\ call[t] = "waitpid" /\ proc_state[arg[t]] = "EXITED"
    /\ ReleaseSpin(t) /\ wait_owner[arg[t]] = t /\ FreeWaitLock(arg[t])
    /\ call' = [call EXCEPT ![t] = "none"] /\ arg' = [arg EXCEPT ![t] = NULL]
    /\ intr' = [intr EXCEPT ![t] = "sti"] /\ late' = [late EXCEPT ![t] = FALSE]
    /\ UNCHANGED <<procVars, reinit>>

(* release_Spinlock of a lock this CPU does not hold. *)
ReleasePanic(t) ==
    /\ Running(t) /\ arg[t] # NULL /\ wait_owner[arg[t]] # t
    /\ \/ pc[t] = "unset"
       \/ pc[t] = "locked" /\ call[t] = "waitpid" /\ proc_state[arg[t]] = "EXITED"
    /\ panic' = "release"
    /\ UNCHANGED <<tableVars, cpuVars, pc, created, procVars, callVars>>

-----------------------------------------------------------------------------
(* A thread in waitpid is interrupted only where its interrupts are on. *)
Tick(c) == /\ \A t \in Slots : Executes(c, t) => intr[t] = "sti"
           /\ Timer(c)

SchedulerStep == /\ \/ \E c \in CPUs : Tick(c) \/ Iret(c)
                    \/ \E t \in Slots : SleepCheck(t) \/ SleepEnd(t)
                    \/ Halted
                 /\ UNCHANGED <<procVars, callVars>>

WaitStep(t) == \/ WaitTest(t) \/ WaitSleep(t) \/ WaitUnlock(t) \/ WaitReacquire(t)
               \/ WaitReturn(t) \/ ReleasePanic(t)
               \/ \E c \in CPUs : WaitInt3(c, t)

CallStep(t) == \/ \E i \in Slots, p \in Procs : CreateUserProcess(t, i, p) \/ Fork(t, i, p)
               \/ ForkFails(t) \/ ExecLoad(t) \/ ExecFails(t) \/ ExecUserProcess(t)
               \/ \E c \in CPUs : BootExit(c, t) \/ Exit(c, t)
               \/ \E p \in Procs : WaitBegin(t, p)

ProcessNext == SchedulerStep \/ \E t \in Slots : CallStep(t) \/ WaitStep(t)

ProcessSpec == ProcessInit /\ [][ProcessNext]_processVars

-----------------------------------------------------------------------------
(* Properties *)

(* A process is INUSE exactly while one thread of the table runs for it, and  *)
(* that thread is the one its list names: the exit of the last thread finds   *)
(* thread_count 0 and reports the process EXITED, a slot reused by fork does  *)
(* not revive the process that had it before, and exec does not leave its     *)
(* process without a thread.                                                  *)
ProcessHasThread ==
    \A p \in Procs :
        /\ {t \in Slots : Live(t) /\ owner_proc[t] = p} = threads[p]
        /\ Cardinality(threads[p]) = thread_count[p]
        /\ thread_count[p] = IF proc_state[p] = "INUSE" THEN 1 ELSE 0

(* waitpid returns only when the process has ended: its state is EXITED and   *)
(* no thread runs for it any more, whatever made the waiter run again.        *)
WaitpidReturnsAfterExit ==
    [][\A t \in Slots : arg[t] # NULL /\ arg'[t] = NULL =>
         /\ proc_state[arg[t]] = "EXITED"
         /\ \A u \in Slots : owner_proc[u] = arg[t] => ~ Live(u)]_processVars

(* A waiter is not forgotten: one that sleeps for a process that has exited   *)
(* may run again, unless the exit came between the test of the loop and       *)
(* can_wakeup = false, the one window in which exit's wakeup is lost.         *)
WaiterIsWoken ==
    \A t \in Slots :
        /\ status[t] \in {"SLEEPING", "WAKEUP_READY"} /\ pc[t] # "unset"
        /\ sleep_channel[t] # NULL /\ proc_state[sleep_channel[t]] = "EXITED"
        => can_wakeup[t] \/ late[t]

(* release_Spinlock panics on a lock "that was not held by the current CPU".  *)
(* waitpid, which gives pid_wait_spinlock up to sleep and takes it again,     *)
(* runs into that only when the lock was initialised while it was held: by    *)
(* exec of the process, or by a fork that takes a slot a thread already waits *)
(* for, since waitpid accepts any pid.                                        *)
ReleasePanicNeedsInit == panic = "release" => \E t \in Slots : arg[t] \in reinit
=============================================================================
