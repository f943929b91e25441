----------------------------- MODULE Scheduler -----------------------------
(***************************************************************************)
(* The thread table and the scheduler: scheduler.c, the thread half of     *)
(* proc.c (creation, ThreadSleep, Wakeup, exit) and the timer and int3     *)
(* cases of isr_handler.                                                   *)
(*                                                                         *)
(* Everything the code does while it holds proc_table.lock is one step:    *)
(* module Spinlock shows that such a section excludes other CPUs and is    *)
(* not interrupted.  ThreadSleep writes the thread's fields without that   *)
(* lock, so it is split where another CPU or an interrupt can come in.     *)
(*                                                                         *)
(* Threads run the most general kernel code: a running thread may enter a  *)
(* spinlock section, call ThreadSleep from it on any channel, create a     *)
(* thread, or exit; Wakeup may be called on any channel at any time        *)
(* (release_Sleeplock, ideintr, keyboard_irq_handler, SYSHANDLER_exit).    *)
(* Modules that model real users of ThreadSleep implement this one.        *)
(***************************************************************************)
EXTENDS Integers, FiniteSets

CONSTANTS
    MAX_NUM_THREADS,  \* slots of the thread table, besides the idle thread
    CPUs,
    Channels,         \* addresses threads sleep on
    NULL,
    MaxCreates        \* bound on the threads created after boot

Slots == 0 .. MAX_NUM_THREADS - 1
Idle  == MAX_NUM_THREADS   \* IDLE_THREAD: the last slot, shared by the CPUs

ASSUME SlotAssumption == MAX_NUM_THREADS \in Nat \ {0}
ASSUME NullAssumption == NULL \notin Slots \cup {Idle} \cup Channels
ASSUME CpuAssumption  == CPUs # {}
ASSUME BoundAssumption == MaxCreates \in Nat

VARIABLES
    status,         \* Thread.status
    can_wakeup,     \* Thread.can_wakeup
    sleep_channel,  \* Thread.sleep_channel
    current_thread, \* CPU.current_thread
    stack,          \* whose kernel stack the CPU executes on
    pc,             \* where in its kernel code the thread is
    panic,          \* "none", or which panic stopped the machine
    created         \* number of threads created after boot

tableVars == <<status, can_wakeup, sleep_channel>>
cpuVars   == <<current_thread, stack>>
schedVars == <<tableVars, cpuVars, pc, panic, created>>

States == {"NOT_INITIALIZED", "READY", "RUNNING", "KILLED", "SLEEPING", "WAKEUP_READY"}

(* "run": outside spinlock sections; "locked": inside one; "unset" .. "woken":  *)
(* the steps of ThreadSleep; "reacquire": about to take spin_lock again.        *)
SleepPCs == {"unset", "check", "int3", "woken", "reacquire"}
PCs      == {"run", "locked"} \cup SleepPCs

TypeOK ==
    /\ status \in [Slots -> States]
    /\ can_wakeup \in [Slots -> BOOLEAN]
    /\ sleep_channel \in [Slots -> Channels \cup {NULL}]
    /\ current_thread \in [CPUs -> Slots \cup {Idle, NULL}]
    /\ stack \in [CPUs -> Slots \cup {Idle, NULL}]
    /\ pc \in [Slots -> PCs]
    /\ panic \in {"none", "bad_int3", "unexpected_state"}
    /\ created \in 0 .. MaxCreates

(* kthread_setup: the boot thread is slot 0 on the boot CPU; the other CPUs   *)
(* come out of init_smp with no current thread, on their own boot stacks.     *)
Init ==
    /\ status = [t \in Slots |-> IF t = 0 THEN "RUNNING" ELSE "NOT_INITIALIZED"]
    /\ can_wakeup = [t \in Slots |-> t = 0]
    /\ sleep_channel = [t \in Slots |-> NULL]
    /\ \E bsp \in CPUs :
         /\ current_thread = [c \in CPUs |-> IF c = bsp THEN 0 ELSE NULL]
         /\ stack = current_thread
    /\ pc = [t \in Slots |-> "run"]
    /\ panic = "none"
    /\ created = 0

(* CPU c executes the code of thread t. *)
Executes(c, t) == current_thread[c] = t /\ stack[c] = t
Running(t)     == panic = "none" /\ \E c \in CPUs : Executes(c, t)

Goto(t, label) == pc' = [pc EXCEPT ![t] = label]

-----------------------------------------------------------------------------
(* InvokeScheduler *)

(* The scan starts behind the old thread and wraps around to it; with no old  *)
(* thread, or from the idle thread, it starts at slot 0.                      *)
ScanDistance(old, i) == IF old \in Slots THEN (i - old) % MAX_NUM_THREADS ELSE i

(* Mutant: a woken thread may run before its context is saved. *)
CanRunUnsaved(i) == \/ status[i] = "READY"
                    \/ status[i] \in {"WAKEUP_READY", "SLEEPING"} /\ can_wakeup[i]

CanRun(i) == \/ status[i] = "READY"
             \/ status[i] = "WAKEUP_READY" /\ can_wakeup[i]

(* Mutant: the second loop, which wraps around, is missing. *)
IsNextNoWrap(old, i) == /\ CanRun(i) /\ (old \in Slots => i > old)
                        /\ \A j \in Slots :
                             CanRun(j) /\ (old \in Slots => j > old) => i <= j

IsNext(old, i) == /\ i # old /\ CanRun(i)
                  /\ \A j \in Slots \ {old} :
                       CanRun(j) => ScanDistance(old, i) <= ScanDistance(old, j)

(* SaveThreadContext: what becomes of the status of the thread switched out.  *)
SaveUnexpected(old) == old \in Slots /\ status[old] \notin {"KILLED", "SLEEPING", "RUNNING"}
SavedStatus(old) ==
    IF old \notin Slots THEN status
    ELSE [status EXCEPT ![old] = IF @ = "SLEEPING" THEN "WAKEUP_READY"
                                 ELSE IF @ = "RUNNING" THEN "READY" ELSE @]

(* schedule() up to the release of proc_table.lock.  The CPU stays on the old *)
(* stack until the iretq of Iret.                                             *)
Schedule(c, i) ==
    LET old == current_thread[c] IN
    IF SaveUnexpected(old)
    THEN panic' = "unexpected_state" /\ UNCHANGED <<status, current_thread>>
    ELSE /\ status' = [SavedStatus(old) EXCEPT ![i] = "RUNNING"]
         /\ current_thread' = [current_thread EXCEPT ![c] = i]
         /\ UNCHANGED panic

(* Nothing is ready: the idle thread is chosen only when there is no old      *)
(* thread or it was killed; otherwise HandleNoSchedule returns into the old   *)
(* thread, whatever its status.                                               *)
NothingReady(c) ==
    LET old == current_thread[c] IN
    /\ IF old = NULL \/ (old \in Slots /\ status[old] = "KILLED")
       THEN current_thread' = [current_thread EXCEPT ![c] = Idle]
       ELSE UNCHANGED current_thread
    /\ UNCHANGED <<status, panic>>

InvokeScheduler(c) ==
    /\ \/ \E i \in Slots : IsNext(current_thread[c], i) /\ Schedule(c, i)
       \/ /\ ~ \E i \in Slots : IsNext(current_thread[c], i)
          /\ NothingReady(c)
    /\ UNCHANGED <<can_wakeup, sleep_channel, stack, created>>

(* The rest of schedule(): end of interrupt, then iretq into the new thread.  *)
Iret(c) ==
    /\ panic = "none"
    /\ current_thread[c] # NULL /\ current_thread[c] # stack[c]
    /\ stack' = [stack EXCEPT ![c] = current_thread[c]]
    /\ UNCHANGED <<tableVars, current_thread, pc, panic, created>>

(* Interrupts are on outside spinlock sections; CPUs with no thread spin in   *)
(* init_smp or at the end of an exit, also with interrupts on.                *)
Interruptible(c) ==
    LET t == current_thread[c] IN
    \/ t = NULL
    \/ t = Idle /\ stack[c] = Idle
    \/ t \in Slots /\ stack[c] = t /\ pc[t] \notin {"locked", "unset"}

Timer(c) ==
    /\ panic = "none" /\ Interruptible(c)
    /\ InvokeScheduler(c)
    /\ UNCHANGED pc

-----------------------------------------------------------------------------
(* Spinlock sections and ThreadSleep *)

AcquireSpin(t) ==
    /\ Running(t) /\ pc[t] \in {"run", "reacquire"}
    /\ Goto(t, "locked")
    /\ UNCHANGED <<tableVars, cpuVars, panic, created>>

ReleaseSpin(t) ==
    /\ Running(t) /\ pc[t] = "locked"
    /\ Goto(t, "run")
    /\ UNCHANGED <<tableVars, cpuVars, panic, created>>

(* The first two stores of ThreadSleep. *)
SleepBegin(t, ch) ==
    /\ Running(t) /\ pc[t] = "locked"
    /\ sleep_channel' = [sleep_channel EXCEPT ![t] = ch]
    /\ status' = [status EXCEPT ![t] = "SLEEPING"]
    /\ Goto(t, "unset")
    /\ UNCHANGED <<can_wakeup, cpuVars, panic, created>>

(* can_wakeup = false, then release_Spinlock(spin_lock): interrupts come on.  *)
SleepRelease(t) ==
    /\ Running(t) /\ pc[t] = "unset"
    /\ can_wakeup' = [can_wakeup EXCEPT ![t] = FALSE]
    /\ Goto(t, "check")
    /\ UNCHANGED <<status, sleep_channel, cpuVars, panic, created>>

(* Only a thread that still sleeps goes on to the int3. *)
SleepCheck(t) ==
    /\ Running(t) /\ pc[t] = "check"
    /\ Goto(t, IF status[t] = "SLEEPING" THEN "int3" ELSE "woken")
    /\ UNCHANGED <<tableVars, cpuVars, panic, created>>

(* The int3 and case 3 of isr_handler.  When the thread runs again, after     *)
(* schedule() or at once from HandleNoSchedule, it is behind the int3.        *)
Int3(c, t) ==
    /\ panic = "none" /\ Executes(c, t) /\ pc[t] = "int3"
    /\ IF status[t] = "SLEEPING"
       THEN InvokeScheduler(c) /\ Goto(t, "woken")
       ELSE /\ panic' = "bad_int3"
            /\ UNCHANGED <<tableVars, cpuVars, pc, created>>

SleepEnd(t) ==
    /\ Running(t) /\ pc[t] = "woken"
    /\ sleep_channel' = [sleep_channel EXCEPT ![t] = NULL]
    /\ Goto(t, "reacquire")
    /\ UNCHANGED <<status, can_wakeup, cpuVars, panic, created>>

(* Mutant: threads whose context is not saved yet are not woken. *)
WakesSavedOnly(t, ch) == status[t] = "WAKEUP_READY" /\ sleep_channel[t] = ch

(* Wakeup and NoLockWakeup: permission to run again, for every thread that    *)
(* sleeps on the channel, whether its context is saved yet or not.            *)
Wakes(t, ch) == status[t] \in {"SLEEPING", "WAKEUP_READY"} /\ sleep_channel[t] = ch

(* Mutant: a woken thread becomes READY at once. *)
WakeupSetsReady(ch) ==
    /\ panic = "none"
    /\ status' = [t \in Slots |-> IF Wakes(t, ch) THEN "READY" ELSE status[t]]
    /\ UNCHANGED <<can_wakeup, sleep_channel, cpuVars, pc, panic, created>>

Wakeup(ch) ==
    /\ panic = "none"
    /\ can_wakeup' = [t \in Slots |-> can_wakeup[t] \/ Wakes(t, ch)]
    /\ UNCHANGED <<status, sleep_channel, cpuVars, pc, panic, created>>

-----------------------------------------------------------------------------
(* Creation and exit *)

(* FindFreeThread: the first slot never used or killed. *)
IsFree(i) == status[i] \in {"NOT_INITIALIZED", "KILLED"}

CreateThread(t, i) ==
    /\ Running(t) /\ pc[t] = "run" /\ created < MaxCreates
    /\ IsFree(i) /\ \A j \in Slots : IsFree(j) => i <= j
    /\ status' = [status EXCEPT ![i] = "READY"]
    /\ can_wakeup' = [can_wakeup EXCEPT ![i] = TRUE]
    /\ pc' = [pc EXCEPT ![i] = "run"]
    /\ created' = created + 1
    /\ UNCHANGED <<sleep_channel, cpuVars, panic>>

(* Mutant: the CPU keeps the dead thread as its current thread. *)
ExitKeepsCurrent(c, t) ==
    /\ panic = "none" /\ Executes(c, t) /\ pc[t] = "run"
    /\ status' = [status EXCEPT ![t] = "KILLED"]
    /\ UNCHANGED <<can_wakeup, sleep_channel, cpuVars, pc, panic, created>>

(* The CPU then spins, on the stack of the slot it has given up. *)
ExitThread(c, t) ==
    /\ panic = "none" /\ Executes(c, t) /\ pc[t] = "run"
    /\ status' = [status EXCEPT ![t] = "KILLED"]
    /\ current_thread' = [current_thread EXCEPT ![c] = NULL]
    /\ UNCHANGED <<can_wakeup, sleep_channel, stack, pc, panic, created>>

-----------------------------------------------------------------------------
ThreadStep(t) == \/ AcquireSpin(t) \/ ReleaseSpin(t)
                 \/ \E ch \in Channels : SleepBegin(t, ch)
                 \/ SleepRelease(t) \/ SleepCheck(t) \/ SleepEnd(t)

(* A panicked machine halts: every CPU stops at its next timer tick. *)
Halted == panic # "none" /\ UNCHANGED schedVars

Next == \/ \E c \in CPUs : Timer(c) \/ Iret(c)
        \/ \E c \in CPUs, t \in Slots : Int3(c, t) \/ ExitThread(c, t)
        \/ \E t \in Slots : ThreadStep(t) \/ \E i \in Slots : CreateThread(t, i)
        \/ \E ch \in Channels : Wakeup(ch)
        \/ Halted

Spec == Init /\ [][Next]_schedVars

(* The APIC timer is periodic and a tick that comes while interrupts are off  *)
(* stays pending, so a CPU that is interruptible again and again is           *)
(* interrupted; a CPU keeps executing the code of its thread.                 *)
Fairness == /\ \A c \in CPUs : SF_schedVars(Timer(c)) /\ WF_schedVars(Iret(c))
            /\ \A t \in Slots : WF_schedVars(ThreadStep(t))

FairSpec == Spec /\ Fairness

-----------------------------------------------------------------------------
(* Properties *)

(* Two CPUs never run the same thread. *)
OneCpuPerThread ==
    \A c, d \in CPUs : current_thread[c] = current_thread[d] /\ current_thread[c] \in Slots
                       => c = d

(* The status of a thread and the current_thread fields agree: a thread is    *)
(* RUNNING, or SLEEPING with its context not yet saved, exactly while some    *)
(* CPU has it as current thread.  The scheduler on another CPU relies on the  *)
(* status alone when it picks a thread and when FindFreeThread reuses a slot. *)
RunningIffCurrent ==
    \A t \in Slots : status[t] \in {"RUNNING", "SLEEPING"}
                     <=> \E c \in CPUs : current_thread[c] = t

(* The default case of SaveThreadContext, "old_thread was in unexpected       *)
(* state", is unreachable.                                                    *)
NoUnexpectedState == panic # "unexpected_state"

(* "These two for loops are just round-robin": a thread that may run is run,  *)
(* as long as threads are created finitely often (an exit makes the CPU scan  *)
(* from slot 0 again).                                                        *)
RunnableRuns ==
    \A t \in Slots :
        (status[t] = "READY" \/ (status[t] = "WAKEUP_READY" /\ can_wakeup[t]))
        ~> (status[t] = "RUNNING" \/ panic # "none")
=============================================================================
