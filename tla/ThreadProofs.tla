---------------------------- MODULE ThreadProofs ----------------------------
(* The theorems about threads, for any number of threads, CPUs, channels,     *)
(* sleeplocks and processes: the scheduler, and then the two kinds of code    *)
(* that run on it, sleeplocks and the system calls of processes.              *)
EXTENDS Process, Sleeplock, FiniteSetTheorems, TLAPS

(***************************************************************************)
(* Scheduler: the thread table and the current_thread fields agree in      *)
(* every reachable state.                                                  *)
(***************************************************************************)

(* Each of the four parts is needed for the others: the status tells the      *)
(* scheduler and FindFreeThread that no CPU has the thread, and a CPU that    *)
(* gives up a thread must be the only one that had it.                        *)
SchedInv == /\ TypeOK
            /\ OneCpuPerThread
            /\ RunningIffCurrent
            /\ NoUnexpectedState

LEMMA SlotFacts ==
    /\ Slots \subseteq Int
    /\ 0 \in Slots
    /\ Idle \notin Slots
    /\ NULL \notin Slots
    /\ NULL # Idle
  BY SlotAssumption, NullAssumption DEF Slots, Idle

LEMMA InitEstablishes == Init => SchedInv
<1> SUFFICES ASSUME Init PROVE SchedInv
  OBVIOUS
<1>1. PICK bsp \in CPUs : /\ current_thread = [c \in CPUs |-> IF c = bsp THEN 0 ELSE NULL]
                          /\ stack = current_thread
  BY DEF Init
<1>2. TypeOK
  BY <1>1, SlotFacts, BoundAssumption DEF Init, TypeOK, States, PCs
<1>3. OneCpuPerThread
  BY <1>1, SlotFacts DEF OneCpuPerThread
<1>4. RunningIffCurrent
  <2> SUFFICES ASSUME NEW t \in Slots
               PROVE  status[t] \in {"RUNNING", "SLEEPING"}
                      <=> \E c \in CPUs : current_thread[c] = t
    BY DEF RunningIffCurrent
  <2>1. CASE t = 0
    <3>1. current_thread[bsp] = t
      BY <1>1, <2>1
    <3> QED BY <2>1, <3>1 DEF Init
  <2>2. CASE t # 0
    BY <1>1, <2>2, SlotFacts DEF Init
  <2> QED BY <2>1, <2>2
<1>5. NoUnexpectedState
  BY DEF Init, NoUnexpectedState
<1> QED BY <1>2, <1>3, <1>4, <1>5 DEF SchedInv

(* A thread the scheduler may pick or a slot it may reuse is nobody's thread. *)
LEMMA NotCurrent ==
    ASSUME SchedInv, NEW t \in Slots, status[t] \notin {"RUNNING", "SLEEPING"}
    PROVE  \A c \in CPUs : current_thread[c] # t
  BY DEF SchedInv, RunningIffCurrent

(* Steps that change neither a status nor a current_thread. *)
LEMMA TableUnchanged ==
    ASSUME SchedInv, TypeOK', UNCHANGED <<status, current_thread>>,
           panic' # "unexpected_state"
    PROVE  SchedInv'
  BY DEF SchedInv, OneCpuPerThread, RunningIffCurrent, NoUnexpectedState

(* InvokeScheduler, with the pc it leaves to its callers. *)
LEMMA InvokePreserves ==
    ASSUME SchedInv, NEW c \in CPUs, panic = "none", InvokeScheduler(c),
           pc' \in [Slots -> PCs]
    PROVE  SchedInv'
<1> DEFINE old == current_thread[c]
<1>u. /\ UNCHANGED <<can_wakeup, sleep_channel, stack, created>>
      /\ TypeOK /\ OneCpuPerThread /\ RunningIffCurrent
  BY DEF InvokeScheduler, SchedInv
<1>1. ASSUME NEW i \in Slots, IsNext(old, i), Schedule(c, i)
      PROVE  SchedInv'
  <2>1. status[i] \in {"READY", "WAKEUP_READY"} /\ i # old
    BY <1>1 DEF IsNext, CanRun
  <2>2. \A d \in CPUs : current_thread[d] # i
    BY <2>1, NotCurrent
  <2>3. old \in Slots => status[old] \in {"RUNNING", "SLEEPING"}
    BY <1>u DEF RunningIffCurrent
  <2>4. ~ SaveUnexpected(old)
    BY <2>3 DEF SaveUnexpected
  <2>5. /\ status' = [SavedStatus(old) EXCEPT ![i] = "RUNNING"]
        /\ current_thread' = [current_thread EXCEPT ![c] = i]
        /\ panic' = panic
    BY <1>1, <2>4 DEF Schedule
  <2>6. /\ SavedStatus(old) \in [Slots -> States]
        /\ \A t \in Slots : t # old => SavedStatus(old)[t] = status[t]
        /\ old \in Slots => SavedStatus(old)[old] \in {"READY", "WAKEUP_READY"}
    BY <1>u, <2>3 DEF SavedStatus, TypeOK, States
  <2>7. /\ status' \in [Slots -> States]
        /\ status'[i] = "RUNNING"
        /\ \A t \in Slots : t # i /\ t # old => status'[t] = status[t]
        /\ old \in Slots => status'[old] \in {"READY", "WAKEUP_READY"}
    BY <2>1, <2>5, <2>6 DEF States
  <2>8. /\ current_thread' \in [CPUs -> Slots \cup {Idle, NULL}]
        /\ current_thread'[c] = i
        /\ \A d \in CPUs : d # c => current_thread'[d] = current_thread[d]
    BY <1>u, <2>5 DEF TypeOK
  <2>9. TypeOK'
    BY <1>u, <2>5, <2>7, <2>8 DEF TypeOK
  <2>10. OneCpuPerThread'
    BY <1>u, <2>2, <2>8 DEF OneCpuPerThread
  <2>11. RunningIffCurrent'
    <3> SUFFICES ASSUME NEW t \in Slots
                 PROVE  status'[t] \in {"RUNNING", "SLEEPING"}
                        <=> \E d \in CPUs : current_thread'[d] = t
      BY DEF RunningIffCurrent
    <3>1. CASE t = i
      BY <3>1, <2>7, <2>8
    <3>2. CASE t = old
      <4>1. \A d \in CPUs : d # c => current_thread[d] # t
        BY <3>2, <1>u DEF OneCpuPerThread
      <4>2. ~ \E d \in CPUs : current_thread'[d] = t
        BY <4>1, <3>2, <2>1, <2>8
      <4> QED BY <4>2, <3>2, <2>7
    <3>3. CASE t # i /\ t # old
      <4>1. (\E d \in CPUs : current_thread'[d] = t) <=> (\E d \in CPUs : current_thread[d] = t)
        BY <3>3, <2>8
      <4> QED BY <4>1, <3>3, <2>7, <1>u DEF RunningIffCurrent
    <3> QED BY <3>1, <3>2, <3>3
  <2>12. NoUnexpectedState'
    BY <2>5 DEF NoUnexpectedState
  <2> QED BY <2>9, <2>10, <2>11, <2>12 DEF SchedInv
<1>2. ASSUME NothingReady(c)
      PROVE  SchedInv'
  <2>1. /\ status' = status /\ panic' = panic
        /\ current_thread' \in [CPUs -> Slots \cup {Idle, NULL}]
        /\ \A d \in CPUs : d # c => current_thread'[d] = current_thread[d]
    BY <1>2, <1>u DEF NothingReady, TypeOK
  <2>2. old \in Slots => current_thread'[c] = old
    <3>1. old \in Slots => status[old] # "KILLED" /\ old # NULL
      BY <1>u, SlotFacts DEF RunningIffCurrent
    <3> QED BY <3>1, <1>2 DEF NothingReady
  <2>3. old \notin Slots => current_thread'[c] \notin Slots
    BY <1>2, <1>u, SlotFacts DEF NothingReady, TypeOK
  <2>4. \A t \in Slots : \A d \in CPUs : current_thread'[d] = t <=> current_thread[d] = t
    BY <2>1, <2>2, <2>3
  <2>5. TypeOK'
    BY <1>u, <2>1 DEF TypeOK
  <2>6. OneCpuPerThread'
    BY <1>u, <2>4 DEF OneCpuPerThread
  <2>7. RunningIffCurrent'
    BY <1>u, <2>1, <2>4 DEF RunningIffCurrent
  <2> QED BY <2>1, <2>5, <2>6, <2>7 DEF SchedInv, NoUnexpectedState
<1> QED BY <1>1, <1>2 DEF InvokeScheduler

LEMMA CreatePreserves ==
    ASSUME SchedInv, NEW t \in Slots, NEW i \in Slots, CreateThread(t, i)
    PROVE  SchedInv'
<1>1. status[i] \in {"NOT_INITIALIZED", "KILLED"}
  BY DEF CreateThread, IsFree
<1>2. \A c \in CPUs : current_thread[c] # i
  BY <1>1, NotCurrent
<1>3. TypeOK'
  <2>1. created' \in 0 .. MaxCreates
    BY BoundAssumption DEF CreateThread, SchedInv, TypeOK
  <2> QED BY <2>1 DEF CreateThread, SchedInv, TypeOK, States, PCs, cpuVars
<1>4. OneCpuPerThread'
  BY DEF CreateThread, SchedInv, OneCpuPerThread, cpuVars
<1>5. RunningIffCurrent'
  <2>1. /\ current_thread' = current_thread
        /\ status'[i] = "READY"
        /\ \A s \in Slots : s # i => status'[s] = status[s]
    BY DEF CreateThread, SchedInv, TypeOK, cpuVars
  <2> QED BY <1>2, <2>1 DEF SchedInv, RunningIffCurrent
<1> QED BY <1>3, <1>4, <1>5 DEF CreateThread, SchedInv, NoUnexpectedState

(* The end of a thread, whatever it does to the can_wakeup of the others. *)
LEMMA ExitPreserves ==
    ASSUME SchedInv, NEW c \in CPUs, NEW t \in Slots, Executes(c, t),
           status' = [status EXCEPT ![t] = "KILLED"],
           current_thread' = [current_thread EXCEPT ![c] = NULL],
           can_wakeup' \in [Slots -> BOOLEAN],
           UNCHANGED <<sleep_channel, stack, pc, panic, created>>
    PROVE  SchedInv'
<1>1. /\ current_thread[c] = t
      /\ status'[t] = "KILLED"
      /\ \A s \in Slots : s # t => status'[s] = status[s]
      /\ current_thread'[c] = NULL
      /\ \A d \in CPUs : d # c => current_thread'[d] = current_thread[d]
  BY DEF Executes, SchedInv, TypeOK
<1>2. TypeOK'
  BY DEF SchedInv, TypeOK, States
<1>3. OneCpuPerThread'
  BY <1>1, SlotFacts DEF SchedInv, OneCpuPerThread
<1>4. RunningIffCurrent'
  <2> SUFFICES ASSUME NEW s \in Slots
               PROVE  status'[s] \in {"RUNNING", "SLEEPING"}
                      <=> \E d \in CPUs : current_thread'[d] = s
    BY DEF RunningIffCurrent
  <2>1. CASE s = t
    <3>1. \A d \in CPUs : d # c => current_thread[d] # s
      BY <1>1, <2>1 DEF SchedInv, OneCpuPerThread
    <3> QED BY <3>1, <1>1, <2>1, SlotFacts
  <2>2. CASE s # t
    <3>1. (\E d \in CPUs : current_thread'[d] = s) <=> (\E d \in CPUs : current_thread[d] = s)
      BY <1>1, <2>2, SlotFacts
    <3> QED BY <3>1, <1>1, <2>2 DEF SchedInv, RunningIffCurrent
  <2> QED BY <2>1, <2>2
<1> QED BY <1>2, <1>3, <1>4 DEF SchedInv, NoUnexpectedState

(* A running thread begins to sleep: its CPU keeps it as current thread. *)
LEMMA SleepBeginPreserves ==
    ASSUME SchedInv, NEW t \in Slots, NEW ch \in Channels, SleepBegin(t, ch)
    PROVE  SchedInv'
<1>1. \E c \in CPUs : current_thread[c] = t
  BY DEF SleepBegin, Running, Executes
<1>2. /\ current_thread' = current_thread
      /\ status'[t] = "SLEEPING"
      /\ \A s \in Slots : s # t => status'[s] = status[s]
  BY DEF SleepBegin, SchedInv, TypeOK, cpuVars
<1>3. TypeOK'
  BY DEF SleepBegin, Goto, SchedInv, TypeOK, States, PCs, SleepPCs, cpuVars
<1>4. RunningIffCurrent'
  BY <1>1, <1>2 DEF SchedInv, RunningIffCurrent
<1> QED BY <1>2, <1>3, <1>4 DEF SleepBegin, SchedInv, OneCpuPerThread, NoUnexpectedState

LEMMA NextPreserves == SchedInv /\ [Next]_schedVars => SchedInv'
<1> SUFFICES ASSUME SchedInv, [Next]_schedVars PROVE SchedInv'
  OBVIOUS
<1>t. TypeOK /\ NoUnexpectedState
  BY DEF SchedInv
<1>1. ASSUME NEW c \in CPUs, Timer(c) PROVE SchedInv'
  BY <1>1, <1>t, InvokePreserves DEF Timer, TypeOK
<1>2. ASSUME NEW c \in CPUs, Iret(c) PROVE SchedInv'
  <2>1. TypeOK'
    BY <1>2, <1>t DEF Iret, TypeOK, tableVars
  <2> QED BY <1>2, <2>1, TableUnchanged DEF Iret, tableVars
<1>3. ASSUME NEW c \in CPUs, NEW t \in Slots, Int3(c, t) PROVE SchedInv'
  <2>1. CASE status[t] = "SLEEPING"
    <3>1. InvokeScheduler(c) /\ panic = "none" /\ Goto(t, "woken")
      BY <1>3, <2>1 DEF Int3
    <3>2. pc' \in [Slots -> PCs]
      BY <3>1, <1>t DEF Goto, TypeOK, PCs, SleepPCs
    <3> QED BY <3>1, <3>2, InvokePreserves
  <2>2. CASE status[t] # "SLEEPING"
    <3>1. panic' = "bad_int3" /\ UNCHANGED <<tableVars, cpuVars, pc, created>>
      BY <1>3, <2>2 DEF Int3
    <3>2. TypeOK'
      BY <3>1, <1>t DEF TypeOK, tableVars, cpuVars
    <3> QED BY <3>1, <3>2, TableUnchanged DEF tableVars, cpuVars
  <2> QED BY <2>1, <2>2
<1>4. ASSUME NEW c \in CPUs, NEW t \in Slots, ExitThread(c, t) PROVE SchedInv'
  BY <1>4, <1>t, ExitPreserves DEF ExitThread, TypeOK
<1>5. ASSUME NEW t \in Slots, NEW i \in Slots, CreateThread(t, i) PROVE SchedInv'
  BY <1>5, CreatePreserves
<1>6. ASSUME NEW ch \in Channels, Wakeup(ch) PROVE SchedInv'
  <2>1. TypeOK'
    BY <1>6, <1>t DEF Wakeup, Wakes, TypeOK, cpuVars
  <2> QED BY <1>6, <1>t, <2>1, TableUnchanged DEF Wakeup, cpuVars, NoUnexpectedState
<1>7. ASSUME NEW t \in Slots, ThreadStep(t) PROVE SchedInv'
  <2>1. CASE \E ch \in Channels : SleepBegin(t, ch)
    BY <2>1, SleepBeginPreserves
  <2>2. CASE AcquireSpin(t) \/ ReleaseSpin(t) \/ SleepRelease(t) \/ SleepCheck(t) \/ SleepEnd(t)
    <3>1. TypeOK'
      BY <2>2, <1>t DEF AcquireSpin, ReleaseSpin, SleepRelease, SleepCheck, SleepEnd,
                        Goto, TypeOK, PCs, SleepPCs, tableVars, cpuVars
    <3>2. UNCHANGED <<status, current_thread, panic>>
      BY <2>2 DEF AcquireSpin, ReleaseSpin, SleepRelease, SleepCheck, SleepEnd,
                  tableVars, cpuVars
    <3> QED BY <3>1, <3>2, <1>t, TableUnchanged DEF NoUnexpectedState
  <2> QED BY <1>7, <2>1, <2>2 DEF ThreadStep
<1>8. CASE UNCHANGED schedVars
  <2>1. TypeOK' /\ UNCHANGED <<status, current_thread, panic>>
    BY <1>8, <1>t DEF schedVars, tableVars, cpuVars, TypeOK
  <2> QED BY <2>1, <1>t, TableUnchanged DEF NoUnexpectedState
<1> QED
  BY <1>1, <1>2, <1>3, <1>4, <1>5, <1>6, <1>7, <1>8 DEF Next, Halted

(* The thread table is consistent in every reachable state, whatever code    *)
(* the threads run.                                                          *)
THEOREM SchedulerInvariant == Spec => []SchedInv
  BY InitEstablishes, NextPreserves, PTL DEF Spec

(* InvokeScheduler, ThreadSleep, Wakeup, creation and exit keep every field  *)
(* in its type.                                                              *)
THEOREM SchedulerTypes == Spec => []TypeOK
<1>1. SchedInv => TypeOK
  BY DEF SchedInv
<1> QED BY <1>1, SchedulerInvariant, PTL

(* No two CPUs ever have the same thread as current thread.                  *)
THEOREM SchedulerOneCpu == Spec => []OneCpuPerThread
<1>1. SchedInv => OneCpuPerThread
  BY DEF SchedInv
<1> QED BY <1>1, SchedulerInvariant, PTL

(* A status RUNNING or SLEEPING is exactly being some CPU's current thread.  *)
THEOREM SchedulerRunning == Spec => []RunningIffCurrent
<1>1. SchedInv => RunningIffCurrent
  BY DEF SchedInv
<1> QED BY <1>1, SchedulerInvariant, PTL

(* SaveThreadContext never meets a thread in an unexpected state.            *)
THEOREM SchedulerNoUnexpectedState == Spec => []NoUnexpectedState
<1>1. SchedInv => NoUnexpectedState
  BY DEF SchedInv
<1> QED BY <1>1, SchedulerInvariant, PTL

(***************************************************************************)
(* Sleeplocks: acquire_Sleeplock and release_Sleeplock exclude each other  *)
(* and lose no wakeup.  The sleeplock code is an instance of the code the  *)
(* scheduler allows its threads to run, so the invariant above holds.      *)
(***************************************************************************)

(* The thread inside the inner spinlock is the one whose code is there. *)
SpinInv == \A t \in Slots, l \in Sleeplocks :
             spin[l] = t <=> lk[t] = l /\ pc[t] \in {"locked", "unset"}

(* Where the thread is in its kernel code and in the sleeplock call agree,   *)
(* and only a live thread is in such a call.                                 *)
OpInv == \A t \in Slots :
           /\ pc[t] = "run" <=> op[t] \in {"none", "own", "wake"}
           /\ pc[t] \in SleepPCs => op[t] = "acquire"
           /\ op[t] # "none" => lk[t] \in Sleeplocks
           /\ op[t] # "none" => ~ IsFree(t)

(* A thread goes to sleep only on a taken lock. *)
SleepInv == \A t \in Slots : pc[t] = "unset" => is_locked[lk[t]] /\ sleep_channel[t] = lk[t]

(* NoLostWakeup, also for threads whose context is not saved yet. *)
Asleep(t) == status[t] \in {"SLEEPING", "WAKEUP_READY"}
WakeInv == \A t \in Slots, l \in Sleeplocks :
             Asleep(t) /\ pc[t] # "unset" /\ sleep_channel[t] = l /\ ~ can_wakeup[t] /\ ~ is_locked[l]
             => \E u \in Slots : op[u] = "wake" /\ lk[u] = l

LockInv == /\ SleeplockTypeOK
           /\ SpinInv /\ OpInv /\ HoldingsleepExact /\ SleepInv /\ WakeInv

-----------------------------------------------------------------------------
(* Refinement of the scheduler *)

LEMMA InitLocks == SleeplockInit => LockInv
<1> SUFFICES ASSUME SleeplockInit PROVE LockInv
  OBVIOUS
<1>1. TypeOK
  BY InitEstablishes DEF SleeplockInit, SchedInv
<1>2. SleeplockTypeOK
  BY <1>1, SlotFacts DEF SleeplockInit, SleeplockTypeOK, Ops, Sleeplocks, NoTid
<1>3. SpinInv /\ OpInv
  BY SlotFacts DEF SleeplockInit, Init, SpinInv, OpInv, SleepPCs
<1>4. HoldingsleepExact
  BY DEF SleeplockInit, HoldingsleepExact, holdingsleep, Owns
<1>5. SleepInv /\ WakeInv
  BY NullAssumption DEF SleeplockInit, Init, SleepInv, WakeInv, Sleeplocks
<1> QED BY <1>2, <1>3, <1>4, <1>5 DEF LockInv

LEMMA StepsAreSchedulerSteps == LockInv /\ [SleeplockNext]_vars => [Next]_schedVars
<1> SUFFICES ASSUME LockInv, [SleeplockNext]_vars PROVE [Next]_schedVars
  OBVIOUS
<1>1. ASSUME NEW t \in Slots, LockStep(t) PROVE Next
  <2>1. CASE SleepOnLock(t)
    <3>1. lk[t] \in Channels
      BY <2>1 DEF SleepOnLock, LockInv, OpInv, Sleeplocks
    <3>2. SleepBegin(t, lk[t])
      BY <2>1 DEF SleepOnLock
    <3> QED BY <3>1, <3>2 DEF Next, ThreadStep
  <2>2. CASE WakeSleepers(t)
    <3>1. lk[t] \in Channels
      BY <2>2 DEF WakeSleepers, LockInv, OpInv, Sleeplocks
    <3>2. Wakeup(lk[t])
      BY <2>2 DEF WakeSleepers
    <3> QED BY <3>1, <3>2 DEF Next
  <2>3. CASE ~ SleepOnLock(t) /\ ~ WakeSleepers(t)
    <3>1. AcquireSpin(t) \/ ReleaseSpin(t) \/ SleepRelease(t)
      BY <1>1, <2>3 DEF LockStep, BeginAcquire, SleepUnlock, Reacquire, Take,
                        BeginRelease, Release
    <3> QED BY <3>1 DEF Next, ThreadStep
  <2> QED BY <2>1, <2>2, <2>3
<1>2. ASSUME NEW t \in Slots, NEW i \in Slots, Create(t, i) PROVE Next
  BY <1>2 DEF Create, Next
<1>3. ASSUME NEW c \in CPUs, NEW t \in Slots, ExitUnlocked(c, t) PROVE Next
  BY <1>3 DEF ExitUnlocked, Next
<1>4. ASSUME SwitchStep PROVE Next
  BY <1>4 DEF SwitchStep, Next, ThreadStep
<1>5. CASE UNCHANGED vars
  BY <1>5 DEF vars
<1> QED BY <1>1, <1>2, <1>3, <1>4, <1>5 DEF SleeplockNext

-----------------------------------------------------------------------------
(* The inductive invariant *)

(* What InvokeScheduler does to the statuses: it neither frees a slot nor     *)
(* puts a thread to sleep.                                                    *)
LEMMA InvokeAsleep ==
    ASSUME TypeOK, NEW c \in CPUs, InvokeScheduler(c), NEW t \in Slots
    PROVE  /\ IsFree(t)' => IsFree(t)
           /\ Asleep(t)' => Asleep(t)
           /\ UNCHANGED <<can_wakeup, sleep_channel>>
<1>1. ASSUME NEW i \in Slots, Schedule(c, i)
      PROVE (IsFree(t)' => IsFree(t)) /\ (Asleep(t)' => Asleep(t))
  <2> DEFINE old == current_thread[c]
  <2>1. CASE SaveUnexpected(old)
    BY <1>1, <2>1 DEF Schedule, IsFree, Asleep
  <2>2. CASE ~ SaveUnexpected(old)
    <3>1. status' = [SavedStatus(old) EXCEPT ![i] = "RUNNING"]
      BY <1>1, <2>2 DEF Schedule
    <3>2. /\ SavedStatus(old) \in [Slots -> States]
          /\ SavedStatus(old)[t] \in {"NOT_INITIALIZED", "KILLED"}
             => status[t] \in {"NOT_INITIALIZED", "KILLED"}
          /\ SavedStatus(old)[t] \in {"SLEEPING", "WAKEUP_READY"}
             => status[t] \in {"SLEEPING", "WAKEUP_READY"}
      BY DEF SavedStatus, TypeOK, States
    <3>3. status'[t] = IF t = i THEN "RUNNING" ELSE SavedStatus(old)[t]
      BY <3>1, <3>2
    <3> QED BY <3>2, <3>3 DEF IsFree, Asleep
  <2> QED BY <2>1, <2>2
<1>2. ASSUME NothingReady(c)
      PROVE (IsFree(t)' => IsFree(t)) /\ (Asleep(t)' => Asleep(t))
  BY <1>2 DEF NothingReady, IsFree, Asleep
<1> QED BY <1>1, <1>2 DEF InvokeScheduler

(* Steps of the scheduler proper: the lock fields stay, a pc moves at most    *)
(* between places outside the inner spinlock.                                 *)
LEMMA SchedulerStepPreserves ==
    ASSUME LockInv, TypeOK', UNCHANGED lockVars,
           \A t \in Slots : IsFree(t)' => IsFree(t),
           \A t \in Slots : Asleep(t)' => Asleep(t),
           \A t \in Slots : can_wakeup'[t] = can_wakeup[t],
           \A t \in Slots : sleep_channel'[t] \in {sleep_channel[t], NULL},
           \A t \in Slots : \/ pc'[t] = pc[t] /\ sleep_channel'[t] = sleep_channel[t]
                            \/ pc[t] \in SleepPCs \ {"unset"} /\ pc'[t] \in SleepPCs \ {"unset"}
    PROVE  LockInv'
<1>1. SleeplockTypeOK'
  BY DEF LockInv, SleeplockTypeOK, lockVars
<1>2. SpinInv'
  BY DEF LockInv, SpinInv, lockVars, SleepPCs
<1>3. OpInv'
  BY DEF LockInv, OpInv, lockVars, SleepPCs
<1>4. HoldingsleepExact'
  BY DEF LockInv, HoldingsleepExact, holdingsleep, Owns, lockVars
<1>5. SleepInv'
  BY DEF LockInv, SleepInv, lockVars, SleepPCs
<1>6. WakeInv'
  <2> SUFFICES ASSUME NEW t \in Slots, NEW l \in Sleeplocks,
                      Asleep(t)', pc'[t] # "unset", sleep_channel'[t] = l,
                      ~ can_wakeup'[t], ~ is_locked'[l]
               PROVE  \E u \in Slots : op[u] = "wake" /\ lk[u] = l
    BY DEF WakeInv, lockVars
  <2>1. sleep_channel[t] = l
    BY NullAssumption DEF Sleeplocks
  <2>2. pc[t] # "unset"
    BY DEF SleepPCs
  <2> QED BY <2>1, <2>2 DEF LockInv, WakeInv, lockVars
<1> QED BY <1>1, <1>2, <1>3, <1>4, <1>5, <1>6 DEF LockInv

LEMMA CreateExitPreserve ==
    ASSUME LockInv, TypeOK', NEW t \in Slots,
           \/ \E i \in Slots : Create(t, i)
           \/ \E c \in CPUs : ExitUnlocked(c, t)
    PROVE  LockInv'
<1>t. TypeOK
  BY DEF LockInv, SleeplockTypeOK
<1>1. ASSUME NEW i \in Slots, Create(t, i) PROVE LockInv'
  <2>1. /\ IsFree(i) /\ status' = [status EXCEPT ![i] = "READY"]
        /\ pc' = [pc EXCEPT ![i] = "run"]
        /\ can_wakeup' = [can_wakeup EXCEPT ![i] = TRUE]
        /\ UNCHANGED <<sleep_channel, lockVars>>
    BY <1>1 DEF Create, CreateThread
  <2>2. op[i] = "none" /\ pc[i] = "run"
    BY <2>1 DEF LockInv, OpInv
  <2>3. pc' = pc
    BY <2>1, <2>2, <1>t DEF TypeOK
  <2>4. \A s \in Slots : (IsFree(s)' => IsFree(s)) /\ (Asleep(s)' => Asleep(s) /\ s # i)
    BY <2>1, <1>t DEF TypeOK, IsFree, Asleep
  <2>5. SleeplockTypeOK' /\ SpinInv' /\ OpInv' /\ HoldingsleepExact' /\ SleepInv'
    <3>1. SleeplockTypeOK' BY <2>1 DEF LockInv, SleeplockTypeOK, lockVars
    <3>2. SpinInv' BY <2>1, <2>3 DEF LockInv, SpinInv, lockVars
    <3>3. OpInv' BY <2>1, <2>3, <2>4 DEF LockInv, OpInv, lockVars
    <3>4. HoldingsleepExact' BY <2>1 DEF LockInv, HoldingsleepExact, holdingsleep, Owns, lockVars
    <3>5. SleepInv' BY <2>1, <2>3 DEF LockInv, SleepInv, lockVars
    <3> QED BY <3>1, <3>2, <3>3, <3>4, <3>5
  <2>6. \A s \in Slots : s # i => can_wakeup'[s] = can_wakeup[s]
    BY <2>1, <1>t DEF TypeOK
  <2>7. WakeInv'
    BY <2>1, <2>3, <2>4, <2>6 DEF LockInv, WakeInv, lockVars
  <2> QED BY <2>5, <2>7 DEF LockInv
<1>2. ASSUME NEW c \in CPUs, ExitUnlocked(c, t) PROVE LockInv'
  <2>1. /\ op[t] = "none" /\ status' = [status EXCEPT ![t] = "KILLED"]
        /\ UNCHANGED <<can_wakeup, sleep_channel, pc, lockVars>>
    BY <1>2 DEF ExitUnlocked, ExitThread
  <2>2. \A s \in Slots : /\ Asleep(s)' => Asleep(s)
                         /\ s # t => (IsFree(s)' <=> IsFree(s))
    BY <2>1, <1>t DEF TypeOK, IsFree, Asleep
  <2>3. SleeplockTypeOK' BY <2>1 DEF LockInv, SleeplockTypeOK, lockVars
  <2>4. SpinInv' BY <2>1 DEF LockInv, SpinInv, lockVars
  <2>5. OpInv' BY <2>1, <2>2 DEF LockInv, OpInv, lockVars
  <2>6. HoldingsleepExact' BY <2>1 DEF LockInv, HoldingsleepExact, holdingsleep, Owns, lockVars
  <2>7. SleepInv' BY <2>1 DEF LockInv, SleepInv, lockVars
  <2>8. WakeInv' BY <2>1, <2>2 DEF LockInv, WakeInv, lockVars
  <2> QED BY <2>3, <2>4, <2>5, <2>6, <2>7, <2>8 DEF LockInv
<1> QED BY <1>1, <1>2

(* Entering the inner spinlock: it was free, so no other thread is inside. *)
LEMMA EnterSpinPreserves ==
    ASSUME LockInv, SchedInv, TypeOK', NEW t \in Slots,
           (\E l \in Sleeplocks : BeginAcquire(t, l)) \/ Reacquire(t) \/ BeginRelease(t)
    PROVE  LockInv'
<1>t. TypeOK /\ SleeplockTypeOK
  BY DEF LockInv, SleeplockTypeOK
<1>1. PICK l \in Sleeplocks :
        /\ spin[l] = NULL /\ spin' = [spin EXCEPT ![l] = t]
        /\ pc' = [pc EXCEPT ![t] = "locked"]
        /\ lk' = [lk EXCEPT ![t] = l]
        /\ UNCHANGED <<status, can_wakeup, sleep_channel, is_locked, owner_tid>>
        /\ \/ op[t] = "none" /\ pc[t] = "run" /\ op' = [op EXCEPT ![t] = "acquire"]
           \/ op[t] = "acquire" /\ pc[t] = "reacquire" /\ op' = op /\ lk' = lk
           \/ op[t] = "own" /\ pc[t] = "run" /\ op' = [op EXCEPT ![t] = "release"] /\ lk' = lk
  <2>1. CASE \E l \in Sleeplocks : BeginAcquire(t, l)
    BY <2>1 DEF BeginAcquire, AcquireSpin, TakeSpin, Goto, tableVars
  <2>2. CASE Reacquire(t)
    <3>1. lk[t] \in Sleeplocks /\ op[t] = "acquire"
      BY <2>2 DEF Reacquire, LockInv, OpInv, SleepPCs
    <3>2. lk = [lk EXCEPT ![t] = lk[t]]
      BY <1>t DEF SleeplockTypeOK
    <3> QED BY <2>2, <3>1, <3>2 DEF Reacquire, AcquireSpin, TakeSpin, Goto, tableVars
  <2>3. CASE BeginRelease(t)
    <3>1. lk[t] \in Sleeplocks
      BY <2>3 DEF BeginRelease, LockInv, OpInv
    <3>2. lk = [lk EXCEPT ![t] = lk[t]]
      BY <1>t DEF SleeplockTypeOK
    <3> QED BY <2>3, <3>1, <3>2 DEF BeginRelease, AcquireSpin, TakeSpin, Goto, tableVars
  <2> QED BY <2>1, <2>2, <2>3
<1>2. /\ \A s \in Slots : s # t => pc'[s] = pc[s] /\ lk'[s] = lk[s] /\ op'[s] = op[s]
      /\ pc'[t] = "locked" /\ lk'[t] = l /\ op'[t] \in {"acquire", "release"}
      /\ spin'[l] = t
      /\ \A m \in Sleeplocks : m # l => spin'[m] = spin[m]
      /\ pc[t] \notin {"locked", "unset"}
  BY <1>1, <1>t DEF TypeOK, SleeplockTypeOK
<1>3. SleeplockTypeOK'
  BY <1>1, <1>t DEF SleeplockTypeOK, Ops
<1>4. SpinInv'
  <2> SUFFICES ASSUME NEW s \in Slots, NEW m \in Sleeplocks
               PROVE  spin'[m] = s <=> lk'[s] = m /\ pc'[s] \in {"locked", "unset"}
    BY DEF SpinInv
  <2>1. \A u \in Slots : spin[l] # u
    BY <1>1, SlotFacts
  <2>2. CASE s = t
    BY <1>2, <2>2, <2>1 DEF LockInv, SpinInv
  <2>3. CASE s # t
    BY <1>2, <2>1, <2>3 DEF LockInv, SpinInv
  <2> QED BY <2>2, <2>3
<1>5. OpInv'
  <2>1. \A s \in Slots : IsFree(s)' <=> IsFree(s)
    BY <1>1 DEF IsFree
  <2>2. ~ IsFree(t)
    <3>1. Running(t)
      BY DEF BeginAcquire, Reacquire, BeginRelease, AcquireSpin
    <3>2. status[t] \in {"RUNNING", "SLEEPING"}
      BY <3>1 DEF Running, Executes, SchedInv, RunningIffCurrent
    <3> QED BY <3>2 DEF IsFree
  <2> QED BY <1>2, <2>1, <2>2 DEF LockInv, OpInv, SleepPCs
<1>6. HoldingsleepExact'
  <2>1. \A s \in Slots, m \in Sleeplocks : Owns(s, m)' <=> Owns(s, m)
    <3>1. \A m \in Sleeplocks : Owns(t, m)' <=> Owns(t, m)
      BY <1>1, <1>t DEF Owns, SleeplockTypeOK
    <3> QED BY <3>1, <1>2 DEF Owns
  <2> QED BY <1>1, <2>1 DEF LockInv, HoldingsleepExact, holdingsleep
<1>7. SleepInv'
  BY <1>1, <1>2 DEF LockInv, SleepInv
<1>8. WakeInv'
  <2> SUFFICES ASSUME NEW s \in Slots, NEW m \in Sleeplocks,
                      Asleep(s), pc'[s] # "unset", sleep_channel[s] = m,
                      ~ can_wakeup[s], ~ is_locked[m]
               PROVE  \E u \in Slots : op'[u] = "wake" /\ lk'[u] = m
    BY <1>1 DEF WakeInv, Asleep
  <2>1. pc[s] # "unset"
    BY <1>2
  <2>2. PICK u \in Slots : op[u] = "wake" /\ lk[u] = m
    BY <2>1 DEF LockInv, WakeInv
  <2>3. u # t
    BY <1>1, <2>2
  <2> QED BY <1>2, <2>2, <2>3
<1> QED BY <1>3, <1>4, <1>5, <1>6, <1>7, <1>8 DEF LockInv

(* The two halves of falling asleep, both inside the inner spinlock. *)
LEMMA SleepPreserves ==
    ASSUME LockInv, TypeOK', NEW t \in Slots, SleepOnLock(t) \/ SleepUnlock(t)
    PROVE  LockInv'
<1>t. TypeOK /\ SleeplockTypeOK
  BY DEF LockInv, SleeplockTypeOK
<1>1. CASE SleepOnLock(t)
  <2>1. /\ op[t] = "acquire" /\ is_locked[lk[t]] /\ pc[t] = "locked"
        /\ sleep_channel' = [sleep_channel EXCEPT ![t] = lk[t]]
        /\ status' = [status EXCEPT ![t] = "SLEEPING"]
        /\ pc' = [pc EXCEPT ![t] = "unset"]
        /\ UNCHANGED <<can_wakeup, lockVars>>
    BY <1>1 DEF SleepOnLock, SleepBegin, Goto
  <2>2. /\ \A s \in Slots : s # t => /\ pc'[s] = pc[s] /\ status'[s] = status[s]
                                     /\ sleep_channel'[s] = sleep_channel[s]
        /\ pc'[t] = "unset" /\ status'[t] = "SLEEPING" /\ sleep_channel'[t] = lk[t]
    BY <2>1, <1>t DEF TypeOK
  <2>3. SleeplockTypeOK' BY <2>1 DEF LockInv, SleeplockTypeOK, lockVars
  <2>4. SpinInv' BY <2>1, <2>2 DEF LockInv, SpinInv, lockVars
  <2>5. OpInv' BY <2>1, <2>2 DEF LockInv, OpInv, IsFree, SleepPCs, lockVars
  <2>6. HoldingsleepExact' BY <2>1 DEF LockInv, HoldingsleepExact, holdingsleep, Owns, lockVars
  <2>7. SleepInv' BY <2>1, <2>2 DEF LockInv, SleepInv, lockVars
  <2>8. WakeInv' BY <2>1, <2>2 DEF LockInv, WakeInv, Asleep, lockVars
  <2> QED BY <2>3, <2>4, <2>5, <2>6, <2>7, <2>8 DEF LockInv
<1>2. CASE SleepUnlock(t)
  <2>1. /\ pc[t] = "unset"
        /\ can_wakeup' = [can_wakeup EXCEPT ![t] = FALSE]
        /\ pc' = [pc EXCEPT ![t] = "check"]
        /\ spin' = [spin EXCEPT ![lk[t]] = NULL]
        /\ UNCHANGED <<status, sleep_channel, is_locked, owner_tid, op, lk>>
    BY <1>2 DEF SleepUnlock, SleepRelease, FreeSpin, Goto
  <2>2. op[t] = "acquire" /\ lk[t] \in Sleeplocks /\ is_locked[lk[t]] /\ sleep_channel[t] = lk[t]
    BY <2>1 DEF LockInv, OpInv, SleepInv, SleepPCs
  <2>3. /\ \A s \in Slots : s # t => pc'[s] = pc[s] /\ can_wakeup'[s] = can_wakeup[s]
        /\ pc'[t] = "check"
        /\ spin'[lk[t]] = NULL
        /\ \A m \in Sleeplocks : m # lk[t] => spin'[m] = spin[m]
    BY <2>1, <2>2, <1>t DEF TypeOK, SleeplockTypeOK
  <2>4. SleeplockTypeOK' BY <2>1, <2>2, <1>t DEF SleeplockTypeOK
  <2>5. SpinInv'
    <3> SUFFICES ASSUME NEW s \in Slots, NEW m \in Sleeplocks
                 PROVE  spin'[m] = s <=> lk[s] = m /\ pc'[s] \in {"locked", "unset"}
      BY <2>1 DEF SpinInv
    <3>1. spin[lk[t]] = t
      BY <2>1, <2>2 DEF LockInv, SpinInv
    <3>2. CASE s = t
      BY <3>2, <2>1, <2>2, <2>3, SlotFacts DEF LockInv, SpinInv
    <3>3. CASE s # t
      BY <3>1, <3>3, <2>1, <2>2, <2>3, SlotFacts DEF LockInv, SpinInv
    <3> QED BY <3>2, <3>3
  <2>6. OpInv' BY <2>1, <2>2, <2>3 DEF LockInv, OpInv, IsFree, SleepPCs
  <2>7. HoldingsleepExact' BY <2>1 DEF LockInv, HoldingsleepExact, holdingsleep, Owns
  <2>8. SleepInv' BY <2>1, <2>3 DEF LockInv, SleepInv
  <2>9. WakeInv' BY <2>1, <2>2, <2>3 DEF LockInv, WakeInv, Asleep
  <2> QED BY <2>4, <2>5, <2>6, <2>7, <2>8, <2>9 DEF LockInv
<1> QED BY <1>1, <1>2

(* Leaving the inner spinlock after the lock word was written. *)
LEMMA LeaveSpin ==
    ASSUME LockInv, NEW t \in Slots, op[t] \in {"acquire", "release"}, pc[t] = "locked",
           pc' = [pc EXCEPT ![t] = "run"], spin' = [spin EXCEPT ![lk[t]] = NULL],
           UNCHANGED <<status, lk>>, op' = [op EXCEPT ![t] = IF @ = "acquire" THEN "own" ELSE "wake"]
    PROVE  /\ SpinInv' /\ OpInv'
           /\ lk[t] \in Sleeplocks
           /\ \A s \in Slots : s # t => pc'[s] = pc[s] /\ op'[s] = op[s]
           /\ pc'[t] = "run"
           /\ op'[t] = IF op[t] = "acquire" THEN "own" ELSE "wake"
           /\ \A s \in Slots : s # t /\ lk[s] = lk[t] => pc[s] \notin {"locked", "unset"}
<1>t. TypeOK /\ SleeplockTypeOK
  BY DEF LockInv, SleeplockTypeOK
<1>1. lk[t] \in Sleeplocks
  BY DEF LockInv, OpInv
<1>2. /\ \A s \in Slots : s # t => pc'[s] = pc[s] /\ op'[s] = op[s]
      /\ pc'[t] = "run"
      /\ op'[t] = IF op[t] = "acquire" THEN "own" ELSE "wake"
      /\ spin'[lk[t]] = NULL
      /\ \A m \in Sleeplocks : m # lk[t] => spin'[m] = spin[m]
  BY <1>1, <1>t DEF TypeOK, SleeplockTypeOK
<1>3. spin[lk[t]] = t
  BY <1>1 DEF LockInv, SpinInv
<1>4. \A s \in Slots : s # t /\ lk[s] = lk[t] => pc[s] \notin {"locked", "unset"}
  BY <1>1, <1>3 DEF LockInv, SpinInv
<1>5. SpinInv'
  <2> SUFFICES ASSUME NEW s \in Slots, NEW m \in Sleeplocks
               PROVE  spin'[m] = s <=> lk[s] = m /\ pc'[s] \in {"locked", "unset"}
    BY DEF SpinInv
  <2>1. CASE s = t
    BY <1>1, <1>2, <1>3, <2>1, SlotFacts DEF LockInv, SpinInv
  <2>2. CASE s # t
    BY <1>1, <1>2, <1>3, <2>2, SlotFacts DEF LockInv, SpinInv
  <2> QED BY <2>1, <2>2
<1>6. OpInv'
  <2> SUFFICES ASSUME NEW s \in Slots
               PROVE /\ pc'[s] = "run" <=> op'[s] \in {"none", "own", "wake"}
                     /\ pc'[s] \in SleepPCs => op'[s] = "acquire"
                     /\ op'[s] # "none" => lk[s] \in Sleeplocks
                     /\ op'[s] # "none" => ~ IsFree(s)
    BY DEF OpInv, IsFree
  <2> QED BY <1>2 DEF LockInv, OpInv, SleepPCs
<1> QED BY <1>1, <1>2, <1>4, <1>5, <1>6

LEMMA TakePreserves ==
    ASSUME LockInv, TypeOK', NEW t \in Slots, Take(t)
    PROVE  LockInv'
<1>t. TypeOK /\ SleeplockTypeOK
  BY DEF LockInv, SleeplockTypeOK
<1>1. /\ op[t] = "acquire" /\ pc[t] = "locked" /\ ~ is_locked[lk[t]]
      /\ pc' = [pc EXCEPT ![t] = "run"] /\ spin' = [spin EXCEPT ![lk[t]] = NULL]
      /\ is_locked' = [is_locked EXCEPT ![lk[t]] = TRUE]
      /\ owner_tid' = [owner_tid EXCEPT ![lk[t]] = t]
      /\ op' = [op EXCEPT ![t] = "own"]
      /\ UNCHANGED <<status, can_wakeup, sleep_channel, lk>>
  BY DEF Take, ReleaseSpin, FreeSpin, Goto, tableVars
<1>2. op' = [op EXCEPT ![t] = IF @ = "acquire" THEN "own" ELSE "wake"]
  BY <1>1
<1>3. /\ SpinInv' /\ OpInv'
      /\ lk[t] \in Sleeplocks
      /\ \A s \in Slots : s # t => pc'[s] = pc[s] /\ op'[s] = op[s]
      /\ pc'[t] = "run" /\ op'[t] = "own"
  BY <1>1, <1>2, LeaveSpin
<1>4. /\ is_locked'[lk[t]] /\ owner_tid'[lk[t]] = t
      /\ \A m \in Sleeplocks : m # lk[t] => is_locked'[m] = is_locked[m] /\ owner_tid'[m] = owner_tid[m]
  BY <1>1, <1>3, <1>t DEF SleeplockTypeOK
<1>5. SleeplockTypeOK'
  BY <1>1, <1>3, <1>t DEF SleeplockTypeOK, Ops
<1>6. HoldingsleepExact'
  <2> SUFFICES ASSUME NEW s \in Slots, NEW m \in Sleeplocks
               PROVE  holdingsleep(s, m)' <=> Owns(s, m)'
    BY DEF HoldingsleepExact
  <2>1. CASE m = lk[t]
    <3>1. ~ Owns(s, m)
      BY <1>1, <2>1 DEF LockInv, HoldingsleepExact, holdingsleep
    <3>2. holdingsleep(s, m)' <=> s = t
      BY <1>4, <2>1 DEF holdingsleep
    <3>3. Owns(s, m)' <=> s = t
      BY <1>1, <1>3, <2>1, <3>1 DEF Owns
    <3> QED BY <3>2, <3>3
  <2>2. CASE m # lk[t]
    BY <1>1, <1>3, <1>4, <2>2 DEF LockInv, HoldingsleepExact, holdingsleep, Owns
  <2> QED BY <2>1, <2>2
<1>7. SleepInv'
  <2> SUFFICES ASSUME NEW s \in Slots, pc'[s] = "unset"
               PROVE  is_locked'[lk[s]] /\ sleep_channel[s] = lk[s]
    BY <1>1 DEF SleepInv
  <2>1. s # t /\ pc[s] = "unset"
    BY <1>3
  <2>2. is_locked[lk[s]] /\ sleep_channel[s] = lk[s] /\ lk[s] \in Sleeplocks
    BY <2>1 DEF LockInv, SleepInv, OpInv, SleepPCs
  <2> QED BY <2>2, <1>1, <1>4
<1>8. WakeInv'
  <2> SUFFICES ASSUME NEW s \in Slots, NEW m \in Sleeplocks,
                      Asleep(s), pc'[s] # "unset", sleep_channel[s] = m,
                      ~ can_wakeup[s], ~ is_locked'[m]
               PROVE  \E u \in Slots : op'[u] = "wake" /\ lk[u] = m
    BY <1>1 DEF WakeInv, Asleep
  <2>1. pc[s] # "unset" /\ ~ is_locked[m]
    BY <1>1, <1>3, <1>4
  <2>2. PICK u \in Slots : op[u] = "wake" /\ lk[u] = m
    BY <2>1 DEF LockInv, WakeInv
  <2> QED BY <1>1, <1>3, <2>2
<1> QED BY <1>3, <1>5, <1>6, <1>7, <1>8 DEF LockInv

LEMMA ReleasePreserves ==
    ASSUME LockInv, TypeOK', NEW t \in Slots, Release(t)
    PROVE  LockInv'
<1>t. TypeOK /\ SleeplockTypeOK
  BY DEF LockInv, SleeplockTypeOK
<1>1. /\ op[t] = "release" /\ pc[t] = "locked"
      /\ pc' = [pc EXCEPT ![t] = "run"] /\ spin' = [spin EXCEPT ![lk[t]] = NULL]
      /\ is_locked' = [is_locked EXCEPT ![lk[t]] = FALSE]
      /\ owner_tid' = [owner_tid EXCEPT ![lk[t]] = NoTid]
      /\ op' = [op EXCEPT ![t] = "wake"]
      /\ UNCHANGED <<status, can_wakeup, sleep_channel, lk>>
  BY DEF Release, ReleaseSpin, FreeSpin, Goto, tableVars
<1>2. op' = [op EXCEPT ![t] = IF @ = "acquire" THEN "own" ELSE "wake"]
  BY <1>1
<1>3. /\ SpinInv' /\ OpInv'
      /\ lk[t] \in Sleeplocks
      /\ \A s \in Slots : s # t => pc'[s] = pc[s] /\ op'[s] = op[s]
      /\ pc'[t] = "run" /\ op'[t] = "wake"
      /\ \A s \in Slots : s # t /\ lk[s] = lk[t] => pc[s] \notin {"locked", "unset"}
  BY <1>1, <1>2, LeaveSpin
<1>4. /\ ~ is_locked'[lk[t]]
      /\ \A m \in Sleeplocks : m # lk[t] => is_locked'[m] = is_locked[m] /\ owner_tid'[m] = owner_tid[m]
  BY <1>1, <1>3, <1>t DEF SleeplockTypeOK
<1>5. SleeplockTypeOK'
  BY <1>1, <1>3, <1>t DEF SleeplockTypeOK, Ops
<1>6. HoldingsleepExact'
  <2> SUFFICES ASSUME NEW s \in Slots, NEW m \in Sleeplocks
               PROVE  holdingsleep(s, m)' <=> Owns(s, m)'
    BY DEF HoldingsleepExact
  <2>1. CASE m = lk[t]
    <3>1. owner_tid[m] = t
      BY <1>1, <1>3, <2>1 DEF LockInv, HoldingsleepExact, holdingsleep, Owns
    <3>2. ~ holdingsleep(s, m)'
      BY <1>4, <2>1 DEF holdingsleep
    <3>3. s # t => ~ Owns(s, m)
      BY <3>1 DEF LockInv, HoldingsleepExact, holdingsleep
    <3>4. ~ Owns(s, m)'
      BY <1>1, <1>3, <3>3 DEF Owns
    <3> QED BY <3>2, <3>4
  <2>2. CASE m # lk[t]
    BY <1>1, <1>3, <1>4, <2>2 DEF LockInv, HoldingsleepExact, holdingsleep, Owns
  <2> QED BY <2>1, <2>2
<1>7. SleepInv'
  <2> SUFFICES ASSUME NEW s \in Slots, pc'[s] = "unset"
               PROVE  is_locked'[lk[s]] /\ sleep_channel[s] = lk[s]
    BY <1>1 DEF SleepInv
  <2>1. s # t /\ pc[s] = "unset"
    BY <1>3
  <2>2. is_locked[lk[s]] /\ sleep_channel[s] = lk[s] /\ lk[s] \in Sleeplocks /\ lk[s] # lk[t]
    BY <2>1, <1>3 DEF LockInv, SleepInv, OpInv, SleepPCs
  <2> QED BY <2>2, <1>1, <1>4
<1>8. WakeInv'
  <2> SUFFICES ASSUME NEW s \in Slots, NEW m \in Sleeplocks,
                      Asleep(s), pc'[s] # "unset", sleep_channel[s] = m,
                      ~ can_wakeup[s], ~ is_locked'[m]
               PROVE  \E u \in Slots : op'[u] = "wake" /\ lk[u] = m
    BY <1>1 DEF WakeInv, Asleep
  <2>1. CASE m = lk[t]
    BY <1>3, <2>1
  <2>2. CASE m # lk[t]
    <3>1. pc[s] # "unset" /\ ~ is_locked[m]
      BY <1>1, <1>3, <1>4, <2>2
    <3>2. PICK u \in Slots : op[u] = "wake" /\ lk[u] = m
      BY <3>1 DEF LockInv, WakeInv
    <3> QED BY <1>1, <1>3, <3>2
  <2> QED BY <2>1, <2>2
<1> QED BY <1>3, <1>5, <1>6, <1>7, <1>8 DEF LockInv

LEMMA WakePreserves ==
    ASSUME LockInv, TypeOK', NEW t \in Slots, WakeSleepers(t)
    PROVE  LockInv'
<1>t. TypeOK /\ SleeplockTypeOK
  BY DEF LockInv, SleeplockTypeOK
<1>1. /\ op[t] = "wake" /\ op' = [op EXCEPT ![t] = "none"]
      /\ can_wakeup' = [s \in Slots |-> can_wakeup[s] \/ Wakes(s, lk[t])]
      /\ UNCHANGED <<status, sleep_channel, pc, is_locked, owner_tid, spin, lk>>
  BY DEF WakeSleepers, Wakeup
<1>2. /\ op'[t] = "none"
      /\ \A s \in Slots : s # t => op'[s] = op[s]
  BY <1>1, <1>t DEF SleeplockTypeOK
<1>3. SleeplockTypeOK' BY <1>1, <1>t DEF SleeplockTypeOK, Ops
<1>4. SpinInv' BY <1>1 DEF LockInv, SpinInv
<1>5. OpInv' BY <1>1, <1>2 DEF LockInv, OpInv, IsFree
<1>6. HoldingsleepExact' BY <1>1, <1>2 DEF LockInv, HoldingsleepExact, holdingsleep, Owns
<1>7. SleepInv' BY <1>1 DEF LockInv, SleepInv
<1>8. WakeInv'
  <2> SUFFICES ASSUME NEW s \in Slots, NEW m \in Sleeplocks,
                      Asleep(s), pc[s] # "unset", sleep_channel[s] = m,
                      ~ can_wakeup'[s], ~ is_locked[m]
               PROVE  \E u \in Slots : op'[u] = "wake" /\ lk[u] = m
    BY <1>1 DEF WakeInv, Asleep
  <2>1. ~ can_wakeup[s] /\ m # lk[t]
    BY <1>1 DEF Wakes, Asleep
  <2>2. PICK u \in Slots : op[u] = "wake" /\ lk[u] = m
    BY <2>1 DEF LockInv, WakeInv
  <2> QED BY <1>2, <2>1, <2>2
<1> QED BY <1>3, <1>4, <1>5, <1>6, <1>7, <1>8 DEF LockInv

LEMMA LocksPreserved == LockInv /\ SchedInv /\ SchedInv' /\ [SleeplockNext]_vars => LockInv'
<1> SUFFICES ASSUME LockInv, SchedInv, SchedInv', [SleeplockNext]_vars PROVE LockInv'
  OBVIOUS
<1>t. TypeOK /\ TypeOK'
  BY DEF SchedInv
<1>1. ASSUME NEW t \in Slots, LockStep(t) PROVE LockInv'
  BY <1>1, <1>t, EnterSpinPreserves, SleepPreserves, TakePreserves, ReleasePreserves,
     WakePreserves DEF LockStep
<1>2. ASSUME NEW t \in Slots, NEW i \in Slots, Create(t, i) PROVE LockInv'
  BY <1>2, <1>t, CreateExitPreserve
<1>3. ASSUME NEW c \in CPUs, NEW t \in Slots, ExitUnlocked(c, t) PROVE LockInv'
  BY <1>3, <1>t, CreateExitPreserve
<1>4. ASSUME NEW c \in CPUs, UNCHANGED lockVars, Timer(c) \/ Iret(c) PROVE LockInv'
  <2>1. UNCHANGED <<can_wakeup, sleep_channel, pc>>
    BY <1>4 DEF Timer, Iret, InvokeScheduler, tableVars
  <2>2. \A t \in Slots : (IsFree(t)' => IsFree(t)) /\ (Asleep(t)' => Asleep(t))
    <3>1. CASE Timer(c)
      BY <3>1, <1>t, InvokeAsleep DEF Timer
    <3>2. CASE Iret(c)
      BY <3>2 DEF Iret, tableVars, IsFree, Asleep
    <3> QED BY <1>4, <3>1, <3>2
  <2> QED BY <2>1, <2>2, <1>4, <1>t, SchedulerStepPreserves
<1>5. ASSUME NEW c \in CPUs, NEW s \in Slots, Int3(c, s), UNCHANGED lockVars PROVE LockInv'
  <2>1. UNCHANGED <<can_wakeup, sleep_channel>>
    BY <1>5 DEF Int3, InvokeScheduler, tableVars
  <2>2. pc[s] = "int3" /\ (pc' = pc \/ pc' = [pc EXCEPT ![s] = "woken"])
    BY <1>5 DEF Int3, Goto
  <2>3. \A t \in Slots : \/ pc'[t] = pc[t]
                         \/ /\ pc[t] \in SleepPCs \ {"unset"}
                            /\ pc'[t] \in SleepPCs \ {"unset"}
    BY <2>2, <1>t DEF TypeOK, SleepPCs
  <2>4. \A t \in Slots : (IsFree(t)' => IsFree(t)) /\ (Asleep(t)' => Asleep(t))
    <3>1. CASE InvokeScheduler(c)
      BY <3>1, <1>t, InvokeAsleep
    <3>2. CASE UNCHANGED tableVars
      BY <3>2 DEF tableVars, IsFree, Asleep
    <3> QED BY <1>5, <3>1, <3>2 DEF Int3
  <2> QED BY <2>1, <2>3, <2>4, <1>5, <1>t, SchedulerStepPreserves
<1>6. ASSUME NEW s \in Slots, SleepCheck(s) \/ SleepEnd(s), UNCHANGED lockVars PROVE LockInv'
  <2>1. UNCHANGED <<status, can_wakeup>>
    BY <1>6 DEF SleepCheck, SleepEnd, tableVars
  <2>2. /\ pc[s] \in SleepPCs \ {"unset"}
        /\ \E q \in SleepPCs \ {"unset"} : pc' = [pc EXCEPT ![s] = q]
        /\ sleep_channel' = sleep_channel \/ sleep_channel' = [sleep_channel EXCEPT ![s] = NULL]
    BY <1>6 DEF SleepCheck, SleepEnd, Goto, SleepPCs, tableVars
  <2>3. \A t \in Slots : /\ sleep_channel'[t] \in {sleep_channel[t], NULL}
                         /\ \/ pc'[t] = pc[t] /\ sleep_channel'[t] = sleep_channel[t]
                            \/ /\ pc[t] \in SleepPCs \ {"unset"}
                               /\ pc'[t] \in SleepPCs \ {"unset"}
    BY <2>2, <1>t DEF TypeOK
  <2>4. \A t \in Slots : (IsFree(t)' => IsFree(t)) /\ (Asleep(t)' => Asleep(t))
    BY <2>1 DEF IsFree, Asleep
  <2> QED BY <2>1, <2>3, <2>4, <1>6, <1>t, SchedulerStepPreserves
<1>7. CASE UNCHANGED vars
  <2>1. UNCHANGED <<status, can_wakeup, sleep_channel, pc, lockVars>>
    BY <1>7 DEF vars, schedVars, tableVars
  <2>2. \A t \in Slots : (IsFree(t)' => IsFree(t)) /\ (Asleep(t)' => Asleep(t))
    BY <2>1 DEF IsFree, Asleep
  <2> QED BY <2>1, <2>2, <1>t, SchedulerStepPreserves
<1>8. ASSUME SwitchStep PROVE LockInv'
  BY <1>8, <1>4, <1>5, <1>6, <1>7 DEF SwitchStep, Halted, vars
<1> QED BY <1>1, <1>2, <1>3, <1>7, <1>8 DEF SleeplockNext

-----------------------------------------------------------------------------
(* Both invariants together: the lock's steps are scheduler steps, and its    *)
(* invariant needs the scheduler's.                                           *)
LEMMA BothPreserved ==
    LockInv /\ SchedInv /\ [SleeplockNext]_vars => (LockInv /\ SchedInv)'
  BY LocksPreserved, StepsAreSchedulerSteps, NextPreserves

THEOREM SleeplockInvariant == SleeplockSpec => [](LockInv /\ SchedInv)
<1>1. SleeplockInit => LockInv /\ SchedInv
  BY InitLocks, InitEstablishes DEF SleeplockInit
<1> QED BY <1>1, BothPreserved, PTL DEF SleeplockSpec

(* The sleeplock code is code the scheduler's model allows its threads to     *)
(* run, so everything proved of Scheduler holds of it.                        *)
THEOREM SleeplockImplementsScheduler == SleeplockSpec => Spec
<1>1. SleeplockInit => Init
  BY DEF SleeplockInit
<1>2. LockInv /\ [SleeplockNext]_vars => [Next]_schedVars
  BY StepsAreSchedulerSteps
<1> QED BY <1>1, <1>2, SleeplockInvariant, PTL DEF SleeplockSpec, Spec

(* holdingsleep is true exactly of the thread between acquire_Sleeplock and   *)
(* release_Sleeplock: the panics of bwrite, brelse and iderw cannot hit the   *)
(* owner of a buffer.                                                         *)
THEOREM SleeplockHolding == SleeplockSpec => []HoldingsleepExact
<1>1. LockInv => HoldingsleepExact
  BY DEF LockInv
<1> QED BY <1>1, SleeplockInvariant, PTL

(* release_Sleeplock wakes outside the inner spinlock and acquire_Sleeplock   *)
(* sleeps in several steps, yet no sleeper on a free lock is forgotten.       *)
THEOREM SleeplockNoLostWakeup == SleeplockSpec => []NoLostWakeup
<1>1. LockInv /\ SchedInv => NoLostWakeup
  <2> SUFFICES ASSUME LockInv, SchedInv, NEW t \in Slots, NEW l \in Sleeplocks, Forgotten(t, l)
               PROVE  \E u \in Slots : op[u] = "wake" /\ lk[u] = l
    BY DEF NoLostWakeup
  <2>1. CASE pc[t] = "unset"
    BY <2>1 DEF LockInv, SleepInv, Forgotten
  <2>2. CASE pc[t] # "unset"
    BY <2>2 DEF LockInv, WakeInv, Asleep, Forgotten
  <2> QED BY <2>1, <2>2
<1> QED BY <1>1, SleeplockInvariant, PTL

-----------------------------------------------------------------------------
(* Refinement of the abstract lock *)

Holders == [l \in Sleeplocks |-> {t \in Slots : Owns(t, l)}]

LEMMA TakeEnters ==
    ASSUME LockInv, NEW t \in Slots, Take(t)
    PROVE  \E l \in Sleeplocks : Abs!Enter(t, l)
<1>1. /\ op[t] = "acquire" /\ ~ is_locked[lk[t]] /\ lk[t] \in Sleeplocks
      /\ op' = [op EXCEPT ![t] = "own"] /\ lk' = lk
  BY DEF Take, LockInv, OpInv
<1>2. \A s \in Slots, l \in Sleeplocks : Owns(s, l)' <=> Owns(s, l) \/ (s = t /\ l = lk[t])
  BY <1>1 DEF Owns, LockInv, SleeplockTypeOK
<1>3. \A s \in Slots : ~ Owns(s, lk[t])
  BY <1>1 DEF LockInv, HoldingsleepExact, holdingsleep
<1>4. Holders[lk[t]] = {} /\ Holders' = [Holders EXCEPT ![lk[t]] = {t}]
  <2>1. Holders[lk[t]] = {}
    BY <1>1, <1>3 DEF Holders
  <2>2. {s \in Slots : Owns(s, lk[t])'} = {t}
    BY <1>1, <1>2, <1>3
  <2>3. \A l \in Sleeplocks : l # lk[t] => {s \in Slots : Owns(s, l)'} = {s \in Slots : Owns(s, l)}
    BY <1>2
  <2> QED BY <1>1, <2>1, <2>2, <2>3 DEF Holders
<1> QED BY <1>1, <1>4 DEF Abs!Enter, Holders

LEMMA ReleaseLeaves ==
    ASSUME LockInv, NEW t \in Slots, Release(t)
    PROVE  \E l \in Sleeplocks : Abs!Leave(t, l)
<1>1. /\ op[t] = "release" /\ lk[t] \in Sleeplocks
      /\ op' = [op EXCEPT ![t] = "wake"] /\ lk' = lk
  BY DEF Release, LockInv, OpInv
<1>2. \A s \in Slots, l \in Sleeplocks : Owns(s, l)' <=> Owns(s, l) /\ s # t
  BY <1>1 DEF Owns, LockInv, SleeplockTypeOK
<1>3. \A s \in Slots : Owns(s, lk[t]) <=> s = t
  BY <1>1 DEF LockInv, HoldingsleepExact, holdingsleep, Owns
<1>4. \A l \in Sleeplocks : Owns(t, l) => l = lk[t]
  BY DEF Owns
<1>5. Holders[lk[t]] = {t} /\ Holders' = [Holders EXCEPT ![lk[t]] = {}]
  BY <1>1, <1>2, <1>3, <1>4 DEF Holders
<1> QED BY <1>1, <1>5 DEF Abs!Leave, Holders

LEMMA OtherStepsKeepOwners ==
    ASSUME LockInv, [SleeplockNext]_vars, \A t \in Slots : ~ Take(t) /\ ~ Release(t)
    PROVE  Holders' = Holders
<1> SUFFICES \A s \in Slots, l \in Sleeplocks : Owns(s, l)' <=> Owns(s, l)
  BY DEF Holders
<1>1. ASSUME NEW t \in Slots, LockStep(t)
      PROVE \A s \in Slots, l \in Sleeplocks : Owns(s, l)' <=> Owns(s, l)
  BY <1>1 DEF LockStep, BeginAcquire, SleepOnLock, SleepUnlock, Reacquire, BeginRelease,
              WakeSleepers, Owns, LockInv, SleeplockTypeOK, lockVars
<1>2. CASE UNCHANGED lockVars
  BY <1>2 DEF lockVars, Owns
<1> QED BY <1>1, <1>2 DEF SleeplockNext, Create, ExitUnlocked, SwitchStep, vars

(* acquire_Sleeplock and release_Sleeplock implement the abstract lock.       *)
THEOREM SleeplockRefinement == SleeplockSpec => LockRefinement
<1>1. SleeplockInit => Abs!Init
  BY DEF SleeplockInit, Abs!Init, Owns
<1>2. LockInv /\ [SleeplockNext]_vars => [Abs!Next]_Holders
  <2> SUFFICES ASSUME LockInv, [SleeplockNext]_vars, Holders' # Holders PROVE Abs!Next
    OBVIOUS
  <2>1. PICK t \in Slots : Take(t) \/ Release(t)
    BY OtherStepsKeepOwners
  <2> QED BY <2>1, TakeEnters, ReleaseLeaves DEF Abs!Next
<1> QED BY <1>1, <1>2, SleeplockInvariant, PTL DEF SleeplockSpec, LockRefinement, Abs!Spec, Holders

(***************************************************************************)
(* Processes, their threads and waitpid.  exec and exit write the status   *)
(* of the threads of the process without the scheduler, and a release of   *)
(* pid_wait_spinlock may panic, so the invariant of the scheduler is       *)
(* proved again for the steps here, up to that panic.                      *)
(***************************************************************************)

(* Where a thread is in its kernel code and in its system call agree; the     *)
(* slot of a dead thread is in neither.                                       *)
CallOK(t) ==
    /\ pc[t] = "run" => call[t] \in {"none", "exec"} /\ arg[t] = NULL
    /\ pc[t] = "locked" => call[t] \in {"waitpid", "sleep"} /\ arg[t] \in Procs
    /\ pc[t] \in SleepPCs => call[t] = "sleep" /\ arg[t] \in Procs
    /\ call[t] = "exec" => owner_proc[t] \in Procs
    /\ ~ Live(t) => pc[t] = "run" /\ call[t] = "none"

CallInv == \A t \in Slots : CallOK(t)

(* A thread names a channel only inside ThreadSleep, and there its process. *)
ChannelOK(t) ==
    /\ pc[t] \in {"run", "locked", "reacquire"} => sleep_channel[t] = NULL
    /\ pc[t] = "unset" => sleep_channel[t] = arg[t]
    /\ sleep_channel[t] \in Procs \cup {NULL}

ChannelInv == \A t \in Slots : ChannelOK(t)

(* A waiter that is about to sleep for a dead process lost the wakeup. *)
LateInv ==
    \A t \in Slots, p \in Procs :
        GoingToSleep(t, p) /\ proc_state[p] = "EXITED" => late[t]

(* Inside the section of pid_wait_spinlock the thread holds the lock, unless  *)
(* the lock was initialised under it.                                         *)
HoldInv ==
    \A t \in Slots :
        pc[t] \in {"locked", "unset"} => wait_owner[arg[t]] = t \/ arg[t] \in reinit

ProcInv ==
    /\ ProcessTypeOK
    /\ panic # "release" => SchedInv
    /\ OneCpuPerThread /\ RunningIffCurrent
    /\ ProcessHasThread
    /\ CallInv /\ ChannelInv
    /\ LateInv /\ WaiterIsWoken
    /\ HoldInv /\ ReleasePanicNeedsInit

-----------------------------------------------------------------------------
(* The initial state *)

LEMMA ProcFacts ==
    /\ Procs \subseteq Int /\ Procs \subseteq Channels /\ NULL \notin Procs
    /\ IsFiniteSet(Slots)
<1>1. Procs \subseteq Int /\ Procs \subseteq Channels
  BY ProcAssumption DEF Procs
<1>2. NULL \notin Procs
  BY <1>1, NullAssumption
<1>3. IsFiniteSet(Slots)
  BY SlotAssumption, FS_Interval DEF Slots
<1> QED BY <1>1, <1>2, <1>3

LEMMA InitProcesses == ProcessInit => ProcInv
<1> SUFFICES ASSUME ProcessInit PROVE ProcInv
  OBVIOUS
<1>1. SchedInv /\ Init
  BY InitEstablishes DEF ProcessInit
<1>2. ProcessTypeOK
  BY <1>1 DEF ProcessInit, ProcessTypeOK, Init
<1>3. ProcessHasThread
  <2> SUFFICES ASSUME NEW p \in Procs
               PROVE  /\ {t \in Slots : Live(t) /\ owner_proc[t] = p} = threads[p]
                      /\ Cardinality(threads[p]) = thread_count[p]
                      /\ thread_count[p] = IF proc_state[p] = "INUSE" THEN 1 ELSE 0
    BY DEF ProcessHasThread
  <2>1. {t \in Slots : Live(t) /\ owner_proc[t] = p} = {}
    BY ProcFacts DEF ProcessInit
  <2> QED BY <2>1, FS_EmptySet DEF ProcessInit
<1>4. CallInv /\ ChannelInv
  BY <1>1 DEF CallInv, CallOK, ChannelInv, ChannelOK, ProcessInit, Init, SleepPCs
<1>5. LateInv /\ HoldInv
  BY <1>1 DEF LateInv, HoldInv, GoingToSleep, ProcessInit, Init
<1>6. WaiterIsWoken /\ ReleasePanicNeedsInit
  BY <1>1 DEF WaiterIsWoken, ReleasePanicNeedsInit, Init
<1> QED BY <1>1, <1>2, <1>3, <1>4, <1>5, <1>6 DEF ProcInv, SchedInv

-----------------------------------------------------------------------------
(* What the invariant says of a step *)

LEMMA NoneIsScheduled ==
  ASSUME ProcInv, panic = "none"
  PROVE  SchedInv /\ TypeOK /\ ProcessTypeOK
BY DEF ProcInv, SchedInv

LEMMA RunningIsLive ==
  ASSUME ProcInv, NEW t \in Slots, Running(t)
  PROVE  panic = "none" /\ status[t] \in {"RUNNING", "SLEEPING"} /\ Live(t)
BY DEF ProcInv, RunningIffCurrent, Running, Executes, Live

(* The process of a live thread is INUSE and has no other thread. *)
LEMMA OnlyThread ==
  ASSUME ProcInv, NEW t \in Slots, Live(t), NEW p \in Procs, owner_proc[t] = p
  PROVE  threads[p] = {t} /\ thread_count[p] = 1 /\ proc_state[p] = "INUSE"
<1>1. t \in threads[p] /\ threads[p] \subseteq Slots
  BY DEF ProcInv, ProcessHasThread
<1>2. IsFiniteSet(threads[p])
  BY <1>1, ProcFacts, FS_Subset
<1>3. /\ Cardinality(threads[p]) = thread_count[p]
      /\ thread_count[p] = IF proc_state[p] = "INUSE" THEN 1 ELSE 0
  BY DEF ProcInv, ProcessHasThread
<1>4. Cardinality(threads[p]) # 0
  BY <1>1, <1>2, FS_EmptySet
<1>5. Cardinality(threads[p]) = 1 /\ proc_state[p] = "INUSE"
  BY <1>3, <1>4
<1>6. PICK x : threads[p] = {x}
  BY <1>2, <1>5, FS_Singleton
<1> QED BY <1>1, <1>3, <1>5, <1>6

LEMMA NoThread ==
  ASSUME ProcInv, NEW p \in Procs, proc_state[p] # "INUSE"
  PROVE  threads[p] = {} /\ \A t \in Slots : owner_proc[t] = p => ~ Live(t)
<1>1. {t \in Slots : Live(t) /\ owner_proc[t] = p} = threads[p] /\ threads[p] \subseteq Slots
  BY DEF ProcInv, ProcessHasThread
<1>2. IsFiniteSet(threads[p])
  BY <1>1, ProcFacts, FS_Subset
<1>3. Cardinality(threads[p]) = 0
  BY DEF ProcInv, ProcessHasThread
<1>4. threads[p] = {}
  BY <1>2, <1>3, FS_EmptySet
<1> QED BY <1>1, <1>4

(* exec leaves every status but the caller's alone, and exit kills only its   *)
(* caller.                                                                    *)
LEMMA ExecStep ==
  ASSUME ProcInv, NEW t \in Slots, ExecUserProcess(t)
  PROVE  \E p \in Procs :
           /\ owner_proc[t] = p /\ Live(t) /\ panic = "none" /\ call[t] = "exec"
           /\ status' = [status EXCEPT ![t] = "RUNNING"]
           /\ UNCHANGED <<threads, thread_count, proc_state>>
           /\ InitWaitLock(p)
<1>1. Live(t) /\ panic = "none" /\ call[t] = "exec"
  BY RunningIsLive DEF ExecUserProcess
<1>2. PICK p \in Procs : owner_proc[t] = p
  BY <1>1 DEF ProcInv, CallInv, CallOK
<1>3. threads[p] = {t} /\ thread_count[p] = 1 /\ proc_state[p] = "INUSE"
  BY <1>1, <1>2, OnlyThread
<1>4. TypeOK /\ ProcessTypeOK
  BY <1>1, NoneIsScheduled
<1>5. status' = [status EXCEPT ![t] = "RUNNING"]
  <2>1. status' = [KilledBy(p) EXCEPT ![t] = "RUNNING"]
    BY <1>2 DEF ExecUserProcess
  <2> QED BY <2>1, <1>3, <1>4 DEF KilledBy, TypeOK
<1>6. UNCHANGED <<threads, thread_count, proc_state>>
  BY <1>2, <1>3, <1>4 DEF ExecUserProcess, ProcessTypeOK
<1>7. InitWaitLock(p)
  BY <1>2 DEF ExecUserProcess
<1> QED BY <1>1, <1>2, <1>5, <1>6, <1>7

LEMMA ExitStep ==
  ASSUME ProcInv, NEW c \in CPUs, NEW t \in Slots, Exit(c, t)
  PROVE  \E p \in Procs :
           /\ owner_proc[t] = p /\ Live(t) /\ panic = "none"
           /\ Executes(c, t) /\ pc[t] = "run" /\ call[t] = "none"
           /\ status' = [status EXCEPT ![t] = "KILLED"]
           /\ threads' = [threads EXCEPT ![p] = {}]
           /\ thread_count' = [thread_count EXCEPT ![p] = 0]
           /\ proc_state' = [proc_state EXCEPT ![p] = "EXITED"]
           /\ can_wakeup' = [u \in Slots |-> can_wakeup[u] \/ Wakes(u, p)]
           /\ late' = [u \in Slots |-> late[u] \/ GoingToSleep(u, p)]
<1>1. Live(t) /\ panic = "none" /\ pc[t] = "run" /\ call[t] = "none" /\ Executes(c, t)
  BY RunningIsLive DEF Exit, UserMode, Running
<1>2. PICK p \in Procs : owner_proc[t] = p
  BY <1>1, NoneIsScheduled DEF Exit, UserMode, ProcessTypeOK
<1>3. threads[p] = {t} /\ thread_count[p] = 1
  BY <1>1, <1>2, OnlyThread
<1>4. TypeOK
  BY <1>1, NoneIsScheduled
<1>5. status' = [status EXCEPT ![t] = "KILLED"]
  <2>1. status' = [KilledBy(p) EXCEPT ![t] = "KILLED"]
    BY <1>2, <1>3 DEF Exit
  <2> QED BY <2>1, <1>3, <1>4 DEF KilledBy, TypeOK
<1>6. /\ threads' = [threads EXCEPT ![p] = {}]
      /\ thread_count' = [thread_count EXCEPT ![p] = 0]
      /\ proc_state' = [proc_state EXCEPT ![p] = "EXITED"]
  BY <1>2, <1>3 DEF Exit
<1>7. /\ can_wakeup' = [u \in Slots |-> can_wakeup[u] \/ Wakes(u, p)]
      /\ late' = [u \in Slots |-> late[u] \/ GoingToSleep(u, p)]
  BY <1>2, <1>3 DEF Exit
<1> QED BY <1>1, <1>2, <1>5, <1>6, <1>7

(* A machine that has panicked stops. *)
LEMMA StepIsUnpanicked ==
  ASSUME [ProcessNext]_processVars
  PROVE  panic = "none" \/ UNCHANGED processVars
<1>1. ASSUME SchedulerStep PROVE panic = "none" \/ UNCHANGED processVars
  BY <1>1 DEF SchedulerStep, Tick, Timer, Iret, SleepCheck, SleepEnd, Running, Halted, processVars
<1>2. ASSUME NEW t \in Slots, CallStep(t) PROVE panic = "none" \/ UNCHANGED processVars
  BY <1>2 DEF CallStep, CreateUserProcess, Fork, CreateThread, ForkFails, ExecLoad, ExecFails,
              ExecUserProcess, BootExit, ExitThread, Exit, WaitBegin, AcquireSpin, Running
<1>3. ASSUME NEW t \in Slots, WaitStep(t) PROVE panic = "none" \/ UNCHANGED processVars
  BY <1>3 DEF WaitStep, WaitTest, WaitSleep, SleepBegin, WaitUnlock, SleepRelease, WaitReacquire,
              AcquireSpin, WaitReturn, ReleaseSpin, ReleasePanic, WaitInt3, Int3, Running
<1> QED BY <1>1, <1>2, <1>3 DEF ProcessNext

Created(t, i, p) == CreateThread(t, i) /\ NewProcess(i, p)
Ended(c, t)      == BootExit(c, t) \/ Exit(c, t)

(* The steps of a thread inside its own system call. *)
OwnStep(t) == \/ ExecLoad(t) \/ ExecFails(t) \/ ExecUserProcess(t)
              \/ \E p \in Procs : WaitBegin(t, p)
              \/ WaitStep(t)
              \/ (SleepCheck(t) \/ SleepEnd(t)) /\ UNCHANGED <<procVars, callVars>>

(* Every step is one of a CPU, of a thread in its call, a creation or an end. *)
LEMMA StepKinds ==
  ASSUME [ProcessNext]_processVars
  PROVE  \/ UNCHANGED processVars
         \/ \E c \in CPUs : (Timer(c) \/ Iret(c)) /\ UNCHANGED <<procVars, callVars>>
         \/ \E t \in Slots : OwnStep(t)
         \/ \E t, i \in Slots, p \in Procs : Created(t, i, p)
         \/ \E c \in CPUs, t \in Slots : Ended(c, t)
<1>1. ASSUME SchedulerStep
      PROVE  \/ UNCHANGED processVars
             \/ \E c \in CPUs : (Timer(c) \/ Iret(c)) /\ UNCHANGED <<procVars, callVars>>
             \/ \E t \in Slots : OwnStep(t)
  BY <1>1 DEF SchedulerStep, Tick, OwnStep, Halted, processVars
<1>2. ASSUME NEW t \in Slots, CallStep(t)
      PROVE  \/ UNCHANGED processVars
             \/ OwnStep(t)
             \/ \E i \in Slots, p \in Procs : Created(t, i, p)
             \/ \E c \in CPUs : Ended(c, t)
  BY <1>2 DEF CallStep, CreateUserProcess, Fork, Created, ForkFails, OwnStep, Ended
<1>3. ASSUME NEW t \in Slots, WaitStep(t) PROVE OwnStep(t)
  BY <1>3 DEF OwnStep
<1> QED BY <1>1, <1>2, <1>3 DEF ProcessNext

-----------------------------------------------------------------------------
(* The scheduler's invariant *)

LEMMA OwnStepScheduled ==
  ASSUME ProcInv, NEW t \in Slots, OwnStep(t)
  PROVE  panic' # "release" => SchedInv'
<1> SUFFICES ASSUME panic' # "release" PROVE SchedInv'
  OBVIOUS
<1>0. panic = "none"
  BY DEF OwnStep, ExecLoad, ExecFails, ExecUserProcess, WaitBegin, WaitStep, WaitTest, WaitSleep,
         SleepBegin, WaitUnlock, SleepRelease, WaitReacquire, AcquireSpin, WaitReturn, ReleaseSpin,
         ReleasePanic, WaitInt3, Int3, SleepCheck, SleepEnd, Running
<1>1. SchedInv /\ TypeOK
  BY <1>0, NoneIsScheduled
<1>2. CASE ExecUserProcess(t)
  <2>1. status' = [status EXCEPT ![t] = "RUNNING"]
    BY <1>2, ExecStep
  <2>2. UNCHANGED <<can_wakeup, sleep_channel, current_thread, stack, pc, panic, created>>
    BY <1>2 DEF ExecUserProcess, cpuVars
  <2>3. \E c \in CPUs : current_thread[c] = t
    BY <1>2 DEF ExecUserProcess, Running, Executes
  <2>4. TypeOK'
    BY <1>1, <2>1, <2>2 DEF TypeOK, States
  <2>5. RunningIffCurrent'
    BY <1>1, <2>1, <2>2, <2>3 DEF SchedInv, RunningIffCurrent, TypeOK
  <2> QED BY <1>1, <2>2, <2>4, <2>5 DEF SchedInv, OneCpuPerThread, NoUnexpectedState
<1>3. CASE ExecLoad(t) \/ ExecFails(t) \/ WaitTest(t)
  <2>1. UNCHANGED schedVars
    BY <1>3 DEF ExecLoad, ExecFails, WaitTest
  <2> QED BY <1>1, <2>1, NextPreserves
<1>4. CASE (\E p \in Procs : WaitBegin(t, p)) \/ WaitUnlock(t) \/ WaitReacquire(t) \/ WaitReturn(t)
  <2>1. AcquireSpin(t) \/ SleepRelease(t) \/ ReleaseSpin(t)
    BY <1>4 DEF WaitBegin, WaitUnlock, WaitReacquire, WaitReturn
  <2>2. Next
    BY <2>1 DEF Next, ThreadStep
  <2> QED BY <1>1, <2>2, NextPreserves
<1>5. CASE WaitSleep(t)
  <2>1. SleepBegin(t, arg[t]) /\ pc[t] = "locked"
    BY <1>5 DEF WaitSleep, SleepBegin
  <2>2. arg[t] \in Channels
    BY <2>1, ProcFacts DEF ProcInv, CallInv, CallOK
  <2> QED BY <1>1, <2>1, <2>2, SleepBeginPreserves
<1>6. CASE SleepCheck(t) \/ SleepEnd(t)
  <2>1. Next
    BY <1>6 DEF Next, ThreadStep
  <2> QED BY <1>1, <2>1, NextPreserves
<1>7. ASSUME NEW c \in CPUs, WaitInt3(c, t) PROVE SchedInv'
  <2>1. Next
    BY <1>7 DEF WaitInt3, Next
  <2> QED BY <1>1, <2>1, NextPreserves
<1>8. ~ ReleasePanic(t)
  BY DEF ReleasePanic
<1> QED BY <1>2, <1>3, <1>4, <1>5, <1>6, <1>7, <1>8 DEF OwnStep, WaitStep

LEMMA ScheduleSteps ==
  ASSUME ProcInv, [ProcessNext]_processVars
  PROVE  (panic' # "release" => SchedInv') /\ OneCpuPerThread' /\ RunningIffCurrent'
<1>1. CASE UNCHANGED processVars
  <2>1. UNCHANGED <<status, can_wakeup, sleep_channel, current_thread, stack, pc, panic, created>>
    BY <1>1 DEF processVars, schedVars, tableVars, cpuVars
  <2> QED BY <2>1 DEF ProcInv, SchedInv, TypeOK, OneCpuPerThread, RunningIffCurrent, NoUnexpectedState
<1>2. ASSUME panic = "none", ~ \E t \in Slots : OwnStep(t), ~ UNCHANGED processVars PROVE SchedInv'
  <2>1. SchedInv /\ TypeOK
    BY <1>2, NoneIsScheduled
  <2>2. ASSUME NEW c \in CPUs, Timer(c) \/ Iret(c) PROVE SchedInv'
    <3>1. Next
      BY <2>2 DEF Next
    <3> QED BY <2>1, <3>1, NextPreserves
  <2>3. ASSUME NEW t \in Slots, NEW i \in Slots, NEW p \in Procs, Created(t, i, p) PROVE SchedInv'
    BY <2>1, <2>3, CreatePreserves DEF Created
  <2>4. ASSUME NEW c \in CPUs, NEW t \in Slots, BootExit(c, t) PROVE SchedInv'
    BY <2>1, <2>4, ExitPreserves DEF BootExit, ExitThread, TypeOK
  <2>5. ASSUME NEW c \in CPUs, NEW t \in Slots, Exit(c, t) PROVE SchedInv'
    <3>1. PICK p \in Procs :
            /\ Executes(c, t) /\ status' = [status EXCEPT ![t] = "KILLED"]
            /\ can_wakeup' = [u \in Slots |-> can_wakeup[u] \/ Wakes(u, p)]
      BY <2>5, ExitStep
    <3>2. can_wakeup' \in [Slots -> BOOLEAN]
      BY <3>1
    <3>3. /\ current_thread' = [current_thread EXCEPT ![c] = NULL]
          /\ UNCHANGED <<sleep_channel, stack, pc, panic, created>>
      BY <2>5 DEF Exit
    <3> QED BY <2>1, <3>1, <3>2, <3>3, ExitPreserves
  <2> QED BY <1>2, <2>2, <2>3, <2>4, <2>5, StepKinds DEF Ended
<1>3. ASSUME NEW t \in Slots, OwnStep(t), panic' = "release"
      PROVE  OneCpuPerThread' /\ RunningIffCurrent'
  <2>1. panic = "none" \/ UNCHANGED processVars
    BY StepIsUnpanicked
  <2>2. CASE UNCHANGED processVars
    BY <1>1, <2>2
  <2>3. CASE panic = "none"
    <3>1. SchedInv
      BY <2>3, NoneIsScheduled
    <3>2. ReleasePanic(t) \/ SchedInv'
      <4>1. CASE ~ ReleasePanic(t)
        <5>1. panic' \in {"none", "bad_int3", "unexpected_state"}
          BY <1>3, <2>3, <4>1 DEF OwnStep, WaitStep, ExecUserProcess, ExecLoad, ExecFails, WaitBegin, WaitTest,
              WaitSleep, SleepBegin, WaitUnlock, SleepRelease, WaitReacquire, AcquireSpin, WaitReturn,
              ReleaseSpin, WaitInt3, Int3, InvokeScheduler, Schedule, NothingReady, SleepCheck, SleepEnd,
              schedVars
        <5> QED BY <5>1, <1>3
      <4> QED BY <4>1
    <3>3. CASE ReleasePanic(t)
      <4>1. UNCHANGED <<status, current_thread>>
        BY <3>3 DEF ReleasePanic, tableVars, cpuVars
      <4> QED BY <3>1, <4>1 DEF SchedInv, OneCpuPerThread, RunningIffCurrent
    <3> QED BY <3>2, <3>3 DEF SchedInv
  <2> QED BY <2>1, <2>2, <2>3
<1>4. ASSUME NEW t \in Slots, OwnStep(t)
      PROVE  (panic' # "release" => SchedInv') /\ OneCpuPerThread' /\ RunningIffCurrent'
  BY <1>3, <1>4, OwnStepScheduled DEF SchedInv
<1> QED BY <1>1, <1>2, <1>4, StepIsUnpanicked DEF SchedInv

-----------------------------------------------------------------------------
(* Types *)

LEMMA WaitLockType ==
  ASSUME ProcessTypeOK, NEW p \in Procs, InitWaitLock(p)
  PROVE  wait_owner' \in [Procs -> Slots \cup {NULL}] /\ reinit' \subseteq Procs
BY DEF ProcessTypeOK, InitWaitLock

LEMMA ProcTypeSteps == ProcInv /\ [ProcessNext]_processVars => ProcessTypeOK'
<1> SUFFICES ASSUME ProcInv, [ProcessNext]_processVars PROVE ProcessTypeOK'
  OBVIOUS
<1>0. ProcessTypeOK
  BY DEF ProcInv
<1>p. panic' \in {"none", "bad_int3", "unexpected_state", "release"}
  BY ScheduleSteps DEF SchedInv, TypeOK
<1> USE ProcFacts
<1>1. CASE UNCHANGED processVars
  BY <1>0, <1>1 DEF ProcessTypeOK, processVars, schedVars, procVars, callVars
<1>2. CASE UNCHANGED <<procVars, callVars>>
  BY <1>0, <1>p, <1>2 DEF ProcessTypeOK, procVars, callVars
<1>3. ASSUME NEW t \in Slots, NEW i \in Slots, NEW p \in Procs, Created(t, i, p)
      PROVE  ProcessTypeOK'
  <2>1. wait_owner' \in [Procs -> Slots \cup {NULL}] /\ reinit' \subseteq Procs
    BY <1>0, <1>3, WaitLockType DEF Created, NewProcess
  <2>2. /\ proc_state' \in [Procs -> {"FREE", "EXITED", "INUSE"}]
        /\ threads' \in [Procs -> SUBSET Slots]
    BY <1>0, <1>3 DEF Created, NewProcess, ProcessTypeOK
  <2>3. /\ thread_count' \in [Procs -> 0 .. 1]
        /\ owner_proc' \in [Slots -> Procs \cup {NULL}]
    BY <1>0, <1>3 DEF Created, NewProcess, ProcessTypeOK
  <2> QED BY <1>0, <1>p, <1>3, <2>1, <2>2, <2>3 DEF Created, NewProcess, ProcessTypeOK
<1>4. ASSUME NEW c \in CPUs, NEW t \in Slots, Exit(c, t) PROVE ProcessTypeOK'
  <2>1. PICK p \in Procs :
           /\ threads' = [threads EXCEPT ![p] = {}]
           /\ thread_count' = [thread_count EXCEPT ![p] = 0]
           /\ proc_state' = [proc_state EXCEPT ![p] = "EXITED"]
           /\ late' = [u \in Slots |-> late[u] \/ GoingToSleep(u, p)]
    BY <1>4, ExitStep
  <2>2. late' \in [Slots -> BOOLEAN]
    BY <2>1
  <2>3. /\ proc_state' \in [Procs -> {"FREE", "EXITED", "INUSE"}]
        /\ threads' \in [Procs -> SUBSET Slots] /\ thread_count' \in [Procs -> 0 .. 1]
    BY <1>0, <2>1 DEF ProcessTypeOK
  <2> QED BY <1>0, <1>p, <1>4, <2>2, <2>3 DEF Exit, ProcessTypeOK
<1>5. ASSUME NEW t \in Slots, ExecLoad(t) \/ ExecFails(t) \/ WaitTest(t) PROVE ProcessTypeOK'
  <2>1. call' \in [Slots -> {"none", "exec", "waitpid", "sleep"}]
    BY <1>0, <1>5 DEF ExecLoad, ExecFails, WaitTest, ProcessTypeOK
  <2> QED BY <1>0, <1>p, <1>5, <2>1 DEF ExecLoad, ExecFails, WaitTest, ProcessTypeOK, procVars
<1>6. ASSUME NEW t \in Slots, ExecUserProcess(t) PROVE ProcessTypeOK'
  <2>1. PICK p \in Procs : InitWaitLock(p) /\ UNCHANGED <<threads, thread_count, proc_state>>
    BY <1>6, ExecStep
  <2>2. wait_owner' \in [Procs -> Slots \cup {NULL}] /\ reinit' \subseteq Procs
    BY <1>0, <2>1, WaitLockType
  <2>3. call' \in [Slots -> {"none", "exec", "waitpid", "sleep"}]
    BY <1>0, <1>6 DEF ExecUserProcess, ProcessTypeOK
  <2>4. UNCHANGED <<owner_proc, arg, intr, late>>
    BY <1>6 DEF ExecUserProcess
  <2> QED BY <1>0, <1>p, <2>1, <2>2, <2>3, <2>4 DEF ProcessTypeOK
<1>7. ASSUME NEW t \in Slots, NEW p \in Procs, WaitBegin(t, p) PROVE ProcessTypeOK'
  BY <1>0, <1>p, <1>7 DEF WaitBegin, TakeWaitLock, ProcessTypeOK, procVars
<1>8. ASSUME NEW t \in Slots, WaitUnlock(t) PROVE ProcessTypeOK'
  <2>1. wait_owner' \in [Procs -> Slots \cup {NULL}]
    BY <1>0, <1>8 DEF WaitUnlock, FreeWaitLock, ProcessTypeOK
  <2>2. intr' \in [Slots -> {"noINT", "cli", "sti"}]
    BY <1>0, <1>8 DEF WaitUnlock, AfterRelease, ProcessTypeOK
  <2> QED BY <1>0, <1>p, <1>8, <2>1, <2>2 DEF WaitUnlock, ProcessTypeOK, procVars
<1>9. ASSUME NEW t \in Slots, WaitReacquire(t) PROVE ProcessTypeOK'
  <2>1. wait_owner' \in [Procs -> Slots \cup {NULL}]
    BY <1>0, <1>9 DEF WaitReacquire, TakeWaitLock, ProcessTypeOK
  <2>2. call' \in [Slots -> {"none", "exec", "waitpid", "sleep"}]
    BY <1>0, <1>9 DEF WaitReacquire, ProcessTypeOK
  <2> QED BY <1>0, <1>p, <1>9, <2>1, <2>2 DEF WaitReacquire, ProcessTypeOK, procVars
<1>10. ASSUME NEW t \in Slots, WaitReturn(t) PROVE ProcessTypeOK'
  <2>1. wait_owner' \in [Procs -> Slots \cup {NULL}]
    BY <1>0, <1>10 DEF WaitReturn, FreeWaitLock, ProcessTypeOK
  <2>2. /\ call' \in [Slots -> {"none", "exec", "waitpid", "sleep"}]
        /\ arg' \in [Slots -> Procs \cup {NULL}] /\ intr' \in [Slots -> {"noINT", "cli", "sti"}]
    BY <1>0, <1>10 DEF WaitReturn, ProcessTypeOK
  <2>3. late' \in [Slots -> BOOLEAN]
    BY <1>0, <1>10 DEF WaitReturn, ProcessTypeOK
  <2> QED BY <1>0, <1>p, <1>10, <2>1, <2>2, <2>3 DEF WaitReturn, ProcessTypeOK, procVars
<1>11. ASSUME NEW c \in CPUs, NEW t \in Slots, WaitInt3(c, t) PROVE ProcessTypeOK'
  <2>1. intr' \in [Slots -> {"noINT", "cli", "sti"}]
    BY <1>0, <1>11 DEF WaitInt3, ProcessTypeOK
  <2> QED BY <1>0, <1>p, <1>11, <2>1 DEF WaitInt3, ProcessTypeOK, procVars
<1>12. ASSUME NEW t \in Slots, WaitSleep(t) \/ ReleasePanic(t) PROVE UNCHANGED <<procVars, callVars>>
  BY <1>12 DEF WaitSleep, ReleasePanic
<1>13. ASSUME NEW t \in Slots, OwnStep(t) PROVE ProcessTypeOK'
  BY <1>2, <1>5, <1>6, <1>7, <1>8, <1>9, <1>10, <1>11, <1>12, <1>13 DEF OwnStep, WaitStep
<1>14. ASSUME NEW c \in CPUs, NEW t \in Slots, Ended(c, t) PROVE ProcessTypeOK'
  BY <1>2, <1>4, <1>14 DEF Ended, BootExit
<1> QED BY <1>1, <1>2, <1>3, <1>13, <1>14, StepKinds

-----------------------------------------------------------------------------
(* What a step does to one thread *)

LEMMA InvokeStatus ==
  ASSUME SchedInv, NEW c \in CPUs, InvokeScheduler(c), NEW u \in Slots
  PROVE  (Live(u)' <=> Live(u)) /\ (Asleep(u)' => Asleep(u))
<1> DEFINE old == current_thread[c]
<1>0. TypeOK /\ RunningIffCurrent
  BY DEF SchedInv
<1>1. ASSUME NEW i \in Slots, IsNext(old, i), Schedule(c, i)
      PROVE  (Live(u)' <=> Live(u)) /\ (Asleep(u)' => Asleep(u))
  <2>1. status[i] \in {"READY", "WAKEUP_READY"}
    BY <1>1 DEF IsNext, CanRun
  <2>2. status' = status \/ status' = [SavedStatus(old) EXCEPT ![i] = "RUNNING"]
    BY <1>1 DEF Schedule
  <2>3. old \in Slots => status[old] \in {"RUNNING", "SLEEPING"}
    BY <1>0 DEF RunningIffCurrent
  <2>4. /\ SavedStatus(old) \in [Slots -> States]
        /\ \A t \in Slots : t # old => SavedStatus(old)[t] = status[t]
        /\ old \in Slots => \/ status[old] = "RUNNING" /\ SavedStatus(old)[old] = "READY"
                            \/ status[old] = "SLEEPING" /\ SavedStatus(old)[old] = "WAKEUP_READY"
    BY <1>0, <2>3 DEF SavedStatus, TypeOK, States
  <2>5. \/ status'[u] = status[u]
        \/ u = i /\ status'[u] = "RUNNING"
        \/ status[u] = "RUNNING" /\ status'[u] = "READY"
        \/ status[u] = "SLEEPING" /\ status'[u] = "WAKEUP_READY"
    BY <2>2, <2>4
  <2> QED BY <2>1, <2>5 DEF Live, Asleep
<1>2. ASSUME NothingReady(c) PROVE status' = status
  BY <1>2 DEF NothingReady
<1> QED BY <1>1, <1>2 DEF InvokeScheduler, Live, Asleep

LEMMA OwnStatus ==
  ASSUME ProcInv, NEW t \in Slots, OwnStep(t), NEW u \in Slots
  PROVE  (Live(u)' <=> Live(u)) /\ (Asleep(u)' => Asleep(u) \/ (u = t /\ WaitSleep(t)))
<1>1. CASE ExecUserProcess(t)
  <2>1. status' = [status EXCEPT ![t] = "RUNNING"] /\ Live(t) /\ TypeOK
    BY <1>1, ExecStep, NoneIsScheduled
  <2> QED BY <2>1 DEF Live, Asleep, TypeOK
<1>2. CASE WaitSleep(t)
  <2>1. status' = [status EXCEPT ![t] = "SLEEPING"] /\ Live(t) /\ TypeOK
    BY <1>2, RunningIsLive, NoneIsScheduled DEF WaitSleep, SleepBegin
  <2> QED BY <1>2, <2>1 DEF Live, Asleep, TypeOK
<1>3. ASSUME NEW c \in CPUs, WaitInt3(c, t)
      PROVE  (Live(u)' <=> Live(u)) /\ (Asleep(u)' => Asleep(u))
  <2>1. SchedInv /\ (InvokeScheduler(c) \/ status' = status)
    BY <1>3, NoneIsScheduled DEF WaitInt3, Int3, tableVars
  <2> QED BY <2>1, InvokeStatus DEF Live, Asleep
<1>4. CASE /\ ~ ExecUserProcess(t) /\ ~ WaitSleep(t)
           /\ \A c \in CPUs : ~ WaitInt3(c, t)
  <2>1. status' = status
    BY <1>4 DEF OwnStep, WaitStep, ExecLoad, ExecFails, WaitBegin, WaitTest, WaitUnlock,
       SleepRelease, WaitReacquire, AcquireSpin, WaitReturn, ReleaseSpin, ReleasePanic, SleepCheck,
       SleepEnd, tableVars, schedVars
  <2> QED BY <2>1 DEF Live, Asleep
<1> QED BY <1>1, <1>2, <1>3, <1>4

LEMMA StatusSteps ==
  ASSUME ProcInv, [ProcessNext]_processVars, NEW u \in Slots
  PROVE  \/ \E t \in Slots, p \in Procs : Created(t, u, p)
         \/ \E c \in CPUs : Ended(c, u)
         \/ (Live(u)' <=> Live(u)) /\ (Asleep(u)' => Asleep(u) \/ WaitSleep(u))
<1> DEFINE Same == (Live(u)' <=> Live(u)) /\ (Asleep(u)' => Asleep(u) \/ WaitSleep(u))
<1>1. CASE UNCHANGED processVars
  BY <1>1 DEF processVars, schedVars, tableVars, Live, Asleep
<1>2. ASSUME NEW c \in CPUs, Timer(c) PROVE Same
  BY <1>2, InvokeStatus, NoneIsScheduled DEF Timer
<1>3. ASSUME NEW c \in CPUs, Iret(c) PROVE Same
  BY <1>3 DEF Iret, tableVars, Live, Asleep
<1>4. ASSUME NEW t \in Slots, OwnStep(t) PROVE Same
  BY <1>4, OwnStatus
<1>5. ASSUME NEW t \in Slots, NEW i \in Slots, NEW p \in Procs, Created(t, i, p), i # u PROVE Same
  <2>1. TypeOK
    BY <1>5, RunningIsLive, NoneIsScheduled DEF Created, CreateThread
  <2> QED BY <1>5, <2>1 DEF Created, CreateThread, TypeOK, Live, Asleep
<1>6. ASSUME NEW c \in CPUs, NEW t \in Slots, Ended(c, t), t # u PROVE Same
  <2>1. panic = "none"
    BY <1>6 DEF Ended, BootExit, ExitThread, Exit
  <2>2. TypeOK
    BY <2>1, NoneIsScheduled
  <2>3. status' = [status EXCEPT ![t] = "KILLED"]
    BY <1>6, ExitStep DEF Ended, BootExit, ExitThread
  <2> QED BY <1>6, <2>2, <2>3 DEF TypeOK, Live, Asleep
<1> QED BY <1>1, <1>2, <1>3, <1>4, <1>5, <1>6, StepKinds

LEMMA LocalKept ==
  ASSUME ProcInv, [ProcessNext]_processVars, NEW u \in Slots,
         ~ OwnStep(u), \A t \in Slots, p \in Procs : ~ Created(t, u, p)
  PROVE  UNCHANGED <<pc[u], call[u], arg[u], sleep_channel[u], owner_proc[u]>>
<1> DEFINE Same == UNCHANGED <<pc[u], call[u], arg[u], sleep_channel[u], owner_proc[u]>>
<1>1. CASE UNCHANGED processVars
  BY <1>1 DEF processVars, schedVars, tableVars, procVars, callVars
<1> SUFFICES ASSUME ~ UNCHANGED processVars PROVE Same
  BY <1>1
<1>2. TypeOK /\ ProcessTypeOK
  BY StepIsUnpanicked, NoneIsScheduled
<1>3. ASSUME NEW c \in CPUs, (Timer(c) \/ Iret(c)) /\ UNCHANGED <<procVars, callVars>> PROVE Same
  BY <1>3 DEF Timer, InvokeScheduler, Iret, tableVars, procVars, callVars
<1>4. ASSUME NEW t \in Slots, NEW i \in Slots, NEW p \in Procs, Created(t, i, p), i # u PROVE Same
  BY <1>2, <1>4 DEF Created, CreateThread, NewProcess, TypeOK, ProcessTypeOK
<1>5. ASSUME NEW c \in CPUs, NEW t \in Slots, Ended(c, t) PROVE Same
  BY <1>5 DEF Ended, BootExit, ExitThread, Exit, procVars, callVars
<1>6. ASSUME NEW t \in Slots, OwnStep(t), t # u PROVE Same
  <2>1. CASE ExecLoad(t) \/ ExecFails(t) \/ WaitTest(t)
    BY <1>2, <1>6, <2>1 DEF ExecLoad, ExecFails, WaitTest, ProcessTypeOK, schedVars, tableVars, procVars
  <2>2. CASE ExecUserProcess(t)
    BY <1>2, <1>6, <2>2 DEF ExecUserProcess, ProcessTypeOK
  <2>3. ASSUME NEW p \in Procs, WaitBegin(t, p) PROVE Same
    BY <1>2, <1>6, <2>3 DEF WaitBegin, AcquireSpin, Goto, TypeOK, ProcessTypeOK, tableVars, procVars
  <2>4. CASE WaitSleep(t)
    BY <1>2, <1>6, <2>4 DEF WaitSleep, SleepBegin, Goto, TypeOK, procVars, callVars
  <2>5. CASE WaitUnlock(t)
    BY <1>2, <1>6, <2>5 DEF WaitUnlock, SleepRelease, Goto, TypeOK, procVars
  <2>6. CASE WaitReacquire(t)
    BY <1>2, <1>6, <2>6 DEF WaitReacquire, AcquireSpin, Goto, TypeOK, ProcessTypeOK, tableVars, procVars
  <2>7. CASE WaitReturn(t)
    BY <1>2, <1>6, <2>7 DEF WaitReturn, ReleaseSpin, Goto, TypeOK, ProcessTypeOK, tableVars, procVars
  <2>8. CASE ReleasePanic(t)
    BY <2>8 DEF ReleasePanic, tableVars, procVars, callVars
  <2>9. ASSUME NEW c \in CPUs, WaitInt3(c, t) PROVE Same
    BY <1>2, <1>6, <2>9 DEF WaitInt3, Int3, InvokeScheduler, Goto, TypeOK, tableVars, procVars
  <2>10. CASE (SleepCheck(t) \/ SleepEnd(t)) /\ UNCHANGED <<procVars, callVars>>
    <3>1. pc'[u] = pc[u] /\ sleep_channel'[u] = sleep_channel[u]
      BY <1>2, <1>6, <2>10 DEF SleepCheck, SleepEnd, Goto, TypeOK, tableVars
    <3> QED BY <2>10, <3>1 DEF procVars, callVars
  <2> QED BY <1>6, <2>1, <2>2, <2>3, <2>4, <2>5, <2>6, <2>7, <2>8, <2>9, <2>10 DEF OwnStep, WaitStep
<1> QED BY <1>3, <1>4, <1>5, <1>6, StepKinds

-----------------------------------------------------------------------------
(* Processes and their threads *)

LEMMA OwnKeepsProcesses ==
  ASSUME ProcInv, NEW t \in Slots, OwnStep(t)
  PROVE  UNCHANGED procVars
<1>1. CASE ExecUserProcess(t)
  BY <1>1, ExecStep DEF ExecUserProcess, procVars
<1>2. CASE ~ ExecUserProcess(t)
  BY <1>2 DEF OwnStep, WaitStep, ExecLoad, ExecFails, WaitBegin, WaitTest, WaitSleep, WaitUnlock,
     WaitReacquire, WaitReturn, ReleasePanic, WaitInt3
<1> QED BY <1>1, <1>2

LEMMA CreatedStep ==
  ASSUME ProcInv, NEW t \in Slots, NEW i \in Slots, NEW p \in Procs, Created(t, i, p)
  PROVE  /\ panic = "none" /\ ~ Live(i) /\ Live(i)' /\ ~ Asleep(i)'
         /\ proc_state[p] = "FREE" /\ threads[p] = {}
         /\ proc_state' = [proc_state EXCEPT ![p] = "INUSE"]
         /\ threads' = [threads EXCEPT ![p] = {i}]
         /\ thread_count' = [thread_count EXCEPT ![p] = 1]
         /\ owner_proc' = [owner_proc EXCEPT ![i] = p]
         /\ pc' = [pc EXCEPT ![i] = "run"]
         /\ InitWaitLock(p)
         /\ UNCHANGED <<sleep_channel, call, arg, late>>
<1>1. panic = "none" /\ ~ Live(i) /\ proc_state[p] = "FREE"
  BY DEF Created, CreateThread, Running, NewProcess, IsFree, Live
<1>2. TypeOK /\ ProcessTypeOK
  BY <1>1, NoneIsScheduled
<1>3. status'[i] = "READY"
  BY <1>2 DEF Created, CreateThread, TypeOK
<1>4. threads[p] = {}
  BY <1>1, NoThread
<1>5. threads' = [threads EXCEPT ![p] = {i}]
  BY <1>2, <1>4 DEF Created, NewProcess, ProcessTypeOK
<1> QED BY <1>1, <1>3, <1>4, <1>5 DEF Created, CreateThread, NewProcess, Live, Asleep

LEMMA ThreadsSteps == ProcInv /\ [ProcessNext]_processVars => ProcessHasThread'
<1> SUFFICES ASSUME ProcInv, [ProcessNext]_processVars, NEW q \in Procs
             PROVE  /\ {u \in Slots : Live(u)' /\ owner_proc'[u] = q} = threads'[q]
                    /\ Cardinality(threads'[q]) = thread_count'[q]
                    /\ thread_count'[q] = IF proc_state'[q] = "INUSE" THEN 1 ELSE 0
  BY DEF ProcessHasThread
<1>0. /\ {u \in Slots : Live(u) /\ owner_proc[u] = q} = threads[q]
      /\ Cardinality(threads[q]) = thread_count[q]
      /\ thread_count[q] = IF proc_state[q] = "INUSE" THEN 1 ELSE 0
      /\ ProcessTypeOK
  BY DEF ProcInv, ProcessHasThread
<1>1. ASSUME NEW t \in Slots, NEW i \in Slots, NEW p \in Procs, Created(t, i, p)
      PROVE  /\ {u \in Slots : Live(u)' /\ owner_proc'[u] = q} = threads'[q]
             /\ Cardinality(threads'[q]) = thread_count'[q]
             /\ thread_count'[q] = IF proc_state'[q] = "INUSE" THEN 1 ELSE 0
  <2>1. \A u \in Slots : u # i => (Live(u)' <=> Live(u)) /\ owner_proc'[u] = owner_proc[u]
    <3> SUFFICES ASSUME NEW u \in Slots, u # i
                 PROVE  (Live(u)' <=> Live(u)) /\ owner_proc'[u] = owner_proc[u]
      OBVIOUS
    <3>1. TypeOK
      BY <1>1, CreatedStep, NoneIsScheduled
    <3>2. status'[u] = status[u]
      BY <1>1, <3>1 DEF Created, CreateThread, TypeOK
    <3> QED BY <1>0, <1>1, <3>2, CreatedStep DEF Live, ProcessTypeOK
  <2>2. ~ Live(i) /\ Live(i)' /\ owner_proc'[i] = p
    BY <1>0, <1>1, CreatedStep DEF ProcessTypeOK
  <2>3. CASE q = p
    <3>1. threads'[q] = {i} /\ thread_count'[q] = 1 /\ proc_state'[q] = "INUSE" /\ threads[q] = {}
      BY <1>0, <1>1, <2>3, CreatedStep DEF ProcessTypeOK
    <3>2. {u \in Slots : Live(u)' /\ owner_proc'[u] = q} = {i}
      BY <1>0, <2>1, <2>2, <2>3, <3>1
    <3> QED BY <3>1, <3>2, FS_Singleton
  <2>4. CASE q # p
    <3>1. threads'[q] = threads[q] /\ thread_count'[q] = thread_count[q] /\ proc_state'[q] = proc_state[q]
      BY <1>0, <1>1, <2>4, CreatedStep DEF ProcessTypeOK
    <3>2. {u \in Slots : Live(u)' /\ owner_proc'[u] = q} = {u \in Slots : Live(u) /\ owner_proc[u] = q}
      BY <2>1, <2>2, <2>4
    <3> QED BY <1>0, <3>1, <3>2
  <2> QED BY <2>3, <2>4
<1>2. ASSUME NEW c \in CPUs, NEW t \in Slots, Exit(c, t)
      PROVE  /\ {u \in Slots : Live(u)' /\ owner_proc'[u] = q} = threads'[q]
             /\ Cardinality(threads'[q]) = thread_count'[q]
             /\ thread_count'[q] = IF proc_state'[q] = "INUSE" THEN 1 ELSE 0
  <2>1. PICK p \in Procs :
           /\ owner_proc[t] = p /\ Live(t) /\ panic = "none"
           /\ status' = [status EXCEPT ![t] = "KILLED"]
           /\ threads' = [threads EXCEPT ![p] = {}]
           /\ thread_count' = [thread_count EXCEPT ![p] = 0]
           /\ proc_state' = [proc_state EXCEPT ![p] = "EXITED"]
    BY <1>2, ExitStep, SMTT(30)
  <2>2. TypeOK /\ owner_proc' = owner_proc
    BY <1>2, <2>1, NoneIsScheduled DEF Exit
  <2>3. ~ Live(t)' /\ \A u \in Slots : u # t => (Live(u)' <=> Live(u))
    BY <2>1, <2>2 DEF Live, TypeOK
  <2>4. CASE q = p
    <3>1. threads[q] = {t}
      BY <2>1, <2>4, OnlyThread
    <3>2. threads'[q] = {} /\ thread_count'[q] = 0 /\ proc_state'[q] = "EXITED"
      BY <1>0, <2>1, <2>4 DEF ProcessTypeOK
    <3>3. {u \in Slots : Live(u)' /\ owner_proc'[u] = q} = {}
      BY <1>0, <2>2, <2>3, <3>1
    <3> QED BY <3>2, <3>3, FS_EmptySet
  <2>5. CASE q # p
    <3>1. threads'[q] = threads[q] /\ thread_count'[q] = thread_count[q] /\ proc_state'[q] = proc_state[q]
      BY <1>0, <2>1, <2>5 DEF ProcessTypeOK
    <3>2. {u \in Slots : Live(u)' /\ owner_proc'[u] = q} = {u \in Slots : Live(u) /\ owner_proc[u] = q}
      BY <2>1, <2>2, <2>3, <2>5
    <3> QED BY <1>0, <3>1, <3>2
  <2> QED BY <2>4, <2>5
<1>3. ASSUME NEW c \in CPUs, NEW t \in Slots, BootExit(c, t)
      PROVE  UNCHANGED procVars /\ \A u \in Slots : owner_proc[u] = q => (Live(u)' <=> Live(u))
  <2>1. owner_proc[t] = NULL /\ panic = "none" /\ status' = [status EXCEPT ![t] = "KILLED"]
    BY <1>3 DEF BootExit, ExitThread
  <2>2. TypeOK
    BY <2>1, NoneIsScheduled
  <2> QED BY <1>3, <2>1, <2>2, ProcFacts DEF BootExit, TypeOK, Live
<1>4. CASE /\ \A t, i \in Slots, p \in Procs : ~ Created(t, i, p)
           /\ \A c \in CPUs, t \in Slots : ~ Ended(c, t)
  <2>1. UNCHANGED procVars
    BY <1>4, StepKinds, OwnKeepsProcesses DEF processVars
  <2>2. \A u \in Slots : Live(u)' <=> Live(u)
    BY <1>4, StatusSteps
  <2> QED BY <1>0, <2>1, <2>2 DEF procVars
<1>5. ASSUME UNCHANGED procVars, \A u \in Slots : owner_proc[u] = q => (Live(u)' <=> Live(u))
      PROVE  /\ {u \in Slots : Live(u)' /\ owner_proc'[u] = q} = threads'[q]
             /\ Cardinality(threads'[q]) = thread_count'[q]
             /\ thread_count'[q] = IF proc_state'[q] = "INUSE" THEN 1 ELSE 0
  BY <1>0, <1>5 DEF procVars
<1> QED BY <1>1, <1>2, <1>3, <1>4, <1>5 DEF Ended

-----------------------------------------------------------------------------
(* System calls *)

LEMMA OwnCall ==
  ASSUME ProcInv, NEW u \in Slots, OwnStep(u)
  PROVE  CallOK(u)' /\ ChannelOK(u)'
<1>1. CallOK(u) /\ ChannelOK(u)
  BY DEF ProcInv, CallInv, ChannelInv
<1>2. panic = "none" /\ Live(u)
  BY RunningIsLive DEF OwnStep, ExecLoad, ExecFails, ExecUserProcess, WaitBegin, WaitStep, WaitTest,
     WaitSleep, SleepBegin, WaitUnlock, SleepRelease, WaitReacquire, AcquireSpin, WaitReturn,
     ReleaseSpin, ReleasePanic, WaitInt3, Int3, SleepCheck, SleepEnd, Running
<1>3. TypeOK /\ ProcessTypeOK
  BY <1>2, NoneIsScheduled
<1>4. Live(u)' /\ owner_proc' = owner_proc
  BY <1>2, OwnStatus, OwnKeepsProcesses DEF procVars
<1>5. ASSUME ExecLoad(u) \/ ExecFails(u) PROVE CallOK(u)' /\ ChannelOK(u)'
  <2>1. UNCHANGED <<pc, sleep_channel, arg>> /\ call'[u] \in {"none", "exec"}
    BY <1>3, <1>5 DEF ExecLoad, ExecFails, schedVars, tableVars, ProcessTypeOK
  <2>2. pc[u] = "run" /\ owner_proc[u] \in Procs
    BY <1>1, <1>3, <1>5 DEF ExecLoad, ExecFails, UserMode, CallOK, ProcessTypeOK, TypeOK, PCs, SleepPCs
  <2> QED BY <1>1, <1>4, <2>1, <2>2 DEF CallOK, ChannelOK, SleepPCs
<1>6. ASSUME ExecUserProcess(u) PROVE CallOK(u)' /\ ChannelOK(u)'
  <2>1. UNCHANGED <<pc, sleep_channel, arg>> /\ call'[u] = "none" /\ call[u] = "exec"
    BY <1>3, <1>6 DEF ExecUserProcess, ProcessTypeOK
  <2>2. pc[u] = "run"
    BY <1>1, <1>3, <2>1 DEF CallOK, TypeOK, PCs, SleepPCs
  <2> QED BY <1>1, <1>4, <2>1, <2>2 DEF CallOK, ChannelOK, SleepPCs
<1>7. ASSUME NEW p \in Procs, WaitBegin(u, p) PROVE CallOK(u)' /\ ChannelOK(u)'
  <2>1. /\ pc[u] = "run" /\ pc'[u] = "locked" /\ sleep_channel' = sleep_channel
        /\ call'[u] = "waitpid" /\ arg'[u] = p
    BY <1>3, <1>7 DEF WaitBegin, UserMode, AcquireSpin, Goto, tableVars, TypeOK, ProcessTypeOK
  <2> QED BY <1>1, <1>4, <2>1 DEF CallOK, ChannelOK, SleepPCs
<1>8. ASSUME WaitTest(u) PROVE CallOK(u)' /\ ChannelOK(u)'
  <2>1. /\ pc[u] = "locked" /\ UNCHANGED <<pc, sleep_channel, arg>> /\ call'[u] = "sleep"
    BY <1>3, <1>8 DEF WaitTest, schedVars, tableVars, ProcessTypeOK
  <2> QED BY <1>1, <1>4, <2>1 DEF CallOK, ChannelOK, SleepPCs
<1>9. ASSUME WaitSleep(u) PROVE CallOK(u)' /\ ChannelOK(u)'
  <2>1. /\ pc[u] = "locked" /\ pc'[u] = "unset" /\ sleep_channel'[u] = arg[u]
        /\ call[u] = "sleep" /\ UNCHANGED <<call, arg>>
    BY <1>3, <1>9 DEF WaitSleep, SleepBegin, Goto, callVars, TypeOK
  <2> QED BY <1>1, <1>4, <2>1 DEF CallOK, ChannelOK, SleepPCs
<1>10. ASSUME WaitUnlock(u) PROVE CallOK(u)' /\ ChannelOK(u)'
  <2>1. pc[u] = "unset" /\ pc'[u] = "check" /\ UNCHANGED <<call, arg, sleep_channel>>
    BY <1>3, <1>10 DEF WaitUnlock, SleepRelease, Goto, TypeOK
  <2> QED BY <1>1, <1>4, <2>1 DEF CallOK, ChannelOK, SleepPCs
<1>11. ASSUME WaitReacquire(u) PROVE CallOK(u)' /\ ChannelOK(u)'
  <2>1. /\ pc[u] = "reacquire" /\ pc'[u] = "locked" /\ UNCHANGED <<sleep_channel, arg>>
        /\ call'[u] = "waitpid"
    BY <1>3, <1>11 DEF WaitReacquire, AcquireSpin, Goto, tableVars, TypeOK, ProcessTypeOK
  <2> QED BY <1>1, <1>4, <2>1 DEF CallOK, ChannelOK, SleepPCs
<1>12. ASSUME WaitReturn(u) PROVE CallOK(u)' /\ ChannelOK(u)'
  <2>1. /\ pc[u] = "locked" /\ pc'[u] = "run" /\ sleep_channel' = sleep_channel
        /\ call'[u] = "none" /\ arg'[u] = NULL
    BY <1>3, <1>12 DEF WaitReturn, ReleaseSpin, Goto, tableVars, TypeOK, ProcessTypeOK
  <2> QED BY <1>1, <1>4, <2>1 DEF CallOK, ChannelOK, SleepPCs
<1>13. ASSUME ReleasePanic(u) PROVE CallOK(u)' /\ ChannelOK(u)'
  BY <1>1, <1>4, <1>13 DEF ReleasePanic, tableVars, callVars, CallOK, ChannelOK
<1>14. ASSUME NEW c \in CPUs, WaitInt3(c, u) PROVE CallOK(u)' /\ ChannelOK(u)'
  <2>1. pc[u] = "int3" /\ pc'[u] \in {"int3", "woken"} /\ UNCHANGED <<call, arg, sleep_channel>>
    BY <1>3, <1>14 DEF WaitInt3, Int3, InvokeScheduler, Schedule, NothingReady, tableVars, Goto, TypeOK
  <2> QED BY <1>1, <1>4, <2>1 DEF CallOK, ChannelOK, SleepPCs
<1>15. ASSUME SleepCheck(u), UNCHANGED <<procVars, callVars>> PROVE CallOK(u)' /\ ChannelOK(u)'
  <2>1. pc[u] = "check" /\ pc'[u] \in {"int3", "woken"} /\ UNCHANGED <<call, arg, sleep_channel>>
    BY <1>3, <1>15 DEF SleepCheck, tableVars, Goto, TypeOK, callVars
  <2> QED BY <1>1, <1>4, <2>1 DEF CallOK, ChannelOK, SleepPCs
<1>16. ASSUME SleepEnd(u), UNCHANGED <<procVars, callVars>> PROVE CallOK(u)' /\ ChannelOK(u)'
  <2>1. /\ pc[u] = "woken" /\ pc'[u] = "reacquire" /\ sleep_channel'[u] = NULL
        /\ UNCHANGED <<call, arg>>
    BY <1>3, <1>16 DEF SleepEnd, Goto, TypeOK, callVars
  <2> QED BY <1>1, <1>4, <2>1 DEF CallOK, ChannelOK, SleepPCs
<1> QED BY <1>5, <1>6, <1>7, <1>8, <1>9, <1>10, <1>11, <1>12, <1>13, <1>14, <1>15, <1>16
        DEF OwnStep, WaitStep

LEMMA EndedStep ==
  ASSUME ProcInv, NEW c \in CPUs, NEW u \in Slots, Ended(c, u)
  PROVE  /\ pc[u] = "run" /\ call[u] = "none" /\ ~ Asleep(u)'
         /\ UNCHANGED <<pc, call, arg, sleep_channel, owner_proc>>
<1>1. CASE Exit(c, u)
  <2>1. pc[u] = "run" /\ call[u] = "none" /\ panic = "none" /\ status' = [status EXCEPT ![u] = "KILLED"]
    BY <1>1, ExitStep
  <2>2. TypeOK
    BY <2>1, NoneIsScheduled
  <2> QED BY <1>1, <2>1, <2>2 DEF Exit, Asleep, TypeOK
<1>2. CASE BootExit(c, u)
  <2>1. /\ pc[u] = "run" /\ owner_proc[u] = NULL /\ panic = "none"
        /\ status' = [status EXCEPT ![u] = "KILLED"]
    BY <1>2 DEF BootExit, ExitThread
  <2>2. TypeOK
    BY <2>1, NoneIsScheduled
  <2>3. call[u] = "none"
    BY <2>1, ProcFacts DEF ProcInv, CallInv, CallOK
  <2> QED BY <1>2, <2>1, <2>2, <2>3 DEF BootExit, ExitThread, Asleep, TypeOK, procVars, callVars
<1> QED BY <1>1, <1>2 DEF Ended

LEMMA CallSteps == ProcInv /\ [ProcessNext]_processVars => CallInv' /\ ChannelInv'
<1> SUFFICES ASSUME ProcInv, [ProcessNext]_processVars, NEW u \in Slots
             PROVE  CallOK(u)' /\ ChannelOK(u)'
  BY DEF CallInv, ChannelInv
<1>0. CallOK(u) /\ ChannelOK(u)
  BY DEF ProcInv, CallInv, ChannelInv
<1>1. CASE OwnStep(u)
  BY <1>1, OwnCall
<1>2. ASSUME NEW t \in Slots, NEW p \in Procs, Created(t, u, p) PROVE CallOK(u)' /\ ChannelOK(u)'
  <2>1. TypeOK /\ ProcessTypeOK
    BY <1>2, CreatedStep, NoneIsScheduled
  <2>2. /\ ~ Live(u) /\ Live(u)' /\ pc'[u] = "run" /\ UNCHANGED <<sleep_channel, call, arg>>
    BY <1>2, <2>1, CreatedStep DEF TypeOK
  <2> QED BY <1>0, <2>2 DEF CallOK, ChannelOK, SleepPCs
<1>3. ASSUME NEW c \in CPUs, Ended(c, u) PROVE CallOK(u)' /\ ChannelOK(u)'
  <2>1. /\ pc[u] = "run" /\ call[u] = "none"
        /\ UNCHANGED <<pc, call, arg, sleep_channel, owner_proc>>
    BY <1>3, EndedStep
  <2> QED BY <1>0, <2>1 DEF CallOK, ChannelOK, SleepPCs
<1>4. CASE /\ ~ OwnStep(u)
           /\ \A t \in Slots, p \in Procs : ~ Created(t, u, p)
           /\ \A c \in CPUs : ~ Ended(c, u)
  <2>1. UNCHANGED <<pc[u], call[u], arg[u], sleep_channel[u], owner_proc[u]>>
    BY <1>4, LocalKept
  <2>2. Live(u)' <=> Live(u)
    BY <1>4, StatusSteps
  <2> QED BY <1>0, <2>1, <2>2 DEF CallOK, ChannelOK
<1> QED BY <1>1, <1>2, <1>3, <1>4

-----------------------------------------------------------------------------
(* waitpid and exit *)

(* The exit of a process wakes its waiters, or marks them. *)
LEMMA BecomesExited ==
  ASSUME ProcInv, [ProcessNext]_processVars, NEW p \in Procs,
         proc_state[p] # "EXITED", proc_state'[p] = "EXITED"
  PROVE  /\ can_wakeup' = [u \in Slots |-> can_wakeup[u] \/ Wakes(u, p)]
         /\ late' = [u \in Slots |-> late[u] \/ GoingToSleep(u, p)]
<1>0. ProcessTypeOK
  BY DEF ProcInv
<1>1. ~ UNCHANGED procVars
  BY DEF procVars
<1>2. ASSUME NEW t \in Slots, NEW i \in Slots, NEW q \in Procs, Created(t, i, q) PROVE FALSE
  BY <1>0, <1>2, CreatedStep DEF ProcessTypeOK
<1>3. PICK c \in CPUs, t \in Slots : Exit(c, t)
  BY <1>1, <1>2, StepKinds, OwnKeepsProcesses DEF Ended, BootExit, processVars
<1>4. PICK q \in Procs :
           /\ proc_state' = [proc_state EXCEPT ![q] = "EXITED"]
           /\ can_wakeup' = [u \in Slots |-> can_wakeup[u] \/ Wakes(u, q)]
           /\ late' = [u \in Slots |-> late[u] \/ GoingToSleep(u, q)]
  BY <1>3, ExitStep
<1>5. p = q
  BY <1>0, <1>4 DEF ProcessTypeOK
<1> QED BY <1>4, <1>5

(* Only the waiter itself takes back its permission to run and its mark. *)
LEMMA PermissionKept ==
  ASSUME ProcInv, [ProcessNext]_processVars, NEW u \in Slots,
         ~ WaitUnlock(u), ~ WaitReturn(u)
  PROVE  (can_wakeup[u] => can_wakeup'[u]) /\ (late[u] => late'[u])
<1> DEFINE Same == (can_wakeup[u] => can_wakeup'[u]) /\ (late[u] => late'[u])
<1>1. CASE UNCHANGED processVars
  BY <1>1 DEF processVars, schedVars, tableVars, callVars
<1> SUFFICES ASSUME ~ UNCHANGED processVars PROVE Same
  BY <1>1
<1>2. TypeOK /\ ProcessTypeOK
  BY StepIsUnpanicked, NoneIsScheduled
<1>3. ASSUME NEW c \in CPUs, (Timer(c) \/ Iret(c)) /\ UNCHANGED <<procVars, callVars>> PROVE Same
  BY <1>3 DEF Timer, InvokeScheduler, Iret, tableVars, callVars
<1>4. ASSUME NEW t \in Slots, NEW i \in Slots, NEW p \in Procs, Created(t, i, p) PROVE Same
  <2>1. can_wakeup' = [can_wakeup EXCEPT ![i] = TRUE] /\ late' = late
    BY <1>4, CreatedStep DEF Created, CreateThread
  <2> QED BY <1>2, <2>1 DEF TypeOK
<1>5. ASSUME NEW c \in CPUs, NEW t \in Slots, Exit(c, t) PROVE Same
  <2>1. PICK p \in Procs :
           /\ can_wakeup' = [v \in Slots |-> can_wakeup[v] \/ Wakes(v, p)]
           /\ late' = [v \in Slots |-> late[v] \/ GoingToSleep(v, p)]
    BY <1>5, ExitStep
  <2> QED BY <2>1
<1>6. ASSUME NEW c \in CPUs, NEW t \in Slots, BootExit(c, t) PROVE Same
  BY <1>6 DEF BootExit, ExitThread, callVars
<1>7. ASSUME NEW t \in Slots, WaitUnlock(t) PROVE Same
  <2>1. t # u /\ can_wakeup' = [can_wakeup EXCEPT ![t] = FALSE] /\ late' = late
    BY <1>7 DEF WaitUnlock, SleepRelease
  <2> QED BY <1>2, <2>1 DEF TypeOK
<1>8. ASSUME NEW t \in Slots, WaitReturn(t) PROVE Same
  <2>1. t # u /\ can_wakeup' = can_wakeup /\ late' = [late EXCEPT ![t] = FALSE]
    BY <1>8 DEF WaitReturn, ReleaseSpin, tableVars
  <2> QED BY <1>2, <2>1 DEF ProcessTypeOK
<1>9. ASSUME NEW t \in Slots, OwnStep(t), ~ WaitUnlock(t), ~ WaitReturn(t) PROVE Same
  <2>1. can_wakeup' = can_wakeup
    BY <1>9 DEF OwnStep, WaitStep, ExecLoad, ExecFails, ExecUserProcess, WaitBegin, WaitTest,
       WaitSleep, SleepBegin, WaitReacquire, AcquireSpin, ReleasePanic, WaitInt3, Int3,
       InvokeScheduler, SleepCheck, SleepEnd, tableVars, schedVars
  <2>2. late' = late
    BY <1>9 DEF OwnStep, WaitStep, ExecLoad, ExecFails, ExecUserProcess, WaitBegin, WaitTest,
       WaitSleep, WaitReacquire, ReleasePanic, WaitInt3, callVars
  <2> QED BY <2>1, <2>2
<1> QED BY <1>3, <1>4, <1>5, <1>6, <1>7, <1>8, <1>9, StepKinds DEF Ended

LEMMA OwnSleepPath ==
  ASSUME ProcInv, NEW u \in Slots, OwnStep(u)
  PROVE  \/ UNCHANGED <<pc[u], call[u], arg[u], sleep_channel[u]>>
         \/ pc'[u] \in {"run", "locked", "reacquire"} /\ call'[u] # "sleep"
         \/ pc'[u] = "reacquire"
         \/ WaitTest(u) \/ WaitSleep(u) \/ WaitUnlock(u)
         \/ /\ pc[u] \notin {"locked", "unset"} /\ pc'[u] \notin {"locked", "unset"}
            /\ sleep_channel'[u] = sleep_channel[u]
<1>1. panic = "none"
  BY DEF OwnStep, ExecLoad, ExecFails, ExecUserProcess, WaitBegin, WaitStep, WaitTest,
     WaitSleep, SleepBegin, WaitUnlock, SleepRelease, WaitReacquire, AcquireSpin, WaitReturn,
     ReleaseSpin, ReleasePanic, WaitInt3, Int3, SleepCheck, SleepEnd, Running
<1>2. TypeOK /\ ProcessTypeOK /\ CallOK(u)
  BY <1>1, NoneIsScheduled DEF ProcInv, CallInv
<1>3. ASSUME ExecLoad(u) \/ ExecFails(u) \/ ExecUserProcess(u)
      PROVE  pc'[u] \in {"run", "locked", "reacquire"} /\ call'[u] # "sleep"
  <2>1. pc' = pc /\ call'[u] # "sleep"
    BY <1>2, <1>3 DEF ExecLoad, ExecFails, ExecUserProcess, schedVars, ProcessTypeOK
  <2>2. pc[u] = "run"
    BY <1>2, <1>3 DEF ExecLoad, ExecFails, ExecUserProcess, UserMode, CallOK, TypeOK, PCs, SleepPCs
  <2> QED BY <2>1, <2>2
<1>4. ASSUME (\E p \in Procs : WaitBegin(u, p)) \/ WaitReacquire(u) \/ WaitReturn(u)
      PROVE  pc'[u] \in {"run", "locked", "reacquire"} /\ call'[u] # "sleep"
  BY <1>2, <1>4 DEF WaitBegin, WaitReacquire, AcquireSpin, WaitReturn, ReleaseSpin, Goto, TypeOK, ProcessTypeOK
<1>5. ASSUME ReleasePanic(u) PROVE UNCHANGED <<pc[u], call[u], arg[u], sleep_channel[u]>>
  BY <1>5 DEF ReleasePanic, tableVars, callVars
<1>6. ASSUME SleepEnd(u) PROVE pc'[u] = "reacquire"
  BY <1>2, <1>6 DEF SleepEnd, Goto, TypeOK
<1>7. ASSUME SleepCheck(u) \/ \E c \in CPUs : WaitInt3(c, u)
      PROVE  /\ pc[u] \notin {"locked", "unset"} /\ pc'[u] \notin {"locked", "unset"}
             /\ sleep_channel'[u] = sleep_channel[u]
  BY <1>2, <1>7 DEF SleepCheck, WaitInt3, Int3, InvokeScheduler, Goto, TypeOK, tableVars
<1> QED BY <1>3, <1>4, <1>5, <1>6, <1>7 DEF OwnStep, WaitStep

LEMMA LateSteps == ProcInv /\ [ProcessNext]_processVars => LateInv'
<1> SUFFICES ASSUME ProcInv, [ProcessNext]_processVars, NEW u \in Slots, NEW p \in Procs,
                    GoingToSleep(u, p)', proc_state'[p] = "EXITED"
             PROVE  late'[u]
  BY DEF LateInv
<1>0. CallOK(u)' /\ arg'[u] = p /\ call'[u] = "sleep" /\ pc'[u] \in {"locked", "unset"}
  BY CallSteps DEF CallInv, GoingToSleep
<1>1. ASSUME GoingToSleep(u, p) PROVE late'[u]
  <2>1. CASE proc_state[p] = "EXITED"
    <3>1. late[u]
      BY <1>1, <2>1 DEF ProcInv, LateInv
    <3>2. ~ WaitReturn(u)
      BY <1>1 DEF WaitReturn, GoingToSleep
    <3>3. CASE WaitUnlock(u)
      BY <3>1, <3>3 DEF WaitUnlock
    <3> QED BY <3>1, <3>2, <3>3, PermissionKept
  <2>2. CASE proc_state[p] # "EXITED"
    BY <1>1, <2>2, BecomesExited
  <2> QED BY <2>1, <2>2
<1>2. ASSUME NEW t \in Slots, NEW q \in Procs, Created(t, u, q) PROVE FALSE
  <2>1. TypeOK
    BY <1>2, CreatedStep, NoneIsScheduled
  <2> QED BY <1>0, <1>2, <2>1, CreatedStep DEF TypeOK
<1>3. CASE OwnStep(u)
  <2>1. CASE UNCHANGED <<pc[u], call[u], arg[u], sleep_channel[u]>>
    BY <1>0, <1>1, <2>1 DEF GoingToSleep
  <2>2. ~ WaitTest(u)
    <3> SUFFICES ASSUME WaitTest(u) PROVE FALSE
      OBVIOUS
    <3>1. arg' = arg /\ proc_state' = proc_state /\ proc_state[arg[u]] # "EXITED"
      BY DEF WaitTest, procVars
    <3> QED BY <1>0, <3>1
  <2>3. CASE WaitSleep(u)
    <3>1. call[u] = "sleep" /\ pc[u] = "locked" /\ arg' = arg
      BY <2>3 DEF WaitSleep, SleepBegin, callVars
    <3> QED BY <1>0, <1>1, <3>1 DEF GoingToSleep
  <2>4. ~ WaitUnlock(u)
    <3> SUFFICES ASSUME WaitUnlock(u) PROVE FALSE
      OBVIOUS
    <3>1. TypeOK
      BY NoneIsScheduled DEF WaitUnlock, SleepRelease, Running
    <3> QED BY <1>0, <3>1 DEF WaitUnlock, SleepRelease, Goto, TypeOK
  <2> QED BY <1>0, <1>3, <2>1, <2>2, <2>3, <2>4, OwnSleepPath
<1>4. CASE ~ OwnStep(u)
  BY <1>0, <1>1, <1>2, <1>4, LocalKept DEF GoingToSleep
<1> QED BY <1>3, <1>4

LEMMA WokenSteps == ProcInv /\ [ProcessNext]_processVars => WaiterIsWoken'
<1> SUFFICES ASSUME ProcInv, [ProcessNext]_processVars, NEW u \in Slots,
                    Asleep(u)', pc'[u] # "unset", sleep_channel'[u] # NULL,
                    proc_state'[sleep_channel'[u]] = "EXITED"
             PROVE  can_wakeup'[u] \/ late'[u]
  BY DEF WaiterIsWoken, Asleep
<1>s. CASE UNCHANGED processVars
  BY <1>s DEF ProcInv, WaiterIsWoken, Asleep, processVars, schedVars, tableVars, procVars, callVars
<1> SUFFICES ASSUME ~ UNCHANGED processVars PROVE can_wakeup'[u] \/ late'[u]
  BY <1>s
<1>0. ChannelOK(u)' /\ ChannelOK(u) /\ CallOK(u) /\ TypeOK
  BY CallSteps, StepIsUnpanicked, NoneIsScheduled DEF ProcInv, ChannelInv, CallInv
<1>1. pc'[u] \notin {"run", "locked", "reacquire"}
  BY <1>0 DEF ChannelOK
<1>2. CASE WaitUnlock(u)
  <2>1. /\ pc[u] = "unset" /\ UNCHANGED <<sleep_channel, proc_state, late>>
    BY <1>2 DEF WaitUnlock, SleepRelease, procVars
  <2>2. GoingToSleep(u, arg[u]) /\ arg[u] \in Procs /\ proc_state[arg[u]] = "EXITED"
    BY <1>0, <2>1 DEF ChannelOK, CallOK, GoingToSleep, SleepPCs
  <2> QED BY <2>1, <2>2 DEF ProcInv, LateInv
<1>3. ~ WaitReturn(u) /\ ~ WaitSleep(u)
  BY <1>0, <1>1 DEF WaitReturn, ReleaseSpin, WaitSleep, SleepBegin, Goto, TypeOK
<1>4. ASSUME ~ WaitUnlock(u), sleep_channel'[u] = sleep_channel[u], Asleep(u), pc[u] # "unset"
      PROVE  can_wakeup'[u] \/ late'[u]
  <2>1. PICK p \in Procs : p = sleep_channel[u]
    BY <1>0, <1>4, ProcFacts DEF ChannelOK
  <2>3. CASE proc_state[p] = "EXITED"
    <3>1. can_wakeup[u] \/ late[u]
      BY <1>4, <2>1, <2>3 DEF ProcInv, WaiterIsWoken, Asleep
    <3> QED BY <1>3, <1>4, <3>1, PermissionKept
  <2>4. CASE proc_state[p] # "EXITED"
    <3>1. can_wakeup' = [v \in Slots |-> can_wakeup[v] \/ Wakes(v, p)]
      BY <1>4, <2>1, <2>4, BecomesExited
    <3> QED BY <1>4, <2>1, <3>1 DEF Wakes, Asleep
  <2> QED BY <2>3, <2>4
<1>5. ASSUME NEW t \in Slots, NEW p \in Procs, Created(t, u, p) PROVE FALSE
  BY <1>5, CreatedStep
<1>6. ASSUME NEW c \in CPUs, Ended(c, u) PROVE FALSE
  BY <1>6, EndedStep
<1>7. Asleep(u)
  BY <1>3, <1>5, <1>6, StatusSteps
<1>8. CASE OwnStep(u) /\ ~ WaitUnlock(u)
  <2>1. ~ WaitTest(u)
    <3> SUFFICES ASSUME WaitTest(u) PROVE FALSE
      OBVIOUS
    <3> QED BY <1>1 DEF WaitTest, schedVars
  <2>2. pc[u] # "unset" /\ sleep_channel'[u] = sleep_channel[u]
    BY <1>1, <1>3, <1>8, <2>1, OwnSleepPath
  <2> QED BY <1>4, <1>7, <1>8, <2>2
<1>9. CASE ~ OwnStep(u)
  <2>1. UNCHANGED <<pc[u], sleep_channel[u]>>
    BY <1>5, <1>9, LocalKept
  <2>2. ~ WaitUnlock(u)
    BY <1>9 DEF OwnStep, WaitStep
  <2> QED BY <1>4, <1>7, <2>1, <2>2
<1> QED BY <1>2, <1>8, <1>9

-----------------------------------------------------------------------------
(* pid_wait_spinlock *)

LEMMA InitKeepsHolder ==
  ASSUME ProcessTypeOK, NEW p \in Procs, NEW q \in Procs, NEW u \in Slots,
         InitWaitLock(p), wait_owner[q] = u \/ q \in reinit
  PROVE  wait_owner'[q] = u \/ q \in reinit'
BY SlotFacts DEF ProcessTypeOK, InitWaitLock

(* Nobody takes the lock from its holder, but for an initialisation. *)
LEMMA HolderKept ==
  ASSUME ProcInv, [ProcessNext]_processVars, NEW u \in Slots, NEW q \in Procs,
         ~ WaitUnlock(u), ~ WaitReturn(u), wait_owner[q] = u \/ q \in reinit
  PROVE  wait_owner'[q] = u \/ q \in reinit'
<1>0. ProcessTypeOK
  BY DEF ProcInv
<1> DEFINE Keeps == wait_owner'[q] = u \/ q \in reinit'
<1>1. CASE UNCHANGED <<wait_owner, reinit>>
  BY <1>1
<1>2. ASSUME NEW t \in Slots, NEW i \in Slots, NEW p \in Procs, Created(t, i, p) PROVE Keeps
  BY <1>0, <1>2, CreatedStep, InitKeepsHolder
<1>3. ASSUME NEW t \in Slots, ExecUserProcess(t) PROVE Keeps
  BY <1>0, <1>3, ExecStep, InitKeepsHolder
<1>4. ASSUME NEW t \in Slots, NEW p \in Procs, WaitBegin(t, p) PROVE Keeps
  <2>1. wait_owner[p] = NULL /\ wait_owner' = [wait_owner EXCEPT ![p] = t] /\ reinit' = reinit
    BY <1>4 DEF WaitBegin, TakeWaitLock
  <2> QED BY <1>0, <2>1, SlotFacts DEF ProcessTypeOK
<1>5. ASSUME NEW t \in Slots, WaitReacquire(t) PROVE Keeps
  <2>1. /\ wait_owner[arg[t]] = NULL /\ wait_owner' = [wait_owner EXCEPT ![arg[t]] = t]
        /\ reinit' = reinit
    BY <1>5 DEF WaitReacquire, TakeWaitLock
  <2> QED BY <1>0, <2>1, SlotFacts DEF ProcessTypeOK
<1>6. ASSUME NEW t \in Slots, WaitUnlock(t) \/ WaitReturn(t) PROVE Keeps
  <2>1. /\ wait_owner[arg[t]] = t /\ wait_owner' = [wait_owner EXCEPT ![arg[t]] = NULL]
        /\ reinit' = reinit /\ t # u
    BY <1>6 DEF WaitUnlock, WaitReturn, FreeWaitLock
  <2> QED BY <1>0, <2>1 DEF ProcessTypeOK
<1>7. ASSUME NEW t \in Slots, ExecLoad(t) \/ ExecFails(t) \/ WaitTest(t) \/ WaitSleep(t)
                              \/ ReleasePanic(t) \/ (\E c \in CPUs : WaitInt3(c, t))
      PROVE  UNCHANGED <<wait_owner, reinit>>
  BY <1>7 DEF ExecLoad, ExecFails, WaitTest, WaitSleep, ReleasePanic, WaitInt3, callVars
<1>8. UNCHANGED processVars \/ UNCHANGED <<procVars, callVars>> => UNCHANGED <<wait_owner, reinit>>
  BY DEF processVars, callVars
<1>9. ASSUME NEW c \in CPUs, NEW t \in Slots, Ended(c, t) PROVE UNCHANGED <<wait_owner, reinit>>
  BY <1>9 DEF Ended, BootExit, Exit, callVars
<1>10. ASSUME NEW t \in Slots, OwnStep(t) PROVE Keeps
  BY <1>1, <1>3, <1>4, <1>5, <1>6, <1>7, <1>8, <1>10 DEF OwnStep, WaitStep
<1> QED BY <1>1, <1>2, <1>8, <1>9, <1>10, StepKinds

LEMMA HoldSteps == ProcInv /\ [ProcessNext]_processVars => HoldInv'
<1> SUFFICES ASSUME ProcInv, [ProcessNext]_processVars, NEW u \in Slots,
                    pc'[u] \in {"locked", "unset"}
             PROVE  wait_owner'[arg'[u]] = u \/ arg'[u] \in reinit'
  BY DEF HoldInv
<1>s. CASE UNCHANGED processVars
  BY <1>s DEF ProcInv, HoldInv, processVars, schedVars, callVars
<1> SUFFICES ASSUME ~ UNCHANGED processVars
             PROVE  wait_owner'[arg'[u]] = u \/ arg'[u] \in reinit'
  BY <1>s
<1>0. TypeOK /\ ProcessTypeOK /\ CallOK(u)
  BY StepIsUnpanicked, NoneIsScheduled DEF ProcInv, CallInv
<1>1. ASSUME pc[u] \in {"locked", "unset"}, arg'[u] = arg[u], ~ WaitUnlock(u), ~ WaitReturn(u)
      PROVE  wait_owner'[arg'[u]] = u \/ arg'[u] \in reinit'
  <2>1. PICK q \in Procs : q = arg[u]
    BY <1>0, <1>1 DEF CallOK, SleepPCs
  <2>2. wait_owner[q] = u \/ q \in reinit
    BY <1>1, <2>1 DEF ProcInv, HoldInv
  <2>3. wait_owner'[q] = u \/ q \in reinit'
    BY <1>1, <2>2, HolderKept
  <2> QED BY <1>1, <2>1, <2>3
<1>2. ASSUME NEW p \in Procs, WaitBegin(u, p)
      PROVE  wait_owner'[arg'[u]] = u
  <2>1. arg'[u] = p /\ wait_owner' = [wait_owner EXCEPT ![p] = u]
    BY <1>0, <1>2 DEF WaitBegin, TakeWaitLock, ProcessTypeOK
  <2> QED BY <1>0, <2>1 DEF ProcessTypeOK
<1>3. CASE WaitReacquire(u)
  <2>1. /\ arg' = arg /\ arg[u] \in Procs
        /\ wait_owner' = [wait_owner EXCEPT ![arg[u]] = u]
    BY <1>0, <1>3 DEF WaitReacquire, TakeWaitLock, CallOK, SleepPCs
  <2> QED BY <1>0, <2>1 DEF ProcessTypeOK
<1>4. ASSUME NEW t \in Slots, NEW p \in Procs, Created(t, u, p) PROVE FALSE
  BY <1>0, <1>4, CreatedStep DEF TypeOK
<1>5. ~ WaitUnlock(u) /\ ~ WaitReturn(u)
  BY <1>0 DEF WaitUnlock, SleepRelease, WaitReturn, ReleaseSpin, Goto, TypeOK
<1>6. CASE WaitTest(u) \/ WaitSleep(u) \/ ReleasePanic(u)
  <2>1. arg' = arg
    BY <1>6 DEF WaitTest, WaitSleep, ReleasePanic, callVars
  <2>2. pc[u] \in {"locked", "unset"}
    BY <1>6 DEF WaitTest, WaitSleep, SleepBegin, ReleasePanic
  <2> QED BY <1>1, <1>5, <2>1, <2>2
<1>7. ~ ExecLoad(u) /\ ~ ExecFails(u) /\ ~ ExecUserProcess(u)
  <2> SUFFICES ASSUME ExecLoad(u) \/ ExecFails(u) \/ ExecUserProcess(u) PROVE FALSE
    OBVIOUS
  <2>1. pc' = pc
    BY DEF ExecLoad, ExecFails, ExecUserProcess, schedVars
  <2>2. pc[u] = "run"
    BY <1>0 DEF ExecLoad, ExecFails, ExecUserProcess, UserMode, CallOK, TypeOK, PCs, SleepPCs
  <2> QED BY <2>1, <2>2
<1>8. ~ SleepCheck(u) /\ ~ SleepEnd(u) /\ \A c \in CPUs : ~ WaitInt3(c, u)
  BY <1>0 DEF SleepCheck, SleepEnd, WaitInt3, Int3, Goto, TypeOK
<1>9. CASE OwnStep(u)
  BY <1>2, <1>3, <1>5, <1>6, <1>7, <1>8, <1>9 DEF OwnStep, WaitStep
<1>10. CASE ~ OwnStep(u)
  BY <1>1, <1>4, <1>5, <1>10, LocalKept
<1> QED BY <1>9, <1>10

LEMMA PanicSteps == ProcInv /\ [ProcessNext]_processVars => ReleasePanicNeedsInit'
<1> SUFFICES ASSUME ProcInv, [ProcessNext]_processVars, panic' = "release"
             PROVE  \E t \in Slots : arg'[t] \in reinit'
  BY DEF ReleasePanicNeedsInit
<1>1. CASE UNCHANGED processVars
  BY <1>1 DEF ProcInv, ReleasePanicNeedsInit, processVars, schedVars, callVars
<1>2. ASSUME NEW t \in Slots, ReleasePanic(t) PROVE \E v \in Slots : arg'[v] \in reinit'
  <2>1. /\ pc[t] \in {"locked", "unset"} /\ wait_owner[arg[t]] # t
        /\ UNCHANGED <<arg, reinit>>
    BY <1>2 DEF ReleasePanic, callVars
  <2> QED BY <2>1 DEF ProcInv, HoldInv
<1>3. ASSUME panic = "none", \A t \in Slots : ~ ReleasePanic(t), ~ UNCHANGED processVars PROVE FALSE
  <2>1. ASSUME NEW c \in CPUs, Timer(c) \/ Iret(c) PROVE FALSE
    BY <1>3, <2>1 DEF Timer, InvokeScheduler, Schedule, NothingReady, Iret
  <2>2. ASSUME NEW t \in Slots, NEW i \in Slots, NEW p \in Procs, Created(t, i, p) PROVE FALSE
    BY <1>3, <2>2 DEF Created, CreateThread
  <2>3. ASSUME NEW c \in CPUs, NEW t \in Slots, Ended(c, t) PROVE FALSE
    BY <1>3, <2>3 DEF Ended, BootExit, ExitThread, Exit
  <2>4. ASSUME NEW t \in Slots, OwnStep(t) PROVE FALSE
    BY <1>3, <2>4 DEF OwnStep, WaitStep, ExecUserProcess, ExecLoad, ExecFails, WaitBegin, WaitTest,
       WaitSleep, SleepBegin, WaitUnlock, SleepRelease, WaitReacquire, AcquireSpin, WaitReturn,
       ReleaseSpin, WaitInt3, Int3, InvokeScheduler, Schedule, NothingReady, SleepCheck, SleepEnd,
       schedVars
  <2> QED BY <1>3, <2>1, <2>2, <2>3, <2>4, StepKinds
<1> QED BY <1>1, <1>2, <1>3, StepIsUnpanicked

-----------------------------------------------------------------------------
(* Theorems *)

(* The invariant that the theorems below are read from. *)
THEOREM ProcessInvariant == ProcessSpec => []ProcInv
<1>1. ProcInv /\ [ProcessNext]_processVars => ProcInv'
  BY ScheduleSteps, ProcTypeSteps, ThreadsSteps, CallSteps, LateSteps, WokenSteps, HoldSteps,
     PanicSteps DEF ProcInv
<1> QED BY <1>1, InitProcesses, PTL DEF ProcessSpec

(* Every field of the process table keeps its type; thread_count never leaves *)
(* 0 and 1.                                                                   *)
THEOREM ProcessTypes == ProcessSpec => []ProcessTypeOK
BY ProcessInvariant, PTL DEF ProcInv

(* exec and exit, which write the status of threads behind the scheduler's    *)
(* back, keep what the scheduler relies on: one CPU per thread, and a status  *)
(* that tells whether a CPU has the thread.                                   *)
THEOREM ProcessesKeepScheduler == ProcessSpec => [](OneCpuPerThread /\ RunningIffCurrent)
BY ProcessInvariant, PTL DEF ProcInv

(* A process is INUSE exactly while the one thread its list names is alive,   *)
(* whatever fork, exec and exit do.                                           *)
THEOREM OneThreadPerProcess == ProcessSpec => []ProcessHasThread
BY ProcessInvariant, PTL DEF ProcInv

(* A thread asleep in waitpid for a process that has exited may run again, or *)
(* the exit fell into the window between the test and can_wakeup = false.     *)
THEOREM WaiterWoken == ProcessSpec => []WaiterIsWoken
BY ProcessInvariant, PTL DEF ProcInv

(* The release panic of waitpid needs an init_Spinlock of the held lock. *)
THEOREM ReleasePanicCause == ProcessSpec => []ReleasePanicNeedsInit
BY ProcessInvariant, PTL DEF ProcInv

(* waitpid returns only after the process has exited and its thread is dead. *)
THEOREM WaitpidReturns == ProcessSpec => WaitpidReturnsAfterExit
<1> DEFINE Returns(t) == arg[t] # NULL /\ arg'[t] = NULL =>
             /\ proc_state[arg[t]] = "EXITED"
             /\ \A u \in Slots : owner_proc[u] = arg[t] => ~ Live(u)
<1>1. ProcInv /\ [ProcessNext]_processVars => [\A t \in Slots : Returns(t)]_processVars
  <2> SUFFICES ASSUME ProcInv, [ProcessNext]_processVars, NEW t \in Slots,
                      arg[t] # NULL, arg'[t] = NULL
               PROVE  /\ proc_state[arg[t]] = "EXITED"
                      /\ \A u \in Slots : owner_proc[u] = arg[t] => ~ Live(u)
    OBVIOUS
  <2>1. ASSUME NEW u \in Slots, NEW p \in Procs, Created(u, t, p) PROVE FALSE
    BY <2>1, CreatedStep
  <2>2. OwnStep(t)
    BY <2>1, LocalKept
  <2>3. WaitReturn(t)
    <3>1. ASSUME NEW p \in Procs, WaitBegin(t, p) PROVE FALSE
      <4>1. arg'[t] = p
        BY <3>1 DEF WaitBegin, ProcInv, ProcessTypeOK
      <4> QED BY <4>1, ProcFacts
    <3> QED BY <2>2, <3>1 DEF OwnStep, WaitStep, ExecLoad, ExecFails, ExecUserProcess, WaitTest,
               WaitSleep, WaitUnlock, WaitReacquire, ReleasePanic, WaitInt3, callVars
  <2>4. PICK p \in Procs : p = arg[t]
    BY DEF ProcInv, ProcessTypeOK
  <2>5. proc_state[p] = "EXITED"
    BY <2>3, <2>4 DEF WaitReturn
  <2> QED BY <2>4, <2>5, NoThread
<1> QED BY <1>1, ProcessInvariant, PTL DEF ProcessSpec, WaitpidReturnsAfterExit
=============================================================================
