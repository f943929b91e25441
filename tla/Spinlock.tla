------------------------------ MODULE Spinlock ------------------------------
(***************************************************************************)
(* spinlock.c, the cli counter of cpu.c and the interrupt entry and exit   *)
(* of isr.asm / idt.c / apic.c that they rely on, one load or store of     *)
(* shared state per step.                                                  *)
(*                                                                         *)
(* The actors are the CPUs.  A CPU runs kernel code that takes and         *)
(* releases spinlocks in nested critical sections, is interrupted whenever *)
(* its interrupt flag is set, and runs handlers that take spinlocks too.   *)
(* Which thread runs on the CPU is the business of module Scheduler; here  *)
(* a context switch only changes the registers the locks depend on.        *)
(***************************************************************************)
EXTENDS Integers, FiniteSets, Sequences

CONSTANTS
    CPUs,      \* processors, the actors
    Locks,     \* the Spinlock objects
    Rank,      \* nesting order of the locks, see MayAcquire
    NoCpu,     \* the owner_cpu value -1
    MaxFrames  \* bound on the interrupt frames stacked on one CPU

ASSUME CPUAssumption   == NoCpu \notin CPUs
ASSUME RankAssumption  == Rank \in [Locks -> Nat]
ASSUME FrameAssumption == MaxFrames \in Nat \ {0, 1}

VARIABLES
    is_locked,  \* Spinlock.is_locked
    owner_cpu,  \* Spinlock.owner_cpu
    cli_count,  \* CPU.cli_count
    noINT,      \* CPU.noINT
    intFlag,    \* the interrupt flag, IF of the CPU's rflags
    frames,     \* trap frames stacked on the CPU, innermost last
    mode,       \* what runs below the trap frames: user code, a system
                \* call handler, or a kernel thread
    pc,         \* where in acquire_Spinlock or release_Spinlock the CPU is
    arg,        \* the lock that call is about
    held        \* locks whose acquire returned and whose release has not begun

lockVars == <<is_locked, owner_cpu>>
intVars  == <<cli_count, noINT, intFlag>>
trapVars == <<frames, mode>>
ctlVars  == <<pc, arg, held>>
vars     == <<lockVars, intVars, trapVars, ctlVars>>

Acquiring == {"cli", "count", "check", "tas", "own"}
Releasing == {"rcheck", "unown", "clear", "dec"}
PCs       == Acquiring \cup Releasing \cup {"run", "panic"}
Modes     == {"user", "syscall", "kthread"}
Frame     == [pc : PCs, arg : Locks, intFlag : BOOLEAN]

TypeOK ==
    /\ is_locked \in [Locks -> BOOLEAN]
    /\ owner_cpu \in [Locks -> CPUs \cup {NoCpu}]
    /\ cli_count \in [CPUs -> Nat]
    /\ noINT \in [CPUs -> BOOLEAN]
    /\ intFlag \in [CPUs -> BOOLEAN]
    /\ frames \in [CPUs -> Seq(Frame)]
    /\ mode \in [CPUs -> Modes]
    /\ pc \in [CPUs -> PCs]
    /\ arg \in [CPUs -> Locks]
    /\ held \in [CPUs -> SUBSET Locks]

(* init_Spinlock on every lock; the CPUs run kernel threads with interrupts on. *)
Init ==
    /\ is_locked = [l \in Locks |-> FALSE]
    /\ owner_cpu = [l \in Locks |-> NoCpu]
    /\ cli_count = [c \in CPUs |-> 0]
    /\ noINT = [c \in CPUs |-> FALSE]
    /\ intFlag = [c \in CPUs |-> TRUE]
    /\ frames = [c \in CPUs |-> <<>>]
    /\ mode = [c \in CPUs |-> "kthread"]
    /\ pc = [c \in CPUs |-> "run"]
    /\ arg \in [CPUs -> Locks]
    /\ held = [c \in CPUs |-> {}]

-----------------------------------------------------------------------------
(* acquire_Spinlock *)

Goto(c, label) == pc' = [pc EXCEPT ![c] = label]

InKernel(c) == mode[c] # "user" \/ frames[c] # <<>>

(* Mutant: callers nest the locks in any order. *)
MayAcquireAnyOrder(c, l) == l \notin held[c]

(* The call sites nest locks in one order: ide_lock before proc_table.lock   *)
(* (ideintr calls Wakeup), proc_table.lock before spm_lock and PMM.lock      *)
(* (exit and fork free and map frames), those before the kernel heap's lock. *)
MayAcquire(c, l) == \A h \in held[c] : Rank[h] < Rank[l]

AcquireStart(c, l) ==
    /\ pc[c] = "run" /\ InKernel(c)
    /\ MayAcquire(c, l)
    /\ arg' = [arg EXCEPT ![c] = l]
    /\ Goto(c, "cli")
    /\ UNCHANGED <<lockVars, intVars, trapVars, held>>

(* inc_cli: interrupts go off before the counter is touched. *)
Cli(c) ==
    /\ pc[c] = "cli"
    /\ intFlag' = [intFlag EXCEPT ![c] = FALSE]
    /\ Goto(c, "count")
    /\ UNCHANGED <<lockVars, cli_count, noINT, trapVars, arg, held>>

IncCliCount(c) ==
    /\ pc[c] = "count"
    /\ cli_count' = [cli_count EXCEPT ![c] = @ + 1]
    /\ Goto(c, "check")
    /\ UNCHANGED <<lockVars, noINT, intFlag, trapVars, arg, held>>

spinlock_check_held(c, l) == is_locked[l] /\ owner_cpu[l] = c

AcquireCheck(c) ==
    /\ pc[c] = "check"
    /\ Goto(c, IF spinlock_check_held(c, arg[c]) THEN "panic" ELSE "tas")
    /\ UNCHANGED <<lockVars, intVars, trapVars, arg, held>>

(* Mutant: the spin loop tests owner_cpu, which is set only later. *)
TestAndSetByOwner(c) ==
    /\ pc[c] = "tas"
    /\ owner_cpu[arg[c]] = NoCpu
    /\ is_locked' = [is_locked EXCEPT ![arg[c]] = TRUE]
    /\ Goto(c, "own")
    /\ UNCHANGED <<owner_cpu, intVars, trapVars, arg, held>>

(* One atomic test-and-set; the loop spins by not being able to take this step. *)
TestAndSet(c) ==
    /\ pc[c] = "tas"
    /\ ~ is_locked[arg[c]]
    /\ is_locked' = [is_locked EXCEPT ![arg[c]] = TRUE]
    /\ Goto(c, "own")
    /\ UNCHANGED <<owner_cpu, intVars, trapVars, arg, held>>

SetOwner(c) ==
    /\ pc[c] = "own"
    /\ owner_cpu' = [owner_cpu EXCEPT ![arg[c]] = c]
    /\ held' = [held EXCEPT ![c] = @ \cup {arg[c]}]
    /\ Goto(c, "run")
    /\ UNCHANGED <<is_locked, intVars, trapVars, arg>>

-----------------------------------------------------------------------------
(* release_Spinlock *)

ReleaseStart(c, l) ==
    /\ pc[c] = "run" /\ l \in held[c]
    /\ arg' = [arg EXCEPT ![c] = l]
    /\ held' = [held EXCEPT ![c] = @ \ {l}]
    /\ Goto(c, "rcheck")
    /\ UNCHANGED <<lockVars, intVars, trapVars>>

ReleaseCheck(c) ==
    /\ pc[c] = "rcheck"
    /\ Goto(c, IF spinlock_check_held(c, arg[c]) THEN "unown" ELSE "panic")
    /\ UNCHANGED <<lockVars, intVars, trapVars, arg, held>>

(* Mutant: the owner is not reset, as if clearing is_locked were enough. *)
ClearOwnerForgotten(c) ==
    /\ pc[c] = "unown"
    /\ Goto(c, "clear")
    /\ UNCHANGED <<lockVars, intVars, trapVars, arg, held>>

ClearOwner(c) ==
    /\ pc[c] = "unown"
    /\ owner_cpu' = [owner_cpu EXCEPT ![arg[c]] = NoCpu]
    /\ Goto(c, "clear")
    /\ UNCHANGED <<is_locked, intVars, trapVars, arg, held>>

ClearLocked(c) ==
    /\ pc[c] = "clear"
    /\ is_locked' = [is_locked EXCEPT ![arg[c]] = FALSE]
    /\ Goto(c, "dec")
    /\ UNCHANGED <<owner_cpu, intVars, trapVars, arg, held>>

(* Mutant: sti at every release. *)
EnablesInterruptsNested(c) == ~ noINT[c]

(* dec_cli: both of its panics, then sti at the outermost release unless the  *)
(* CPU is inside a handler.                                                   *)
DecCliPanics(c) == intFlag[c] \/ cli_count[c] = 0
EnablesInterrupts(c) == cli_count[c] = 1 /\ ~ noINT[c]

DecCli(c) ==
    /\ pc[c] = "dec"
    /\ IF DecCliPanics(c)
       THEN Goto(c, "panic") /\ UNCHANGED <<cli_count, intFlag>>
       ELSE /\ cli_count' = [cli_count EXCEPT ![c] = @ - 1]
            /\ intFlag' = [intFlag EXCEPT ![c] = EnablesInterrupts(c)]
            /\ Goto(c, "run")
    /\ UNCHANGED <<lockVars, noINT, trapVars, arg, held>>

-----------------------------------------------------------------------------
(* Interrupts, traps, system calls and context switches *)

(* Entry of isr_handler: the gate and the stub's cli clear IF, NoINT_Enable. *)
EnterHandler(c) ==
    /\ frames' = [frames EXCEPT ![c] =
                    Append(@, [pc |-> pc[c], arg |-> arg[c], intFlag |-> intFlag[c]])]
    /\ intFlag' = [intFlag EXCEPT ![c] = FALSE]
    /\ noINT' = [noINT EXCEPT ![c] = TRUE]
    /\ Goto(c, "run")
    /\ UNCHANGED <<lockVars, cli_count, mode, arg, held>>

(* A timer, keyboard or disk interrupt between any two instructions. *)
Interrupt(c) ==
    /\ intFlag[c] /\ pc[c] # "panic"
    /\ Len(frames[c]) < MaxFrames
    /\ EnterHandler(c)

(* The int3 of ThreadSleep, taken whatever the interrupt flag is. *)
Int3(c) ==
    /\ pc[c] = "run" /\ frames[c] = <<>> /\ held[c] = {}
    /\ mode[c] # "user"
    /\ EnterHandler(c)

(* apic_end_of_interrupt, then iretq to the interrupted code. *)
IrqReturn(c) ==
    /\ frames[c] # <<>> /\ pc[c] = "run" /\ held[c] = {}
    /\ LET f == frames[c][Len(frames[c])] IN
         /\ intFlag' = [intFlag EXCEPT ![c] = f.intFlag]
         /\ arg' = [arg EXCEPT ![c] = f.arg]
         /\ Goto(c, f.pc)
    /\ frames' = [frames EXCEPT ![c] = SubSeq(@, 1, Len(@) - 1)]
    /\ noINT' = [noINT EXCEPT ![c] = FALSE]
    /\ UNCHANGED <<lockVars, cli_count, mode, held>>

(* schedule() from a timer tick or an int3: apic_end_of_interrupt and iretq   *)
(* into another thread, which was itself suspended by a tick (interrupts on)  *)
(* or by the int3 of a ThreadSleep.                                           *)
Suspended(m, p, i) ==
    /\ m = "user" => p = "run" /\ i
    /\ m = "kthread" => i
    /\ p = "cli" => i

ContextSwitch(c) ==
    /\ Len(frames[c]) = 1 /\ pc[c] = "run" /\ held[c] = {}
    /\ frames' = [frames EXCEPT ![c] = <<>>]
    /\ noINT' = [noINT EXCEPT ![c] = FALSE]
    /\ \E m \in Modes, p \in {"run", "cli"}, i \in BOOLEAN, l \in Locks :
         /\ Suspended(m, p, i)
         /\ p = "run" => l = arg[c]
         /\ mode' = [mode EXCEPT ![c] = m]
         /\ intFlag' = [intFlag EXCEPT ![c] = i]
         /\ arg' = [arg EXCEPT ![c] = l]
         /\ Goto(c, p)
    /\ UNCHANGED <<lockVars, cli_count, held>>

(* int 0x80: syscall_handler turns nested interrupts off, as isr_handler does. *)
SyscallEnter(c) ==
    /\ mode[c] = "user" /\ frames[c] = <<>> /\ pc[c] = "run"
    /\ mode' = [mode EXCEPT ![c] = "syscall"]
    /\ intFlag' = [intFlag EXCEPT ![c] = FALSE]
    /\ noINT' = [noINT EXCEPT ![c] = TRUE]
    /\ UNCHANGED <<lockVars, cli_count, frames, ctlVars>>

(* Handlers with do_eoi = false return without NoINT_Disable. *)
SyscallReturn(c) ==
    /\ mode[c] = "syscall" /\ frames[c] = <<>> /\ pc[c] = "run" /\ held[c] = {}
    /\ mode' = [mode EXCEPT ![c] = "user"]
    /\ intFlag' = [intFlag EXCEPT ![c] = TRUE]
    /\ \E doEoi \in BOOLEAN :
         noINT' = [noINT EXCEPT ![c] = IF doEoi THEN FALSE ELSE @]
    /\ UNCHANGED <<lockVars, cli_count, frames, ctlVars>>

(* The explicit sti of the getchar and exit handlers. *)
Sti(c) ==
    /\ mode[c] = "syscall" /\ frames[c] = <<>> /\ pc[c] = "run" /\ held[c] = {}
    /\ intFlag' = [intFlag EXCEPT ![c] = TRUE]
    /\ UNCHANGED <<lockVars, cli_count, noINT, trapVars, ctlVars>>

-----------------------------------------------------------------------------
AcquireStep(c) == Cli(c) \/ IncCliCount(c) \/ AcquireCheck(c) \/ TestAndSet(c) \/ SetOwner(c)
ReleaseStep(c) == ReleaseCheck(c) \/ ClearOwner(c) \/ ClearLocked(c) \/ DecCli(c)
TrapStep(c)    == \/ Interrupt(c) \/ Int3(c) \/ IrqReturn(c) \/ ContextSwitch(c)
                  \/ SyscallEnter(c) \/ SyscallReturn(c) \/ Sti(c)

Next == \E c \in CPUs :
          \/ \E l \in Locks : AcquireStart(c, l) \/ ReleaseStart(c, l)
          \/ AcquireStep(c) \/ ReleaseStep(c) \/ TrapStep(c)

Spec == Init /\ [][Next]_vars

(* A CPU keeps executing the straight-line code of acquire and release, and   *)
(* every critical section of the kernel ends.                                 *)
Fairness == \A c \in CPUs :
              /\ WF_vars(AcquireStep(c)) /\ WF_vars(ReleaseStep(c))
              /\ \A l \in Locks : SF_vars(ReleaseStart(c, l))

FairSpec == Spec /\ Fairness

-----------------------------------------------------------------------------
(* Properties *)

(* CPU c is between the test-and-set that took l and the store that frees it. *)
InCS(c, l) == \/ l \in held[c]
              \/ arg[c] = l /\ pc[c] \in {"own", "rcheck", "unown", "clear"}

(* spinlock.h: "Our Mutex must allow only one process/thread in a critical   *)
(* section".  The critical section includes the stores of acquire after the  *)
(* test-and-set and those of release before the clear.                       *)
MutualExclusion ==
    \A l \in Locks : \A c, d \in CPUs : InCS(c, l) /\ InCS(d, l) => c = d

(* spinlock.h: "Be uninterruptable once in a critical section": while a CPU   *)
(* is in any critical section its interrupts are off, through nested          *)
(* acquires and releases, traps and context switches.                         *)
Uninterruptible == \A c \in CPUs : (\E l \in Locks : InCS(c, l)) => ~ intFlag[c]

(* None of the panics of acquire_Spinlock, release_Spinlock and dec_cli fires *)
(* in a kernel that nests its locks in order: the self-deadlock check has no  *)
(* false positive and the owner and the counter are never stale.              *)
NoPanic == \A c \in CPUs : pc[c] # "panic"

(* idt.c, NoINT_Enable: "no interrupts will be handled recursively".  The     *)
(* handlers take and release spinlocks, whose last release would enable       *)
(* interrupts inside the handler.                                             *)
NoRecursiveInterrupt == \A c \in CPUs : Len(frames[c]) <= 1

(* The lock discipline has no deadlock: when a CPU spins on a lock, some CPU  *)
(* eventually gets it (test-and-set gives no CPU a turn of its own).          *)
SpinnersProgress ==
    \A l \in Locks : (\E c \in CPUs : pc[c] = "tas" /\ arg[c] = l)
                     ~> (\E c \in CPUs : pc[c] = "own" /\ arg[c] = l)

(* Spinlock implements the abstract lock.  *)
Abs == INSTANCE LockSpec WITH holders <- [l \in Locks |-> {c \in CPUs : InCS(c, l)}]
LockRefinement == Abs!Spec
=============================================================================
