------------------------------ MODULE SmpBoot ------------------------------
(***************************************************************************)
(* The boot of the processors: kernel_main reads the processors from the   *)
(* MADT (acpi.c), starts its timer (apic.c), sets up its thread and the    *)
(* idle thread, and starts the other processors one after the other        *)
(* (cpu.c, smp_boot.asm).  All of them start through one SMP_INFO_STRUCT:  *)
(* the next one may be prepared only when the one before has taken its     *)
(* stack, which it reports with a magic number.                            *)
(*                                                                         *)
(* A processor is its local APIC id; the boot processor is BSP.  Timers    *)
(* tick at any time once they run and interrupts are on.                   *)
(***************************************************************************)
EXTENDS Integers, Sequences, FiniteSets

CONSTANTS
    Tables,   \* MADTs the firmware may provide
    BSP, NULL,
    MaxLost   \* start-up IPIs that may be lost

Items == [type : {"lapic", "other"}, len : Nat, acpi : Nat, apic : Nat,
          flags : {"enabled", "capable", "disabled", "none"}]

ASSUME TablesAssumption == \A t \in Tables : t.items \in Seq(Items) /\ t.behind \in Items

VARIABLES
    madt,              \* the table: its items, and what is read as one behind them
    item, curr_length, \* parse_madt
    cpu,               \* global_Settings.cpu: processor ids, in table order
    phase,             \* progress of kernel_main
    next,              \* index of smp_start's loop
    sipis,             \* start-up IPIs sent to the current processor
    lost,
    info,              \* SMP_INFO_STRUCT: kstack_va and magic
    kstack,            \* CPU.kstack, by processor id; a stack is its number
    stacks,            \* stacks allocated
    pc, rsp,           \* progress of the other processors, and the stack they booted on
    panic

bspVars == <<item, curr_length, cpu, phase, next, sipis, kstack, stacks>>
vars    == <<madt, bspVars, lost, info, pc, rsp, panic>>

(* A local APIC item, and any other. *)
IsLapic(x) == x.type = "lapic"

(* Processors that are there: online-capable ones are not. *)
CPUs == {madt.items[i].apic : i \in {j \in DOMAIN madt.items : IsLapic(madt.items[j]) /\ madt.items[j].flags = "enabled"}}
APs  == CPUs \ {BSP}

SumTo[k \in 0 .. Len(madt.items)] == IF k = 0 THEN 0 ELSE SumTo[k - 1] + madt.items[k].len
total_length == SumTo[Len(madt.items)]

(* The item at a position, and what is read behind the last one. *)
ItemAt(k) == IF k \in DOMAIN madt.items THEN madt.items[k]
             ELSE madt.behind

Init ==
    /\ madt \in Tables
    /\ item = 1 /\ curr_length = 0
    /\ cpu = <<>>
    /\ phase = "parse"
    /\ next = 1 /\ sipis = 0 /\ lost = 0
    /\ info = [kstack |-> NULL, magic |-> FALSE]
    /\ kstack = <<>> /\ stacks = 0
    /\ pc = [c \in CPUs |-> IF c = BSP THEN "bsp" ELSE "halted"]
    /\ rsp = [c \in CPUs |-> NULL]
    /\ panic = "none"

-----------------------------------------------------------------------------
(* kernel_main up to smp_start *)

Registered(x) == IsLapic(x) /\ x.flags \in {"enabled", "capable"}

(* Mutant: the walk counts the table's header twice. *)
MoreButHeader == curr_length + 8 < total_length

More == curr_length < total_length

(* One round of parse_madt: the length added is that of the following item.   *)
(* An item of length 0 is never left.                                         *)
parse_madt ==
    /\ phase = "parse" /\ More
    /\ cpu' = IF Registered(ItemAt(item)) THEN Append(cpu, ItemAt(item).acpi) ELSE cpu
    /\ item' = IF ItemAt(item).len = 0 THEN item ELSE item + 1
    /\ curr_length' = curr_length + ItemAt(item').len
    /\ UNCHANGED <<madt, phase, next, sipis, kstack, stacks, lost, info, pc, rsp, panic>>

Goto(p) == phase' = p /\ UNCHANGED <<madt, item, curr_length, cpu, next, sipis, kstack, stacks, lost, info, pc, rsp, panic>>

ParseDone == phase = "parse" /\ ~ More /\ Goto("calibrate")

(* get_current_cpu looks for the APIC id among the ids of the table. *)
HasEntry(c) == \E i \in DOMAIN cpu : cpu[i] = c

(* The interrupts of the PIT end the calibration: isr_handler looks for the   *)
(* processor.  The timer then runs before bTimerCalibrated is set.            *)
apic_calibrate_timer ==
    /\ \/ phase = "calibrate" /\ HasEntry(BSP) /\ phase' = "ticking" /\ UNCHANGED panic
       \/ phase = "calibrate" /\ ~ HasEntry(BSP) /\ panic' = "unregistered" /\ UNCHANGED phase
       \/ phase = "ticking" /\ phase' = "kheap" /\ UNCHANGED panic
    /\ UNCHANGED <<madt, item, curr_length, cpu, next, sipis, kstack, stacks, lost, info, pc, rsp>>

(* After kheap_init; gives the processor a current thread. *)
kthread_setup == phase = "kheap" /\ Goto("kthread")

CreateIdleThread == phase = "kthread" /\ Goto("smp_start")

(* A tick in isr_handler.  Without a current thread the scheduler switches to *)
(* the idle thread, whose context is still zero; with one, and nothing else   *)
(* to run, it returns.  Later ticks may move kernel_main to a processor that  *)
(* is already started, whose id smp_start has passed.                         *)
BspTick ==
    /\ phase \in {"ticking", "kheap"}
    /\ panic' = IF phase = "ticking" THEN "calibration" ELSE "no idle thread"
    /\ UNCHANGED <<madt, bspVars, lost, info, pc, rsp>>

-----------------------------------------------------------------------------
(* smp_start and InitCPUByID *)

Id == cpu[next]

get_cpu_byID_panics(id) == id >= Len(cpu) \/ cpu[id + 1] # id

(* Mutant: the magic number of the processor before is left in the struct. *)
InitKeepsMagic ==
    /\ phase = "smp_start" /\ next <= Len(cpu) /\ Id # BSP /\ ~ get_cpu_byID_panics(Id)
    /\ stacks' = stacks + 1
    /\ kstack' = Append(kstack, [id |-> Id, stack |-> stacks + 1])
    /\ info' = [info EXCEPT !.kstack = stacks + 1]
    /\ pc' = IF Id \in APs THEN [pc EXCEPT ![Id] = "wait"] ELSE pc
    /\ phase' = "sipi"
    /\ UNCHANGED <<madt, item, curr_length, cpu, next, sipis, lost, rsp, panic>>

(* The stack, the struct, the trampoline, and the INIT IPI. *)
InitCPUByID ==
    /\ phase = "smp_start" /\ next <= Len(cpu) /\ Id # BSP /\ ~ get_cpu_byID_panics(Id)
    /\ stacks' = stacks + 1
    /\ kstack' = Append(kstack, [id |-> Id, stack |-> stacks + 1])
    /\ info' = [kstack |-> stacks + 1, magic |-> FALSE]
    /\ pc' = IF Id \in APs THEN [pc EXCEPT ![Id] = "wait"] ELSE pc
    /\ phase' = "sipi"
    /\ UNCHANGED <<madt, item, curr_length, cpu, next, sipis, lost, rsp, panic>>

InitPanics ==
    /\ phase = "smp_start" /\ next <= Len(cpu) /\ Id # BSP /\ get_cpu_byID_panics(Id)
    /\ panic' = "bad id"
    /\ UNCHANGED <<madt, bspVars, lost, info, pc, rsp>>

(* The boot processor itself is skipped. *)
SkipSelf ==
    /\ phase = "smp_start" /\ next <= Len(cpu) /\ Id = BSP
    /\ next' = next + 1
    /\ UNCHANGED <<madt, item, curr_length, cpu, phase, sipis, kstack, stacks, lost, info, pc, rsp, panic>>

(* Mutant: one start-up IPI. *)
StartupOnce ==
    /\ phase = "sipi" /\ sipis < 2
    /\ sipis' = 2
    /\ \/ /\ pc' = IF Id \in APs /\ pc[Id] = "wait" THEN [pc EXCEPT ![Id] = "trampoline"] ELSE pc
          /\ UNCHANGED lost
       \/ /\ lost < MaxLost /\ lost' = lost + 1
          /\ UNCHANGED pc
    /\ UNCHANGED <<madt, item, curr_length, cpu, phase, next, kstack, stacks, info, rsp, panic>>

(* Two start-up IPIs; a processor that already runs ignores the second. *)
StartupIpi ==
    /\ phase = "sipi" /\ sipis < 2
    /\ sipis' = sipis + 1
    /\ \/ /\ pc' = IF Id \in APs /\ pc[Id] = "wait" THEN [pc EXCEPT ![Id] = "trampoline"] ELSE pc
          /\ UNCHANGED lost
       \/ /\ lost < MaxLost /\ lost' = lost + 1
          /\ UNCHANGED pc
    /\ UNCHANGED <<madt, item, curr_length, cpu, phase, next, kstack, stacks, info, rsp, panic>>

(* "do not init the next CPU until it is safe" *)
AwaitMagic ==
    /\ phase = "sipi" /\ sipis = 2 /\ info.magic
    /\ phase' = "smp_start" /\ next' = next + 1 /\ sipis' = 0
    /\ UNCHANGED <<madt, item, curr_length, cpu, kstack, stacks, lost, info, pc, rsp, panic>>

SmpDone == phase = "smp_start" /\ next > Len(cpu) /\ Goto("done")

-----------------------------------------------------------------------------
(* A processor that is started: smp_boot.asm and init_smp *)

At(c, label)  == c \in APs /\ pc[c] = label
Move(c, label) == pc' = [pc EXCEPT ![c] = label]

(* smp_64bit_init loads the stack from the struct. *)
smp_64bit_init(c) ==
    /\ At(c, "trampoline") /\ Move(c, "init_smp")
    /\ rsp' = [rsp EXCEPT ![c] = info.kstack]
    /\ UNCHANGED <<madt, bspVars, lost, info, panic>>

(* smp_apic_init, lidt, sti, smp_init_timer: from here on the timer ticks. *)
smp_init_timer(c) ==
    /\ At(c, "init_smp") /\ Move(c, "timer")
    /\ UNCHANGED <<madt, bspVars, lost, info, rsp, panic>>

write_magic_smp_info(c) ==
    /\ At(c, "timer") /\ Move(c, "gdt")
    /\ info' = [info EXCEPT !.magic = TRUE]
    /\ UNCHANGED <<madt, bspVars, lost, rsp, panic>>

(* alloc_per_cpu_gdt, then hlt until the timer.  It finds the processor: the  *)
(* IPI that started it was sent to an id of the table.                        *)
alloc_per_cpu_gdt(c) ==
    /\ At(c, "gdt") /\ Move(c, "hlt")
    /\ UNCHANGED <<madt, bspVars, lost, info, rsp, panic>>

(* The tick of a processor without a current thread: the scheduler saves      *)
(* nothing and switches to the idle thread; init_smp is never resumed.  rsp   *)
(* stays the stack the processor booted on: from here it runs on the stack of *)
(* the idle thread, which all processors share.                               *)
ApTick(c) ==
    /\ \/ At(c, "timer") /\ Move(c, "preempted")
       \/ \E label \in {"gdt", "hlt"} : At(c, label) /\ Move(c, "scheduled")
    /\ UNCHANGED <<madt, bspVars, lost, info, rsp, panic>>

-----------------------------------------------------------------------------
BspStep == \/ parse_madt \/ ParseDone \/ apic_calibrate_timer \/ kthread_setup \/ CreateIdleThread
           \/ InitCPUByID \/ InitPanics \/ SkipSelf \/ StartupIpi \/ AwaitMagic \/ SmpDone

ApStep(c) == smp_64bit_init(c) \/ smp_init_timer(c) \/ write_magic_smp_info(c) \/ alloc_per_cpu_gdt(c)

Running == panic = "none"

Next == /\ Running
        /\ \/ BspStep \/ BspTick
           \/ \E c \in APs : ApStep(c) \/ ApTick(c)

(* A processor executes its instructions. *)
Spec == /\ Init /\ [][Next]_vars
        /\ WF_vars(Running /\ BspStep)
        /\ \A c \in UNION {{x.apic : x \in {t.items[i] : i \in {j \in DOMAIN t.items : IsLapic(t.items[j])}}} : t \in Tables} :
               WF_vars(Running /\ ApStep(c))

-----------------------------------------------------------------------------
(* Properties *)

(* The walk ends: no item has length 0, and what is read behind the table is  *)
(* at least as long as the table's first item, whose length is never added.   *)
WalkEnds == /\ \A i \in DOMAIN madt.items : madt.items[i].len > 0
            /\ madt.items # <<>> => madt.behind.len >= madt.items[1].len

Listed  == {i \in DOMAIN madt.items : Registered(madt.items[i])}
Rank(i) == Cardinality({j \in Listed : j <= i})

(* Although parse_madt adds the length of the item after the one it has read, *)
(* the table it builds has every processor of the MADT once, in order, and    *)
(* nothing that lies behind the table, whenever the lengths found there end   *)
(* the walk.                                                                  *)
CpuTableExact ==
    phase # "parse" /\ WalkEnds =>
        /\ Len(cpu) = Cardinality(Listed)
        /\ \A i \in Listed : cpu[Rank(i)] = madt.items[i].acpi

(* No two processors boot on one stack, and each boots on the one that is     *)
(* stored in its CPU structure: the SMP_INFO_STRUCT they all read it from is  *)
(* not written for the next one before this one has taken its stack.          *)
StacksPrivate ==
    \A c \in APs : rsp[c] # NULL =>
        /\ \A d \in APs \ {c} : rsp[d] # rsp[c]
        /\ \E i \in DOMAIN kstack : kstack[i].id = c /\ kstack[i].stack = rsp[c]

(* Why the boot may stop, short of a panic: a tick before the magic number    *)
(* was written took the processor away, a processor of the table is not       *)
(* there, or the walk over the MADT does not end.                             *)
BootBlocked ==
    \/ ~ WalkEnds
    \/ \E c \in APs : pc[c] = "preempted"
    \/ \E i \in DOMAIN cpu : cpu[i] \notin CPUs

(* Otherwise smp_start ends with every processor of the table started, even   *)
(* when one start-up IPI is lost.                                             *)
BootFinishes ==
    <>(\/ phase = "done" /\ \A c \in APs : HasEntry(c) => rsp[c] # NULL
       \/ panic # "none" \/ BootBlocked)
=============================================================================
