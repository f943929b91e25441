---------------------------- MODULE SmpBootProofs ----------------------------
(* The table of processors is that of the MADT, and every processor starts on *)
(* a stack of its own, for any MADT the firmware may provide and any number   *)
(* of lost start-up IPIs.                                                     *)
EXTENDS SmpBoot, SequenceTheorems, FiniteSetTheorems, NaturalsInduction, WellFoundedInduction, TLAPS

Labels == {"bsp", "halted", "wait", "trampoline", "init_smp", "timer", "gdt", "hlt", "preempted", "scheduled"}

BootTypes ==
    /\ madt \in Tables
    /\ cpu \in Seq(Nat) /\ next \in Nat \ {0}
    /\ kstack \in Seq([id : Nat, stack : Nat])
    /\ info \in [kstack : Nat \cup {NULL}, magic : BOOLEAN]
    /\ pc \in [CPUs -> Labels]
    /\ rsp \in [CPUs -> Nat \cup {NULL}]

(* A stack is numbered in the order of allocation, and a processor that has   *)
(* one has the one that was allocated for it.                                 *)
StacksNumbered == stacks = Len(kstack) /\ \A i \in DOMAIN kstack : kstack[i].stack = i

OwnStack == \A c \in APs : rsp[c] # NULL => rsp[c] \in DOMAIN kstack /\ kstack[rsp[c]].id = c

(* While smp_start waits, the struct is made out to the processor it waits    *)
(* for.                                                                       *)
InfoForCurrent ==
    phase = "sipi" => /\ next \in DOMAIN cpu
                      /\ stacks > 0 /\ info.kstack = stacks /\ kstack[stacks].id = Id

(* On the way from the INIT IPI to the magic number there is no processor but *)
(* that one, and the number is not there yet.                                 *)
Early(c) == pc[c] \in {"wait", "trampoline", "init_smp", "timer"}

OneStarts == \A c \in APs : Early(c) => phase = "sipi" /\ c = Id /\ ~ info.magic

BootInv == BootTypes /\ StacksNumbered /\ OwnStack /\ InfoForCurrent /\ OneStarts

LEMMA InitBoot == Init => BootInv
<1> SUFFICES ASSUME Init PROVE BootInv
  OBVIOUS
<1>1. BootTypes
  <2>1. cpu \in Seq(Nat) /\ kstack \in Seq([id : Nat, stack : Nat])
    BY DEF Init
  <2>2. pc \in [CPUs -> Labels] /\ rsp \in [CPUs -> Nat \cup {NULL}]
    BY DEF Init, Labels
  <2> QED BY <2>1, <2>2 DEF Init, BootTypes
<1>2. StacksNumbered
  BY DEF Init, StacksNumbered
<1>3. \A c \in APs : rsp[c] = NULL /\ ~ Early(c)
  BY DEF Init, APs, Early
<1> QED BY <1>1, <1>2, <1>3 DEF Init, BootInv, OwnStack, InfoForCurrent, OneStarts

(* Steps that leave stacks, struct and processors alone. *)
LEMMA Untouched ==
    ASSUME BootInv, UNCHANGED <<madt, cpu, kstack, stacks, info, pc, rsp>>,
           next' \in Nat \ {0},
           \/ UNCHANGED <<phase, next>>
           \/ /\ phase' # "sipi"
              /\ \A c \in APs : ~ Early(c)
    PROVE  BootInv'
<1>1. CPUs' = CPUs /\ APs' = APs
  BY DEF CPUs, APs, IsLapic
<1>2. BootTypes'
  BY <1>1 DEF BootInv, BootTypes
<1>3. StacksNumbered' /\ OwnStack'
  BY <1>1 DEF BootInv, StacksNumbered, OwnStack
<1>4. InfoForCurrent' /\ OneStarts'
  BY <1>1 DEF BootInv, InfoForCurrent, OneStarts, Id, Early
<1> QED BY <1>2, <1>3, <1>4 DEF BootInv

LEMMA NobodyEarly == BootInv /\ phase # "sipi" => \A c \in APs : ~ Early(c)
BY DEF BootInv, OneStarts

LEMMA ParseKeeps == BootInv /\ parse_madt => BootInv'
<1> SUFFICES ASSUME BootInv, parse_madt PROVE BootInv'
  OBVIOUS
<1>1. CPUs' = CPUs /\ APs' = APs
  BY DEF parse_madt, CPUs, APs, IsLapic
<1>2. phase = "parse" /\ UNCHANGED <<madt, phase, next, kstack, stacks, info, pc, rsp>>
  BY DEF parse_madt
<1>3. cpu' \in Seq(Nat)
  <2>1. madt.items \in Seq(Items) /\ madt.behind \in Items
    BY TablesAssumption DEF BootInv, BootTypes
  <2>2. ItemAt(item) \in Items
    BY <2>1 DEF ItemAt
  <2>3. ItemAt(item).acpi \in Nat
    BY <2>2 DEF Items
  <2> QED BY <2>3 DEF parse_madt, BootInv, BootTypes
<1>4. BootTypes'
  BY <1>1, <1>2, <1>3 DEF BootInv, BootTypes
<1>5. StacksNumbered' /\ OwnStack' /\ InfoForCurrent'
  BY <1>1, <1>2 DEF BootInv, StacksNumbered, OwnStack, InfoForCurrent
<1>6. OneStarts'
  BY <1>1, <1>2, NobodyEarly DEF OneStarts, Early
<1> QED BY <1>4, <1>5, <1>6 DEF BootInv

(* The next processor is prepared when no other is on its way. *)
LEMMA InitKeeps == BootInv /\ InitCPUByID => BootInv'
<1> SUFFICES ASSUME BootInv, InitCPUByID PROVE BootInv'
  OBVIOUS
<1>1. CPUs' = CPUs /\ APs' = APs /\ Id' = Id /\ APs \subseteq CPUs
  BY DEF InitCPUByID, CPUs, APs, IsLapic, Id
<1>2. /\ phase = "smp_start" /\ phase' = "sipi" /\ next <= Len(cpu)
      /\ UNCHANGED <<madt, cpu, next, rsp>>
      /\ stacks' = stacks + 1
      /\ kstack' = Append(kstack, [id |-> Id, stack |-> stacks + 1])
      /\ info' = [kstack |-> stacks + 1, magic |-> FALSE]
      /\ pc' = IF Id \in APs THEN [pc EXCEPT ![Id] = "wait"] ELSE pc
  BY DEF InitCPUByID
<1>3. next \in DOMAIN cpu /\ Id \in Nat
  BY <1>2 DEF BootInv, BootTypes, Id
<1>4. kstack \in Seq([id : Nat, stack : Nat]) /\ stacks = Len(kstack) /\ stacks \in Nat
  BY DEF BootInv, BootTypes, StacksNumbered
<1>5. PICK e \in [id : Nat, stack : Nat] : e = [id |-> Id, stack |-> stacks + 1]
  <2>1. stacks + 1 \in Nat
    BY <1>4
  <2>2. [id |-> Id, stack |-> stacks + 1] \in [id : Nat, stack : Nat]
    BY <1>3, <2>1
  <2> QED BY <2>2
<1>6. /\ kstack' \in Seq([id : Nat, stack : Nat]) /\ Len(kstack') = stacks + 1
      /\ \A i \in 1 .. stacks : kstack'[i] = kstack[i]
      /\ kstack'[stacks + 1] = e
  BY <1>2, <1>4, <1>5, AppendProperties
<1>7. DOMAIN kstack = 1 .. stacks /\ DOMAIN kstack' = 1 .. stacks + 1
  BY <1>4, <1>6
<1>8. BootTypes'
  <2>1. pc' \in [CPUs -> Labels]
    BY <1>1, <1>2 DEF BootInv, BootTypes, Labels
  <2>2. info' \in [kstack : Nat \cup {NULL}, magic : BOOLEAN]
    BY <1>2, <1>4
  <2> QED BY <1>1, <1>2, <1>6, <2>1, <2>2 DEF BootInv, BootTypes
<1>9. StacksNumbered'
  BY <1>2, <1>4, <1>5, <1>6, <1>7 DEF BootInv, StacksNumbered
<1>10. OwnStack'
  BY <1>1, <1>2, <1>4, <1>6, <1>7 DEF BootInv, OwnStack
<1>11. InfoForCurrent'
  BY <1>1, <1>2, <1>3, <1>4, <1>5, <1>6 DEF InfoForCurrent
<1>12. OneStarts'
  <2>1. \A c \in APs : ~ Early(c)
    BY <1>2, NobodyEarly
  <2>2. \A c \in APs : Early(c)' => c = Id
    BY <1>1, <1>2, <2>1 DEF Early, BootInv, BootTypes
  <2> QED BY <1>1, <1>2, <2>2 DEF OneStarts
<1> QED BY <1>8, <1>9, <1>10, <1>11, <1>12 DEF BootInv

(* Steps that move one processor. *)
LEMMA MoveKeeps ==
    ASSUME BootInv, NEW c \in APs, NEW label \in Labels, Move(c, label),
           UNCHANGED <<madt, cpu, next, phase, kstack, stacks, rsp>>,
           info' = info \/ (info' = [info EXCEPT !.magic = TRUE] /\ Early(c) /\ label = "gdt"),
           label \in {"wait", "trampoline", "init_smp", "timer"} => Early(c)
    PROVE  BootInv'
<1>1. CPUs' = CPUs /\ APs' = APs /\ Id' = Id /\ APs \subseteq CPUs
  BY DEF CPUs, APs, IsLapic, Id
<1>2. pc' = [pc EXCEPT ![c] = label] /\ pc \in [CPUs -> Labels] /\ c \in CPUs
  BY <1>1 DEF Move, BootInv, BootTypes
<1>3. info' \in [kstack : Nat \cup {NULL}, magic : BOOLEAN] /\ info'.kstack = info.kstack
  BY DEF BootInv, BootTypes
<1>4. BootTypes'
  BY <1>1, <1>2, <1>3 DEF BootInv, BootTypes
<1>5. StacksNumbered' /\ OwnStack' /\ InfoForCurrent'
  BY <1>1, <1>3 DEF BootInv, StacksNumbered, OwnStack, InfoForCurrent
<1>6. OneStarts'
  <2>1. \A d \in APs : Early(d)' => Early(d) /\ (d = c => label # "gdt")
    BY <1>1, <1>2 DEF Early
  <2>2. \A d \in APs : Early(d)' => info' = info
    BY <2>1 DEF BootInv, OneStarts
  <2> QED BY <1>1, <2>1, <2>2 DEF BootInv, OneStarts
<1> QED BY <1>4, <1>5, <1>6 DEF BootInv

(* The processor takes the stack from the struct, which is made out to it. *)
LEMMA TakeKeeps ==
    ASSUME BootInv, NEW c \in APs, smp_64bit_init(c)
    PROVE  BootInv'
<1>1. CPUs' = CPUs /\ APs' = APs /\ Id' = Id /\ APs \subseteq CPUs
  BY DEF smp_64bit_init, bspVars, CPUs, APs, IsLapic, Id
<1>2. /\ pc[c] = "trampoline" /\ pc' = [pc EXCEPT ![c] = "init_smp"]
      /\ rsp' = [rsp EXCEPT ![c] = info.kstack]
      /\ UNCHANGED <<madt, cpu, next, phase, kstack, stacks, info>>
  BY DEF smp_64bit_init, At, Move, bspVars
<1>3. Early(c)
  BY <1>2 DEF Early
<1>4. phase = "sipi" /\ c = Id /\ ~ info.magic
  BY <1>3 DEF BootInv, OneStarts
<1>5. info.kstack = stacks /\ stacks \in DOMAIN kstack /\ stacks \in Nat /\ kstack[stacks].id = c
  BY <1>4 DEF BootInv, BootTypes, InfoForCurrent, StacksNumbered
<1>6. BootTypes'
  BY <1>1, <1>2, <1>5 DEF BootInv, BootTypes, Labels
<1>7. rsp'[c] = stacks /\ \A d \in APs \ {c} : rsp'[d] = rsp[d]
  BY <1>1, <1>2, <1>5 DEF BootInv, BootTypes
<1>8. OwnStack'
  BY <1>1, <1>2, <1>5, <1>7 DEF BootInv, OwnStack
<1>9. StacksNumbered' /\ InfoForCurrent'
  BY <1>1, <1>2 DEF BootInv, StacksNumbered, InfoForCurrent
<1>10. \A d \in APs : Early(d)' => Early(d)
  BY <1>1, <1>2, <1>3 DEF Early, BootInv, BootTypes
<1>11. OneStarts'
  BY <1>1, <1>2, <1>10 DEF BootInv, OneStarts
<1> QED BY <1>6, <1>8, <1>9, <1>11 DEF BootInv

LEMMA NextBoot == BootInv /\ [Next]_vars => BootInv'
<1> SUFFICES ASSUME BootInv, [Next]_vars PROVE BootInv'
  OBVIOUS
<1>0. next \in Nat \ {0} /\ next + 1 \in Nat \ {0}
  BY DEF BootInv, BootTypes
<1>1. CASE UNCHANGED vars \/ InitPanics \/ BspTick
  BY <1>0, <1>1, Untouched DEF vars, bspVars, InitPanics, BspTick
<1>2. CASE ParseDone \/ apic_calibrate_timer \/ kthread_setup \/ CreateIdleThread \/ SmpDone \/ SkipSelf
  <2>1. phase # "sipi" /\ phase' # "sipi" /\ UNCHANGED <<madt, cpu, kstack, stacks, info, pc, rsp>>
    BY <1>2 DEF ParseDone, apic_calibrate_timer, kthread_setup, CreateIdleThread, SmpDone, SkipSelf, Goto
  <2>2. next' \in Nat \ {0}
    BY <1>0, <1>2 DEF ParseDone, apic_calibrate_timer, kthread_setup, CreateIdleThread, SmpDone, SkipSelf, Goto
  <2> QED BY <2>1, <2>2, NobodyEarly, Untouched
<1>3. CASE StartupIpi
  <2>1. phase = "sipi" /\ UNCHANGED <<madt, cpu, phase, next, kstack, stacks, info, rsp>>
    BY <1>3 DEF StartupIpi
  <2>2. CASE pc' = pc
    BY <1>0, <2>1, <2>2, Untouched
  <2>3. CASE pc' # pc
    <3>1. PICK c \in APs : c = Id /\ pc[c] = "wait" /\ pc' = [pc EXCEPT ![c] = "trampoline"]
      BY <1>3, <2>3 DEF StartupIpi
    <3>2. Early(c) /\ Move(c, "trampoline") /\ "trampoline" \in Labels
      BY <3>1 DEF Early, Move, Labels
    <3> QED BY <2>1, <3>2, MoveKeeps
  <2> QED BY <2>2, <2>3
<1>4. CASE AwaitMagic
  <2>1. /\ phase' # "sipi" /\ next' = next + 1 /\ info.magic
        /\ UNCHANGED <<madt, cpu, kstack, stacks, info, pc, rsp>>
    BY <1>4 DEF AwaitMagic
  <2>2. \A c \in APs : ~ Early(c)
    BY <2>1 DEF BootInv, OneStarts
  <2> QED BY <1>0, <2>1, <2>2, Untouched
<1>5. ASSUME NEW c \in APs, ApStep(c) \/ ApTick(c) PROVE BootInv'
  <2>1. CASE smp_64bit_init(c)
    BY <2>1, TakeKeeps
  <2>2. CASE smp_init_timer(c)
    <3>1. Early(c) /\ Move(c, "timer") /\ "timer" \in Labels
      BY <2>2 DEF smp_init_timer, At, Early, Labels
    <3> QED BY <2>2, <3>1, MoveKeeps DEF smp_init_timer, bspVars
  <2>3. CASE write_magic_smp_info(c)
    <3>1. Early(c) /\ Move(c, "gdt") /\ "gdt" \in Labels
      BY <2>3 DEF write_magic_smp_info, At, Early, Labels
    <3> QED BY <2>3, <3>1, MoveKeeps DEF write_magic_smp_info, bspVars
  <2>4. CASE alloc_per_cpu_gdt(c) \/ ApTick(c)
    <3>1. \E label \in {"hlt", "preempted", "scheduled"} : Move(c, label)
      BY <2>4 DEF alloc_per_cpu_gdt, ApTick
    <3>2. PICK label \in Labels : Move(c, label) /\ label \in {"hlt", "preempted", "scheduled"}
      BY <3>1 DEF Labels
    <3>3. UNCHANGED <<madt, cpu, next, phase, kstack, stacks, rsp, info>>
      BY <2>4 DEF alloc_per_cpu_gdt, ApTick, bspVars
    <3> QED BY <3>2, <3>3, MoveKeeps
  <2> QED BY <1>5, <2>1, <2>2, <2>3, <2>4 DEF ApStep
<1> QED BY <1>1, <1>2, <1>3, <1>4, <1>5, ParseKeeps, InitKeeps DEF Next, BspStep

(* smp_start gives the SMP_INFO_STRUCT to the next processor only after the   *)
(* one before has its stack, so no two processors boot on one stack and each  *)
(* has the one recorded for it; no fairness is needed.                        *)
THEOREM BootStacksPrivate == Spec => []StacksPrivate
<1>1. BootInv => StacksPrivate
  <2> SUFFICES ASSUME BootInv, NEW c \in APs, rsp[c] # NULL
               PROVE  /\ \A d \in APs \ {c} : rsp[d] # rsp[c]
                      /\ \E i \in DOMAIN kstack : kstack[i].id = c /\ kstack[i].stack = rsp[c]
    BY DEF StacksPrivate
  <2>1. rsp[c] \in DOMAIN kstack /\ kstack[rsp[c]].id = c /\ kstack[rsp[c]].stack = rsp[c]
    BY DEF BootInv, OwnStack, StacksNumbered
  <2> QED BY <2>1 DEF BootInv, OwnStack
<1> QED BY <1>1, InitBoot, NextBoot, PTL DEF Spec

-----------------------------------------------------------------------------
(* The walk over the MADT *)

LEMMA LessThan == \E R : IsWellFoundedOn(R, Nat) /\ \A x, y \in Nat : y < x => <<y, x>> \in R
<1>1. IsWellFoundedOn(OpToRel(<, Nat), Nat)
  BY NatLessThanWellFounded
<1>2. \A x, y \in Nat : y < x => <<y, x>> \in OpToRel(<, Nat)
  BY Zenon DEF OpToRel
<1> WITNESS OpToRel(<, Nat)
<1> QED BY <1>1, <1>2

LEMMA Least == ASSUME NEW T \in SUBSET Nat, T # {} PROVE \E x \in T : \A y \in T : x <= y
<1>1. PICK R : IsWellFoundedOn(R, Nat) /\ \A x, y \in Nat : y < x => <<y, x>> \in R
  BY LessThan
<1>2. PICK x \in T : \A y \in T : ~ (<<y, x>> \in R)
  BY <1>1, WFMin
<1>3. \A y \in T : ~ (y < x)
  BY <1>1, <1>2, Zenon
<1> QED BY <1>3

(* What holds of 0 and of a number whenever it holds of the one before. *)
LEMMA Count ==
    ASSUME NEW n \in Nat, NEW S, 0 \in S, \A i \in 1 .. n : i - 1 \in S => i \in S
    PROVE  n \in S
<1> DEFINE T == {i \in 0 .. n : i \notin S}
<1> SUFFICES ASSUME T # {} PROVE FALSE
  OBVIOUS
<1>1. T \in SUBSET Nat
  OBVIOUS
<1>2. PICK i \in T : \A y \in T : i <= y
  BY <1>1, Least
<1>3. i \in 1 .. n /\ i - 1 \in 0 .. n /\ ~ (i <= i - 1)
  BY <1>2
<1>4. i - 1 \in S
  BY <1>2, <1>3
<1> QED BY <1>2, <1>3, <1>4

Sums(f, items) == f = [k \in 0 .. Len(items) |-> IF k = 0 THEN 0 ELSE f[k - 1] + items[k].len]

LEMMA SumsExist == ASSUME NEW items, Len(items) \in Nat PROVE \E f : Sums(f, items)
<1> DEFINE Upto(f, k) == f = [i \in 0 .. k |-> IF i = 0 THEN 0 ELSE f[i - 1] + items[i].len]
           S == {k \in 0 .. Len(items) : \E f : Upto(f, k)}
<1>1. 0 \in S
  <2>1. PICK f : f = [i \in 0 .. 0 |-> 0]
    OBVIOUS
  <2>2. f = [i \in 0 .. 0 |-> IF i = 0 THEN 0 ELSE f[i - 1] + items[i].len]
    BY <2>1
  <2> QED BY <2>2
<1>2. ASSUME NEW k \in 1 .. Len(items), k - 1 \in S PROVE k \in S
  <2>1. PICK f : Upto(f, k - 1)
    BY <1>2
  <2>2. PICK h : h = [i \in 0 .. k |-> IF i = k THEN f[k - 1] + items[k].len ELSE f[i]]
    OBVIOUS
  <2>3. k # 0 /\ k - 1 \in 0 .. k /\ k - 1 # k /\ k \in 0 .. Len(items)
    OBVIOUS
  <2>4. ASSUME NEW i \in 0 .. k PROVE h[i] = IF i = 0 THEN 0 ELSE h[i - 1] + items[i].len
    <3>1. CASE i = k
      <4>1. h[k - 1] = f[k - 1] /\ h[k] = f[k - 1] + items[k].len
        BY <2>2, <2>3
      <4> QED BY <2>3, <3>1, <4>1
    <3>2. CASE i # k
      <4>1. i \in 0 .. k - 1 /\ h[i] = f[i]
        BY <2>2, <3>2
      <4>2. ASSUME i # 0 PROVE h[i - 1] = f[i - 1]
        <5>1. i - 1 \in 0 .. k /\ i - 1 # k
          BY <4>1, <4>2
        <5> QED BY <2>2, <5>1
      <4>3. f[i] = IF i = 0 THEN 0 ELSE f[i - 1] + items[i].len
        BY <2>1, <4>1
      <4> QED BY <4>1, <4>2, <4>3
    <3> QED BY <3>1, <3>2
  <2>5. h = [i \in 0 .. k |-> IF i = 0 THEN 0 ELSE h[i - 1] + items[i].len]
    BY <2>2, <2>4, Zenon
  <2> QED BY <2>3, <2>5
<1>3. Len(items) \in S
  <2> HIDE DEF S
  <2> QED BY <1>1, <1>2, Count
<1>4. PICK f : Upto(f, Len(items))
  BY <1>3
<1> QED BY <1>4 DEF Sums

(* The sum of the lengths up to an item: not more than that of the table. *)
LEMMA SumIs ==
    ASSUME madt.items \in Seq(Items)
    PROVE  /\ \A k \in 0 .. Len(madt.items) : SumTo[k] \in Nat
           /\ SumTo[0] = 0
           /\ \A k \in 1 .. Len(madt.items) : SumTo[k] = SumTo[k - 1] + madt.items[k].len
           /\ \A k \in 0 .. Len(madt.items) : SumTo[k] <= total_length
<1>1. Len(madt.items) \in Nat /\ \A k \in 1 .. Len(madt.items) : madt.items[k].len \in Nat
  <2>1. Len(madt.items) \in Nat /\ \A k \in 1 .. Len(madt.items) : madt.items[k] \in Items
    OBVIOUS
  <2>2. \A x \in Items : x.len \in Nat
    BY DEF Items
  <2> QED BY <2>1, <2>2, Zenon
<1>2. PICK n \in Nat : n = Len(madt.items)
  BY <1>1
<1>3. \E f : f = [k \in 0 .. Len(madt.items) |-> IF k = 0 THEN 0 ELSE f[k - 1] + madt.items[k].len]
  <2>1. PICK items : items = madt.items
    OBVIOUS
  <2>2. PICK f : Sums(f, items)
    BY <1>1, <2>1, SumsExist
  <2>3. f = [k \in 0 .. Len(madt.items) |-> IF k = 0 THEN 0 ELSE f[k - 1] + madt.items[k].len]
    BY <2>1, <2>2, Zenon DEF Sums
  <2> QED BY <2>3, Zenon
<1>4. SumTo = [k \in 0 .. Len(madt.items) |-> IF k = 0 THEN 0 ELSE SumTo[k - 1] + madt.items[k].len]
  BY <1>3 DEF SumTo
<1>5. SumTo[0] = 0 /\ \A k \in 1 .. n : SumTo[k] = SumTo[k - 1] + madt.items[k].len
  <2>1. PICK f : f = SumTo
    OBVIOUS
  <2>2. PICK its : its = madt.items
    OBVIOUS
  <2>3. f = [k \in 0 .. n |-> IF k = 0 THEN 0 ELSE f[k - 1] + its[k].len]
    BY <1>2, <1>4, <2>1, <2>2
  <2>4. f[0] = 0
    BY <2>3
  <2>5. ASSUME NEW k \in 1 .. n PROVE f[k] = f[k - 1] + its[k].len
    <3>1. k \in 0 .. n /\ k # 0
      OBVIOUS
    <3> QED BY <2>3, <3>1
  <2> QED BY <2>1, <2>2, <2>4, <2>5
<1>6. ASSUME NEW m \in 0 .. n PROVE SumTo[m] \in Nat
  <2> DEFINE S == {k \in 0 .. n : SumTo[k] \in Nat}
  <2>1. 0 \in S
    BY <1>5
  <2>2. ASSUME NEW k \in 1 .. n, k - 1 \in S PROVE k \in S
    <3>1. SumTo[k] = SumTo[k - 1] + madt.items[k].len /\ madt.items[k].len \in Nat
      BY <1>1, <1>2, <1>5
    <3>2. SumTo[k - 1] \in Nat
      BY <2>2
    <3> QED BY <3>1, <3>2
  <2>3. m \in Nat /\ \A k \in 1 .. m : k - 1 \in S => k \in S
    BY <2>2
  <2>4. m \in S
    <3> HIDE DEF S
    <3> QED BY <2>1, <2>3, Count
  <2> QED BY <2>4
<1>7. ASSUME NEW m \in 0 .. n PROVE SumTo[m] <= SumTo[n]
  <2> DEFINE S == {k \in 0 .. n : m <= k => SumTo[m] <= SumTo[k]}
  <2>1. 0 \in S
    BY <1>5, <1>6
  <2>2. ASSUME NEW k \in 1 .. n, k - 1 \in S PROVE k \in S
    <3>1. SumTo[k] = SumTo[k - 1] + madt.items[k].len /\ madt.items[k].len \in Nat
      BY <1>1, <1>2, <1>5
    <3>2. SumTo[k] \in Nat /\ SumTo[k - 1] \in Nat /\ SumTo[m] \in Nat
      BY <1>6
    <3>3. CASE m <= k - 1
      BY <2>2, <3>1, <3>2, <3>3
    <3>4. CASE ~ (m <= k - 1)
      <4>1. m <= k => m = k
        BY <3>4
      <4> QED BY <3>2, <4>1
    <3> QED BY <3>3, <3>4
  <2>3. n \in S
    <3> HIDE DEF S
    <3> QED BY <2>1, <2>2, Count
  <2> QED BY <2>3
<1> QED BY <1>2, <1>5, <1>6, <1>7 DEF total_length

-----------------------------------------------------------------------------
(* What parse_madt has done before it reads item k: the processors found so   *)
(* far are in the table at their ranks, and the lengths added are those of    *)
(* the items after the first.                                                 *)
Before(k) == {j \in Listed : j < k}

Built(k) == /\ Len(cpu) = Cardinality(Before(k))
            /\ \A i \in Before(k) : cpu[Rank(i)] = madt.items[i].acpi

Length(k) == IF k \in DOMAIN madt.items THEN SumTo[k] ELSE total_length + madt.behind.len

ParseInv ==
    WalkEnds =>
        /\ item \in 1 .. Len(madt.items) + 1
        /\ Built(item)
        /\ phase # "parse" => item = Len(madt.items) + 1
        /\ IF madt.items = <<>> THEN curr_length = 0 ELSE curr_length = Length(item) - madt.items[1].len

LEMMA RankIs ==
    ASSUME madt.items \in Seq(Items)
    PROVE  /\ \A k \in Nat : IsFiniteSet(Before(k)) /\ Cardinality(Before(k)) \in Nat
           /\ \A i \in Listed : Rank(i) = Cardinality(Before(i + 1))
           /\ \A i \in Listed, k \in Nat : i < k => Rank(i) \in 1 .. Cardinality(Before(k))
           /\ \A k \in 1 .. Len(madt.items) :
                 Before(k + 1) = IF k \in Listed THEN Before(k) \cup {k} ELSE Before(k)
<1>0. PICK n \in Nat : n = Len(madt.items)
  OBVIOUS
<1>1. Len(madt.items) \in Nat /\ Listed \subseteq 1 .. Len(madt.items)
  BY DEF Listed
<1>a. \A j \in Listed : j \in Nat \ {0}
  BY <1>0, <1>1
<1>2. IsFiniteSet(Listed)
  <2>1. IsFiniteSet(1 .. Len(madt.items))
    BY <1>1, FS_Interval
  <2> QED BY <1>1, <2>1, FS_Subset
<1>3. ASSUME NEW k \in Nat PROVE IsFiniteSet(Before(k)) /\ Cardinality(Before(k)) \in Nat
  <2>1. Before(k) \subseteq Listed
    BY DEF Before
  <2>2. IsFiniteSet(Before(k))
    BY <1>2, <2>1, FS_Subset
  <2> QED BY <2>2, FS_CardinalityType
<1>4. ASSUME NEW i \in Listed PROVE Rank(i) = Cardinality(Before(i + 1))
  <2>1. {j \in Listed : j <= i} = Before(i + 1)
    BY <1>a DEF Before
  <2> QED BY <2>1 DEF Rank
<1>5. ASSUME NEW i \in Listed, NEW k \in Nat, i < k PROVE Rank(i) \in 1 .. Cardinality(Before(k))
  <2>1. i \in Nat /\ i + 1 \in Nat
    BY <1>1
  <2>2. i \in Before(i + 1) /\ Before(i + 1) \subseteq Before(k)
    <3>1. i < i + 1 /\ \A j \in Listed : j < i + 1 => j < k
      BY <1>a, <1>5, <2>1
    <3> QED BY <3>1 DEF Before
  <2>3. Cardinality(Before(i + 1)) <= Cardinality(Before(k))
    BY <1>3, <2>2, FS_Subset
  <2>4. Cardinality(Before(i + 1)) # 0
    BY <1>3, <2>1, <2>2, FS_EmptySet
  <2> QED BY <1>3, <1>4, <2>1, <2>3, <2>4
<1>6. ASSUME NEW k \in 1 .. Len(madt.items)
      PROVE  Before(k + 1) = IF k \in Listed THEN Before(k) \cup {k} ELSE Before(k)
  <2>1. k \in Nat
    BY <1>0
  <2>2. \A j \in Listed : j < k + 1 <=> j < k \/ j = k
    BY <1>a, <2>1
  <2> QED BY <2>1, <2>2 DEF Before
<1> QED BY <1>3, <1>4, <1>5, <1>6

LEMMA InitParse == Init => ParseInv
<1> SUFFICES ASSUME Init, WalkEnds
             PROVE  /\ item \in 1 .. Len(madt.items) + 1
                    /\ Built(item)
                    /\ phase # "parse" => item = Len(madt.items) + 1
                    /\ IF madt.items = <<>> THEN curr_length = 0 ELSE curr_length = Length(item) - madt.items[1].len
  BY DEF ParseInv
<1>1. item = 1 /\ curr_length = 0 /\ cpu = <<>> /\ phase = "parse" /\ madt \in Tables
  BY DEF Init
<1>2. madt.items \in Seq(Items)
  BY <1>1, TablesAssumption
<1>3. Before(1) = {}
  BY <1>2 DEF Before, Listed
<1>4. Built(1)
  BY <1>1, <1>3, FS_EmptySet DEF Built
<1>5. ASSUME madt.items # <<>> PROVE Length(1) - madt.items[1].len = 0
  <2>1. 1 \in DOMAIN madt.items /\ 1 \in 1 .. Len(madt.items)
    BY <1>2, <1>5
  <2>2. madt.items[1] \in Items
    BY <1>2, <2>1
  <2>3. SumTo[1] = 0 + madt.items[1].len
    BY <1>2, <2>1, SumIs
  <2> QED BY <2>1, <2>2, <2>3 DEF Length, Items
<1> QED BY <1>1, <1>2, <1>4, <1>5

LEMMA Fixed ==
    ASSUME madt' = madt
    PROVE  /\ SumTo' = SumTo /\ total_length' = total_length /\ Listed' = Listed /\ WalkEnds' = WalkEnds
           /\ \A i : Rank(i)' = Rank(i) /\ Before(i)' = Before(i)
<1>1. SumTo' = SumTo
  BY DEF SumTo
<1>2. total_length' = total_length
  BY <1>1 DEF total_length
<1>3. Listed' = Listed
  BY DEF Listed, Registered, IsLapic
<1>4. \A i : Rank(i)' = Rank(i) /\ Before(i)' = Before(i)
  BY <1>3 DEF Rank, Before
<1> QED BY <1>1, <1>2, <1>3, <1>4 DEF WalkEnds

(* The items of the table, the lengths of which are added one item ahead. *)
LEMMA ItemsAre ==
    ASSUME BootInv, WalkEnds
    PROVE  /\ madt.items \in Seq(Items) /\ madt.behind \in Items /\ madt.behind.len \in Nat
           /\ Len(madt.items) \in Nat /\ DOMAIN madt.items = 1 .. Len(madt.items)
           /\ \A i \in 1 .. Len(madt.items) : madt.items[i] \in Items /\ madt.items[i].len \in Nat \ {0}
           /\ madt.items = <<>> <=> Len(madt.items) = 0
<1>1. madt.items \in Seq(Items) /\ madt.behind \in Items
  BY TablesAssumption DEF BootInv, BootTypes
<1>2. madt.behind.len \in Nat
  BY <1>1 DEF Items
<1>3. ASSUME NEW i \in 1 .. Len(madt.items) PROVE madt.items[i] \in Items /\ madt.items[i].len \in Nat \ {0}
  <2>1. madt.items[i] \in Items /\ i \in DOMAIN madt.items
    BY <1>1
  <2>2. madt.items[i].len \in Nat /\ madt.items[i].len > 0
    BY <2>1 DEF WalkEnds, Items
  <2> QED BY <2>1, <2>2
<1>4. madt.items = <<>> <=> Len(madt.items) = 0
  BY <1>1, EmptySeq
<1> QED BY <1>1, <1>2, <1>3, <1>4

(* A round of parse_madt reads an item of the table, never what is behind it. *)
LEMMA MoreIsInside ==
    ASSUME BootInv, ParseInv, WalkEnds
    PROVE  /\ More => item \in 1 .. Len(madt.items)
           /\ ~ More => item = Len(madt.items) + 1
<1>1. PICK n \in Nat : n = Len(madt.items)
  BY ItemsAre
<1>2. item \in 1 .. n + 1
  BY <1>1 DEF ParseInv
<1>3. SumTo[n] \in Nat /\ total_length = SumTo[n] /\ SumTo[0] = 0
  BY <1>1, ItemsAre, SumIs DEF total_length
<1>4. CASE n = 0
  <2>1. curr_length = 0 /\ total_length = 0
    BY <1>1, <1>3, <1>4, ItemsAre DEF ParseInv
  <2> QED BY <1>1, <1>2, <1>4, <2>1 DEF More
<1>5. CASE n # 0
  <2>1. PICK l \in Nat \ {0} : l = madt.items[1].len
    BY <1>1, <1>5, ItemsAre
  <2>2. curr_length = Length(item) - l
    BY <1>1, <1>5, <2>1, ItemsAre DEF ParseInv
  <2>3. CASE item = n + 1
    <3>1. madt.behind.len \in Nat /\ madt.behind.len >= l
      BY <1>1, <1>5, <2>1, ItemsAre DEF WalkEnds
    <3>2. Length(item) = total_length + madt.behind.len
      BY <1>1, <2>3, ItemsAre DEF Length
    <3>3. ~ More
      BY <1>3, <2>2, <3>1, <3>2 DEF More
    <3> QED BY <1>1, <2>3, <3>3
  <2>4. CASE item # n + 1
    <3>1. item \in 1 .. n /\ item \in 0 .. n
      BY <1>2, <2>4
    <3>2. Length(item) = SumTo[item]
      BY <1>1, <3>1, ItemsAre DEF Length
    <3>3. SumTo[item] \in Nat /\ SumTo[item] <= total_length
      BY <1>1, <3>1, ItemsAre, SumIs
    <3>4. More
      BY <1>3, <2>1, <2>2, <3>2, <3>3 DEF More
    <3> QED BY <1>1, <3>1, <3>4
  <2> QED BY <2>3, <2>4
<1> QED BY <1>4, <1>5

(* The processor of the item goes to its rank. *)
LEMMA TableGrows ==
    ASSUME BootInv, ParseInv, WalkEnds, parse_madt, item \in 1 .. Len(madt.items), NEW k, k = item
    PROVE  Built(k + 1)'
<1>1. madt' = madt /\ madt.items \in Seq(Items) /\ cpu \in Seq(Nat) /\ k \in Nat /\ k + 1 \in Nat
  BY ItemsAre DEF parse_madt, BootInv, BootTypes
<1>2. PICK c \in Nat : c = Cardinality(Before(k)) /\ Len(cpu) = c
  BY <1>1, RankIs DEF ParseInv, Built
<1>3. \A i \in Before(k) : Rank(i) \in 1 .. c /\ cpu[Rank(i)] = madt.items[i].acpi
  BY <1>1, <1>2, RankIs DEF ParseInv, Built, Before
<1>4. k \in DOMAIN madt.items /\ ItemAt(k) = madt.items[k] /\ (k \in Listed <=> Registered(ItemAt(k)))
  BY ItemsAre DEF ItemAt, Listed
<1>5. ItemAt(k).acpi \in Nat
  BY <1>4, ItemsAre DEF Items
<1>6. CASE k \in Listed
  <2>1. Before(k + 1) = Before(k) \cup {k}
    BY <1>1, <1>6, RankIs
  <2>2. k \notin Before(k) /\ IsFiniteSet(Before(k))
    BY <1>1, RankIs DEF Before
  <2>3. Cardinality(Before(k + 1)) = c + 1
    BY <1>2, <2>1, <2>2, FS_AddElement
  <2>4. Rank(k) = c + 1
    BY <1>1, <1>6, <2>3, RankIs
  <2>5. cpu' = Append(cpu, ItemAt(k).acpi)
    BY <1>4, <1>6 DEF parse_madt
  <2>6. Len(cpu') = c + 1 /\ cpu'[c + 1] = ItemAt(k).acpi /\ \A j \in 1 .. c : cpu'[j] = cpu[j]
    BY <1>1, <1>2, <1>5, <2>5, AppendProperties
  <2>7. \A i \in Before(k + 1) : cpu'[Rank(i)] = madt.items[i].acpi
    BY <1>3, <1>4, <2>1, <2>4, <2>6
  <2> QED BY <1>1, <2>3, <2>6, <2>7, Fixed DEF Built
<1>7. CASE k \notin Listed
  <2>1. Before(k + 1) = Before(k) /\ cpu' = cpu
    BY <1>1, <1>4, <1>7, RankIs DEF parse_madt
  <2> QED BY <1>1, <1>2, <1>3, <2>1, Fixed DEF Built
<1> QED BY <1>6, <1>7

LEMMA RoundKeeps == BootInv /\ ParseInv /\ parse_madt => ParseInv'
<1> SUFFICES ASSUME BootInv, ParseInv, parse_madt, WalkEnds'
             PROVE  (/\ item \in 1 .. Len(madt.items) + 1
                     /\ Built(item)
                     /\ phase # "parse" => item = Len(madt.items) + 1
                     /\ IF madt.items = <<>> THEN curr_length = 0
                        ELSE curr_length = Length(item) - madt.items[1].len)'
  BY DEF ParseInv
<1>1. madt' = madt /\ phase = "parse" /\ phase' = phase /\ WalkEnds /\ More
  BY Fixed DEF parse_madt
<1>2. PICK n \in Nat : n = Len(madt.items)
  BY <1>1, ItemsAre
<1>3. item \in 1 .. n /\ item \in 1 .. Len(madt.items) /\ madt.items # <<>>
  BY <1>1, <1>2, MoreIsInside, ItemsAre
<1>4. PICK k \in 1 .. n : k = item
  BY <1>3
<1>5. ItemAt(k) = madt.items[k] /\ madt.items[k].len \in Nat \ {0}
  BY <1>1, <1>2, ItemsAre DEF ItemAt
<1>6. item' = k + 1
  BY <1>4, <1>5 DEF parse_madt
<1>7. Built(item)'
  BY <1>1, <1>3, <1>4, <1>6, TableGrows DEF Built
<1>8. curr_length' = Length(k + 1) - madt.items[1].len
  <2>1. PICK l \in Nat : l = madt.items[1].len
    BY <1>1, <1>2, <1>3, ItemsAre
  <2>2. curr_length = SumTo[k] - l /\ SumTo[k] \in Nat
    BY <1>1, <1>2, <1>3, <1>4, <2>1, ItemsAre, SumIs DEF ParseInv, Length
  <2>3. curr_length' = curr_length + ItemAt(k + 1).len
    BY <1>1, <1>6 DEF parse_madt, ItemAt
  <2>4. CASE k = n
    <3>1. ~ (k + 1 \in DOMAIN madt.items)
      BY <1>1, <1>2, <2>4, ItemsAre
    <3>2. ItemAt(k + 1) = madt.behind /\ Length(k + 1) = SumTo[k] + madt.behind.len
      BY <1>2, <2>4, <3>1 DEF ItemAt, Length, total_length
    <3>3. madt.behind.len \in Nat
      BY <1>1, ItemsAre
    <3> QED BY <2>1, <2>2, <2>3, <3>2, <3>3
  <2>5. CASE k # n
    <3>1. k + 1 \in 1 .. n /\ k + 1 \in DOMAIN madt.items
      BY <1>1, <1>2, <2>5, ItemsAre
    <3>2. ItemAt(k + 1) = madt.items[k + 1] /\ Length(k + 1) = SumTo[k + 1]
      BY <3>1 DEF ItemAt, Length
    <3>3. SumTo[k + 1] = SumTo[k + 1 - 1] + madt.items[k + 1].len /\ k + 1 - 1 = k
      BY <1>1, <1>2, <3>1, ItemsAre, SumIs
    <3>4. madt.items[k + 1].len \in Nat
      BY <1>1, <1>2, <3>1, ItemsAre
    <3> QED BY <2>1, <2>2, <2>3, <3>2, <3>3, <3>4
  <2> QED BY <2>4, <2>5
<1>9. Length(item)' = Length(k + 1)
  BY <1>1, <1>6, Fixed DEF Length
<1> QED BY <1>1, <1>2, <1>3, <1>6, <1>7, <1>8, <1>9

(* Steps that leave the table and the walk alone. *)
LEMMA WalkOver ==
    ASSUME ParseInv, UNCHANGED <<madt, item, curr_length, cpu>>,
           phase' = "parse" \/ phase # "parse" \/ (WalkEnds => item = Len(madt.items) + 1)
    PROVE  ParseInv'
<1>1. WalkEnds' = WalkEnds /\ Built(item)' = Built(item) /\ Length(item)' = Length(item)
  BY Fixed DEF Built, Length
<1> QED BY <1>1 DEF ParseInv

LEMMA NextParse == BootInv /\ ParseInv /\ [Next]_vars => ParseInv'
<1> SUFFICES ASSUME BootInv, ParseInv, [Next]_vars PROVE ParseInv'
  OBVIOUS
<1>1. CASE UNCHANGED vars \/ InitPanics \/ BspTick
  BY <1>1, WalkOver DEF vars, bspVars, InitPanics, BspTick
<1>2. CASE ParseDone
  BY <1>2, WalkOver, MoreIsInside DEF ParseDone, Goto
<1>3. CASE apic_calibrate_timer \/ kthread_setup \/ CreateIdleThread \/ SmpDone
  BY <1>3, WalkOver DEF apic_calibrate_timer, kthread_setup, CreateIdleThread, SmpDone, Goto
<1>4. CASE InitCPUByID \/ SkipSelf \/ StartupIpi \/ AwaitMagic
  BY <1>4, WalkOver DEF InitCPUByID, SkipSelf, StartupIpi, AwaitMagic
<1>5. ASSUME NEW c \in APs, ApStep(c) \/ ApTick(c) PROVE ParseInv'
  BY <1>5, WalkOver DEF ApStep, ApTick, smp_64bit_init, smp_init_timer, write_magic_smp_info, alloc_per_cpu_gdt, bspVars
<1> QED BY <1>1, <1>2, <1>3, <1>4, <1>5, RoundKeeps DEF Next, BspStep

(* parse_madt stops behind the last item and never reads what is there: the   *)
(* table of processors is that of the MADT, for every MADT the walk over      *)
(* which ends.                                                                *)
THEOREM BootCpuTable == Spec => []CpuTableExact
<1>1. BootInv /\ ParseInv => CpuTableExact
  <2> SUFFICES ASSUME BootInv, ParseInv, phase # "parse", WalkEnds
               PROVE  /\ Len(cpu) = Cardinality(Listed)
                      /\ \A i \in Listed : cpu[Rank(i)] = madt.items[i].acpi
    BY DEF CpuTableExact
  <2>1. PICK n \in Nat : n = Len(madt.items)
    BY ItemsAre
  <2>2. item = n + 1 /\ Built(item)
    BY <2>1 DEF ParseInv
  <2>3. \A i \in Listed : i \in 1 .. n
    BY <2>1, ItemsAre DEF Listed
  <2>4. Before(n + 1) = Listed
    BY <2>3 DEF Before
  <2> QED BY <2>2, <2>4 DEF Built
<1> QED BY <1>1, InitBoot, NextBoot, InitParse, NextParse, PTL DEF Spec
=============================================================================
