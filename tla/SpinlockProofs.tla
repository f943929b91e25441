--------------------------- MODULE SpinlockProofs ---------------------------
(***************************************************************************)
(* Proofs about Spinlock, for any number of CPUs and locks.                *)
(***************************************************************************)
EXTENDS Spinlock, TLAPS, FiniteSetTheorems

(* Points of acquire and release where cli_count counts the lock arg[c]. *)
Counted == {"check", "tas", "own", "rcheck", "unown", "clear", "dec"}

(* cli_count is the number of locks the CPU holds or is busy with. *)
CountInv ==
    \A c \in CPUs :
      /\ IsFiniteSet(held[c])
      /\ pc[c] \in Counted => cli_count[c] = Cardinality(held[c]) + 1
      /\ pc[c] \notin Counted => cli_count[c] = Cardinality(held[c])

(* Interrupts are on only outside critical sections and outside handlers, and *)
(* a handler interrupted nothing but such code.                               *)
IntInv ==
    \A c \in CPUs :
      /\ intFlag[c] => held[c] = {} /\ pc[c] \in {"run", "cli"} /\ frames[c] = <<>>
      /\ frames[c] # <<>> => /\ Len(frames[c]) = 1 /\ noINT[c]
                             /\ frames[c][1].pc \in {"run", "cli"}

(* The lock a call is about is not among those already held. *)
ArgInv == \A c \in CPUs : pc[c] # "run" => arg[c] \notin held[c]

Owns(c, l) == \/ l \in held[c]
              \/ arg[c] = l /\ pc[c] \in {"rcheck", "unown"}

(* The stores of owner_cpu and is_locked follow the critical section. *)
OwnerInv ==
    \A c \in CPUs, l \in Locks :
      /\ InCS(c, l) => is_locked[l]
      /\ owner_cpu[l] = c <=> Owns(c, l)

(* The inductive invariant. *)
IInv == TypeOK /\ CountInv /\ IntInv /\ ArgInv /\ OwnerInv /\ MutualExclusion /\ NoPanic

USE DEF lockVars, intVars, trapVars, ctlVars, Acquiring, Releasing, PCs, Modes, Goto

-----------------------------------------------------------------------------
(* Every initial state satisfies the inductive invariant. *)
LEMMA InitIInv == Init => IInv
<1> SUFFICES ASSUME Init PROVE IInv
  OBVIOUS
<1>1. TypeOK
  BY DEF Init, TypeOK
<1>2. CountInv
  BY FS_EmptySet DEF Init, CountInv, Counted
<1>3. IntInv /\ ArgInv /\ NoPanic
  BY DEF Init, IntInv, ArgInv, NoPanic
<1>4. OwnerInv /\ MutualExclusion
  BY CPUAssumption DEF Init, OwnerInv, MutualExclusion, InCS, Owns
<1> QED
  BY <1>1, <1>2, <1>3, <1>4 DEF IInv

(* Starting a call respects the lock order, so the lock is not held yet. *)
LEMMA AcquireStartIInv ==
  ASSUME IInv, NEW c \in CPUs, NEW l \in Locks, AcquireStart(c, l)
  PROVE  IInv'
<1> USE DEF AcquireStart, IInv
<1>1. TypeOK' BY DEF TypeOK
<1>2. CountInv' BY DEF CountInv, Counted, TypeOK
<1>3. IntInv' BY DEF IntInv, TypeOK
<1>4. l \notin held[c] BY RankAssumption DEF MayAcquire, TypeOK
<1>5. ArgInv' BY <1>4 DEF ArgInv, TypeOK
<1>6. OwnerInv' BY DEF OwnerInv, Owns, InCS, TypeOK
<1>7. MutualExclusion' BY DEF MutualExclusion, InCS, TypeOK
<1>8. NoPanic' BY DEF NoPanic, TypeOK
<1> QED BY <1>1, <1>2, <1>3, <1>5, <1>6, <1>7, <1>8

(* The steps of acquire_Spinlock. *)
LEMMA AcquireStepIInv ==
  ASSUME IInv, NEW c \in CPUs, AcquireStep(c)
  PROVE  IInv'
<1> USE DEF IInv
<1>1. CASE Cli(c)
  <2> USE <1>1 DEF Cli
  <2>1. TypeOK' BY DEF TypeOK
  <2>2. CountInv' BY DEF CountInv, Counted, TypeOK
  <2>3. IntInv' BY DEF IntInv, TypeOK
  <2>4. ArgInv' /\ NoPanic' BY DEF ArgInv, NoPanic, TypeOK
  <2>5. OwnerInv' /\ MutualExclusion' BY DEF OwnerInv, MutualExclusion, Owns, InCS, TypeOK
  <2> QED BY <2>1, <2>2, <2>3, <2>4, <2>5
<1>2. CASE IncCliCount(c)
  <2> USE <1>2 DEF IncCliCount
  <2>1. TypeOK' BY DEF TypeOK
  <2>2. CountInv'
    BY FS_CardinalityType DEF CountInv, Counted, TypeOK
  <2>3. IntInv' BY DEF IntInv, TypeOK
  <2>4. ArgInv' /\ NoPanic' BY DEF ArgInv, NoPanic, TypeOK
  <2>5. OwnerInv' /\ MutualExclusion' BY DEF OwnerInv, MutualExclusion, Owns, InCS, TypeOK
  <2> QED BY <2>1, <2>2, <2>3, <2>4, <2>5
<1>3. CASE AcquireCheck(c)
  <2> USE <1>3 DEF AcquireCheck
  <2>0. ~ spinlock_check_held(c, arg[c])
    BY DEF spinlock_check_held, OwnerInv, Owns, ArgInv, TypeOK
  <2>1. TypeOK' BY <2>0 DEF TypeOK
  <2>2. CountInv' BY <2>0 DEF CountInv, Counted, TypeOK
  <2>3. IntInv' BY <2>0 DEF IntInv, TypeOK
  <2>4. ArgInv' /\ NoPanic' BY <2>0 DEF ArgInv, NoPanic, TypeOK
  <2>5. OwnerInv' /\ MutualExclusion' BY <2>0 DEF OwnerInv, MutualExclusion, Owns, InCS, TypeOK
  <2> QED BY <2>1, <2>2, <2>3, <2>4, <2>5
<1>4. CASE TestAndSet(c)
  <2> USE <1>4 DEF TestAndSet
  <2>1. TypeOK' BY DEF TypeOK
  <2>2. CountInv' BY DEF CountInv, Counted, TypeOK
  <2>3. IntInv' BY DEF IntInv, TypeOK
  <2>4. ArgInv' /\ NoPanic' BY DEF ArgInv, NoPanic, TypeOK
  <2>5. OwnerInv' BY DEF OwnerInv, Owns, InCS, TypeOK
  <2>6. MutualExclusion' BY DEF OwnerInv, MutualExclusion, InCS, TypeOK
  <2> QED BY <2>1, <2>2, <2>3, <2>4, <2>5, <2>6
<1>5. CASE SetOwner(c)
  <2> USE <1>5 DEF SetOwner
  <2>0. arg[c] \notin held[c] BY DEF ArgInv
  <2>1. TypeOK' BY DEF TypeOK
  <2>2. CountInv'
    <3>1. /\ IsFiniteSet(held[c] \cup {arg[c]})
          /\ Cardinality(held[c] \cup {arg[c]}) = Cardinality(held[c]) + 1
          /\ Cardinality(held[c]) \in Nat
      BY <2>0, FS_AddElement, FS_CardinalityType DEF CountInv
    <3>2. cli_count[c] = Cardinality(held[c]) + 1 BY DEF CountInv, Counted
    <3>3. /\ held'[c] = held[c] \cup {arg[c]}
          /\ pc'[c] = "run"
          /\ \A d \in CPUs \ {c} : held'[d] = held[d] /\ pc'[d] = pc[d]
          /\ cli_count' = cli_count
      BY DEF TypeOK
    <3>4. IsFiniteSet(held'[c]) /\ cli_count'[c] = Cardinality(held'[c])
      BY <3>1, <3>2, <3>3, Zenon
    <3> QED BY <3>3, <3>4 DEF CountInv, Counted
  <2>3. IntInv' BY DEF IntInv, TypeOK
  <2>4. ArgInv' /\ NoPanic' BY DEF ArgInv, NoPanic, TypeOK
  <2>5. OwnerInv'
    <3>1. /\ InCS(c, arg[c])
          /\ \A d \in CPUs \ {c} : ~ InCS(d, arg[c]) /\ ~ Owns(d, arg[c])
      BY DEF MutualExclusion, InCS, Owns, TypeOK
    <3>2. \A d \in CPUs \ {c}, k \in Locks :
             (InCS(d, k)' <=> InCS(d, k)) /\ (Owns(d, k)' <=> Owns(d, k))
      BY DEF InCS, Owns, TypeOK
    <3>3. \A k \in Locks : Owns(c, k)' <=> k = arg[c] \/ Owns(c, k)
      BY DEF Owns, TypeOK
    <3>4. \A k \in Locks : InCS(c, k)' <=> InCS(c, k)
      BY DEF InCS, TypeOK
    <3>5. /\ owner_cpu'[arg[c]] = c /\ is_locked' = is_locked
          /\ \A k \in Locks \ {arg[c]} : owner_cpu'[k] = owner_cpu[k]
      BY DEF TypeOK
    <3> QED BY <3>1, <3>2, <3>3, <3>4, <3>5 DEF OwnerInv
  <2>6. MutualExclusion' BY DEF MutualExclusion, InCS, TypeOK
  <2> QED BY <2>1, <2>2, <2>3, <2>4, <2>5, <2>6
<1> QED BY <1>1, <1>2, <1>3, <1>4, <1>5 DEF AcquireStep

(* The first step of release_Spinlock. *)
LEMMA ReleaseStartIInv ==
  ASSUME IInv, NEW c \in CPUs, NEW l \in Locks, ReleaseStart(c, l)
  PROVE  IInv'
<1> USE DEF ReleaseStart, IInv
<1>1. TypeOK' BY DEF TypeOK
<1>2. CountInv'
  <2>1. /\ IsFiniteSet(held[c] \ {l})
        /\ Cardinality(held[c] \ {l}) = Cardinality(held[c]) - 1
        /\ Cardinality(held[c]) \in Nat
    BY FS_RemoveElement, FS_CardinalityType DEF CountInv
  <2>2. cli_count[c] = Cardinality(held[c]) BY <2>1 DEF CountInv, Counted
  <2>3. /\ held'[c] = held[c] \ {l}
        /\ pc'[c] = "rcheck"
        /\ \A d \in CPUs \ {c} : held'[d] = held[d] /\ pc'[d] = pc[d]
        /\ cli_count' = cli_count
    BY DEF TypeOK
  <2> QED BY <2>1, <2>2, <2>3 DEF CountInv, Counted
<1>3. IntInv' BY DEF IntInv, TypeOK
<1>4. ArgInv' /\ NoPanic' BY DEF ArgInv, NoPanic, TypeOK
<1>5. \A d \in CPUs, k \in Locks :
         (InCS(d, k)' <=> InCS(d, k)) /\ (Owns(d, k)' <=> Owns(d, k))
  BY DEF InCS, Owns, TypeOK
<1>6. OwnerInv' BY <1>5 DEF OwnerInv
<1>7. MutualExclusion' BY <1>5 DEF MutualExclusion
<1> QED BY <1>1, <1>2, <1>3, <1>4, <1>6, <1>7

(* The other steps of release_Spinlock. *)
LEMMA ReleaseStepIInv ==
  ASSUME IInv, NEW c \in CPUs, ReleaseStep(c)
  PROVE  IInv'
<1> USE DEF IInv
<1>1. CASE ReleaseCheck(c)
  <2> USE <1>1 DEF ReleaseCheck
  <2>0. spinlock_check_held(c, arg[c])
    BY DEF spinlock_check_held, OwnerInv, Owns, InCS, TypeOK
  <2>1. TypeOK' BY <2>0 DEF TypeOK
  <2>2. CountInv' BY <2>0 DEF CountInv, Counted, TypeOK
  <2>3. IntInv' BY <2>0 DEF IntInv, TypeOK
  <2>4. ArgInv' /\ NoPanic' BY <2>0 DEF ArgInv, NoPanic, TypeOK
  <2>5. OwnerInv' /\ MutualExclusion' BY <2>0 DEF OwnerInv, MutualExclusion, Owns, InCS, TypeOK
  <2> QED BY <2>1, <2>2, <2>3, <2>4, <2>5
<1>2. CASE ClearOwner(c)
  <2> USE <1>2 DEF ClearOwner
  <2>1. TypeOK' BY DEF TypeOK
  <2>2. CountInv' BY DEF CountInv, Counted, TypeOK
  <2>3. IntInv' BY DEF IntInv, TypeOK
  <2>4. ArgInv' /\ NoPanic' BY DEF ArgInv, NoPanic, TypeOK
  <2>5. OwnerInv'
    <3>1. \A d \in CPUs, k \in Locks : InCS(d, k)' <=> InCS(d, k)
      BY DEF InCS, TypeOK
    <3>2. \A d \in CPUs, k \in Locks :
             Owns(d, k)' <=> Owns(d, k) /\ ~ (d = c /\ k = arg[c])
      BY DEF Owns, ArgInv, TypeOK
    <3>3. \A d \in CPUs \ {c} : ~ Owns(d, arg[c])
      BY DEF MutualExclusion, InCS, Owns, TypeOK
    <3>4. /\ owner_cpu'[arg[c]] = NoCpu /\ is_locked' = is_locked
          /\ \A k \in Locks \ {arg[c]} : owner_cpu'[k] = owner_cpu[k]
      BY DEF TypeOK
    <3> QED BY <3>1, <3>2, <3>3, <3>4, CPUAssumption DEF OwnerInv
  <2>6. MutualExclusion' BY DEF MutualExclusion, InCS, TypeOK
  <2> QED BY <2>1, <2>2, <2>3, <2>4, <2>5, <2>6
<1>3. CASE ClearLocked(c)
  <2> USE <1>3 DEF ClearLocked
  <2>1. TypeOK' BY DEF TypeOK
  <2>2. CountInv' BY DEF CountInv, Counted, TypeOK
  <2>3. IntInv' BY DEF IntInv, TypeOK
  <2>4. ArgInv' /\ NoPanic' BY DEF ArgInv, NoPanic, TypeOK
  <2>5. OwnerInv' BY DEF OwnerInv, MutualExclusion, ArgInv, Owns, InCS, TypeOK
  <2>6. MutualExclusion' BY DEF MutualExclusion, InCS, TypeOK
  <2> QED BY <2>1, <2>2, <2>3, <2>4, <2>5, <2>6
<1>4. CASE DecCli(c)
  <2> USE <1>4 DEF DecCli
  <2>0. /\ cli_count[c] = Cardinality(held[c]) + 1
        /\ IsFiniteSet(held[c]) /\ Cardinality(held[c]) \in Nat
    BY FS_CardinalityType DEF CountInv, Counted
  <2>1. ~ DecCliPanics(c) BY <2>0 DEF DecCliPanics, IntInv
  <2>2. EnablesInterrupts(c) => held[c] = {} /\ frames[c] = <<>>
    BY <2>0, FS_EmptySet DEF EnablesInterrupts, IntInv
  <2>3. /\ cli_count' = [cli_count EXCEPT ![c] = @ - 1]
        /\ intFlag' = [intFlag EXCEPT ![c] = EnablesInterrupts(c)]
        /\ pc' = [pc EXCEPT ![c] = "run"]
        /\ UNCHANGED <<lockVars, noINT, trapVars, arg, held>>
    BY <2>1
  <2> HIDE DEF DecCli
  <2>4. EnablesInterrupts(c) \in BOOLEAN BY DEF EnablesInterrupts
  <2>5. TypeOK' BY <2>0, <2>3, <2>4 DEF TypeOK
  <2>6. CountInv' BY <2>0, <2>3 DEF CountInv, Counted, TypeOK
  <2>7. IntInv' BY <2>2, <2>3, <2>4 DEF IntInv, TypeOK
  <2>8. ArgInv' /\ NoPanic' BY <2>3 DEF ArgInv, NoPanic, TypeOK
  <2>9. OwnerInv' /\ MutualExclusion'
    BY <1>4, <2>3 DEF DecCli, OwnerInv, MutualExclusion, Owns, InCS, TypeOK
  <2> QED BY <2>5, <2>6, <2>7, <2>8, <2>9
<1> QED BY <1>1, <1>2, <1>3, <1>4 DEF ReleaseStep

(* Interrupts, traps, system calls and context switches. *)
LEMMA TrapStepIInv ==
  ASSUME IInv, NEW c \in CPUs, TrapStep(c)
  PROVE  IInv'
<1> USE DEF IInv
(* A handler starts on a CPU that is in no critical section. *)
<1>1. ASSUME EnterHandler(c), frames[c] = <<>>, held[c] = {}, pc[c] \in {"run", "cli"}
      PROVE  IInv'
  <2> USE <1>1 DEF EnterHandler
  <2>0. Len(frames'[c]) = 1 /\ frames'[c][1].pc = pc[c]
    <3> DEFINE f == [pc |-> pc[c], arg |-> arg[c], intFlag |-> intFlag[c]]
    <3>1. frames'[c] = Append(<<>>, f) BY DEF TypeOK
    <3>2. Len(Append(<<>>, f)) = 1 /\ Append(<<>>, f)[1] = f OBVIOUS
    <3> QED BY <3>1, <3>2
  <2>1. TypeOK'
    <3> DEFINE f == [pc |-> pc[c], arg |-> arg[c], intFlag |-> intFlag[c]]
    <3>1. f \in Frame BY DEF Frame, TypeOK
    <3>2. Append(frames[c], f) \in Seq(Frame) BY <3>1 DEF TypeOK
    <3> HIDE DEF f
    <3>3. frames' \in [CPUs -> Seq(Frame)] BY <3>2 DEF TypeOK, f
    <3> QED BY <3>3 DEF TypeOK
  <2>2. CountInv' BY DEF CountInv, Counted, TypeOK
  <2>3. IntInv' BY <2>0 DEF IntInv, TypeOK
  <2>4. ArgInv' /\ NoPanic' BY DEF ArgInv, NoPanic, TypeOK
  <2>5. OwnerInv' /\ MutualExclusion' BY DEF OwnerInv, MutualExclusion, Owns, InCS, TypeOK
  <2> QED BY <2>1, <2>2, <2>3, <2>4, <2>5
<1>2. CASE Interrupt(c)
  BY <1>1, <1>2 DEF Interrupt, IntInv
<1>3. CASE Int3(c)
  BY <1>1, <1>3 DEF Int3
<1>4. CASE IrqReturn(c)
  <2> USE <1>4 DEF IrqReturn
  <2>0. /\ Len(frames[c]) = 1 /\ frames[c][1] \in Frame
        /\ frames[c][1].pc \in {"run", "cli"}
        /\ SubSeq(frames[c], 1, Len(frames[c]) - 1) = <<>>
    BY DEF IntInv, TypeOK
  <2>1. /\ intFlag' = [intFlag EXCEPT ![c] = frames[c][1].intFlag]
        /\ arg' = [arg EXCEPT ![c] = frames[c][1].arg]
        /\ pc' = [pc EXCEPT ![c] = frames[c][1].pc]
        /\ frames' = [frames EXCEPT ![c] = <<>>]
    BY <2>0
  <2>2. frames[c][1].intFlag \in BOOLEAN /\ frames[c][1].arg \in Locks
    BY <2>0 DEF Frame
  <2>3. TypeOK' BY <2>0, <2>1, <2>2 DEF TypeOK
  <2>4. CountInv' BY <2>0, <2>1 DEF CountInv, Counted, TypeOK
  <2>5. IntInv' BY <2>0, <2>1 DEF IntInv, TypeOK
  <2>6. ArgInv' /\ NoPanic' BY <2>0, <2>1 DEF ArgInv, NoPanic, TypeOK
  <2>7. OwnerInv' /\ MutualExclusion'
    BY <2>0, <2>1 DEF OwnerInv, MutualExclusion, Owns, InCS, TypeOK
  <2> QED BY <2>3, <2>4, <2>5, <2>6, <2>7
<1>5. CASE ContextSwitch(c)
  <2> USE <1>5 DEF ContextSwitch, Suspended
  <2>1. TypeOK' BY DEF TypeOK
  <2>2. CountInv' BY DEF CountInv, Counted, TypeOK
  <2>3. IntInv' BY DEF IntInv, TypeOK
  <2>4. ArgInv' /\ NoPanic' BY DEF ArgInv, NoPanic, TypeOK
  <2>5. OwnerInv' /\ MutualExclusion' BY DEF OwnerInv, MutualExclusion, Owns, InCS, TypeOK
  <2> QED BY <2>1, <2>2, <2>3, <2>4, <2>5
<1>6. CASE SyscallEnter(c) \/ SyscallReturn(c) \/ Sti(c)
  <2> USE <1>6 DEF SyscallEnter, SyscallReturn, Sti
  <2>1. TypeOK' BY DEF TypeOK
  <2>2. CountInv' BY DEF CountInv
  <2>3. IntInv' BY ZenonT(30) DEF IntInv, TypeOK
  <2>4. ArgInv' /\ NoPanic' BY DEF ArgInv, NoPanic
  <2>5. UNCHANGED <<lockVars, ctlVars>> OBVIOUS
  <2>6. OwnerInv' BY <2>5 DEF OwnerInv, Owns, InCS
  <2>7. MutualExclusion' BY <2>5 DEF MutualExclusion, InCS
  <2> QED BY <2>1, <2>2, <2>3, <2>4, <2>6, <2>7
<1> QED BY <1>2, <1>3, <1>4, <1>5, <1>6 DEF TrapStep

-----------------------------------------------------------------------------
(* The invariant is inductive, and Spec keeps it. *)
LEMMA NextIInv == IInv /\ [Next]_vars => IInv'
<1> SUFFICES ASSUME IInv, [Next]_vars PROVE IInv'
  OBVIOUS
<1>1. ASSUME NEW c \in CPUs, NEW l \in Locks, AcquireStart(c, l) PROVE IInv'
  BY <1>1, AcquireStartIInv
<1>2. ASSUME NEW c \in CPUs, NEW l \in Locks, ReleaseStart(c, l) PROVE IInv'
  BY <1>2, ReleaseStartIInv
<1>3. ASSUME NEW c \in CPUs, AcquireStep(c) \/ ReleaseStep(c) \/ TrapStep(c) PROVE IInv'
  BY <1>3, AcquireStepIInv, ReleaseStepIInv, TrapStepIInv
<1>4. CASE UNCHANGED vars
  BY <1>4 DEF vars, IInv, TypeOK, CountInv, IntInv, ArgInv, OwnerInv, Owns, InCS,
              MutualExclusion, NoPanic
<1> QED BY <1>1, <1>2, <1>3, <1>4 DEF Next

THEOREM SpinlockInvariant == Spec => []IInv
  BY InitIInv, NextIInv, PTL DEF Spec

(* spinlock.h: one CPU at a time in the critical section of a lock. *)
THEOREM SpinlockMutex == Spec => []MutualExclusion
  BY SpinlockInvariant, PTL DEF IInv

(* No interrupt is taken inside a critical section. *)
THEOREM SpinlockUninterruptible == Spec => []Uninterruptible
<1>1. IInv => Uninterruptible
  BY DEF IInv, IntInv, Uninterruptible, InCS
<1> QED BY <1>1, SpinlockInvariant, PTL

(* The panics of acquire_Spinlock, release_Spinlock and dec_cli never fire. *)
THEOREM SpinlockNoPanic == Spec => []NoPanic
  BY SpinlockInvariant, PTL DEF IInv

(* Handlers are never interrupted. *)
THEOREM SpinlockNoRecursiveInterrupt == Spec => []NoRecursiveInterrupt
<1>1. IInv => NoRecursiveInterrupt
  <2> SUFFICES ASSUME IInv, NEW c \in CPUs PROVE Len(frames[c]) <= 1
    BY DEF NoRecursiveInterrupt
  <2>1. CASE frames[c] = <<>>
    <3>1. Len(<<>>) = 0 OBVIOUS
    <3> QED BY <2>1, <3>1
  <2>2. CASE frames[c] # <<>>
    <3>1. Len(frames[c]) = 1 BY <2>2, Zenon DEF IInv, IntInv
    <3> QED BY <3>1
  <2> QED BY <2>1, <2>2
<1> QED BY <1>1, SpinlockInvariant, PTL

-----------------------------------------------------------------------------
Holders == [l \in Locks |-> {c \in CPUs : InCS(c, l)}]

(* Only the test-and-set that succeeds and the clear that releases change     *)
(* who is in a critical section.                                              *)
LEMMA OtherStepsKeepHolders ==
  ASSUME IInv, [Next]_vars,
         ~ \E c \in CPUs : TestAndSet(c) \/ ClearLocked(c)
  PROVE  Holders' = Holders
<1> SUFFICES ASSUME NEW d \in CPUs, NEW k \in Locks PROVE InCS(d, k)' <=> InCS(d, k)
  BY DEF Holders
<1> USE DEF IInv, TypeOK, InCS
<1>1. ASSUME NEW c \in CPUs, NEW l \in Locks, AcquireStart(c, l) \/ ReleaseStart(c, l)
      PROVE  InCS(d, k)' <=> InCS(d, k)
  BY <1>1 DEF AcquireStart, ReleaseStart
<1>2. ASSUME NEW c \in CPUs, AcquireStep(c) PROVE InCS(d, k)' <=> InCS(d, k)
  BY <1>2 DEF AcquireStep, Cli, IncCliCount, AcquireCheck, SetOwner
<1>3. ASSUME NEW c \in CPUs, ReleaseStep(c) PROVE InCS(d, k)' <=> InCS(d, k)
  <2>1. NoPanic'
    BY NextIInv
  <2>2. CASE ReleaseCheck(c) BY <2>1, <2>2 DEF ReleaseCheck, NoPanic
  <2>3. CASE ClearOwner(c) BY <2>3 DEF ClearOwner
  <2>4. CASE DecCli(c) BY <2>1, <2>4 DEF DecCli, NoPanic
  <2> QED BY <1>3, <2>2, <2>3, <2>4 DEF ReleaseStep
<1>4. ASSUME NEW c \in CPUs, TrapStep(c) PROVE InCS(d, k)' <=> InCS(d, k)
  <2>1. CASE Interrupt(c) \/ Int3(c)
    BY <2>1 DEF Interrupt, Int3, EnterHandler, IntInv
  <2>2. CASE IrqReturn(c)
    <3>1. frames[c][Len(frames[c])].pc \in {"run", "cli"}
      BY <2>2 DEF IrqReturn, IntInv
    <3> QED BY <2>2, <3>1 DEF IrqReturn
  <2>3. CASE ContextSwitch(c) BY <2>3 DEF ContextSwitch
  <2>4. CASE SyscallEnter(c) \/ SyscallReturn(c) \/ Sti(c)
    BY <2>4 DEF SyscallEnter, SyscallReturn, Sti
  <2> QED BY <1>4, <2>1, <2>2, <2>3, <2>4 DEF TrapStep
<1>5. CASE UNCHANGED vars BY <1>5 DEF vars
<1> QED BY <1>1, <1>2, <1>3, <1>4, <1>5 DEF Next

(* A successful test-and-set enters the abstract critical section. *)
LEMMA TestAndSetEnters ==
  ASSUME IInv, NEW c \in CPUs, TestAndSet(c)
  PROVE  Abs!Enter(c, arg[c])
<1> USE DEF IInv, TypeOK, TestAndSet
<1>1. \A d \in CPUs : ~ InCS(d, arg[c])
  BY DEF OwnerInv
<1>2. \A d \in CPUs, k \in Locks :
         InCS(d, k)' <=> (InCS(d, k) \/ (d = c /\ k = arg[c]))
  BY DEF InCS
<1>3. Holders[arg[c]] = {}
  BY <1>1 DEF Holders
<1>4. /\ {d \in CPUs : InCS(d, arg[c])'} = {c}
      /\ \A k \in Locks \ {arg[c]} :
           {d \in CPUs : InCS(d, k)'} = {d \in CPUs : InCS(d, k)}
  BY <1>1, <1>2
<1>5. Holders' = [Holders EXCEPT ![arg[c]] = {c}]
  BY <1>4, ZenonT(30) DEF Holders
<1> QED BY <1>3, <1>5 DEF Abs!Enter, Holders

(* The store that clears is_locked leaves it. *)
LEMMA ClearLockedLeaves ==
  ASSUME IInv, NEW c \in CPUs, ClearLocked(c)
  PROVE  Abs!Leave(c, arg[c])
<1> USE DEF IInv, TypeOK, ClearLocked
<1>1. \A d \in CPUs : InCS(d, arg[c]) <=> d = c
  BY DEF MutualExclusion, InCS
<1>2. \A d \in CPUs, k \in Locks :
         InCS(d, k)' <=> (InCS(d, k) /\ ~ (d = c /\ k = arg[c]))
  BY DEF InCS, ArgInv
<1>3. Holders[arg[c]] = {c}
  BY <1>1 DEF Holders
<1>4. /\ {d \in CPUs : InCS(d, arg[c])'} = {}
      /\ \A k \in Locks \ {arg[c]} :
           {d \in CPUs : InCS(d, k)'} = {d \in CPUs : InCS(d, k)}
  BY <1>1, <1>2
<1>5. Holders' = [Holders EXCEPT ![arg[c]] = {}]
  BY <1>4 DEF Holders
<1> QED BY <1>3, <1>5 DEF Abs!Leave, Holders

(* The two-store, cli-counting spinlock implements the abstract lock. *)
THEOREM SpinlockRefinement == Spec => LockRefinement
<1>1. Init => Abs!Init
  BY DEF Init, Abs!Init, InCS
<1>2. IInv /\ [Next]_vars => [Abs!Next]_Holders
  <2> SUFFICES ASSUME IInv, [Next]_vars, Holders' # Holders PROVE Abs!Next
    OBVIOUS
  <2>1. PICK c \in CPUs : TestAndSet(c) \/ ClearLocked(c)
    BY OtherStepsKeepHolders
  <2>2. arg[c] \in Locks BY DEF IInv, TypeOK
  <2> QED BY <2>1, <2>2, TestAndSetEnters, ClearLockedLeaves DEF Abs!Next
<1> QED BY <1>1, <1>2, SpinlockInvariant, PTL DEF Spec, LockRefinement, Abs!Spec, Holders
=============================================================================
