------------------------------ MODULE LockSpec ------------------------------
(***************************************************************************)
(* What spinlock.h promises of a Spinlock, without saying how: "Our Mutex  *)
(* must allow only one process/thread in a critical section".  holders[l]  *)
(* is the set of CPUs inside a critical section of lock l; it never has    *)
(* two members because a CPU enters only when nobody is inside, and it     *)
(* leaves only of its own accord.                                          *)
(***************************************************************************)
CONSTANTS CPUs, Locks
VARIABLE holders

Init == holders = [l \in Locks |-> {}]

Enter(c, l) == /\ holders[l] = {}
               /\ holders' = [holders EXCEPT ![l] = {c}]

Leave(c, l) == /\ holders[l] = {c}
               /\ holders' = [holders EXCEPT ![l] = {}]

Next == \E c \in CPUs, l \in Locks : Enter(c, l) \/ Leave(c, l)

Spec == Init /\ [][Next]_holders
=============================================================================
