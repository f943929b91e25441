----------------------------- MODULE MCSpinlock -----------------------------
(* Small instance of Spinlock: two CPUs (the QEMU command line runs -smp 2)   *)
(* and two locks that nest, ide_lock outside proc_table.lock.                 *)
EXTENDS Spinlock, TLC

CONSTANTS c1, c2, ide_lock, proc_lock

MCRank == (ide_lock :> 1) @@ (proc_lock :> 2)
=============================================================================
