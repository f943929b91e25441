----------------------------- MODULE MCProcess -----------------------------
(* Two CPUs, so that a process exits or execs while its parent is in waitpid;  *)
(* three processes in three thread slots, so that the boot thread's slot is    *)
(* used again, a second waiter queues behind the first, and fork runs out of   *)
(* process slots.                                                              *)
EXTENDS Process

CONSTANTS c1, c2
==============================================================================
