----------------------------- MODULE MCScheduler -----------------------------
(* Small instance of Scheduler: two CPUs, so that one can schedule, wake or    *)
(* reuse a thread the other is putting to sleep, and enough slots that some    *)
(* thread has to wait for its turn.                                            *)
EXTENDS Scheduler

CONSTANTS c1, c2, chan
==============================================================================
