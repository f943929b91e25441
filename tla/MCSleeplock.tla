----------------------------- MODULE MCSleeplock -----------------------------
(* Small instance of Sleeplock: three threads that compete for one lock on    *)
(* two CPUs, so that one sleeps while another owns and a third is scheduled.  *)
EXTENDS Sleeplock

CONSTANTS c1, c2, buf_lock
==============================================================================
