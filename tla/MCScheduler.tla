---------------------------- MODULE MCScheduler ----------------------------
(* The scheduler loop with its delays scaled down to a few passes.          *)
EXTENDS Scheduler
=============================================================================
