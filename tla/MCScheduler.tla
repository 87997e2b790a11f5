---------------------------- MODULE MCScheduler ----------------------------
(* Four process objects; ticks_between_reschedulings() = 2 keeps the shape *)
(* of the mask test with a tick counter of two bits.                       *)
EXTENDS Scheduler
=============================================================================
