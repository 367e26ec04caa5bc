---------------------------- MODULE MCScheduler ----------------------------
(***************************************************************************)
(* Instances of Scheduler for TLC: three slots, a slice of two ticks and a *)
(* tick counter that wraps every few ticks; the counter starts anywhere.   *)
(***************************************************************************)
EXTENDS Scheduler
=============================================================================
