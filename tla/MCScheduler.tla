----------------------------- MODULE MCScheduler -----------------------------
(***************************************************************************)
(* Scheduler for TLC.                                                      *)
(***************************************************************************)
EXTENDS Scheduler

MCLoops  == <<"fast">>
MCActive == [fast |-> 1]
MCRuns   == [timer |-> 1, wake |-> 2]
==============================================================================
