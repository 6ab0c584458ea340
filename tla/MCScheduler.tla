----------------------------- MODULE MCScheduler -----------------------------
(* The constants of Scheduler are model values given in the configurations.    *)
(* With three threads and three cores, a core dispatches to itself, to a core  *)
(* whose fiber waits and to new ones in a row.                                 *)
EXTENDS Scheduler
=============================================================================
