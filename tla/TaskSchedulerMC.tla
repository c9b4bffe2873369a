-------------------------- MODULE TaskSchedulerMC --------------------------
(* Small instances of TaskScheduler for TLC: two task functions, a clock   *)
(* that wraps around within one behaviour, a timer shorter than the        *)
(* longest delay.                                                          *)
EXTENDS TaskScheduler

CONSTANTS t1, t2
=============================================================================
