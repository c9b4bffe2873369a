----------------------------- MODULE MotorAxisMC -----------------------------
(* A small instance of MotorAxis for TLC: a profile of two segments, and   *)
(* moves shorter and longer than its two ramps.                            *)
EXTENDS MotorAxis

SmallProfile == <<[steps |-> 1, slope |-> -5], [steps |-> 1, slope |-> -2]>>

Stations == {0, 1, 5}

Towards0 == -1

Arguments == {[reads |-> TRUE, mres |-> 4], [reads |-> FALSE, mres |-> 0]}
=============================================================================
