-------------------------- MODULE SigmoidStepperMC --------------------------
(* A small instance of SigmoidStepper for TLC: a profile of three segments *)
(* and four steps, and moves shorter than a ramp, shorter than two ramps   *)
(* and longer than both.                                                   *)
EXTENDS SigmoidStepper

SmallProfile ==
  <<[steps |-> 1, slope |-> -5], [steps |-> 2, slope |-> -2], [steps |-> 1, slope |-> -1]>>

Places == {-3, 0, 1, 5, 12}
=============================================================================
