--------------------------- MODULE SigmoidStepper ---------------------------
(***************************************************************************)
(* A stepper axis driven by a timer: sigmoid_stepper/sigmoid_stepper.hh.   *)
(* GotoPosition, in the main loop, plans a move and starts the timer; each *)
(* update interrupt counts one pulse, takes the next period from the       *)
(* acceleration profile and stops the timer at the target.                 *)
(*                                                                         *)
(* GotoPosition may be called while the axis is moving.  Its statements on *)
(* what it shares with the interrupt are steps of their own.               *)
(***************************************************************************)
EXTENDS Integers, Sequences

CONSTANTS
  Segments,      \* the profile: steps and change of the period at each step
  LowArr,        \* period at low speed, shifted
  TotalSteps,    \* steps to accelerate and to decelerate again
  Positions,     \* positions the caller asks for
  MaxMoves,      \* bound: calls of GotoPosition and SetCurrentPosition
  MaxPosition,   \* bound: the axis stops being looked at beyond it
  Preemptible    \* may the interrupt come between the statements of GotoPosition?

ASSUME ProfileAssumption ==
  /\ Segments \in Seq([steps : Nat, slope : Int])
  /\ LowArr \in Int /\ TotalSteps \in Nat

ASSUME StepperAssumption ==
  /\ Positions \subseteq Int
  /\ MaxMoves \in Nat /\ MaxPosition \in Nat
  /\ Preemptible \in BOOLEAN

VARIABLES
  axis,     \* the fields of SigmoidStepper and the timer
  thread,   \* where the main loop is in GotoPosition
  moves     \* history: calls so far

vars == <<axis, thread, moves>>

Axis ==
  [position : Int,                \* current_position_
   target : Int,                  \* target_position_
   up : BOOLEAN,                  \* motion_direction
   phase : {"Idle", "Accel", "Cruise", "Decel", "NON_SIGMOID"},
   arr : Int,                     \* current_arr32
   segment : Nat,                 \* current_segment_idx
   step : Nat,                    \* current_step_in_segment
   running : BOOLEAN]             \* CEN: the timer counts

Thread ==
  [at : {"idle", "lookup", "target", "direction", "phase", "arr", "start"},
   goal : Int, delta : Int]

TypeOK == axis \in Axis /\ thread \in Thread /\ moves \in Nat

Abs(n) == IF n < 0 THEN -n ELSE n

----------------------------------------------------------------------------
(* The functions of SigmoidStepper. *)

ResetLookup(a) == [a EXCEPT !.segment = 0, !.step = 0]

(* One more step of the profile: the next segment when this one is done.   *)
Advance(a, steps) ==
  IF a.step + 1 >= steps
  THEN [a EXCEPT !.segment = @ + 1, !.step = 0]
  ELSE [a EXCEPT !.step = @ + 1]

ProfileDone(a) == a.segment >= Len(Segments)

Accelerate(a) ==
  IF ProfileDone(a)
  THEN [a EXCEPT !.phase = "Cruise"]
  ELSE LET seg == Segments[a.segment + 1]
       IN  Advance([a EXCEPT !.arr = @ + seg.slope], seg.steps)

(* The same profile in reverse. *)
Decelerate(a) ==
  IF ProfileDone(a)
  THEN a
  ELSE LET seg == Segments[Len(Segments) - a.segment]
       IN  Advance([a EXCEPT !.arr = @ - seg.slope], seg.steps)

Cruise(a) ==
  IF Abs(a.target - a.position) <= TotalSteps \div 2
  THEN ResetLookup([a EXCEPT !.phase = "Decel"])
  ELSE a

(* Variant: only a deceleration ends at the target. *)
StopAfterDecel(a) ==
  IF a.position = a.target /\ a.phase = "Decel"
  THEN [a EXCEPT !.running = FALSE, !.phase = "Idle"]
  ELSE a

StopAtTarget(a) ==
  IF a.position = a.target THEN [a EXCEPT !.running = FALSE, !.phase = "Idle"] ELSE a

----------------------------------------------------------------------------
Init ==
  /\ axis = [position |-> 0, target |-> 0, up |-> TRUE, phase |-> "Idle", arr |-> 0,
             segment |-> 0, step |-> 0, running |-> FALSE]
  /\ thread = [at |-> "idle", goal |-> 0, delta |-> 0]
  /\ moves = 0

Called == moves < MaxMoves /\ moves' = moves + 1

(* GotoPosition reads the position, and returns if that is the goal. *)
GotoPosition ==
  /\ thread.at = "idle"
  /\ Called
  /\ \E goal \in Positions :
        thread' = [at |-> IF goal = axis.position THEN "idle" ELSE "lookup",
                   goal |-> goal, delta |-> goal - axis.position]
  /\ UNCHANGED axis

Continues(here, there) ==
  /\ thread.at = here
  /\ thread' = [thread EXCEPT !.at = there]
  /\ UNCHANGED moves

LookupReset ==
  /\ Continues("lookup", "target")
  /\ axis' = ResetLookup(axis)

TargetSet ==
  /\ Continues("target", "direction")
  /\ axis' = [axis EXCEPT !.target = thread.goal]

(* Variant: keeps the direction. *)
DirectionKept == Continues("direction", "phase") /\ UNCHANGED axis

DirectionSet ==
  /\ Continues("direction", "phase")
  /\ axis' = [axis EXCEPT !.up = thread.delta > 0]

Steps(delta) == Abs(delta)

PhaseSet ==
  /\ Continues("phase", "arr")
  /\ axis' = [axis EXCEPT !.phase = IF Steps(thread.delta) + 2 < TotalSteps \div 2
                                    THEN "NON_SIGMOID" ELSE "Accel"]

(* Variant: starts with the speed that the axis has. *)
SpeedKept ==
  /\ Continues("arr", "start")
  /\ axis' = [axis EXCEPT !.arr = IF axis.running THEN @ ELSE LowArr]

SpeedSet ==
  /\ Continues("arr", "start")
  /\ axis' = [axis EXCEPT !.arr = LowArr]

StartMotion ==
  /\ Continues("start", "idle")
  /\ axis' = [ResetLookup(axis) EXCEPT !.running = TRUE]

(* The caller has found out where the axis is; it is at rest. *)
SetCurrentPosition ==
  /\ thread.at = "idle" /\ ~axis.running
  /\ Called
  /\ \E position \in Positions :
        axis' = [axis EXCEPT !.position = position, !.target = position]
  /\ UNCHANGED thread

(* Handle_update_interrupt_.  The step and its count come first. *)
UpdateInterrupt ==
  LET counted == [axis EXCEPT !.position = IF axis.up THEN @ + 1 ELSE @ - 1]
      driven == CASE axis.phase = "Accel" -> Accelerate(counted)
                  [] axis.phase = "Cruise" -> Cruise(counted)
                  [] axis.phase = "Decel" -> Decelerate(counted)
                  [] OTHER -> counted
  IN  /\ axis.running
      /\ Preemptible \/ thread.at = "idle"
      /\ Abs(axis.position) <= MaxPosition
      /\ axis' = StopAtTarget(driven)
      /\ UNCHANGED <<thread, moves>>

----------------------------------------------------------------------------
Continue ==
  \/ LookupReset \/ TargetSet \/ DirectionSet \/ PhaseSet \/ SpeedSet \/ StartMotion

Next == GotoPosition \/ Continue \/ SetCurrentPosition \/ UpdateInterrupt

Spec == Init /\ [][Next]_vars

(* The main loop runs, and the timer goes on while it is enabled. *)
Fairness == WF_vars(Continue) /\ WF_vars(UpdateInterrupt)

FairSpec == Spec /\ Fairness

----------------------------------------------------------------------------
(* Properties. *)

(* A moving axis moves towards its target, so that it will stop there      *)
(* (sigmoid_stepper.hh:231): an axis that has passed its target, or starts *)
(* on it, would run away.  While GotoPosition is at work, its fields       *)
(* belong to different moves.                                              *)
TowardTarget ==
  axis.running /\ thread.at = "idle"
    => IF axis.up THEN axis.target > axis.position ELSE axis.target < axis.position

(* The speed the profile ends with. *)
HighArr ==
  LET arr[i \in 0 .. Len(Segments)] ==
        IF i = 0 THEN LowArr ELSE arr[i - 1] + Segments[i].steps * Segments[i].slope
  IN  arr[Len(Segments)]

(* The axis is never driven faster than the profile allows, nor slower     *)
(* than its low speed, whenever it is given a new target.                  *)
SpeedInProfile == axis.running /\ thread.at = "idle" => axis.arr \in HighArr .. LowArr

(* Every move ends at its target. *)
TargetReached == axis.running ~> ~axis.running /\ axis.position = axis.target
=============================================================================
