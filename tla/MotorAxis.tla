------------------------------ MODULE MotorAxis ------------------------------
(***************************************************************************)
(* An axis: a SigmoidStepper, whose pulses go to the STEP input of a       *)
(* TMC2209, and the homing that tells it where it is.  The chip ignores    *)
(* STEP while its own generator turns the motor (tmc2209.cpp:180).         *)
(***************************************************************************)
EXTENDS SigmoidStepper, TMC2209

VARIABLE known    \* the caller has homed the axis and not displaced it since

axisVars == <<vars, driverVars, known>>

AxisTypeOK == TypeOK /\ DriverTypeOK /\ known \in BOOLEAN

AxisInit == Init /\ DriverInit /\ known = FALSE

(* The caller is one thread, and the axis stands still before it is homed  *)
(* or displaced.                                                           *)
CallsDriver ==
  /\ thread.at = "idle"
  /\ UNCHANGED vars
  /\ \/ Service /\ UNCHANGED known
     \/ ~axis.running /\ (Initialise \/ Displace \/ StartHoming) /\ known' = FALSE

(* The methods of the driver, and time. *)
DriverRuns ==
  /\ WriteRegister \/ ReadRegister \/ TickHoming
  /\ UNCHANGED <<vars, known>>

TimeGoesOn == TimePasses /\ UNCHANGED <<vars, known>>

(* After a success the caller tells the stepper that it is at the stop     *)
(* (tmc2209.hpp:73).                                                       *)
Homed ==
  /\ driver.result = "Success" /\ AtRest /\ ~known
  /\ SetCurrentPosition /\ axis'.position = 0
  /\ known' = TRUE
  /\ UNCHANGED driverVars

Moves ==
  /\ known /\ AtRest /\ history.asked = 0
  /\ GotoPosition
  /\ UNCHANGED <<driverVars, known>>

MoveGoesOn == Continue /\ UNCHANGED <<driverVars, known>>

(* The update interrupt, and its pulse at the chip. *)
Pulse ==
  /\ UpdateInterrupt
  /\ place' \in IF chip.on /\ chip.VACTUAL.v = 0 THEN Places(IF axis.up THEN 1 ELSE -1) ELSE {place}
  /\ UNCHANGED <<driver, chip, history, known>>

(* The stepper is a part of the microcontroller, the carriage is not. *)
Restarted ==
  /\ Restart
  /\ axis' = [position |-> 0, target |-> 0, up |-> TRUE, phase |-> "Idle", arr |-> 0,
              segment |-> 0, step |-> 0, running |-> FALSE]
  /\ thread' = [at |-> "idle", goal |-> 0, delta |-> 0]
  /\ moves' = 0 /\ known' = FALSE

AxisNext ==
  \/ CallsDriver \/ DriverRuns \/ TimeGoesOn
  \/ Homed \/ Moves \/ MoveGoesOn \/ Pulse \/ Restarted

AxisSpec == AxisInit /\ [][AxisNext]_axisVars

(* The caller calls TickHoming again and again, time passes, transfers     *)
(* end (each has a timeout), the timer of the stepper goes on.             *)
AxisFairness ==
  /\ WF_axisVars(DriverRuns) /\ WF_axisVars(TimeGoesOn)
  /\ WF_axisVars(MoveGoesOn) /\ WF_axisVars(Pulse)

AxisFairSpec == AxisSpec /\ AxisFairness

----------------------------------------------------------------------------
(* Properties. *)

Sense == IF chip.GCONF.shaft THEN -1 ELSE 1
Stop == IF Sense * HomingSpeed = 1 THEN Length ELSE 0

Agrees == axis.position = Sense * (place - Stop)

(* The stepper knows where the carriage is: homing has found the stop, and *)
(* every pulse since has moved it, whatever restarts, late ticks and       *)
(* failed transfers there were.  Three kinds of these are excepted:        *)
(*   - a write since the homing began that got lost without notice;        *)
(*   - the last write to VACTUAL, at which the code does not look          *)
(*     (tmc2209.cpp:860), when it did not go well;                         *)
(*   - a read of CHOPCONF that failed, if the initialisation went on       *)
(*     (:92) and wrote the register with other fields than the chip's.     *)
PositionIsTrue ==
  known /\ history.clean /\ "VACTUAL" \notin history.lost /\ chip.CHOPCONF.own => Agrees

(* The initialisation was successful (tmc2209.cpp:112), so was the homing, *)
(* and so the position is true.                                            *)
SuccessIsTrue == known /\ history.clean /\ "VACTUAL" \notin history.lost => Agrees
=============================================================================
