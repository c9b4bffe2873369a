------------------------------- MODULE TMC2209 -------------------------------
(***************************************************************************)
(* The driver of a TMC2209 stepper chip: tmc2209/tmc2209.cpp.  Its methods *)
(* are scripts of register transfers on a single-wire UART.  A write is    *)
(* not acknowledged, a read may fail, and the chip, which has a supply of  *)
(* its own, keeps its registers when the microcontroller restarts.         *)
(*                                                                         *)
(* A homing drives the carriage by the chip's step generator (VACTUAL)     *)
(* against an end stop, which it finds by the load (SG_RESULT).  The unit  *)
(* of time is a full step at the speed of the homing.                      *)
(***************************************************************************)
EXTENDS Integers, Sequences

CONSTANTS
  TravelOpposite, SettlePause, DeadTime, Timeout,   \* lengths of the phases
  SgSettling,     \* for how long the load is unreliable after a change of speed
  Length,         \* the carriage moves in 0 .. Length
  HomingSpeed,    \* 1 or -1, for the direction
  TuneRounds,     \* readings of the automatic tuning
  Setups,         \* arguments of the initialisation
  Stale,          \* ages of the time that a caller passes to TickHoming
  WriteFaults,    \* what may happen to a write
  MaxFaults,      \* bound: failed transfers
  MaxCalls,       \* bound: calls of the driver, but for Init and TickHoming
  MaxRestarts,    \* bound: restarts of the microcontroller
  MaxElapsed,     \* bound: longer than any phase
  MaxLag          \* bound: time between two calls of TickHoming

ASSUME HomingAssumption ==
  /\ {TravelOpposite, SettlePause, DeadTime, Timeout, SgSettling, Length, TuneRounds} \subseteq Nat
  /\ {MaxFaults, MaxCalls, MaxRestarts, MaxElapsed, MaxLag} \subseteq Nat /\ Stale \subseteq Nat
  /\ \A age \in Stale : \A phase \in {TravelOpposite, SettlePause, DeadTime, Timeout} :
        phase + age < MaxElapsed
  /\ HomingSpeed \in {-1, 1}
  /\ Setups \subseteq [reads : BOOLEAN, mres : Nat]
  /\ WriteFaults \subseteq {"failed", "dropped", "late"}
  (* The dead time counts from the caller's time, before the transfers.    *)
  /\ \A age \in Stale \union {0} : SgSettling + age + MaxLag <= DeadTime

VARIABLES
  driver,    \* the fields of TMC2209, the transfers its method has still to do
  chip,      \* the registers, and how long it has had its speed
  place,     \* where the carriage is
  history    \* what the properties need to know

driverVars == <<driver, chip, place, history>>

Phases == {"Idle", "OppositeTravel", "Settle", "DeadTime", "StallDetect"}

GConf == [spread : BOOLEAN, shaft : BOOLEAN, uart : BOOLEAN]
ChopConf == [mres : Nat, own : BOOLEAN]    \* own: the other fields are the chip's
NoGConf == [spread |-> FALSE, shaft |-> FALSE, uart |-> FALSE]
NoChopConf == [mres |-> 0, own |-> FALSE]

(* The registers, and three reads that have a purpose of their own.        *)
Stored == {"GCONF", "CHOPCONF", "VACTUAL"}    \* those that are looked at
Mirrored == {"GCONF", "CHOPCONF"}
Registers ==
  Stored \union {"GSTAT", "IOIN", "IHOLD_IRUN", "TPWMTHRS", "TCOOLTHRS", "TSTEP", "SGTHRS",
                 "SG_RESULT", "COOLCONF", "DRV_STATUS", "PWMCONF", "PWM_AUTO",
                 "MIRROR GCONF", "MIRROR CHOPCONF", "VERIFY GCONF"}

(* A transfer, and what the method does when it fails.                     *)
Fails == {"ignore", "abort", "restore"}

Transfer ==
  [write : {FALSE}, reg : Registers, value : [v : {0}], fail : Fails]
    \union [write : {TRUE}, reg : {"GCONF"}, fail : Fails,
            value : [spread : BOOLEAN] \union [shaft : BOOLEAN] \union GConf]
    \union [write : {TRUE}, reg : {"CHOPCONF"}, value : [mres : Nat], fail : Fails]
    \union [write : {TRUE}, reg : Registers \ Mirrored, value : [v : -1 .. 1], fail : Fails]

(* The methods; the phases of a homing, and how it ends, are among them.   *)
Methods ==
  {"none", "Init", "EnableCoolStep", "LogCoolStepRuntimeStatus", "PrintPrettyFullSystemState",
   "setIHoldIRun", "ShaftTurnReversed", "GenerateSteps", "PerformStealthChopAutoTuning",
   "StartHoming", "OppositeTravel", "Settle", "StallDetect", "Success", "Timeout", "Failed"}

Driver ==
  [ready : BOOLEAN,                     \* the initialisation has succeeded
   GCONF : GConf, CHOPCONF : ChopConf,  \* the mirrors
   coolstep : BOOLEAN,                  \* coolstep_configured_
   phase : Phases,
   elapsed : 0 .. MaxElapsed,           \* now_ms - homing_phase_start_ms_
   lag : Nat,                           \* time since the last call of TickHoming
   blocking : BOOLEAN,                  \* in HomeSensorless
   result : {"none", "InProgress", "Success", "Timeout", "Error"},
   call : Methods,                      \* the method under way
   overdue : BOOLEAN,                   \* its local: the time is over
   todo : Seq(Transfer)]                \* its transfers that are still to do

Chip == [GCONF : GConf, CHOPCONF : ChopConf, VACTUAL : [v : -1 .. 1],
         on : BOOLEAN, age : 0 .. SgSettling]

History ==
  [faults : Nat, calls : Nat,
   asked : -1 .. 1,          \* the speed that the caller wants
   lost : SUBSET Stored,     \* registers whose last write did not go well
   clean : BOOLEAN,          \* since the last homing began no write got lost unnoticed
   restarts : Nat]

DriverTypeOK ==
  /\ driver \in Driver
  /\ chip \in Chip /\ place \in 0 .. Length /\ history \in History

----------------------------------------------------------------------------
(* Scripts.  A transfer that fails is ignored, ends the call ("abort"), or *)
(* ends it after StealthChop has been switched on again ("restore").       *)

Write(reg, value, fail) == [write |-> TRUE, reg |-> reg, value |-> value, fail |-> fail]
Read(reg, fail) == [write |-> FALSE, reg |-> reg, value |-> [v |-> 0], fail |-> fail]
Reads(regs) == [i \in DOMAIN regs |-> Read(regs[i], "ignore")]
Sets(regs, fail) == [i \in DOMAIN regs |-> Write(regs[i], [v |-> 1], fail)]
If(condition, script) == IF condition THEN script ELSE <<>>

(* Writes the speed; a read stands for those that only feed the log.       *)
GenerateSteps(speed, fail) ==
  <<Write("VACTUAL", [v |-> speed], fail)>> \o Reads(<<"VACTUAL">>)

EnableCoolStep ==
  <<Write("GCONF", [spread |-> TRUE], "abort")>>
    \o Sets(<<"TCOOLTHRS", "SGTHRS", "COOLCONF">>, "abort")

RestoreStealthChop == <<Write("GCONF", [spread |-> FALSE], "ignore")>>

FetchMirrors ==
  <<Read("IOIN", "abort"), Read("MIRROR GCONF", "ignore"), Read("MIRROR CHOPCONF", "ignore")>>

NormalOperation == [spread |-> FALSE, shaft |-> FALSE, uart |-> TRUE]

ClearGStat == Sets(<<"GSTAT">>, "abort")

(* Variant: the chip is taken to be at rest. *)
InitAsAfterPowerOn(setup) ==
  If(setup.reads, FetchMirrors)
    \o ClearGStat \o <<Write("GCONF", NormalOperation, "abort")>>
    \o If(setup.reads, <<Read("VERIFY GCONF", "abort")>>) \o ClearGStat

InitForNormalSpeedAndUartBasedOperation(setup) ==
  If(setup.reads, FetchMirrors)
    \o ClearGStat \o <<Write("GCONF", NormalOperation, "abort")>>
    \o If(setup.reads, <<Read("VERIFY GCONF", "abort")>>)
    \o If(setup.mres # 0, <<Write("CHOPCONF", [mres |-> setup.mres], "abort")>>)
    \o ClearGStat
    \o <<Write("VACTUAL", [v |-> 0], "abort"), Read("VACTUAL", "ignore")>>

PerformStealthChopAutoTuning ==
  Sets(<<"IHOLD_IRUN", "TPWMTHRS", "PWMCONF">>, "ignore")
    \o GenerateSteps(1, "ignore")
    \o Reads([i \in 1 .. 2 * TuneRounds |-> IF i % 2 = 1 THEN "PWMCONF" ELSE "PWM_AUTO"])
    \o GenerateSteps(0, "ignore") \o Sets(<<"PWMCONF">>, "ignore")

LogCoolStepRuntimeStatus ==
  [i \in 1 .. 3 |-> Read(<<"SG_RESULT", "DRV_STATUS", "TSTEP">>[i], "abort")]

PrintPrettyFullSystemState ==
  Reads(<<"GCONF", "GSTAT">>)    \* and five more like the second

----------------------------------------------------------------------------
(* The chip and the carriage. *)

Assigned(fields, old) == [f \in DOMAIN old |-> IF f \in DOMAIN fields THEN fields[f] ELSE old[f]]

Clamped(p) == IF p < 0 THEN 0 ELSE IF p > Length THEN Length ELSE p

(* One full step, at VACTUAL's or at STEP's command. *)
Moved(direction) == Clamped(place + IF chip.GCONF.shaft THEN -direction ELSE direction)

Turning == chip.on /\ chip.VACTUAL.v # 0
Blocked == Moved(chip.VACTUAL.v) = place

(* With fields of CHOPCONF that are not its own the chip may be off. *)
Places(direction) == {Moved(direction)} \union IF chip.CHOPCONF.own THEN {} ELSE {place}

(* Is the load above the threshold?  Reliable once the speed has settled.  *)
Loads == IF Turning /\ chip.age = SgSettling THEN {Blocked} ELSE BOOLEAN

----------------------------------------------------------------------------
DriverReset ==
  [ready |-> FALSE, GCONF |-> NoGConf, CHOPCONF |-> NoChopConf,
   coolstep |-> FALSE, phase |-> "Idle", elapsed |-> 0, lag |-> 0, blocking |-> FALSE,
   result |-> "none", call |-> "none", overdue |-> FALSE, todo |-> <<>>]

DriverInit ==
  /\ driver = DriverReset
  /\ chip = [GCONF |-> NoGConf, CHOPCONF |-> [mres |-> 0, own |-> TRUE],
             VACTUAL |-> [v |-> 0], on |-> FALSE, age |-> SgSettling]
  /\ place \in 0 .. Length
  /\ history = [faults |-> 0, calls |-> 0, asked |-> 0, lost |-> {}, clean |-> FALSE, restarts |-> 0]

(* HomeSensorless counts from the end of the transfers, TickHoming from    *)
(* the time it was called at.                                              *)
NextPhase(d, phase) == [d EXCEPT !.phase = phase, !.elapsed = IF d.blocking THEN 0 ELSE @]

(* The method ends.  A homing begins or goes on to its next phase.         *)
Returns(d, good) ==
  LET left == [d EXCEPT !.call = "none", !.todo = <<>>, !.overdue = FALSE]
      over == [left EXCEPT !.phase = "Idle", !.elapsed = 0, !.lag = 0]
  IN  CASE d.call = "Init" -> [left EXCEPT !.ready = good]
        [] d.call = "StartHoming" /\ good ->
             [left EXCEPT !.phase = "OppositeTravel", !.elapsed = 0, !.lag = 0]
        [] d.call = "OppositeTravel" -> NextPhase(left, "Settle")
        [] d.call = "Settle" -> NextPhase(left, "DeadTime")
        [] d.call = "Failed" -> [over EXCEPT !.result = "Error"]
        [] d.call \in {"Success", "Timeout"} -> [over EXCEPT !.result = d.call]
        [] OTHER -> left

(* The transfer at the head of the script is done. *)
Continued(d, ok) ==
  LET fail == Head(d.todo).fail
      rest == Tail(d.todo)
  IN  CASE ok \/ fail = "ignore" -> IF rest = <<>> THEN Returns(d, TRUE) ELSE [d EXCEPT !.todo = rest]
        [] ~ok /\ fail = "abort" -> Returns(d, FALSE)
        [] ~ok /\ fail = "restore" -> [d EXCEPT !.call = "Failed", !.todo = RestoreStealthChop]

(* A write, of which the driver learns no more than that it has been sent. *)
WriteRegister ==
  /\ driver.todo # <<>>
  /\ Head(driver.todo).write
  /\ LET reg == Head(driver.todo).reg
         fields == Head(driver.todo).value
         d == IF reg \in Mirrored THEN [driver EXCEPT ![reg] = Assigned(fields, @)] ELSE driver
         value == IF reg \in Mirrored THEN d[reg] ELSE fields
         set == [chip EXCEPT ![reg] = value,
                             !.age = IF reg = "VACTUAL" /\ value # chip.VACTUAL THEN 0 ELSE @]
     IN  \E outcome \in {"sent"} \union WriteFaults :
           /\ history.faults + (IF outcome = "sent" THEN 0 ELSE 1) <= MaxFaults
           /\ LET ok == outcome \in {"sent", "dropped"}
                  told == [d EXCEPT !.coolstep = @ \/ (reg = "COOLCONF" /\ ok)]    \* the last of EnableCoolStep
              IN  driver' = Continued(told, ok)
           /\ chip' = IF reg \in Stored /\ outcome \in {"sent", "late"} THEN set ELSE chip
           /\ history' = IF outcome = "sent"
                         THEN [history EXCEPT !.lost = @ \ {reg}]
                         ELSE [history EXCEPT !.lost = @ \union ({reg} \intersect Stored), !.faults = @ + 1,
                                              !.clean = @ /\ outcome # "dropped"]
  /\ UNCHANGED place

(* What a read leaves in the driver, and whether its caller is content.    *)
Mirrors(reg, ok) ==
  CASE reg = "MIRROR GCONF" -> [driver EXCEPT !.GCONF = IF ok THEN chip.GCONF ELSE NoGConf]
    [] reg = "MIRROR CHOPCONF" -> [driver EXCEPT !.CHOPCONF = IF ok THEN chip.CHOPCONF ELSE NoChopConf]
    [] reg = "GCONF" /\ ok -> [driver EXCEPT !.GCONF = chip.GCONF]
    [] OTHER -> driver

(* The version that is compared is not initialised when it cannot be read. *)
Content(reg, ok) ==
  CASE reg = "IOIN" -> {ok, TRUE}
    [] reg = "VERIFY GCONF" -> {ok /\ chip.GCONF = driver.GCONF}
    [] OTHER -> {ok}

EndHomingLoud == GenerateSteps(0, "ignore")    \* variant: StealthChop stays off

EndHoming == GenerateSteps(0, "ignore") \o RestoreStealthChop

ReadRegister ==
  /\ driver.todo # <<>>
  /\ ~Head(driver.todo).write
  /\ LET reg == Head(driver.todo).reg
     IN  \E ok \in BOOLEAN :
           /\ history.faults + (IF ok THEN 0 ELSE 1) <= MaxFaults
           /\ history' = [history EXCEPT !.faults = IF ok THEN @ ELSE @ + 1]
           /\ IF driver.call = "StallDetect"
              THEN \E loaded \in Loads :
                     driver' = IF (ok /\ loaded) \/ driver.overdue
                               THEN [driver EXCEPT !.call = IF ok /\ loaded THEN "Success" ELSE "Timeout",
                                                   !.todo = EndHoming]
                               ELSE Returns(driver, TRUE)
              ELSE \E content \in Content(reg, ok) : driver' = Continued(Mirrors(reg, ok), content)
  /\ UNCHANGED <<chip, place>>

----------------------------------------------------------------------------
(* The methods.  The caller comes back when one has returned.              *)

Begins(call, script, blocking) ==
  /\ driver.todo = <<>> /\ driver.phase = "Idle"
  /\ driver' = [driver EXCEPT !.call = call, !.todo = script, !.blocking = blocking,
                              !.result = "none", !.ready = @ /\ call # "Init"]
  /\ UNCHANGED place

Calls(call, script) == Begins(call, script, FALSE)

Asks(speed) ==
  /\ history.calls < MaxCalls
  /\ history' = [history EXCEPT !.calls = @ + 1, !.asked = speed]

(* The caller initialises the driver until that has succeeded. *)
Initialise ==
  /\ ~driver.ready
  /\ \E setup \in Setups :
       /\ Calls("Init", InitForNormalSpeedAndUartBasedOperation(setup))
       /\ chip' = [chip EXCEPT !.on = TRUE]
       /\ history' = [history EXCEPT !.asked = 0]

(* The methods that leave the carriage where it is. *)
Service ==
  /\ driver.ready
  /\ UNCHANGED chip /\ Asks(history.asked)
  /\ \/ Calls("EnableCoolStep", EnableCoolStep)
     \/ driver.coolstep /\ Calls("LogCoolStepRuntimeStatus", LogCoolStepRuntimeStatus)
     \/ Calls("PrintPrettyFullSystemState", PrintPrettyFullSystemState)
     \/ Calls("setIHoldIRun", Sets(<<"IHOLD_IRUN">>, "abort"))

(* The methods after which it is no longer known where the carriage is.    *)
Displace ==
  /\ driver.ready
  /\ \/ \E reversed \in BOOLEAN :
           /\ Calls("ShaftTurnReversed", <<Write("GCONF", [shaft |-> reversed], "ignore")>>)
           /\ Asks(history.asked) /\ UNCHANGED chip
     \/ \E speed \in {0, 1} :
           /\ Calls("GenerateSteps", GenerateSteps(speed, "abort"))
           /\ Asks(speed) /\ UNCHANGED chip
     \/ /\ Calls("PerformStealthChopAutoTuning", PerformStealthChopAutoTuning)
        /\ Asks(0) /\ UNCHANGED chip
     \/ \E on \in BOOLEAN :
           Calls("none", <<>>) /\ Asks(history.asked) /\ chip' = [chip EXCEPT !.on = on]

(* Both kinds of homing.  The first one is called again by its own loop.   *)
StartHoming ==
  /\ driver.ready /\ chip.on /\ history.asked = 0
  /\ history.calls < MaxCalls
  /\ history' = [history EXCEPT !.calls = @ + 1, !.clean = TRUE]
  /\ UNCHANGED chip
  /\ \/ Calls("StartHoming", EnableCoolStep \o GenerateSteps(-HomingSpeed, "abort"))
     \/ Begins("StartHoming", EnableCoolStep \o GenerateSteps(-HomingSpeed, "ignore"), TRUE)

DueExactly(age, length) == driver.elapsed - age = length    \* variant: == for >=

(* Unsigned: a time before the start is far behind it. *)
Due(age, length) == driver.elapsed < age \/ driver.elapsed - age >= length

StartsAhead(d, age) == [d EXCEPT !.elapsed = -age]    \* variant: the age has the wrong sign

(* The next phase starts at the time of the call. *)
Starts(d, age) == [d EXCEPT !.elapsed = age]

(* TickHoming with a time that is older than the clock by age.  Its caller *)
(* passes no time that is older than the one before, but it may be older   *)
(* than the homing, whose start time is taken after blocking transfers.    *)
TickHoming ==
  /\ driver.todo = <<>> /\ driver.phase # "Idle"
  /\ UNCHANGED <<chip, place, history>>
  /\ \E age \in IF driver.blocking THEN {0} ELSE Stale :
       /\ driver.phase = "OppositeTravel" \/ age <= driver.elapsed
       /\ LET now == [driver EXCEPT !.lag = 0, !.result = "InProgress"]
              begun == Starts(now, age)
          IN  driver' =
             CASE driver.phase = "OppositeTravel" /\ Due(age, TravelOpposite) ->
                    [begun EXCEPT !.call = "OppositeTravel", !.todo = GenerateSteps(0, "ignore")]
               [] driver.phase = "Settle" /\ Due(age, SettlePause) ->
                    [begun EXCEPT !.call = "Settle", !.todo = GenerateSteps(HomingSpeed, "restore")]
               [] driver.phase = "DeadTime" /\ Due(age, DeadTime) ->
                    [begun EXCEPT !.phase = "StallDetect"]
               [] driver.phase = "StallDetect" /\ driver.blocking /\ Due(age, Timeout) ->
                    [now EXCEPT !.call = "Timeout", !.todo = EndHoming]
               [] driver.phase = "StallDetect" ->
                    [now EXCEPT !.call = "StallDetect", !.overdue = Due(age, Timeout),
                                !.todo = Reads(<<"SG_RESULT">>)]
               [] OTHER -> now

(* The carriage moves at VACTUAL's command.  The caller comes back in time. *)
TimePasses ==
  /\ IF driver.phase = "Idle"
     THEN Turning /\ (~Blocked \/ chip.age < SgSettling) /\ UNCHANGED driver
     ELSE /\ driver.lag < MaxLag
          /\ driver' = [driver EXCEPT !.elapsed = IF @ < MaxElapsed THEN @ + 1 ELSE @,
                                      !.lag = @ + 1]
  /\ place' \in IF Turning THEN Places(chip.VACTUAL.v) ELSE {place}
  /\ chip' = [chip EXCEPT !.age = IF @ < SgSettling THEN @ + 1 ELSE @]
  /\ UNCHANGED history

(* The microcontroller starts again; the chip does not notice. *)
Restart ==
  /\ history.restarts < MaxRestarts
  /\ driver' = DriverReset
  /\ \E on \in BOOLEAN : chip' = [chip EXCEPT !.on = on]
  /\ history' = [history EXCEPT !.restarts = @ + 1, !.asked = 0,
                                  !.clean = FALSE]
  /\ UNCHANGED place

----------------------------------------------------------------------------
(* Properties. *)

AtRest == driver.todo = <<>> /\ driver.phase = "Idle"

(* After each call, and after a restart in the middle of one, the chip's   *)
(* own generator does what the caller has asked for, so that STEP has its  *)
(* effect (tmc2209.cpp:180), unless the last write to VACTUAL itself did   *)
(* not go well: the code does not look whether it did (MotorStops).        *)
MotorObeys ==
  driver.ready /\ AtRest => chip.VACTUAL.v = history.asked \/ "VACTUAL" \in history.lost

(* The motor is stopped in any case, whatever the homing has come to       *)
(* (tmc2209.cpp:860).                                                      *)
MotorStops == AtRest /\ driver.result # "none" => chip.VACTUAL.v = 0

(* A homing that has come to a result leaves the chip quiet again          *)
(* (tmc2209.hpp:69), whichever of its phases has failed.                   *)
QuietAfterHoming ==
  AtRest /\ driver.result # "none" => ~chip.GCONF.spread \/ "GCONF" \in history.lost

(* Every homing ends (tmc2209.hpp:81), whatever fails. *)
HomingEnds == driver.phase # "Idle" ~> driver.phase = "Idle"
=============================================================================
