# stm32_libs: models, checks and proofs

TLA+ modules for the parts of this library that have control worth a model: a task scheduler, a
USB Power Delivery sink with its link layer and its message decoder, a stepper axis that is homed
by a TMC2209, a load cell amplifier and two Modbus servers. TLC checks small instances; TLAPS proves
the most important invariants for every value of the constants.

`tlc -config X.cfg M` checks a run, `tlapm M_proof.tla` checks the proofs. `PROJECT.json` lists
components, runs, mutants (a plausible bug for each property, which the property must notice),
the source lines of every definition, hazards, findings and theorems.

## 1. Inventory

| component | state | operations | interacts with | hard because |
|---|---|---|---|---|
| Task scheduler `usb_pd/TaskScheduler` | array of at most 10 items sorted by time, one-pulse timer | `start`, `scheduleTaskAfter/At`, `cancelTask`, `cancelAllTasks`, `checkPendingTasks`, `onInterrupt` | called by PDController, PDSink and by the tasks it runs; hardware timer | 32 bit microsecond clock that wraps, tasks that call back, one timer for all items |
| PD controller `usb_pd/PDController` | retry count, message IDs both ways, message being sent, last message received, log and rings | `send*Message`, `sendHardReset`, `reset`, handlers called by the PHY, GoodCRC timeout | PHY below, event handler (PDSink) above, scheduler | half duplex line with loss and repetition, acknowledgement sent before delivery, hard resets, attach/detach, two interrupts and the main loop |
| UCPD PHY `usb_pd/PDPhySTM32UCPD` | peripheral, DMA, attached CC pin | `prepareRead`, `transmitMessage`, `sendHardReset`, `handleInterrupt` | hardware, PD controller | several interrupt flags handled in a fixed order, transmissions that are cut short |
| PD sink `usb_pd/PDSink` | capabilities, requested / desired / active voltage, PPS index, flags for the main loop | `start`, `requestPower`, `poll` (`Loop`), event handler, two tasks | PD controller, scheduler, application callback | polling with escalation, requests from the main loop that race with interrupts, keep-alive of PPS contracts |
| Source capability `PDSourceCapability` | none | `parseMessage`, `powerRequestObject` | PD sink | object positions, four units, rounding |
| Decoder, encoder, CRC `PDMessageDecoder`, `PDMessageEncoder`, `CRC32` | place in the message, half bit, last time stamp; buffers | `decodeChangeTimestamps`, `discardMessage`, `encode` | edge time stamps from a DMA buffer, in chunks | self-clocked bits with lost and added edges, a state that survives from chunk to chunk |
| Analyzer `PDProtocolAnalyzer` | none | formatting | log output | pure |
| Sigmoid stepper `sigmoid_stepper` | position, target, direction, phase, place in the profile, timer | `Init`, `GotoPosition`, `SetCurrentPosition`, update interrupt | main loop, timer interrupt, GPIO | a new target during a move; fields stored one by one while the interrupt uses them |
| TMC2209 `tmc2209` | register copies, homing phase and its start time | initialisation, configuration, motion by VACTUAL, tuning, sensorless homing (blocking and by ticks) | UART, chip, stepper | transfers that fail or get lost unnoticed, a chip that keeps its registers over a restart, blocking transfers, wrapped milliseconds |
| Modbus RTU server `modbus/modbus_rtu_server.hpp` | one buffer for frame and response | `ProcessChunk` | register model, USB thread | frames in chunks, CRC, resynchronisation by time |
| Modbus TCP server `modbus/modbus_tcp_server.hpp` | connection | `run`, request loop | register model, NetX | connections, packets that are not requests, two threads on the same registers |
| HX711 `hx711.hh`, `hx711_gpio.hh` | ring of readings; last reading of each input and the place in the order | `setup`, `loop`, averages | SPI or GPIO, chip | the pulses that read one result select the next; pulses that break off |
| Helpers `common_stm32` | log block, LED patterns | log, LED, timer and I2C access, byte order | all | threads without ownership, wrapped times |
| GPIO tables `common_stm32/gpio` | none | generated at compile time | all | none |

What makes each component correct, and so what its model is asked:

* scheduler: no task early, none lost, none twice, and every task eventually;
* link layer: a message is delivered once, in order, and if it was acknowledged; a transmission
  always ends; a new message is never mistaken for a repetition;
* sink: it keeps looking for the source with one poll at a time, it requests only what is offered,
  its active voltage and current are the contract, a PPS contract is repeated, the application
  learns of every change;
* decoder: it reports each intact message and none that was not sent;
* stepper: it heads for its target and stops there, within the profile's speeds;
* axis: after each call and each restart the motor does what was asked, a homing ends and leaves
  the chip quiet, and afterwards the stepper's position is that of the carriage;
* load cell: a value is of the input it is shown for;
* Modbus: registers change only to what an intact request asks for; a positive answer is true, a
  refused request changes nothing, an intact request is answered.

The hazards behind these properties are listed, each at its line, under `hazards` in
`PROJECT.json`, those that no property covers yet with the reason.

## 2. Modules

| module | models | notes |
|---|---|---|
| `TimerQueue` | what a client of the scheduler relies on | abstract: a set of pending tasks with their time to go |
| `TaskScheduler` | `TaskScheduler.cpp` | the array, the frames of `checkPendingTasks`, the timer, the wrapped clock; implements `TimerQueue` |
| `TaskScheduler_proof` | | proofs |
| `PDController` | `PDController.cpp`, `PDPhySTM32UCPD.cpp`, the CC line and a partner | one operator per function, one action per interrupt flag, timer or call |
| `PDController_proof` | | proofs |
| `PDSourceCapability`, `PDSourceCapability_proof` | `PDSourceCapability.cpp` | pure operators, and lemmas about them |
| `PDSink`, `PDSink_proof` | `PDSink.cpp` above a lossy link, a source, an application | uses what `PDController` promises, not its steps; extends `PDSourceCapability` |
| `PDMessageCodec` | `PDMessageEncoder.cpp`, `PDMessageDecoder.cpp`, `CRC32.cpp` and the line between them | the composition of both directions |
| `SigmoidStepper`, `SigmoidStepper_proof` | `sigmoid_stepper.hh` | each store of `GotoPosition` a step of its own |
| `TMC2209` | `tmc2209.cpp`, `tmc2209_reg.hpp`, the chip and the carriage | no specification of its own |
| `MotorAxis`, `MotorAxis_proof` | the stepper on the STEP input of the chip, and its caller | composes `SigmoidStepper` and `TMC2209`, each step one of theirs or both |
| `LoadCell`, `LoadCell_proof` | `hx711.hh`, `hx711_gpio.hh` and the chip | both drivers on one model of the chip |
| `ModbusCommons` | requests, registers, and serving one register at a time | used by both servers |
| `ModbusRtu`, `ModbusTcp` | the servers with their clients | bytes, chunks and packets |
| `Modbus`, `Modbus_proof` | both servers on the same registers | instances of the two; history of what clients observe |
| `*MC` | | constants of the instances |

**TaskScheduler.** `items` is `scheduledItems[0 .. numScheduledTasks - 1]`. Besides its wrapped
`time` an item carries `left`, its true time to go, as history. `timer` is CNT and CEN together
(-1: stopped, -2: blocked). `pc` and `depth` are the frames of `checkPendingTasks`: a task that is executed may
call the scheduler again, which runs `checkPendingTasks` on top. A tick of the clock may come
between any two reads of `now()` (`skew`, `lag`; bounded by `MaxLag` per run of the code). A timer started with
the period 0 stays where it is, as a one-pulse timer with ARR = 0 does (`Blocked`). `call` is the history of what
clients ask for; in `TimerQueue` it is visible, so that every task that comes or goes belongs to a call that
names it, or to an execution after its time (or, beyond the expiry limit, before it).
Callers are serialised: interrupts of one priority do not interrupt each other. That `cancelTask`
is also called from the main loop without masking interrupts (`PDSink.cpp:133` by
`requestPower`) is a hazard the model does not cover yet.

**PDController.** `link` holds the controller's fields; the operators on it (`Send`,
`GiveUp`, `OnMessageReceived`, ...) are the code's functions and the actions compose them as the
interrupt handler does. `flags` is the UCPD status register, `status` the copy that
`handleInterrupt` works through in its order. With `LateIsr` other things may happen between a
flag and its handling (so several are served at once and the receive buffer may be
overwritten); without it hardware and partner act only while no enabled interrupt is pending. With `ThreadSends` the statements of `sendDataMessage` in the main loop are steps of
their own. The line carries one packet, which may be lost or garbled, and packets meant for
the cable. As history, `lastHeard` says which message had the ID that the controller remembers (`Foreign`: one of an
earlier partner), and `mistaken` collects the messages that were taken for repetitions because of such an ID or
of one a whole round before. The partner acknowledges, repeats, numbers its messages and resets like the controller.

**PDSourceCapability.** Objects are records of their fields in the protocol's units (10, 50, 20 and
100); capabilities are in mV and mA, as in the code. `index` counts from 1 and 0 stands for the
code's -1. The in/out parameters of `powerRequestObject` are the `supply` that it returns. The
packing into 32 bits is left out; the fields fit.

**PDSink.** Handlers and tasks are single steps; `Loop()` and `requestPower` are sequences of
steps in the main loop and interrupts may come in between (`Preemptible`). The link may lose any
message without telling the sink, which is what `PDController` really does. The source answers
requests, offers, rejects, resets, or stays silent until it is reset (`Answers = FALSE`). It looks
requests up by position in its own list, which a new attach may exchange, and rejects what it
cannot supply. `sourceCapabilities` keeps what earlier messages left behind the valid entries, since
`ppsIndex` may be read from there.

**SigmoidStepper.** The profile is a constant. The timer's prescaler, shift and duty cycle are
left out: `arr` is `current_arr32`. `Preemptible` says whether the update interrupt can come between
the statements of `GotoPosition`.

**TMC2209, MotorAxis.** A method is a script of transfers, `driver.todo`; each transfer is a step
that may fail, be lost unnoticed (a write is not acknowledged), or arrive although the driver was told
that it failed. `Transfer` lists the transfers that a method may ask for, each register with the
values written to it. `fail` says what the code does about a failure: nothing, return, or restore
StealthChop. Of the registers the model keeps those a property tells apart (`GCONF`, `CHOPCONF`,
`VACTUAL`), of `CHOPCONF` the resolution and whether the other fields are the chip's own. Runs of reads
that only feed the log are shortened. `elapsed` is `now_ms - homing_phase_start_ms_`, and a tick
may carry a time that is older by `age`. The load is reliable after `SgSettling`; the carriage
stops at the ends of `0 .. Length`. In `MotorAxis` a pulse of the stepper moves the carriage
only while the chip's own generator rests; a restart resets driver and stepper, not chip and
carriage.

**LoadCell.** The chip is the number of bits shifted out (`shifted`), the conversion and the
selected input. A loop of a driver is one step: interrupts are masked or the SPI clocks. A
restart, or a transfer that times out, stops the pulses anywhere with the clock high (which
switches the chip off) or low. `doubt` counts the results that do not yet follow an unbroken cycle.
`PowersAssumption` is a law of powers that holds for every `Width`; it is stated because the provers
know no powers of a variable. Tare and scale are left out.

**PDMessageCodec.** A frame is encoded to half bits and these to times between edges, as in the code;
the decoder takes them in chunks cut anywhere. A frame may lose an edge or gain one at each place,
and glitches come between frames. The bits and symbols are those of the code; the CRC-32 is a
check sum over nibbles, which detects less. The payload of the model has no bound: the code writes each nibble
without a look at the buffer's size (`PDMessageDecoder.cpp:213`), and what a longer packet overwrites is not
modelled.

**Modbus.** Frames and packets are sequences of bytes, so that lengths, thresholds and chunks are
those of the code. The CRC is an arithmetic 16 bit check sum. A request that was taken
(`Sendable` says what a client can put into one: at most 127 values, whose bytes one byte can
count) becomes a `Job`, served by one access to a register per step, since only the single access is
locked. The caller of `ProcessChunk` (reading, sending, inter-frame timeout) is not part of the
repository and follows the contract in the header's comment. TCP may cut a request in two packets, each of which the
server takes for a request; `RestMayBeServed` says that the second may then be executed. Responses are modelled by what
they say, not by their bytes.

## 3. Runs

| run | instance and bounds | shows |
|---|---|---|
| `scheduler` | 2 task functions, delays 0, 2, 5 and 12 with an expiry limit of 9, clock modulo 16, 2 items, 2 calls (nested to depth 2) | type, no early task but beyond the limit, wake-ups lost by a period of 0 only, `TimerQueue` implemented, the queue drains but for that period |
| `scheduler_zero` | delays 0, 2 and 5, the same otherwise | violation of `TasksAreExecuted`, see below |
| `link` | 1 retry, IDs modulo 2, 3 messages each way, 2 losses, 1 cable packet, 1 reset, 3 plugs and so two partners, prompt interrupts | order, delivery and new IDs over the wrap and over partners, one timer |
| `link_preempted` | 1 retry, 1 message each way, 1 loss, 1 cable packet, 1 reset, late interrupts, main loop sends | a busy controller keeps its wake-up, `TransmissionEnds` under fairness |
| `sink` | 2 sources (a second fixed supply, a PPS, an object that is skipped), wishes on and between the units, preferred voltages, 2 polls before a reset, 3 plugs, 1 reset, source silent until reset | the sink's properties of polls, requests and contracts, `SourceIsFound` under fairness |
| `sink_preempted` | the same sources; interrupts between the statements, 1 loss, 1 offer, 1 rejection, source answers | polling goes on and the application knows |
| `stepper` | profile of 3 segments, positions shorter and longer than the ramps, 3 calls | heads for the target, speeds of the profile, target reached |
| `stepper_preempted` | 2 calls, interrupts between the statements | violation of `TowardTarget`, see below |
| `axis` | track of 5 steps, stepper profile of 2 segments, 2 driver calls, 3 moves, 1 fault of any kind, 1 restart, ticks up to 1 late | five properties of the axis, `HomingEnds` under fairness |
| `loadcell` | 2 bits, 3 readings, orders that alternate, repeat, are single or empty, 2 breaks | type, readings of the right input, the last value, averages |
| `codec` | every start of packet, all nibbles, 2 frames of which one may be damaged at any edge, 2 kinds of glitch, chunks of 13 and 60, caller discards in each gap | every intact message reported, nothing else |
| `modbus` | 2 holding registers, 2 requests, one of them disturbed | five properties of both servers, liveness under fairness |

The bounds are large enough for what the properties are about to happen: the clock and the message
IDs wrap (three messages with two IDs), the array gets full and traps, retries run out, polls escalate, a move is changed while
it accelerates, cruises and decelerates, the two servers write the same registers in turn, a homing
fails in each of its transfers and is restarted in each phase, moves after it go to and fro over
the track, pulses break off at each bit, chunks cut a frame at each edge. Five steps of track are
longer than the travel to the opposite side, so that a homing starts on the stop, near it and far
from it. Two bits of a conversion have a sign, a value and an inversion of order. In the
mutants of `PROJECT.json` each property is violated under the same bounds. `CHECK_DEADLOCK` is off in
all runs but `loadcell` because each of these systems may rest: an empty queue, an axis at its target, a
used-up budget of calls, losses or requests.

### Disagreements with the code's own statements

Two runs expect a violation of one property, each a statement of the code's own comments:

* `scheduler_zero`, `TasksAreExecuted`: the time of the first task may come between the test and the second
  `now()` (`TaskScheduler.cpp:226`); the timer is started with the period 0, never fires, and the task waits for
  somebody's next call.
* `stepper_preempted`, `TowardTarget`: an update interrupt within `GotoPosition` can let an axis start on its
  target and run away (`sigmoid_stepper.hh:144`).

The other disagreements are no runs of their own. TLC shows each with the constants given here and the remaining ones
as in the cfg named first:

| cfg | property | constants | what the code does |
|---|---|---|---|
| `scheduler` | `NeverEarly` without its exception | as they are | a delay above 0xfff0000 us, 268 s, counts as past (`TaskScheduler.cpp:78`) and the task runs at once; `TaskScheduler.h:18` says slightly more than an hour |
| `link` | `ConfirmedIsHandedOver` | `IdMod = 8`, `MaxMessages = 2`, `MaxPlugs = 3`, no sends, losses, cable packets or resets | message IDs survive a detach (`PDController.cpp:244`); the next partner's first message may be acknowledged and dropped |
| `link` | `TransmissionEnds` with `FairSpec` | `IdMod = 8`, `MaxSends = 1`, `MaxPlugs = 2`, nothing else | a detach in a transmission leaves the controller busy for good (`PDPhySTM32UCPD.cpp:322`) |
| `sink` | `RequestsNameASupply` | `Answers = TRUE`, `MaxPlugs = 1` | two PS_RDYs double the repetition task (`PDSink.cpp:247`), of which a reset cancels one; the other sends a request with the object 0 (`PDSink.cpp:256`) |
| `sink` | `PpsKeptAlive` | `Answers = TRUE`, `MaxRequests = 2`, `MaxRejects = 1`, `MaxResets = 0`, `MaxPlugs = 1` | the repetition of a PPS request ends with the next request, even if that is rejected (`PDSink.cpp:133`) |
| `sink` | `ActiveIsContract` | `Preemptible = TRUE` | an answer may come before the request is noted down (`PDSink.cpp:128`) |
| `modbus` | `OnlyRequestsWrite` | `HoldingMaxIndex = 5`, `TcpRequests <- ToCutClient`, `Cuts = {13}`, `MaxFaults = 0` | each TCP packet is taken for a request (`modbus_tcp_server.hpp:174`), so also the rest of one that was refused because it came in two; it writes what nobody asked for |
| `axis` | `SuccessIsTrue` | `WriteFaults = {}` | initialisation reports success after a failed read of `CHOPCONF` (`tmc2209.cpp:92`) and writes it with fields that are not the chip's |
| `axis` | `MotorStops` | `WriteFaults = {"failed"}` | the failure of the write that stops the motor at the end of a homing is ignored (`tmc2209.cpp:860`) |
| `codec` | `NoneMissed` | `Discards = FALSE` | after an irregular pulse at the beginning of a preamble the decoder keeps its half bit (`PDMessageDecoder.cpp:125`) and misses every later message until someone calls `discardMessage`, which nothing in the repository does |

`ConfirmedIsHandedOver`, `RequestsNameASupply`, `OnlyRequestsWrite`, `SuccessIsTrue` and `MotorStops` stand in
the modules for this: they are what the comments say, and the runs check the same with exceptions just as wide as
the defects: a period of 0 for a due task, a delay beyond the limit, an ID of an earlier partner, an object of 0,
the rest of a cut request, a `CHOPCONF` that is not the chip's. The comment of each property names its exceptions.
The remaining three are kept out by the inputs of the runs: a detach in `link_preempted`, a
rejection of what is offered in `sink`, a caller that does not discard in `codec`.

Others were met while modelling:

* USB PD: a message given up is not reported although `PDController.h:57` has an event for failed
  transmissions; it is raised only when another message than the GoodCRC comes in (`PDController.cpp:217`).
  `requestPower` fails for a fixed supply with too high a current without trying a PPS one
  (`PDSink.h:91`). `TryRequestPreferredVoltages` takes a voltage that only a battery or variable
  supply has, for which no request is built, and tries no other (`PDSink.cpp:78`). The buffer size in the comment at `PDMessageEncoder.h:20` is too small. A call
  of the decoder that ends early leaves the last time stamp of an earlier chunk
  (`PDMessageDecoder.cpp:157`).
* Modbus: a frame whose byte count was garbled, or with an unknown function, is answered before its
  CRC is looked at (`modbus_rtu_server.hpp:167`, against the comment at `:268`), and what follows of it
  spoils the next request. TCP responses to functions 3, 4 and 6 are one byte too long and
  exceptions carry a length one too small (`modbus_tcp_server.hpp:228`, `:271`, `:326`, against `:311`).
* Stepper: a move of one to two ramps stops from a higher speed; `GotoPosition` to the position just
  passed does not end the move in progress.
* TMC2209: when the first travel cannot be started, `StartHomingNonBlocking` returns with SpreadCycle on. A
  second one during a homing, if its first step fails, declares the axis Idle (`:780`).
  `ShaftTurnReversed` reports success for a write that failed. The tuning goes on with what
  a failed read of `PWM_AUTO` left in its variable.
* HX711: the initialiser sets only the first place of the ring (`hx711.hh:50`), the others enter the
  average as 0. After a transfer that timed out the next two results may be of another input. The first
  result of the SPI driver is of the mode the chip starts with.

## 4. Fairness

* `TaskScheduler`: weak fairness of the code's steps, the timer and the interrupt, since the code runs to
  completion; strong fairness of the clock, which does not stop while code runs.
* `PDController`: weak fairness of the interrupt handlers with the expiring timer (`Software`) and of the
  transmitter and the line (`Hardware`). The partner and the clients need do nothing, and losses are not
  fair.
* `PDSink`: weak fairness of the main loop, which calls `Loop()` for ever, of due tasks and of the source's
  answers; strong fairness of the link layer, which a poll or an arriving message disables for a moment
  again and again although it finishes every transmission within milliseconds.
* `SigmoidStepper`: weak fairness of the main loop within `GotoPosition`, and of the interrupt
  while the timer is enabled.
* `MotorAxis`: weak fairness of the driver's steps (each transfer has a timeout, and the caller calls
  `TickHoming` again and again), of time, of the statements of `GotoPosition` and of the interrupt. Faults
  and restarts are not fair.
* `LoadCell`, `PDMessageCodec`: none, only safety.
* `Modbus`: weak fairness of each server's thread. Clients need do nothing.

## 5. Proofs

Every theorem holds for all values of the constants that satisfy the named assumptions of the module;
what else it assumes stands in its statement and below. Before each invariant was proved, TLC had
checked it on the runs' instances.

| module | theorem | property | besides the module's assumptions |
|---|---|---|---|
| `TaskScheduler_proof` | `TypeCorrect` | `TypeOK` | |
| | `NothingRunsEarly` | `NeverEarly` | |
| | `WakeupsAreLostOnlyByZero` | `NoLostWakeup` | |
| | `SchedulerImplementsTimerQueue`, `IdsStayUnique` | `ImplementsTimerQueue` | |
| `PDController_proof` | `LinkTypeCorrect` | `TypeOK` | |
| | `BusyHasWakeup` | `TransmissionHasWakeup` | at most one attach |
| | `TimerIsForWaiting` | `TimerMeansWaiting` | prompt interrupts, no sends from the main loop |
| | `DeliveryIsInOrder` | `DeliveredInOrder` | the same |
| | `NewMessagesAreNew` | `NewMessageIsNew` | the same |
| | `ConfirmedIsDelivered` | `AckedIsDelivered` | the same |
| `PDSink_proof` | `SinkTypeCorrect` | `TypeOK` | |
| | `PollingNeverStops` | `PollingGoesOn` | |
| | `OneChainOfPolls` | `PollsOnce` | |
| | `ApplicationIsTold` | `ApplicationKnows` | |
| | `OnlyOffersAreRequested` | `RequestsAreOffered` | no preemption; until an offer changes (`AsOffered`) |
| | `ActiveIsTheContract` | `ActiveIsContract` | no preemption, `Repeatable`; until something is lost, rejected or changed (`Undisturbed`, below) |
| | `OnlyDisturbancesEndPps` | `PpsKeptAlive` | the same |
| `SigmoidStepper_proof` | `StaysOnCourse` | `TowardTarget` | no preemption |
| | `SpeedStaysInProfile` | `SpeedInProfile` | no preemption, `Descending` (below) |
| `MotorAxis_proof` | `AxisStaysOnCourse` | `TowardTarget` | no preemption |
| | `AxisTypeCorrect` | `AxisTypeOK` | |
| | `MotorDoesAsAsked` | `MotorObeys` | |
| | `HomingLeavesQuiet` | `QuietAfterHoming` | |
| | `PositionStaysTrue` | `PositionIsTrue` | no preemption, positions on the track |
| `LoadCell_proof` | `CellTypeCorrect` | `TypeOK` | |
| | `ReadingsAreOfTheirInput` | `ReadingIsOfInput` | |
| | `LastReadingIsLatest` | `LastIsLatest` | |
| | `AverageLiesAmongReadings` | `AverageIsOfReadings` | |
| `Modbus_proof` | `NoRequestIsForgotten` | `NoneForgotten` | |
| | `SilenceWritesNothing` | | |
| | `WritesAreAskedFor` | `AskedFor` | `Undisturbed` (below) |
| | `AnswersAreTrue` | `AnswerIsTrue` | the same |
| | `WritesAreConfirmed` | `OnlyConfirmedWrites` | the same |

* **TaskScheduler.** `TypeCorrect` proves `TypeOK` with `QueueInv` (the timer is restarted only for a
  queued task, nothing is queued before `start`). `NothingRunsEarly` rests on `TimesFaithful`: the
  difference of wrapped times equals the true time to go as long as that is not negative. The
  array's times alone are not inductive, the history `left` makes them so. `WakeupsAreLostOnlyByZero`: with items
  queued and no code running, the timer counts or its interrupt is pending, or it was started with the
  period 0 while the first task was due. That the exception is no wider is what `TimesFaithful` gives: a
  difference of 0 can only be a time that has come.
  `SchedulerImplementsTimerQueue` proves the refinement step by step, with `IdsStayUnique` so that the
  set of the array's items loses nothing. Since each abstract step but an execution and the passing of time shows
  the call it belongs to, it follows that nothing else adds or removes a task. A task
  whose time is farther ahead than the expiry limit may be executed at once, in the abstract queue as in the code.
* **PDController.** The invariant `IInv` adds to the type the slot being filled (`GoodSlot`), a reset
  that leaves nothing busy (`ResetIsIdle`) and a transmitter that really has a packet on the wire
  (`SendingIsOnWire`); with at most one attach it also says that there is a wake-up for a busy
  controller, with late interrupts and a main loop that sends. A detach in a transmission
  takes the wake-up away, so `MaxPlugs <= 1` cannot be dropped.
  The other four properties concern the code as it is meant to be called: interrupts are served
  promptly and everything is sent from handlers (`~LateIsr`, `~ThreadSends`). `Prompt` says what that
  gives: at most one flag besides the attach is set, and between handlers the controller is in one of
  three states (`Settled`): idle, a transmission requested, or waiting for a GoodCRC with one timer. On it
  stand three invariants, each with the lemmas that say what every handler does to the fields. `InOrder`: the
  last message handed over, the one kept for delivery and the partner's current one are in this
  order, and what is on the line or in the receive buffer is the partner's current message or a
  repetition that will be recognised. It holds even when IDs wrap around. `Fresh` (`Numbered`): as
  long as fewer than `IdMod` messages have followed the one the partner heard last, the ID of our current message is
  as far from that one's as the messages are, or has wrapped around once. `Answered`: a GoodCRC on its way to the partner
  belongs to a message that is delivered or kept for delivery, and (`Remembered`) the same distance of IDs and messages
  holds between what the controller heard last and the partner's current message.
  The numbers of messages, partners and resets are not bounded by anything. What IDs of a few bits cannot tell
  apart is excepted in the two properties, and it happens in the run `link`: a message after `IdMod - 1`
  others that were all missed, in either direction, and the first message of a partner with the ID that an earlier
  one used last. `DeliveredInOrder` fails with late interrupts, where the receive buffer is overwritten.
* **PDSink.** `Inv` is the type, `PollsOnce`, `PollingGoesOn` and `ApplicationKnows` together with
  one more fact, that a message being confirmed is still in the source's queue. No part is
  inductive alone: polling goes on because each handler that cancels a task schedules one, and there is
  one chain because it cancels before. It holds for every preemption.
  `OnlyOffersAreRequested` adds `OffersKnown`: what the sink knows is what parsing the attached source's
  offers gives, and each request on its way fits them. That an object built from
  parsed capabilities fits its offer, in units, rounding and position, is the lemma of
  `PDSourceCapability_proof`; it treats positions of the filtered list through the least number that satisfies
  a condition, whose existence comes from the well-founded order of the numbers. Losses,
  rejections and resets may happen as they like. A source that changes its offers while a request made of the old ones is under
  way, or an interrupt within `requestPower`, makes the property false; so the theorem holds until the first such
  change. Requests with the object 0, which the repetition can send, are excepted by the property.
  `ActiveIsTheContract` and `OnlyDisturbancesEndPps` add `ContractInv`. Its heart, `Settled`, follows one agreement
  through the four places it passes: the request being sent, else the one the source has, else its PS_RDY, else
  the contract itself; in each of them what the sink has noted down (`requested`, `ppsIndex`) is what the source
  will supply by it (`Serves`). A handler may overtake (new capabilities while an older request is with the
  source, a repetition while PS_RDY is on its way), and then the place before is the one that counts. `Undisturbed`
  says what has not happened so far: nothing lost or cut short, nothing rejected that was
  offered, no offer changed; resets, attachments and wishes come at any time. The repetition of a PPS contract thus ends by
  one of these three only, and by each of them: with one loss, one rejection or one changed offer and a source that
  answers, TLC finds `PpsKeptAlive` violated, with preemption `ActiveIsContract`. `Repeatable` says that a request which can be made can be made again of what it was rounded to,
  and is no matter of course: a wish of 4995 mV at 5 A served by a programmable supply becomes 5000 mV, and
  the repetition finds the fixed 5 V supply with too small a current (`PDSourceCapability.cpp:56`) and sends the
  object 0. That the second rounding changes nothing, of voltage, current or kind of supply, is
  `RepeatLemma`; that 5 V can always be repeated is proved (`FiveVolts`), not assumed. The wishes and sources of
  the run `sink` satisfy both.
* **SigmoidStepper.** `StaysOnCourse` proves `TowardTarget` without preemption for every profile. The
  invariant adds `Planned`: which of target, direction and phase already belong to the new
  move at each statement of `GotoPosition`.
  `SpeedStaysInProfile` adds `Paced`: the period is the sum of the gains of the segments done and of the steps
  done of the current one, counted from the front while accelerating and from the back while decelerating
  (`Rising`, `Falling`), so that the deceleration retraces the acceleration. `Descending` asks of
  the profile that each segment has a step and does not lengthen the period; the tables of both generated headers
  (`sigmoid_acceleration_profile_100_1000_5_160mhz.hh:24`, `..._170mhz.hh:24`) and the run's profile
  do. A segment of no steps would be walked for one, since the count is compared afterwards
  (`Advance`), and the speed would leave the profile.
* **MotorAxis.** Each step of the axis is one of the stepper's,
  leaves the stepper alone, or is a restart, which starts it again; so the stepper's invariant
  carries over with its lemmas. For the driver the invariant speaks of the script that is still to do, as a
  word over kinds of transfers: those that do not write the speed (`Silent`), those whose failure
  is ignored (`Forgiving`), both (`Calm`), and those that do not enter the failure of a homing (`Plain`). A
  script is `Steady` for a speed if it writes this one only, `Firm` if it reaches that write
  whatever fails before, and `EndsHushed` if it certainly ends with SpreadCycle switched off. `ScriptInv` says which
  of these the rest of each method is in each phase, compared with what was asked for; a transfer takes
  the head of the word, so each kind needs only the lemma on its tail. `MotorDoesAsAsked` and
  `HomingLeavesQuiet` follow when the word is empty.
  `PositionStaysTrue` ends the chain from the stop to the stepper's counter. `ReferenceInv` adds to the
  scripts where the carriage is: on its way while the motor is driven, at the stop once the load can be
  trusted (`SgSettling` after the start, with the age of the time a tick carries) or once `DeadTime` has
  passed, and in step with the stepper from `SetCurrentPosition` on, since a pulse moves it unless the chip's own
  generator runs or it is at an end. It holds for StallGuard and for the dead time alike, for each of the
  directions, and for restarts at any point, after which nothing is claimed until the next homing. Three things
  are excepted by the property itself: a write that got lost without notice (`clean`), a last write of the speed that has
  not gone well, and a `CHOPCONF` whose other fields are not the chip's since a read of it failed
  (`tmc2209.cpp:92`), with which the motor need not follow.
* **LoadCell.** `CellInv` adds `Aligned`: one unbroken cycle after a break the chip is at its first bit, and
  after two it is in the mode the driver believes; and `Sourced`: whatever is shown has been read.
  The lemma `ValueType` shows that filling the missing byte with the sign and dividing the word
  shifted to the top give the same signed number. For the ring, a step writes at `at` and moves on, so
  that the place before is the latest, also when it has gone round. `AverageLiesAmongReadings` adds `RingKept`, the
  same of each of the last readings: number `i`, counted from the newest, is `i` places back (`Place`). What is summed up are
  then exactly their values; that the sum lies between its least and greatest term times their number is
  `SumBounds`, and that division towards zero keeps the quotient between them, `QuotientBounds`.
* **Modbus.** For the serial line (`LineInv`): as long as an undisturbed request to the slave is
  awaited, buffer and line together are its frame. `FrameParsed` shows for every request that a
  proper prefix of its frame is found incomplete, never invalid and never a shorter frame, and the whole one is
  accepted; the check sum may be any function, since both sides compute it of the same bytes. `ChunkTaken`
  shows that a chunk moves bytes from the line to the buffer and keeps their
  concatenation. For TCP (`ConnectionInv`): the whole request is the last packet on its way, or is served
  under its transaction, or the server is about to close the connection.
  `SilenceWritesNothing` holds whatever the line garbles: a master without an answer has written nothing,
  since each job that touches a register is answered. The other three say that the servers
  agree with their clients on what was asked. Their invariant `WholeInv` follows each request from the
  client through the bytes and the job to the answer, and says of the registers that each written since is one
  a pending or confirmed request asked for; both servers write them in turns, one register at a time, so a
  value read belongs to the span between request and answer and not to one moment. `Undisturbed` excludes
  faults on the line and split TCP packets, and lets serial requests come in pieces when they are well
  formed (a known function, this slave, a count that fits the values); those for another slave or with an unknown
  function come whole. With the run's chunks of 5 and 9 bytes its reads and writes satisfy that, with chunks
  as long as a frame all of its requests do. It is needed: the bytes that follow a frame refused early are taken
  for a request of their own, and what they ask for depends on the values (below). The exception that the properties
  make for the rest of a cut request never occurs on such connections (`NoRestIsServed`).
* **Recursion.** The periods of the profile and the sum of the readings are defined by recursion. The library's
  induction theorems cannot be used, since they take an operator; their well-foundedness of the numbers
  can. So `ProfileFunction`, `Descent`, `SumExists` and `SumBounds` look at the least segment, or the smallest set,
  for which the claim fails (`LeastNumber`).

Not proved, only model-checked:

* Liveness and fairness (`QueueDrains`, `TransmissionEnds`, `SourceIsFound`, `TargetReached`, `HomingEnds`,
  `EveryoneServed`): beyond this prover.
* `OnlyWhatWasSent`, `NoneMissed`: the first is not true of every constant, since a check sum finds most damages
  but not all; the second would carry each bit of a frame through the encoder's folds, its edges and the
  decoder's states, with no invariant simpler than the frame itself.
* `AskedFor`, `OnlyConfirmedWrites`, `AnswerIsTrue` on disturbed connections: not true of every constant. They
  depend on what the bytes of a disturbed request look like: a multiple write cut after 13 bytes is refused and its
  rest taken for a request of its own, so with values that read as a header and a write of a register
  (`ToCutClient` in `ModbusMC`) a refused request has written. `RestsAreHarmless` tells such requests from others; those of the run
  `modbus` are harmless, and the properties except the rest. The same goes for what follows a frame refused early on the serial
  line, where `FramesAreSingle`, which `ModbusMC` assumes, excludes requests that contain another frame.

## 6. Plan

Done: 1 scheduler with its abstraction and proofs; 2 link layer with proofs; 3 sink, with
capabilities and requests; 4 stepper with proof; 5 Modbus; 6 TMC2209 and the axis; 7 load cell;
8 encoder and decoder; 9 proofs for all of them but the decoder.

Next, in this order:

10. Proof that `PDController` implements the link `PDSink` relies on.
11. Framing of the TCP server's stream, the second request in a packet, and the order of chunks after
    an early exception of the RTU slave.
12. The scheduler's array statement by statement under preemption by its own interrupt.
13. The rings of the event log and of received messages; the multi-line blocks of `log.c`.

## 7. Not modelled

* Formatting (`PDProtocolAnalyzer`, the tables of capabilities and registers for the log), generated GPIO
  tables, the TinyUSB port, register set-up of peripherals and DMA: no control that a model could get
  wrong.
* LED patterns, I2C and timer helpers: single register accesses and arithmetic on times.
* The monitor mode of the PD controller and its rings; the multi-line log blocks; a second Modbus TCP
  client in the queue and failing calls of the network stack: planned (section 6) or without a property of
  their own.
* The fields of the TMC2209's registers that nothing depends on, and its UART framing.
