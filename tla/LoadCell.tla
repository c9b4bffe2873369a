------------------------------ MODULE LoadCell ------------------------------
(***************************************************************************)
(* The two drivers of an HX711 load cell amplifier: hx711/hx711_gpio.hh,   *)
(* which clocks the chip by hand and takes turns between its inputs, and   *)
(* hx711/hx711.hh, which clocks it with the data line of an SPI and keeps  *)
(* the last readings of one input.                                         *)
(*                                                                         *)
(* The chip shifts out Width bits of a conversion; the number of pulses    *)
(* after them selects the input and gain of the next one.  A restart or a  *)
(* timeout may stop a driver in the middle of the pulses.                  *)
(***************************************************************************)
EXTENDS Integers, Sequences, FiniteSetsExt

CONSTANTS
  Width,      \* bits of a conversion
  Readings,   \* AVERAGE_OVER_READINGS
  Orders,     \* readout_order; the SPI driver knows one mode
  MaxCuts     \* bound: pulses that are broken off

ASSUME LoadCellAssumption ==
  /\ Width \in Nat \ {0} /\ Readings \in Nat \ {0} /\ MaxCuts \in Nat
  /\ Orders \subseteq Seq({"A128", "B32", "A64"})

(* What the proofs need of powers, which is true of every Width.           *)
ASSUME PowersAssumption ==
  \A i, j \in 0 .. Width + 8 : 2 ^ i > 0 /\ 2 ^ (i + j) = 2 ^ i * 2 ^ j

VARIABLES
  cell,      \* the driver
  chip,      \* the HX711
  history    \* where the readings come from

vars == <<cell, chip, history>>

Modes == {"A128", "B32", "A64"}
Inputs == {"A", "B"}
Input(mode) == IF mode = "B32" THEN "B" ELSE "A"

modeToPulseCount(mode) == CASE mode = "A128" -> 1 [] mode = "B32" -> 2 [] mode = "A64" -> 3

Raw == 0 .. 2 ^ Width - 1
Unset == -(2 ^ Width)    \* INT32_MIN: no conversion has this value
Value == -(2 ^ (Width - 1)) .. 2 ^ (Width - 1) - 1

Cell ==
  [wiring : {"GPIO", "SPI"},
   state : {"WAIT_FOR_DATA_READY", "ERROR"},
   order : Orders,
   index : Int,                                \* current_readout_index
   last : [Inputs -> Value \union {Unset}],    \* channelA_last_reading, channelB_...
   ring : [1 .. Readings -> Value \union {Unset}],    \* readings_buffer
   at : 0 .. Readings - 1]                     \* current_reading_index

Chip == [mode : Modes, ready : BOOLEAN, raw : Raw, shifted : 0 .. Width]

Source == [mode : Modes, value : Value, trusted : BOOLEAN]

History == [doubt : 0 .. 2, cuts : 0 .. MaxCuts, source : [Inputs -> Seq(Source)]]

TypeOK ==
  /\ cell \in Cell /\ cell.index \in -1 .. Len(cell.order) - 1
  /\ chip \in Chip
  /\ history \in History

----------------------------------------------------------------------------
(* The chip. *)

(* The line while bit number chip.shifted is on it; low: data is ready.    *)
Dout ==
  IF chip.shifted = 0 THEN ~chip.ready
  ELSE (chip.raw \div 2 ^ (Width - chip.shifted)) % 2 = 1

(* What the first Width pulses read: after the last bit the line is high.  *)
Sampled == ((chip.raw + 1) * 2 ^ chip.shifted - 1) % (2 ^ Width)

(* The input for each number of pulses; too many are not specified.        *)
Selected(pulses) ==
  LET named == {mode \in Modes : modeToPulseCount(mode) = pulses - Width}
  IN  IF named = {} THEN Modes ELSE named

Clocked(pulses) ==
  LET total == chip.shifted + pulses
  IN  IF total <= Width
      THEN {[chip EXCEPT !.shifted = total]}
      ELSE {[chip EXCEPT !.shifted = 0, !.ready = FALSE, !.mode = mode] : mode \in Selected(total)}

(* A clock that stays high switches the chip off, and low again resets it. *)
PoweredUp == [chip EXCEPT !.shifted = 0, !.ready = FALSE, !.mode = "A128"]

Convert ==
  /\ \E raw \in Raw : chip' = [chip EXCEPT !.ready = TRUE, !.raw = raw, !.shifted = 0]
  /\ UNCHANGED <<cell, history>>

----------------------------------------------------------------------------
(* The functions of the drivers. *)

Quotient(a, b) == IF a >= 0 THEN a \div b ELSE -((-a) \div b)    \* as in C

(* GPIO: the missing byte is filled with the sign. *)
SignExtended(raw) == IF raw >= 2 ^ (Width - 1) THEN raw - 2 ^ Width ELSE raw

TopAlignedUnsigned(raw) == (raw * 2 ^ 8) \div 2 ^ 8    \* variant: not reinterpreted

(* SPI: shifted to the top of a word, reinterpreted, and divided.          *)
TopAligned(raw) ==
  LET word == raw * 2 ^ 8
  IN  Quotient(IF word >= 2 ^ (Width + 7) THEN word - 2 ^ (Width + 8) ELSE word, 2 ^ 8)

NextIndex(c) == (c.index + 1) % Len(c.order)

(* Variant: the result is taken to be of the mode that is just requested.  *)
ModeJustRequested(c) == c.order[NextIndex(c) + 1]

(* The pulses of a cycle select the input of the next one. *)
ModeForResult(c) == c.order[c.index + 1]

updateLastReading(c, mode, value) == [c EXCEPT !.last[Input(mode)] = value]

(* Variant: no modulo. *)
BufferedUnwrapped(c, value) == [c EXCEPT !.ring[c.at + 1] = value, !.at = @ + 1]

Buffered(c, value) == [c EXCEPT !.ring[c.at + 1] = value, !.at = (@ + 1) % Readings]

LatestAt(c) == c.ring[c.at + 1]    \* variant: the place that is written next

getLastRawValue(c) == c.ring[((c.at + Readings - 1) % Readings) + 1]

Used(c) == {i \in 1 .. Readings : c.ring[i] # Unset}

getAverageRawValue(c) ==
  Quotient(MapThenSumSet(LAMBDA i : c.ring[i], Used(c)), Cardinality(Used(c)))

----------------------------------------------------------------------------
Constructed(wiring, order) ==
  [wiring |-> wiring, state |-> "ERROR", order |-> order, index |-> -1,
   last |-> [i \in Inputs |-> Unset],
   ring |-> [i \in 1 .. Readings |-> IF i = 1 THEN Unset ELSE 0],    \* the others are zero
   at |-> 0]

NoSource == [i \in Inputs |-> <<>>]

Init ==
  /\ \E order \in Orders :
        \/ cell = Constructed("GPIO", order)
        \/ Len(order) = 1 /\ cell = Constructed("SPI", order)
  /\ chip = [mode |-> "A128", ready |-> FALSE, raw |-> 0, shifted |-> 0]
  /\ history = [doubt |-> 1, cuts |-> 0, source |-> NoSource]

(* The GPIO driver forgets its readings. *)
Setup ==
  /\ cell' = IF cell.order = <<>> THEN [cell EXCEPT !.state = "ERROR"]
             ELSE IF cell.wiring = "SPI" THEN [cell EXCEPT !.state = "WAIT_FOR_DATA_READY"]
             ELSE [Constructed("GPIO", cell.order) EXCEPT !.state = "WAIT_FOR_DATA_READY"]
  /\ history' = IF cell.wiring = "SPI" THEN history ELSE [history EXCEPT !.source = NoSource]
  /\ UNCHANGED chip

DataReady == cell.state = "WAIT_FOR_DATA_READY" /\ ~Dout

Recovered == [history EXCEPT !.doubt = IF @ = 0 THEN 0 ELSE @ - 1]

(* The last readings that are in the driver, newest first.  One is to be   *)
(* trusted unless it is the first since the chip was reset, or one of the  *)
(* first two since the pulses were broken off.                             *)
Noted(input, depth) ==
  LET source == [mode |-> chip.mode, value |-> SignExtended(chip.raw),
                 trusted |-> history.doubt = 0]
      all == <<source>> \o history.source[input]
  IN  [Recovered EXCEPT !.source[input] = SubSeq(all, 1, Min({Len(all), depth}))]

(* loop of hx711_gpio.hh: reads a result, requests the next mode; the      *)
(* first result after setup is nobody's.  Interrupts are masked.           *)
LoopGpio ==
  /\ cell.wiring = "GPIO" /\ DataReady
  /\ chip' \in Clocked(Width + modeToPulseCount(cell.order[NextIndex(cell) + 1]))
  /\ IF cell.index >= 0
     THEN LET mode == ModeForResult(cell)
          IN  /\ cell' = [updateLastReading(cell, mode, SignExtended(Sampled))
                            EXCEPT !.index = NextIndex(cell)]
              /\ history' = Noted(Input(mode), 1)
     ELSE /\ cell' = [cell EXCEPT !.index = NextIndex(cell)]
          /\ history' = Recovered

(* loop of hx711.hh, when the transfer succeeds. *)
LoopSpi ==
  /\ cell.wiring = "SPI" /\ DataReady
  /\ chip' \in Clocked(Width + modeToPulseCount(cell.order[1]))
  /\ cell' = Buffered(cell, TopAligned(Sampled))
  /\ history' = Noted("A", Readings)

(* The pulses stop somewhere, with the clock low or high. *)
Cut(kept) ==
  /\ history.cuts < MaxCuts
  /\ DataReady
  /\ \E pulses \in 1 .. Width + 2 :
        \/ /\ chip' \in Clocked(pulses)
           /\ history' = [kept EXCEPT !.cuts = @ + 1, !.doubt = 2]
        \/ /\ chip' = PoweredUp
           /\ history' = [kept EXCEPT !.cuts = @ + 1, !.doubt = 1]

(* The transfer of hx711.hh takes too long: it is tried again next time.   *)
TransferTimesOut == cell.wiring = "SPI" /\ Cut(history) /\ UNCHANGED cell

(* The microcontroller restarts, in the middle of a cycle or between two.  *)
Restart ==
  /\ cell' = Constructed(cell.wiring, cell.order)
  /\ LET forgotten == [history EXCEPT !.source = NoSource]
     IN  Cut(forgotten) \/ (history' = forgotten /\ UNCHANGED chip)

Next ==
  \/ Setup \/ LoopGpio \/ LoopSpi
  \/ Convert \/ TransferTimesOut \/ Restart

Spec == Init /\ [][Next]_vars

----------------------------------------------------------------------------
(* Properties. *)

(* The reading that an input of the GPIO driver shows is a conversion of   *)
(* this input, with a gain the caller has asked for: from the second cycle *)
(* on, or the third when a restart has broken off the pulses.              *)
ReadingIsOfInput ==
  \A input \in Inputs : cell.wiring = "GPIO" /\ cell.last[input] # Unset =>
    LET source == Head(history.source[input])
    IN  source.trusted =>
          /\ cell.last[input] = source.value
          /\ Input(source.mode) = input
          /\ \E i \in DOMAIN cell.order : cell.order[i] = source.mode

(* The last value of the SPI driver is the latest conversion, of the mode  *)
(* it was made for.                                                        *)
LastIsLatest ==
  LET sources == history.source["A"]
  IN  cell.wiring = "SPI" /\ sources # <<>> /\ Head(sources).trusted
        => /\ getLastRawValue(cell) = Head(sources).value
           /\ Head(sources).mode = cell.order[1]

(* The average of the SPI driver lies among the last readings.             *)
(* Only when the buffer has been filled: its unused places are not marked, *)
(* but the first (hx711.hh:50), and count as zeros.                        *)
AverageIsOfReadings ==
  LET sources == history.source["A"]
      values == {sources[i].value : i \in DOMAIN sources}
  IN  cell.wiring = "SPI" /\ Len(sources) = Readings /\ (\A i \in DOMAIN sources : sources[i].trusted)
        => getAverageRawValue(cell) \in Min(values) .. Max(values)
=============================================================================
