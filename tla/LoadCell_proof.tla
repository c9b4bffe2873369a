--------------------------- MODULE LoadCell_proof ---------------------------
(***************************************************************************)
(* Proofs about LoadCell, for every width, order of the inputs and number  *)
(* of readings.  What is shown of the readings is not inductive: a reading *)
(* is of the mode that was requested a cycle before, if the chip has got   *)
(* all the pulses of that cycle and no others.                             *)
(***************************************************************************)
EXTENDS LoadCell, FiniteSetTheorems, SequenceTheorems, WellFoundedInduction, TLAPS

(* After one undisturbed cycle the chip waits with its first bit, and      *)
(* after two it is in the mode that the driver takes it to be in.          *)
Aligned ==
  /\ cell.state = "WAIT_FOR_DATA_READY" => cell.order # <<>>
  /\ cell.wiring = "SPI" => Len(cell.order) = 1
  /\ history.doubt < 2 => chip.shifted = 0
  /\ history.doubt = 0 /\ cell.wiring = "GPIO" /\ cell.index >= 0 => chip.mode = ModeForResult(cell)
  /\ history.doubt = 0 /\ cell.wiring = "SPI" => chip.mode = cell.order[1]

(* Each input that shows a reading has a source, and has been asked for. *)
Sourced ==
  \A input \in Inputs :
    cell.wiring = "GPIO" /\ cell.last[input] # Unset =>
      cell.order # <<>> /\ history.source[input] # <<>>

CellInv == TypeOK /\ Aligned /\ Sourced /\ ReadingIsOfInput /\ LastIsLatest

----------------------------------------------------------------------------
(* The operators. *)

(* What a conversion is read as, by either driver: the same value.         *)
LEMMA ValueType ==
  ASSUME NEW raw \in Raw
  PROVE  /\ SignExtended(raw) \in Value /\ TopAligned(raw) = SignExtended(raw)
<1> DEFINE half == 2 ^ (Width - 1)
<1>1. /\ half \in Int /\ half > 0
      /\ 2 ^ Width = 2 * half /\ 2 ^ (Width + 7) = 256 * half /\ 2 ^ (Width + 8) = 512 * half
      /\ 2 ^ 8 = 256
  <2>1. Width \in Nat \ {0}
    BY LoadCellAssumption
  <2>2. {0, 1, 8, Width - 1, Width, Width + 7} \subseteq 0 .. Width + 8
    BY <2>1
  <2>3. half \in Int /\ 2 ^ 1 = 2 /\ 2 ^ 8 = 256
    BY <2>1
  <2>4. half > 0
    BY <2>2, PowersAssumption
  <2>5. 2 ^ (1 + (Width - 1)) = 2 ^ 1 * half
    BY <2>2, PowersAssumption
  <2>6. 2 ^ (8 + (Width - 1)) = 2 ^ 8 * half
    BY <2>2, PowersAssumption
  <2>7. 2 ^ (8 + Width) = 2 ^ 8 * 2 ^ Width
    BY <2>2, PowersAssumption
  <2>8. 1 + (Width - 1) = Width /\ 8 + (Width - 1) = Width + 7 /\ 8 + Width = Width + 8
    BY <2>1
  <2>9. 2 ^ Width = 2 ^ 1 * half /\ 2 ^ (Width + 7) = 2 ^ 8 * half /\ 2 ^ (Width + 8) = 2 ^ 8 * 2 ^ Width
    BY <2>5, <2>6, <2>7, <2>8
  <2> HIDE DEF half
  <2> QED BY <2>3, <2>4, <2>9
<1>2. raw \in 0 .. 2 * half - 1 /\ raw \in Int
  BY <1>1 DEF Raw
<1>3. Value = -half .. half - 1
  BY DEF Value
<1> DEFINE word == raw * 256
           signed == IF word >= 256 * half THEN word - 512 * half ELSE word
           value == IF raw >= half THEN raw - 2 * half ELSE raw
<1>4. SignExtended(raw) = value
  BY <1>1 DEF SignExtended
<1>5. TopAligned(raw) = Quotient(signed, 256)
  BY <1>1 DEF TopAligned
<1> HIDE DEF half
<1>6. signed = 256 * value /\ value \in Int /\ value \in -half .. half - 1
  BY <1>1, <1>2
<1> HIDE DEF signed, value
<1>7. Quotient(256 * value, 256) = value
  <2>1. (256 * value) \div 256 = value /\ -(256 * value) = 256 * (-value) /\ (256 * (-value)) \div 256 = -value
    BY <1>6
  <2> QED BY <1>6, <2>1 DEF Quotient
<1> QED BY <1>3, <1>4, <1>5, <1>6, <1>7

(* The modes of an order.                                                  *)
LEMMA OrderType ==
  ASSUME NEW order \in Orders
  PROVE  /\ order \in Seq(Modes) /\ Len(order) \in Nat
         /\ \A i \in 1 .. Len(order) : order[i] \in Modes
         /\ order # <<>> => Len(order) > 0
<1>1. order \in Seq(Modes)
  BY LoadCellAssumption DEF Modes
<1> QED BY <1>1, LenProperties, ElementOfSeq, EmptySeq

(* The numbers of pulses are distinct.                                     *)
LEMMA PulseType ==
  /\ \A mode \in Modes : modeToPulseCount(mode) \in 1 .. 3
  /\ \A m, n \in Modes : modeToPulseCount(m) = modeToPulseCount(n) => m = n
<1>1. modeToPulseCount("A128") = 1
  BY DEF modeToPulseCount
<1>2. modeToPulseCount("B32") = 2
  BY DEF modeToPulseCount
<1>3. modeToPulseCount("A64") = 3
  BY DEF modeToPulseCount
<1> QED BY <1>1, <1>2, <1>3 DEF Modes

(* The chip before the first bit of a conversion, which is not ready.      *)
LEMMA BegunType ==
  ASSUME chip \in Chip, NEW mode \in Modes
  PROVE  /\ [chip EXCEPT !.shifted = 0, !.ready = FALSE, !.mode = mode] \in Chip
         /\ [chip EXCEPT !.shifted = 0, !.ready = FALSE, !.mode = mode].shifted = 0
         /\ [chip EXCEPT !.shifted = 0, !.ready = FALSE, !.mode = mode].mode = mode
<1> DEFINE no == FALSE
<1>1. 0 \in 0 .. Width /\ no \in BOOLEAN
  BY LoadCellAssumption
<1>2. no = FALSE
  OBVIOUS
<1> HIDE DEF no
<1>3. /\ [chip EXCEPT !.shifted = 0, !.ready = no, !.mode = mode] \in Chip
      /\ [chip EXCEPT !.shifted = 0, !.ready = no, !.mode = mode].shifted = 0
      /\ [chip EXCEPT !.shifted = 0, !.ready = no, !.mode = mode].mode = mode
  BY <1>1 DEF Chip
<1> QED BY <1>3 DEF no

(* A whole cycle brings the chip back to its first bit.  If it has begun   *)
(* there, the chip is in the mode that was requested.                      *)
LEMMA ClockedCycle ==
  ASSUME chip \in Chip, NEW mode \in Modes, NEW c \in Clocked(Width + modeToPulseCount(mode))
  PROVE  c \in Chip /\ c.shifted = 0 /\ (chip.shifted = 0 => c.mode = mode)
<1> DEFINE pulses == Width + modeToPulseCount(mode)
           total == chip.shifted + pulses
<1>1. Width \in Nat /\ modeToPulseCount(mode) \in 1 .. 3 /\ chip.shifted \in 0 .. Width
  BY LoadCellAssumption, PulseType DEF Chip
<1>2. ~(total <= Width)
  BY <1>1
<1>3. PICK m \in Selected(total) : c = [chip EXCEPT !.shifted = 0, !.ready = FALSE, !.mode = m]
  <2>1. c \in {[chip EXCEPT !.shifted = 0, !.ready = FALSE, !.mode = m] : m \in Selected(total)}
    BY <1>2 DEF Clocked
  <2> HIDE DEF total
  <2> QED BY <2>1
<1>4. m \in Modes
  BY <1>3 DEF Selected
<1>5. chip.shifted = 0 => m = mode
  <2> SUFFICES ASSUME chip.shifted = 0 PROVE m = mode
    OBVIOUS
  <2>1. total - Width = modeToPulseCount(mode)
    BY <1>1
  <2> HIDE DEF total
  <2>2. modeToPulseCount(m) = modeToPulseCount(mode)
    BY <1>3, <2>1 DEF Selected
  <2> QED BY <1>4, <2>2, PulseType
<1> QED BY <1>3, <1>4, <1>5, BegunType

(* Any number of pulses leaves it somewhere. *)
LEMMA ClockedType ==
  ASSUME chip \in Chip, NEW pulses \in Nat, NEW c \in Clocked(pulses)
  PROVE  c \in Chip
<1> DEFINE total == chip.shifted + pulses
<1>1. total \in Nat /\ Width \in Nat
  BY LoadCellAssumption DEF Chip
<1>2. CASE total <= Width
  <2>1. c = [chip EXCEPT !.shifted = total] /\ total \in 0 .. Width
    BY <1>1, <1>2 DEF Clocked
  <2> HIDE DEF total
  <2> QED BY <2>1 DEF Chip
<1>3. CASE ~(total <= Width)
  <2>1. PICK m \in Selected(total) : c = [chip EXCEPT !.shifted = 0, !.ready = FALSE, !.mode = m]
    BY <1>3 DEF Clocked
  <2>2. m \in Modes
    BY <2>1 DEF Selected
  <2> QED BY <2>1, <2>2, BegunType
<1> QED BY <1>2, <1>3

(* A chip that waits with its first bit is read as it has converted.       *)
LEMMA SampledWhole ==
  ASSUME chip \in Chip
  PROVE  Sampled \in Raw /\ (chip.shifted = 0 => Sampled = chip.raw)
<1> DEFINE n == 2 ^ Width
           word == (chip.raw + 1) * 2 ^ chip.shifted - 1
<1>1. n \in Int /\ Raw = 0 .. n - 1 /\ chip.raw \in 0 .. n - 1 /\ chip.shifted \in 0 .. Width /\ Width \in Nat
  BY LoadCellAssumption DEF Chip, Raw
<1>2. n > 0 /\ 2 ^ chip.shifted \in Int
  BY <1>1
<1>3. word \in Int
  BY <1>1, <1>2
<1>4. Sampled = word % n
  BY DEF Sampled
<1>5. chip.shifted = 0 => word = chip.raw
  <2> SUFFICES ASSUME chip.shifted = 0 PROVE word = chip.raw
    OBVIOUS
  <2>1. 2 ^ chip.shifted = 1
    <3>1. 2 ^ 0 = 1
      OBVIOUS
    <3> QED BY <3>1
  <2> QED BY <1>1, <2>1
<1> HIDE DEF word, n
<1>6. word % n \in 0 .. n - 1 /\ (word \in 0 .. n - 1 => word % n = word)
  BY <1>1, <1>2, <1>3
<1> QED BY <1>1, <1>4, <1>5, <1>6

(* The source of a reading is the first of its input.                      *)
LEMMA NotedType ==
  ASSUME TypeOK, NEW input \in Inputs, NEW depth \in Nat \ {0}
  PROVE  /\ Noted(input, depth) \in History
         /\ Noted(input, depth).doubt = IF history.doubt = 0 THEN 0 ELSE history.doubt - 1
         /\ Noted(input, depth).source[input] # <<>>
         /\ LET source == Head(Noted(input, depth).source[input])
            IN  /\ source.mode = chip.mode /\ source.value = SignExtended(chip.raw)
                /\ source.trusted <=> history.doubt = 0
         /\ \A other \in Inputs \ {input} : Noted(input, depth).source[other] = history.source[other]
<1> DEFINE trusted == history.doubt = 0
           source == [mode |-> chip.mode, value |-> SignExtended(chip.raw), trusted |-> trusted]
           all == <<source>> \o history.source[input]
           length == Min({Len(all), depth})
           kept == SubSeq(all, 1, length)
           doubt == IF history.doubt = 0 THEN 0 ELSE history.doubt - 1
<1>1. history \in History /\ history.source[input] \in Seq(Source) /\ history.doubt \in 0 .. 2
  BY DEF TypeOK, History
<1>2. source \in Source
  <2>1. SignExtended(chip.raw) \in Value /\ chip.mode \in Modes
    BY ValueType DEF TypeOK, Chip
  <2>2. trusted \in BOOLEAN
    OBVIOUS
  <2> HIDE DEF trusted
  <2> QED BY <2>1, <2>2 DEF Source
<1>3. /\ source.mode = chip.mode /\ source.value = SignExtended(chip.raw)
       /\ source.trusted = trusted
  <2> HIDE DEF trusted
  <2> QED OBVIOUS
<1> HIDE DEF source
<1>4. all \in Seq(Source) /\ Len(all) = 1 + Len(history.source[input]) /\ all[1] = source
  <2>1. <<source>> \in Seq(Source) /\ Len(<<source>>) = 1 /\ <<source>>[1] = source
    BY <1>2
  <2>2. Len(history.source[input]) \in Nat
    BY <1>1, LenProperties
  <2>3. /\ all \in Seq(Source) /\ Len(all) = Len(<<source>>) + Len(history.source[input])
        /\ \A i \in 1 .. Len(<<source>>) + Len(history.source[input]) :
              all[i] = IF i <= Len(<<source>>) THEN <<source>>[i]
                                             ELSE history.source[input][i - Len(<<source>>)]
    BY <1>1, <2>1, ConcatProperties
  <2> HIDE DEF all
  <2> QED BY <2>1, <2>2, <2>3
<1> HIDE DEF all
<1>5. length \in 1 .. Len(all) /\ Len(all) \in Nat
  <2>1. Len(all) \in Nat /\ Len(all) >= 1
    BY <1>1, <1>4, LenProperties
  <2> DEFINE shorter == IF Len(all) <= depth THEN Len(all) ELSE depth
  <2>2. /\ shorter \in {Len(all), depth}
        /\ \A y \in {Len(all), depth} : shorter <= y
        /\ \A x \in {Len(all), depth} : (\A y \in {Len(all), depth} : x <= y) => x = shorter
    BY <2>1
  <2>3. length = shorter
    BY <2>2 DEF Min
  <2> QED BY <2>1, <2>3
<1> HIDE DEF length
<1>6. kept \in Seq(Source) /\ kept # <<>> /\ Head(kept) = source
  <2>1. \A i \in 1 .. length : all[i] \in Source
    BY <1>4, <1>5, ElementOfSeq
  <2>2. /\ kept \in Seq(Source) /\ Len(kept) = length
        /\ \A i \in 1 .. length : kept[i] = all[i]
    BY <1>5, <2>1, SubSeqProperties
  <2> HIDE DEF kept
  <2> QED BY <1>4, <1>5, <2>2
<1> HIDE DEF kept
<1>7. Noted(input, depth) = [[history EXCEPT !.doubt = doubt] EXCEPT !.source[input] = kept]
  BY <1>1 DEF Noted, Recovered, History, kept, length, all, source
<1>8. doubt \in 0 .. 2
  BY <1>1
<1> HIDE DEF doubt
<1> DEFINE next == [history EXCEPT !.doubt = doubt]
<1>9. next \in History /\ next.doubt = doubt /\ next.source = history.source
  BY <1>1, <1>8 DEF History
<1> HIDE DEF next
<1>10. /\ [next EXCEPT !.source[input] = kept] \in History
      /\ [next EXCEPT !.source[input] = kept].doubt = doubt
      /\ [next EXCEPT !.source[input] = kept].source[input] = kept
      /\ \A other \in Inputs \ {input} :
            [next EXCEPT !.source[input] = kept].source[other] = history.source[other]
  BY <1>6, <1>9 DEF History
<1>11. source.trusted <=> history.doubt = 0
  BY <1>3
<1> HIDE DEF trusted
<1> QED BY <1>6, <1>7, <1>10, <1>11, <1>3 DEF next, doubt

(* A number that is not a reading. *)
LEMMA ZeroType == 0 \in Value /\ Unset \in Value \union {Unset}
<1> DEFINE half == 2 ^ (Width - 1)
<1>1. Width - 1 \in 0 .. Width + 8 /\ half \in Int
  BY LoadCellAssumption
<1>2. half > 0
  BY <1>1, PowersAssumption
<1>3. Value = -half .. half - 1
  BY DEF Value
<1> HIDE DEF half
<1> QED BY <1>1, <1>2, <1>3

(* The place of the next mode. *)
LEMMA NextIndexType ==
  ASSUME TypeOK, cell.order # <<>>
  PROVE  /\ NextIndex(cell) \in 0 .. Len(cell.order) - 1
         /\ cell.order[NextIndex(cell) + 1] \in Modes
<1>1. cell.order \in Orders /\ cell.index \in Int /\ cell.index \in -1 .. Len(cell.order) - 1
  BY DEF TypeOK, Cell
<1> DEFINE n == Len(cell.order)
<1>2. n \in Nat /\ n > 0 /\ \A i \in 1 .. n : cell.order[i] \in Modes
  BY <1>1, OrderType
<1>3. NextIndex(cell) = (cell.index + 1) % n
  BY DEF NextIndex
<1> HIDE DEF n
<1>4. (cell.index + 1) % n \in 0 .. n - 1
  BY <1>1, <1>2
<1>5. NextIndex(cell) + 1 \in 1 .. n
  BY <1>2, <1>3, <1>4
<1> QED BY <1>2, <1>3, <1>4, <1>5 DEF n

(* What is put into the ring last is what is taken from it. *)
LEMMA RingType ==
  ASSUME cell \in Cell, NEW value \in Value
  PROVE  /\ Buffered(cell, value) \in Cell
         /\ getLastRawValue(Buffered(cell, value)) = value
         /\ \A f \in {"wiring", "state", "order", "index", "last"} :
              Buffered(cell, value)[f] = cell[f]
<1> DEFINE n == Readings
           at == cell.at
           next == (at + 1) % n
           ring == [cell.ring EXCEPT ![at + 1] = value]
<1>1. n \in Nat /\ n > 0 /\ at \in 0 .. n - 1 /\ at \in Int
  BY LoadCellAssumption DEF Cell
<1>2. next \in 0 .. n - 1 /\ (next + n - 1) % n = at
  <2> HIDE DEF n, at
  <2>1. CASE at = n - 1
    <3>1. n % n = 0 /\ (n - 1) % n = n - 1
      BY <1>1
    <3>2. at + 1 = n
      BY <1>1, <2>1
    <3>3. next = 0
      BY <3>1, <3>2
    <3> QED BY <1>1, <2>1, <3>1, <3>3
  <2>2. CASE at < n - 1
    <3>1. at + 1 \in 0 .. n - 1
      BY <1>1, <2>2
    <3>2. next = at + 1
      BY <1>1, <3>1
    <3>3. (at + n) % n = at
      BY <1>1
    <3>4. next + n - 1 = at + n
      BY <1>1, <3>2
    <3> QED BY <1>1, <3>1, <3>2, <3>3, <3>4
  <2> QED BY <1>1, <2>1, <2>2
<1>3. ring \in [1 .. n -> Value \union {Unset}] /\ ring[at + 1] = value
  <2>1. cell.ring \in [1 .. n -> Value \union {Unset}] /\ at + 1 \in 1 .. n
    BY <1>1 DEF Cell
  <2> HIDE DEF at, n
  <2> QED BY <2>1
<1>4. Buffered(cell, value) = [cell EXCEPT !.ring = ring, !.at = next]
  BY DEF Buffered, Cell
<1> HIDE DEF ring, next
<1>5. /\ [cell EXCEPT !.ring = ring, !.at = next] \in Cell
      /\ [cell EXCEPT !.ring = ring, !.at = next].ring = ring
      /\ [cell EXCEPT !.ring = ring, !.at = next].at = next
      /\ \A f \in {"wiring", "state", "order", "index", "last"} :
           [cell EXCEPT !.ring = ring, !.at = next][f] = cell[f]
  BY <1>2, <1>3 DEF Cell, n
<1> QED BY <1>2, <1>3, <1>4, <1>5 DEF getLastRawValue, n

(* A driver that has just been started. *)
LEMMA ConstructedType ==
  ASSUME NEW wiring \in {"GPIO", "SPI"}, NEW order \in Orders
  PROVE  /\ Constructed(wiring, order) \in Cell
         /\ Constructed(wiring, order).wiring = wiring
         /\ Constructed(wiring, order).order = order
         /\ Constructed(wiring, order).index = -1
         /\ Constructed(wiring, order).state = "ERROR"
         /\ \A i \in Inputs : Constructed(wiring, order).last[i] = Unset
<1> DEFINE last == [i \in Inputs |-> Unset]
           ring == [i \in 1 .. Readings |-> IF i = 1 THEN Unset ELSE 0]
<1>1. last \in [Inputs -> Value \union {Unset}] /\ \A i \in Inputs : last[i] = Unset
  BY ZeroType
<1>2. ring \in [1 .. Readings -> Value \union {Unset}]
  BY ZeroType
<1>3. 0 \in 0 .. Readings - 1 /\ -1 \in Int
  BY LoadCellAssumption
<1>4. Constructed(wiring, order) =
        [wiring |-> wiring, state |-> "ERROR", order |-> order, index |-> -1,
         last |-> last, ring |-> ring, at |-> 0]
  BY DEF Constructed
<1> HIDE DEF last, ring
<1> QED BY <1>1, <1>2, <1>3, <1>4 DEF Cell

(* An order has at least the place before its first mode. *)
LEMMA IndexType ==
  ASSUME NEW order \in Orders
  PROVE  -1 \in -1 .. Len(order) - 1
BY OrderType

(* Nothing has been read: no sources. *)
LEMMA NoSourceType ==
  /\ NoSource \in [Inputs -> Seq(Source)] /\ \A i \in Inputs : NoSource[i] = <<>>
<1>1. <<>> \in Seq(Source)
  BY EmptySeq
<1> QED BY <1>1 DEF NoSource

----------------------------------------------------------------------------
(* The initial states and the steps. *)

LEMMA InitInv ==
  ASSUME Init
  PROVE  CellInv
<1>1. PICK order \in Orders :
        \/ cell = Constructed("GPIO", order)
        \/ Len(order) = 1 /\ cell = Constructed("SPI", order)
  BY DEF Init
<1>2. PICK wiring \in {"GPIO", "SPI"} : cell = Constructed(wiring, order) /\ (wiring = "SPI" => Len(order) = 1)
  BY <1>1
<1>3. /\ cell \in Cell /\ cell.wiring = wiring /\ cell.order = order /\ cell.index = -1
      /\ cell.state = "ERROR" /\ \A i \in Inputs : cell.last[i] = Unset
  BY <1>2, ConstructedType
<1>4. history.doubt = 1 /\ history.source = NoSource /\ history \in History
  <2>1. 0 \in 0 .. MaxCuts /\ 1 \in 0 .. 2
    BY LoadCellAssumption
  <2> QED BY <2>1, NoSourceType DEF Init, History
<1>5. chip \in Chip /\ chip.shifted = 0
  <2> DEFINE no == FALSE
  <2>1. no \in BOOLEAN
    OBVIOUS
  <2>2. 0 \in Raw /\ 0 \in 0 .. Width
    <3>1. Width \in 0 .. Width + 8 /\ 2 ^ Width \in Int
      BY LoadCellAssumption
    <3>2. 2 ^ Width > 0
      BY <3>1, PowersAssumption
    <3> DEFINE n == 2 ^ Width
    <3>3. n \in Int /\ n > 0 /\ Raw = 0 .. n - 1
      BY <3>1, <3>2 DEF Raw
    <3> HIDE DEF n
    <3> QED BY <3>3, LoadCellAssumption
  <2>3. chip = [mode |-> "A128", ready |-> no, raw |-> 0, shifted |-> 0]
    BY DEF Init
  <2> HIDE DEF no
  <2> QED BY <2>1, <2>2, <2>3 DEF Chip, Modes
<1>6. TypeOK
  BY <1>3, <1>4, <1>5, IndexType DEF TypeOK
<1>7. Aligned
  BY <1>2, <1>3, <1>4, <1>5 DEF Aligned
<1>8. Sourced /\ ReadingIsOfInput
  BY <1>3 DEF Sourced, ReadingIsOfInput
<1>9. LastIsLatest
  BY <1>4, NoSourceType DEF LastIsLatest, Inputs
<1> QED BY <1>6, <1>7, <1>8, <1>9 DEF CellInv

(* Setup changes nothing in the chip, and the GPIO driver shows nothing. *)
LEMMA SetupStep ==
  ASSUME CellInv, Setup
  PROVE  CellInv'
<1>1. TypeOK /\ Aligned /\ Sourced /\ ReadingIsOfInput /\ LastIsLatest
  BY DEF CellInv
<1>2. /\ cell \in Cell /\ cell.index \in -1 .. Len(cell.order) - 1 /\ chip \in Chip /\ history \in History
      /\ cell.wiring \in {"GPIO", "SPI"} /\ cell.order \in Orders
  BY <1>1 DEF TypeOK, Cell
<1>3. chip' = chip
  BY DEF Setup
<1>4. CASE cell.wiring = "SPI" \/ cell.order = <<>>
  <2> DEFINE state == IF cell.order = <<>> THEN "ERROR" ELSE "WAIT_FOR_DATA_READY"
  <2>1. cell' = [cell EXCEPT !.state = state]
    BY <1>4 DEF Setup
  <2>2. state \in {"WAIT_FOR_DATA_READY", "ERROR"} /\ (state = "WAIT_FOR_DATA_READY" => cell.order # <<>>)
    OBVIOUS
  <2> HIDE DEF state
  <2>3. /\ cell' \in Cell /\ cell'.state = state /\ cell'.wiring = cell.wiring /\ cell'.order = cell.order
        /\ cell'.index = cell.index /\ cell'.last = cell.last /\ cell'.ring = cell.ring /\ cell'.at = cell.at
    BY <1>2, <2>1, <2>2 DEF Cell
  <2>4. history' = history \/ (cell.wiring = "GPIO" /\ cell.order = <<>> /\ history' = [history EXCEPT !.source = NoSource])
    BY <1>2, <1>4 DEF Setup
  <2>5. /\ history' \in History /\ history'.doubt = history.doubt
        /\ history'.source = history.source \/ (cell.wiring = "GPIO" /\ cell.order = <<>>)
    BY <1>2, <2>4, NoSourceType DEF History
  <2>6. TypeOK'
    BY <1>2, <1>3, <2>3, <2>5 DEF TypeOK
  <2>7. Aligned'
    BY <1>1, <1>3, <2>2, <2>3, <2>5 DEF Aligned, ModeForResult
  <2>8. Sourced' /\ ReadingIsOfInput'
    BY <1>1, <2>3, <2>5 DEF Sourced, ReadingIsOfInput
  <2>9. LastIsLatest'
    BY <1>1, <2>3, <2>5 DEF LastIsLatest, getLastRawValue
  <2> QED BY <2>6, <2>7, <2>8, <2>9 DEF CellInv
<1>5. CASE cell.wiring = "GPIO" /\ cell.order # <<>>
  <2> DEFINE fresh == Constructed("GPIO", cell.order)
  <2>1. cell' = [fresh EXCEPT !.state = "WAIT_FOR_DATA_READY"]
    BY <1>5 DEF Setup
  <2>2. /\ fresh \in Cell /\ fresh.wiring = "GPIO" /\ fresh.order = cell.order /\ fresh.index = -1
        /\ \A i \in Inputs : fresh.last[i] = Unset
    BY <1>2, ConstructedType
  <2> HIDE DEF fresh
  <2>3. /\ cell' \in Cell /\ cell'.wiring = "GPIO" /\ cell'.order = cell.order /\ cell'.index = -1
        /\ \A i \in Inputs : cell'.last[i] = Unset
    BY <2>1, <2>2 DEF Cell
  <2>4. history' = [history EXCEPT !.source = NoSource]
    BY <1>5 DEF Setup
  <2>5. history' \in History /\ history'.doubt = history.doubt
    BY <1>2, <2>4, NoSourceType DEF History
  <2>6. TypeOK'
    BY <1>2, <1>3, <2>3, <2>5, IndexType DEF TypeOK
  <2>7. Aligned'
    BY <1>1, <1>3, <1>5, <2>3, <2>5 DEF Aligned
  <2>8. Sourced' /\ ReadingIsOfInput' /\ LastIsLatest'
    BY <2>3 DEF Sourced, ReadingIsOfInput, LastIsLatest
  <2> QED BY <2>6, <2>7, <2>8 DEF CellInv
<1> QED BY <1>2, <1>4, <1>5

(* A conversion belongs to the mode selected, and starts with its first    *)
(* bit.                                                                    *)
LEMMA ConvertStep ==
  ASSUME CellInv, Convert
  PROVE  CellInv'
<1>1. TypeOK /\ Aligned /\ Sourced /\ ReadingIsOfInput /\ LastIsLatest
  BY DEF CellInv
<1>2. PICK raw \in Raw : chip' = [chip EXCEPT !.ready = TRUE, !.raw = raw, !.shifted = 0]
  BY DEF Convert
<1>3. cell' = cell /\ history' = history
  BY DEF Convert
<1>4. chip' \in Chip /\ chip'.shifted = 0 /\ chip'.mode = chip.mode
  <2> DEFINE yes == TRUE
  <2>1. yes \in BOOLEAN /\ 0 \in 0 .. Width /\ chip \in Chip
    BY <1>1, LoadCellAssumption DEF TypeOK
  <2>2. chip' = [chip EXCEPT !.ready = yes, !.raw = raw, !.shifted = 0]
    BY <1>2
  <2> HIDE DEF yes
  <2> QED BY <2>1, <2>2 DEF Chip
<1>5. TypeOK'
  BY <1>1, <1>3, <1>4 DEF TypeOK
<1>6. Aligned'
  BY <1>1, <1>3, <1>4 DEF Aligned, ModeForResult
<1>7. Sourced' /\ ReadingIsOfInput'
  BY <1>1, <1>3 DEF Sourced, ReadingIsOfInput
<1>8. LastIsLatest'
  BY <1>1, <1>3 DEF LastIsLatest, getLastRawValue
<1> QED BY <1>5, <1>6, <1>7, <1>8 DEF CellInv

(* Broken pulses leave the chip anywhere, and in doubt; a reset leaves it  *)
(* before its first bit, in a mode that may not be the requested one.      *)
LEMMA CutType ==
  ASSUME TypeOK, NEW kept \in History, kept.cuts = history.cuts, Cut(kept)
  PROVE  /\ chip' \in Chip /\ history' \in History
         /\ history'.source = kept.source
         /\ history'.doubt > 0 /\ (history'.doubt < 2 => chip'.shifted = 0)
<1>1. kept.cuts \in 0 .. MaxCuts /\ history.cuts \in Nat /\ history.cuts < MaxCuts /\ chip \in Chip
  BY DEF TypeOK, History, Cut
<1>2. PICK pulses \in 1 .. Width + 2 :
        \/ /\ chip' \in Clocked(pulses)
           /\ history' = [kept EXCEPT !.cuts = kept.cuts + 1, !.doubt = 2]
        \/ /\ chip' = PoweredUp
           /\ history' = [kept EXCEPT !.cuts = kept.cuts + 1, !.doubt = 1]
  BY DEF Cut
<1> DEFINE cuts == kept.cuts + 1
<1>3. cuts \in 0 .. MaxCuts
  BY <1>1, LoadCellAssumption
<1> HIDE DEF cuts
<1>4. \A doubt \in 0 .. 2 :
        /\ [kept EXCEPT !.cuts = cuts, !.doubt = doubt] \in History
        /\ [kept EXCEPT !.cuts = cuts, !.doubt = doubt].source = kept.source
        /\ [kept EXCEPT !.cuts = cuts, !.doubt = doubt].doubt = doubt
  BY <1>3 DEF History
<1>5. CASE chip' \in Clocked(pulses) /\ history' = [kept EXCEPT !.cuts = cuts, !.doubt = 2]
  <2>1. pulses \in Nat
    BY LoadCellAssumption
  <2>2. chip' \in Chip
    BY <1>1, <1>5, <2>1, ClockedType
  <2>3. history' \in History /\ history'.source = kept.source /\ history'.doubt = 2
    BY <1>4, <1>5
  <2> QED BY <2>2, <2>3
<1>6. CASE chip' = PoweredUp /\ history' = [kept EXCEPT !.cuts = cuts, !.doubt = 1]
  <2>1. "A128" \in Modes
    BY DEF Modes
  <2>2. chip' \in Chip /\ chip'.shifted = 0
    BY <1>1, <1>6, <2>1, BegunType DEF PoweredUp
  <2>3. history' \in History /\ history'.source = kept.source /\ history'.doubt = 1
    BY <1>4, <1>6
  <2> QED BY <2>2, <2>3
<1> QED BY <1>2, <1>5, <1>6 DEF cuts

(* Pulses that break off make the next two results doubtful. *)
LEMMA TransferTimesOutStep ==
  ASSUME CellInv, TransferTimesOut
  PROVE  CellInv'
<1>1. TypeOK /\ Aligned /\ Sourced /\ ReadingIsOfInput /\ LastIsLatest
  BY DEF CellInv
<1>2. cell' = cell /\ Cut(history) /\ history \in History
  BY <1>1 DEF TransferTimesOut, TypeOK
<1>3. /\ chip' \in Chip /\ history' \in History /\ history'.source = history.source
      /\ history'.doubt > 0 /\ (history'.doubt < 2 => chip'.shifted = 0)
  BY <1>1, <1>2, CutType
<1>4. TypeOK'
  BY <1>1, <1>2, <1>3 DEF TypeOK
<1>5. Aligned'
  BY <1>1, <1>2, <1>3 DEF Aligned
<1>6. Sourced' /\ ReadingIsOfInput'
  BY <1>1, <1>2, <1>3 DEF Sourced, ReadingIsOfInput
<1>7. LastIsLatest'
  BY <1>1, <1>2, <1>3 DEF LastIsLatest, getLastRawValue
<1> QED BY <1>4, <1>5, <1>6, <1>7 DEF CellInv

(* A restart forgets the readings, and may break off the pulses. *)
LEMMA RestartStep ==
  ASSUME CellInv, Restart
  PROVE  CellInv'
<1>1. TypeOK /\ Aligned
  BY DEF CellInv
<1>2. /\ cell.wiring \in {"GPIO", "SPI"} /\ cell.order \in Orders
      /\ chip \in Chip /\ history \in History
  BY <1>1 DEF TypeOK, Cell
<1>3. /\ cell' \in Cell /\ cell'.wiring = cell.wiring /\ cell'.order = cell.order
      /\ cell'.index = -1 /\ cell'.state = "ERROR" /\ \A i \in Inputs : cell'.last[i] = Unset
  BY <1>2, ConstructedType DEF Restart
<1> DEFINE forgotten == [history EXCEPT !.source = NoSource]
<1>4. /\ forgotten \in History /\ forgotten.source = NoSource /\ forgotten.doubt = history.doubt
      /\ forgotten.cuts = history.cuts
  BY <1>2, NoSourceType DEF History
<1>5. Cut(forgotten) \/ (history' = forgotten /\ chip' = chip)
  BY DEF Restart
<1> HIDE DEF forgotten
<1>6. /\ chip' \in Chip /\ history' \in History /\ history'.source = NoSource
      /\ history'.doubt < 2 => chip'.shifted = 0
      /\ history'.doubt = 0 => history.doubt = 0 /\ chip' = chip
  <2>1. CASE Cut(forgotten)
    <3>1. /\ chip' \in Chip /\ history' \in History /\ history'.source = forgotten.source
          /\ history'.doubt > 0 /\ (history'.doubt < 2 => chip'.shifted = 0)
      BY <1>1, <1>4, <2>1, CutType
    <3> QED BY <1>4, <3>1
  <2>2. CASE history' = forgotten /\ chip' = chip
    BY <1>1, <1>2, <1>4, <2>2 DEF Aligned
  <2> QED BY <1>5, <2>1, <2>2
<1>7. TypeOK'
  BY <1>2, <1>3, <1>6, IndexType DEF TypeOK
<1>8. Aligned'
  BY <1>1, <1>3, <1>6 DEF Aligned
<1>9. Sourced' /\ ReadingIsOfInput'
  BY <1>3 DEF Sourced, ReadingIsOfInput
<1>10. LastIsLatest'
  BY <1>6, NoSourceType DEF LastIsLatest, Inputs
<1> QED BY <1>7, <1>8, <1>9, <1>10 DEF CellInv

(* Each full cycle makes up for one doubt. *)
LEMMA RecoveredType ==
  ASSUME history \in History
  PROVE  /\ Recovered \in History /\ Recovered.source = history.source
         /\ Recovered.doubt = IF history.doubt = 0 THEN 0 ELSE history.doubt - 1
<1> DEFINE doubt == IF history.doubt = 0 THEN 0 ELSE history.doubt - 1
<1>1. doubt \in 0 .. 2
  BY DEF History
<1>2. Recovered = [history EXCEPT !.doubt = doubt]
  BY DEF Recovered, History
<1> HIDE DEF doubt
<1>3. /\ [history EXCEPT !.doubt = doubt] \in History
      /\ [history EXCEPT !.doubt = doubt].source = history.source
      /\ [history EXCEPT !.doubt = doubt].doubt = doubt
  BY <1>1 DEF History
<1> QED BY <1>2, <1>3 DEF doubt

(* A cycle of the GPIO driver: the chip takes the mode of the next one.    *)
LEMMA CycleGpio ==
  ASSUME CellInv, LoopGpio
  PROVE  /\ cell.wiring = "GPIO" /\ cell.order # <<>>
         /\ chip' \in Chip /\ chip'.shifted = 0
         /\ chip.shifted = 0 => chip'.mode = cell.order[NextIndex(cell) + 1]
<1> DEFINE mode == cell.order[NextIndex(cell) + 1]
<1>1. TypeOK /\ Aligned /\ cell.wiring = "GPIO" /\ cell.state = "WAIT_FOR_DATA_READY"
  BY DEF CellInv, LoopGpio, DataReady
<1>2. cell.order # <<>> /\ chip \in Chip
  BY <1>1 DEF Aligned, TypeOK
<1>3. mode \in Modes
  BY <1>1, <1>2, NextIndexType
<1>4. chip' \in Clocked(Width + modeToPulseCount(mode))
  BY DEF LoopGpio
<1> HIDE DEF mode
<1>5. chip' \in Chip /\ chip'.shifted = 0 /\ (chip.shifted = 0 => chip'.mode = mode)
  BY <1>2, <1>3, <1>4, ClockedCycle
<1> QED BY <1>1, <1>2, <1>5 DEF mode

(* The types and the alignment after a cycle of the GPIO driver.           *)
LEMMA AlignedGpio ==
  ASSUME CellInv, LoopGpio,
         cell' \in Cell, cell'.index = NextIndex(cell), cell'.order = cell.order,
         cell'.wiring = cell.wiring, cell'.state = cell.state,
         history' \in History,
         history'.doubt = IF history.doubt = 0 THEN 0 ELSE history.doubt - 1
  PROVE  TypeOK' /\ Aligned' /\ LastIsLatest'
<1>1. TypeOK /\ Aligned
  BY DEF CellInv
<1>2. /\ cell.wiring = "GPIO" /\ cell.order # <<>>
      /\ chip' \in Chip /\ chip'.shifted = 0
      /\ chip.shifted = 0 => chip'.mode = cell.order[NextIndex(cell) + 1]
  BY CycleGpio
<1>3. NextIndex(cell) \in 0 .. Len(cell.order) - 1
  BY <1>1, <1>2, NextIndexType
<1>4. cell'.index \in -1 .. Len(cell'.order) - 1
  <2>1. Len(cell.order) \in Nat
    BY <1>1, OrderType DEF TypeOK, Cell
  <2> QED BY <1>3, <2>1
<1>5. TypeOK'
  BY <1>2, <1>4 DEF TypeOK
<1>6. history'.doubt = 0 => history.doubt < 2
  BY <1>1 DEF TypeOK, History
<1>7. history'.doubt = 0 => chip'.mode = cell.order[NextIndex(cell) + 1]
  BY <1>1, <1>2, <1>6 DEF Aligned
<1>8. Aligned'
  BY <1>1, <1>2, <1>7 DEF Aligned, ModeForResult
<1>9. LastIsLatest'
  BY <1>2 DEF LastIsLatest
<1> QED BY <1>5, <1>8, <1>9

(* A cycle of the GPIO driver: the result belongs to the mode requested    *)
(* before.                                                                 *)
LEMMA LoopGpioStep ==
  ASSUME CellInv, LoopGpio
  PROVE  CellInv'
<1>1. TypeOK /\ Aligned /\ Sourced /\ ReadingIsOfInput
  BY DEF CellInv
<1>2. /\ cell \in Cell /\ cell.index \in Int /\ cell.index \in -1 .. Len(cell.order) - 1
      /\ chip \in Chip /\ history \in History /\ cell.order \in Orders
  BY <1>1 DEF TypeOK, Cell
<1>3. cell.wiring = "GPIO" /\ cell.order # <<>>
  BY CycleGpio
<1> DEFINE next == NextIndex(cell)
<1>4. next \in Int
  BY <1>1, <1>3, NextIndexType
<1>5. CASE cell.index >= 0
  <2> DEFINE mode == ModeForResult(cell)
             input == Input(mode)
             value == SignExtended(Sampled)
  <2>1. /\ cell' = [updateLastReading(cell, mode, value) EXCEPT !.index = next]
        /\ history' = Noted(input, 1)
    BY <1>5 DEF LoopGpio
  <2>2. mode \in Modes /\ \E i \in DOMAIN cell.order : cell.order[i] = mode
    <3>1. Len(cell.order) \in Nat /\ \A i \in 1 .. Len(cell.order) : cell.order[i] \in Modes
      BY <1>2, OrderType
    <3>2. cell.index + 1 \in 1 .. Len(cell.order)
      BY <1>2, <1>5, <3>1
    <3>3. DOMAIN cell.order = 1 .. Len(cell.order)
      BY <1>2, OrderType, LenProperties
    <3> QED BY <3>1, <3>2, <3>3 DEF ModeForResult
  <2>3. input \in Inputs
    BY DEF Input, Inputs
  <2>4. value \in Value \union {Unset} /\ (chip.shifted = 0 => value = SignExtended(chip.raw))
    BY <1>2, SampledWhole, ValueType
  <2>5. history.doubt = 0 => chip.mode = mode /\ chip.shifted = 0
    BY <1>1, <1>3, <1>5 DEF Aligned
  <2> HIDE DEF mode, value, next
  <2>6. /\ cell' \in Cell /\ cell'.index = next /\ cell'.order = cell.order
        /\ cell'.wiring = cell.wiring /\ cell'.state = cell.state
        /\ cell'.last = [cell.last EXCEPT ![input] = value]
    BY <1>2, <1>4, <2>1, <2>3, <2>4 DEF Cell, updateLastReading
  <2>7. /\ history' \in History
        /\ history'.doubt = IF history.doubt = 0 THEN 0 ELSE history.doubt - 1
        /\ history'.source[input] # <<>>
        /\ LET source == Head(history'.source[input])
           IN  /\ source.mode = chip.mode /\ source.value = SignExtended(chip.raw)
               /\ source.trusted <=> history.doubt = 0
        /\ \A other \in Inputs \ {input} : history'.source[other] = history.source[other]
    BY <1>1, <2>1, <2>3, NotedType
  <2>8. TypeOK' /\ Aligned' /\ LastIsLatest'
    BY <2>6, <2>7, AlignedGpio DEF next
  <2>9. /\ cell'.last[input] = value
        /\ \A other \in Inputs \ {input} : cell'.last[other] = cell.last[other]
    <3>1. cell.last \in [Inputs -> Value \union {Unset}]
      BY <1>2 DEF Cell
    <3> QED BY <2>3, <2>6, <3>1
  <2> HIDE DEF input
  <2>10. Sourced'
    BY <1>1, <1>3, <2>6, <2>7, <2>9 DEF Sourced
  <2>11. ReadingIsOfInput'
    <3> SUFFICES ASSUME NEW i \in Inputs, cell'.last[i] # Unset, Head(history'.source[i]).trusted
                 PROVE  /\ cell'.last[i] = Head(history'.source[i]).value
                        /\ Input(Head(history'.source[i]).mode) = i
                        /\ \E k \in DOMAIN cell'.order : cell'.order[k] = Head(history'.source[i]).mode
      BY DEF ReadingIsOfInput
    <3>1. CASE i = input
      <4>1. history.doubt = 0
        BY <2>7, <3>1
      <4>2. Head(history'.source[i]).value = value /\ Head(history'.source[i]).mode = mode
        BY <2>4, <2>5, <2>7, <3>1, <4>1
      <4> QED BY <2>2, <2>6, <2>9, <3>1, <4>2 DEF input
    <3>2. CASE i # input
      BY <1>1, <1>3, <2>6, <2>7, <2>9, <3>2 DEF ReadingIsOfInput
    <3> QED BY <3>1, <3>2
  <2> QED BY <2>8, <2>10, <2>11 DEF CellInv
<1>6. CASE ~(cell.index >= 0)
  <2>1. cell' = [cell EXCEPT !.index = next] /\ history' = Recovered
    BY <1>6 DEF LoopGpio
  <2> HIDE DEF next
  <2>2. /\ cell' \in Cell /\ cell'.index = next /\ cell'.order = cell.order
        /\ cell'.wiring = cell.wiring /\ cell'.state = cell.state /\ cell'.last = cell.last
    BY <1>2, <1>4, <2>1 DEF Cell
  <2>3. /\ history' \in History /\ history'.source = history.source
        /\ history'.doubt = IF history.doubt = 0 THEN 0 ELSE history.doubt - 1
    BY <1>2, <2>1, RecoveredType
  <2>4. TypeOK' /\ Aligned' /\ LastIsLatest'
    BY <2>2, <2>3, AlignedGpio DEF next
  <2>5. Sourced' /\ ReadingIsOfInput'
    BY <1>1, <2>2, <2>3 DEF Sourced, ReadingIsOfInput
  <2> QED BY <2>4, <2>5 DEF CellInv
<1> QED BY <1>5, <1>6

(* A cycle of the SPI driver: the result is the last value of the ring. *)
LEMMA LoopSpiStep ==
  ASSUME CellInv, LoopSpi
  PROVE  CellInv'
<1> DEFINE mode == cell.order[1]
           value == TopAligned(Sampled)
<1>1. /\ TypeOK /\ Aligned /\ cell.wiring = "SPI" /\ cell.state = "WAIT_FOR_DATA_READY"
      /\ cell' = Buffered(cell, value) /\ history' = Noted("A", Readings)
      /\ chip' \in Clocked(Width + modeToPulseCount(mode))
  BY DEF CellInv, LoopSpi, DataReady
<1>2. /\ cell \in Cell /\ cell.index \in -1 .. Len(cell.order) - 1 /\ cell.order \in Orders
      /\ chip \in Chip /\ history \in History /\ history.doubt \in 0 .. 2
  BY <1>1 DEF TypeOK, Cell, History
<1>3. mode \in Modes
  <2>1. Len(cell.order) = 1
    BY <1>1 DEF Aligned
  <2> QED BY <1>2, <2>1, OrderType
<1>4. value \in Value /\ (chip.shifted = 0 => value = SignExtended(chip.raw))
  BY <1>2, SampledWhole, ValueType
<1> HIDE DEF mode, value
<1>5. chip' \in Chip /\ chip'.shifted = 0 /\ (chip.shifted = 0 => chip'.mode = mode)
  BY <1>1, <1>2, <1>3, ClockedCycle
<1>6. /\ cell' \in Cell /\ getLastRawValue(cell') = value
      /\ cell'.wiring = "SPI" /\ cell'.state = cell.state /\ cell'.order = cell.order
      /\ cell'.index = cell.index
  <2>1. /\ cell' \in Cell /\ getLastRawValue(cell') = value
        /\ \A f \in {"wiring", "state", "order", "index", "last"} : cell'[f] = cell[f]
    BY <1>1, <1>2, <1>4, RingType
  <2> QED BY <1>1, <2>1
<1>7. /\ history' \in History
      /\ history'.doubt = IF history.doubt = 0 THEN 0 ELSE history.doubt - 1
      /\ LET source == Head(history'.source["A"])
         IN  /\ source.mode = chip.mode /\ source.value = SignExtended(chip.raw)
             /\ source.trusted <=> history.doubt = 0
  <2>1. "A" \in Inputs /\ Readings \in Nat \ {0}
    BY LoadCellAssumption DEF Inputs
  <2> QED BY <1>1, <2>1, NotedType
<1>8. TypeOK'
  BY <1>2, <1>5, <1>6, <1>7 DEF TypeOK
<1>9. Aligned'
  <2>1. history'.doubt = 0 => history.doubt < 2
    BY <1>2, <1>7
  <2>2. history'.doubt = 0 => chip'.mode = cell.order[1]
    BY <1>1, <1>5, <2>1 DEF Aligned, mode
  <2> QED BY <1>1, <1>5, <1>6, <2>2 DEF Aligned
<1>10. Sourced' /\ ReadingIsOfInput'
  BY <1>6 DEF Sourced, ReadingIsOfInput
<1>11. LastIsLatest'
  <2>1. history.doubt = 0 => chip.shifted = 0 /\ chip.mode = cell.order[1]
    BY <1>1 DEF Aligned
  <2> QED BY <1>4, <1>6, <1>7, <2>1 DEF LastIsLatest
<1> QED BY <1>8, <1>9, <1>10, <1>11 DEF CellInv

(* Nothing happens. *)
LEMMA StutterStep ==
  ASSUME CellInv, UNCHANGED vars
  PROVE  CellInv'
<1>1. cell' = cell /\ chip' = chip /\ history' = history
  BY DEF vars
<1>2. TypeOK' /\ Aligned'
  BY <1>1 DEF CellInv, TypeOK, Aligned, ModeForResult
<1>3. Sourced' /\ ReadingIsOfInput' /\ LastIsLatest'
  BY <1>1 DEF CellInv, Sourced, ReadingIsOfInput, LastIsLatest, getLastRawValue
<1> QED BY <1>2, <1>3 DEF CellInv

(* The invariant always holds. *)
LEMMA CellInvariant == Spec => []CellInv
<1>1. Init => CellInv
  BY InitInv
<1>2. CellInv /\ [Next]_vars => CellInv'
  <2> SUFFICES ASSUME CellInv, [Next]_vars PROVE CellInv'
    OBVIOUS
  <2> QED BY SetupStep, LoopGpioStep, LoopSpiStep, ConvertStep, TransferTimesOutStep,
             RestartStep, StutterStep DEF Next
<1> QED BY <1>1, <1>2, PTL DEF Spec

----------------------------------------------------------------------------
(* The drivers' indices stay in their arrays and all values in their word. *)
THEOREM CellTypeCorrect == Spec => []TypeOK
<1>1. CellInv => TypeOK
  BY DEF CellInv
<1> QED BY <1>1, CellInvariant, PTL

(* The GPIO driver never shows a reading as that of the other input or of  *)
(* a gain nobody asked for, for every order of the modes, one that repeats *)
(* them too, and every place where a restart breaks off the pulses.        *)
THEOREM ReadingsAreOfTheirInput == Spec => []ReadingIsOfInput
<1>1. CellInv => ReadingIsOfInput
  BY DEF CellInv
<1> QED BY <1>1, CellInvariant, PTL

(* The SPI driver returns the latest conversion as its last value, however *)
(* often its ring has gone round, as the signed number that it is.         *)
THEOREM LastReadingIsLatest == Spec => []LastIsLatest
<1>1. CellInv => LastIsLatest
  BY DEF CellInv
<1> QED BY <1>1, CellInvariant, PTL

----------------------------------------------------------------------------
(* The average.  The ring holds the last readings, newest at at - 1.       *)

(* Where the reading number i, counted from the newest, is in the ring.    *)
Place(at, i) == IF at >= i THEN at - i + 1 ELSE at - i + 1 + Readings

(* Each of the last readings, if it can be trusted, is in its place.       *)
RingKept ==
  LET sources == history.source["A"]
  IN  cell.wiring = "SPI" =>
        /\ Len(sources) <= Readings
        /\ \A i \in 1 .. Len(sources) :
              sources[i].trusted => cell.ring[Place(cell.at, i)] = sources[i].value

(* The places of the last readings are all of them, each in one place.     *)
LEMMA PlaceType ==
  ASSUME NEW at \in 0 .. Readings - 1
  PROVE  /\ \A i \in 1 .. Readings : Place(at, i) \in 1 .. Readings
         /\ \A j \in 1 .. Readings : \E i \in 1 .. Readings : Place(at, i) = j
         /\ Place((at + 1) % Readings, 1) = at + 1
         /\ \A i \in 1 .. Readings - 1 :
              Place((at + 1) % Readings, i + 1) = Place(at, i) /\ Place(at, i) # at + 1
<1> DEFINE n == Readings
           next == (at + 1) % n
<1>1. n \in Nat /\ n > 0 /\ at \in Int /\ 0 <= at /\ at <= n - 1
  BY LoadCellAssumption
<1>2. next = IF at = n - 1 THEN 0 ELSE at + 1
  <2> HIDE DEF n
  <2>1. CASE at = n - 1
    <3>1. n % n = 0 /\ at + 1 = n
      BY <1>1, <2>1
    <3>2. next = 0
      BY <3>1
    <3> QED BY <2>1, <3>2
  <2>2. CASE at # n - 1
    <3>1. at + 1 \in 0 .. n - 1
      BY <1>1, <2>2
    <3>2. next = at + 1
      BY <1>1, <3>1
    <3> QED BY <2>2, <3>2
  <2> QED BY <2>1, <2>2
<1> HIDE DEF next
<1>3. \A i \in 1 .. n : Place(at, i) \in 1 .. n
  BY <1>1 DEF Place
<1>4. ASSUME NEW j \in 1 .. n PROVE \E i \in 1 .. n : Place(at, i) = j
  <2> DEFINE i == IF at >= j - 1 /\ at - j + 1 >= 1 THEN at - j + 1 ELSE at - j + 1 + n
  <2>1. i \in 1 .. n /\ Place(at, i) = j
    BY <1>1, <1>4 DEF Place
  <2> QED BY <2>1
<1>5. Place(next, 1) = at + 1
  BY <1>1, <1>2 DEF Place
<1>6. ASSUME NEW i \in 1 .. n - 1
      PROVE  Place(next, i + 1) = Place(at, i) /\ Place(at, i) # at + 1
  BY <1>1, <1>2, <1>6 DEF Place
<1> QED BY <1>3, <1>4, <1>5, <1>6 DEF n, next

(* The sources after a reading: the new one, and the older ones that fit.  *)
LEMMA NotedSources ==
  ASSUME TypeOK, NEW input \in Inputs, NEW depth \in Nat \ {0}
  PROVE  LET old == history.source[input]
             new == Noted(input, depth).source[input]
         IN  /\ old \in Seq(Source) /\ new \in Seq(Source)
             /\ Len(new) \in 1 .. Len(old) + 1 /\ Len(new) <= depth
             /\ new[1].value = SignExtended(chip.raw) /\ (new[1].trusted <=> history.doubt = 0)
             /\ \A i \in 1 .. Len(new) - 1 : i <= Len(old) /\ new[i + 1] = old[i]
<1> DEFINE trusted == history.doubt = 0
           source == [mode |-> chip.mode, value |-> SignExtended(chip.raw), trusted |-> trusted]
           old == history.source[input]
           all == <<source>> \o old
           length == Min({Len(all), depth})
           kept == SubSeq(all, 1, length)
           doubt == IF history.doubt = 0 THEN 0 ELSE history.doubt - 1
<1>1. history \in History /\ old \in Seq(Source) /\ history.doubt \in 0 .. 2
  BY DEF TypeOK, History
<1>2. source \in Source
  <2>1. SignExtended(chip.raw) \in Value /\ chip.mode \in Modes
    BY ValueType DEF TypeOK, Chip
  <2>2. trusted \in BOOLEAN
    OBVIOUS
  <2> HIDE DEF trusted
  <2> QED BY <2>1, <2>2 DEF Source
<1>3. source.value = SignExtended(chip.raw) /\ source.trusted = trusted
  <2> HIDE DEF trusted
  <2> QED OBVIOUS
<1> HIDE DEF source
<1>4. /\ all \in Seq(Source) /\ Len(all) = 1 + Len(old) /\ all[1] = source
      /\ Len(old) \in Nat
      /\ \A i \in 1 .. Len(old) : all[i + 1] = old[i]
  <2> HIDE DEF old
  <2>1. <<source>> \in Seq(Source) /\ Len(<<source>>) = 1 /\ <<source>>[1] = source
    BY <1>2
  <2>2. Len(old) \in Nat
    BY <1>1, LenProperties
  <2>3. /\ all \in Seq(Source) /\ Len(all) = Len(<<source>>) + Len(old)
        /\ \A i \in 1 .. Len(<<source>>) + Len(old) :
              all[i] = IF i <= Len(<<source>>) THEN <<source>>[i] ELSE old[i - Len(<<source>>)]
    BY <1>1, <2>1, ConcatProperties
  <2> HIDE DEF all
  <2>4. ASSUME NEW i \in 1 .. Len(old) PROVE all[i + 1] = old[i]
    <3>1. i + 1 \in 1 .. 1 + Len(old) /\ ~(i + 1 <= 1) /\ (i + 1) - 1 = i
      BY <2>2
    <3> QED BY <2>1, <2>3, <3>1
  <2> QED BY <2>1, <2>2, <2>3, <2>4
<1> HIDE DEF all
<1>5. length \in 1 .. Len(all) /\ length <= depth
  <2>1. Len(all) \in Nat /\ Len(all) >= 1
    BY <1>4
  <2> DEFINE shorter == IF Len(all) <= depth THEN Len(all) ELSE depth
  <2>2. /\ shorter \in {Len(all), depth}
        /\ \A x \in {Len(all), depth} : (\A y \in {Len(all), depth} : x <= y) => x = shorter
        /\ \A y \in {Len(all), depth} : shorter <= y
    BY <2>1
  <2>3. length = shorter
    BY <2>2 DEF Min
  <2> QED BY <2>1, <2>3
<1> HIDE DEF length
<1>6. /\ kept \in Seq(Source) /\ Len(kept) = length
      /\ \A i \in 1 .. length : kept[i] = all[i]
  <2>1. \A i \in 1 .. length : all[i] \in Source
    BY <1>4, <1>5, ElementOfSeq
  <2> QED BY <1>5, <2>1, SubSeqProperties
<1> HIDE DEF kept
<1>7. Noted(input, depth).source[input] = kept
  <2>1. Noted(input, depth) = [[history EXCEPT !.doubt = doubt] EXCEPT !.source[input] = kept]
    BY <1>1 DEF Noted, Recovered, History, kept, length, all, source
  <2> HIDE DEF doubt
  <2> DEFINE next == [history EXCEPT !.doubt = doubt]
  <2>2. /\ next.source \in [Inputs -> Seq(Source)]
        /\ [next EXCEPT !.source[input] = kept].source = [next.source EXCEPT ![input] = kept]
    BY <1>1 DEF History
  <2> HIDE DEF next
  <2> QED BY <2>1, <2>2 DEF next
<1>8. ASSUME NEW i \in 1 .. Len(kept) - 1
      PROVE  i <= Len(old) /\ kept[i + 1] = old[i]
  <2> HIDE DEF old
  <2>1. i \in 1 .. Len(old) /\ i + 1 \in 1 .. length
    BY <1>4, <1>5, <1>6
  <2> QED BY <1>4, <1>6, <2>1
<1>9. kept[1] = source /\ Len(kept) \in 1 .. Len(old) + 1 /\ Len(kept) <= depth
  <2> HIDE DEF old
  <2> QED BY <1>4, <1>5, <1>6
<1>10. kept[1].value = SignExtended(chip.raw) /\ (kept[1].trusted <=> history.doubt = 0)
  <2>1. kept[1].trusted = trusted /\ kept[1].value = SignExtended(chip.raw)
    <3> HIDE DEF trusted
    <3> QED BY <1>3, <1>9
  <2> QED BY <2>1
<1> HIDE DEF trusted, old
<1> QED BY <1>1, <1>6, <1>7, <1>8, <1>9, <1>10 DEF old

(* The library's least-number theorem takes an operator, which no prover   *)
(* here instantiates; its theorem about well-founded relations takes sets. *)
Below == {p \in Nat \X Nat : p[1] < p[2]}

(* Each set of numbers that is not empty has a least one.                  *)
LEMMA LeastNumber ==
  ASSUME NEW T, T \subseteq Nat, T # {}
  PROVE  \E x \in T : \A y \in T : x <= y
<1>1. IsWellFoundedOn(Below, Nat)
  BY NatLessThanWellFounded DEF OpToRel, Below
<1>2. PICK x \in T : \A y \in T : <<y, x>> \notin Below
  BY <1>1, WFMin
<1>3. \A y \in T : x <= y
  <2> TAKE y \in T
  <2>1. x \in Nat /\ y \in Nat /\ <<y, x>> \notin Below
    BY <1>2
  <2>2. ~(y < x)
    BY <2>1 DEF Below
  <2> QED BY <2>1, <2>2
<1> QED BY <1>3

(* So the values of some readings have a least and a greatest one.         *)
LEMMA Extremes ==
  ASSUME NEW S, S \subseteq Value, S # {}
  PROVE  /\ Min(S) \in S /\ Max(S) \in S
         /\ \A x \in S : Min(S) <= x /\ x <= Max(S)
<1> DEFINE half == 2 ^ (Width - 1)
<1>1. half \in Int /\ S \subseteq -half .. half - 1
  BY LoadCellAssumption DEF Value
<1> HIDE DEF half
<1>2. \E x \in S : \A y \in S : x <= y
  <2> DEFINE T == {n \in Nat : n - half \in S}
  <2>1. PICK s \in S : TRUE
    OBVIOUS
  <2>2. T \subseteq Nat /\ s + half \in T
    BY <1>1, <2>1
  <2>3. PICK n \in T : \A m \in T : n <= m
    <3> HIDE DEF T
    <3> QED BY <2>2, LeastNumber
  <2>4. n \in Nat /\ n - half \in S
    BY <2>3
  <2>5. ASSUME NEW y \in S PROVE n - half <= y
    <3>1. y + half \in T /\ y \in Int
      BY <1>1
    <3>2. n <= y + half
      BY <2>3, <3>1
    <3> QED BY <1>1, <2>4, <3>1, <3>2
  <2> QED BY <2>4, <2>5
<1>3. \E x \in S : \A y \in S : y <= x
  <2> DEFINE T == {n \in Nat : half - n \in S}
  <2>1. PICK s \in S : TRUE
    OBVIOUS
  <2>2. T \subseteq Nat /\ half - s \in T
    BY <1>1, <2>1
  <2>3. PICK n \in T : \A m \in T : n <= m
    <3> HIDE DEF T
    <3> QED BY <2>2, LeastNumber
  <2>4. n \in Nat /\ half - n \in S
    BY <2>3
  <2>5. ASSUME NEW y \in S PROVE y <= half - n
    <3>1. half - y \in T /\ y \in Int
      BY <1>1
    <3>2. n <= half - y
      BY <2>3, <3>1
    <3> QED BY <1>1, <2>4, <3>1, <3>2
  <2> QED BY <2>4, <2>5
<1>4. Min(S) \in S /\ \A y \in S : Min(S) <= y
  BY <1>2 DEF Min
<1>5. Max(S) \in S /\ \A y \in S : Max(S) >= y
  <2>1. \E x \in S : \A y \in S : x >= y
    BY <1>1, <1>3
  <2> QED BY <2>1 DEF Max
<1>6. \A x \in S : x <= Max(S)
  BY <1>1, <1>5
<1> QED BY <1>4, <1>5, <1>6

(* The sum of the readings is defined by recursion: one is taken and the   *)
(* rest summed up.  That the function exists, and what it is, is proved by *)
(* looking at the smallest set for which it would fail.                    *)
Pick(s) == CHOOSE x \in s : TRUE

(* f sums up the readings at each of the sets of places.                   *)
IsSum(f, sets, ring) ==
  f = [s \in sets |-> IF s = {} THEN 0 ELSE ring[Pick(s)] + f[s \ {Pick(s)}]]

(* What is picked is in the set.                                           *)
LEMMA PickType == \A s : s # {} => Pick(s) \in s
BY DEF Pick

(* What the sum of a set is, without the recursion.                        *)
LEMMA SumOf ==
  ASSUME NEW f, NEW sets, NEW ring, IsSum(f, sets, ring), NEW s \in sets
  PROVE  f[s] = IF s = {} THEN 0 ELSE ring[Pick(s)] + f[s \ {Pick(s)}]
<1> DEFINE h == [t \in sets |-> IF t = {} THEN 0 ELSE ring[Pick(t)] + f[t \ {Pick(t)}]]
<1>1. f = h
  BY DEF IsSum
<1>2. h[s] = IF s = {} THEN 0 ELSE ring[Pick(s)] + f[s \ {Pick(s)}]
  OBVIOUS
<1> HIDE DEF h
<1> QED BY <1>1, <1>2

(* And conversely.                                                         *)
LEMMA SumFrom ==
  ASSUME NEW f, NEW sets, NEW ring, DOMAIN f = sets, f = [s \in sets |-> f[s]],
         \A s \in sets : f[s] = IF s = {} THEN 0 ELSE ring[Pick(s)] + f[s \ {Pick(s)}]
  PROVE  IsSum(f, sets, ring)
BY DEF IsSum

(* The sum exists.                                                         *)
LEMMA SumExists ==
  ASSUME NEW S, IsFiniteSet(S), NEW ring
  PROVE  \E f : IsSum(f, SUBSET S, ring)
<1> DEFINE N == Cardinality(S)
           Small(n) == {s \in SUBSET S : Cardinality(s) <= n}
           T == {n \in 0 .. N : \A f : ~IsSum(f, Small(n), ring)}
<1>1. N \in Nat /\ \A s \in SUBSET S : IsFiniteSet(s) /\ Cardinality(s) \in Nat /\ Cardinality(s) <= N
  BY FS_CardinalityType, FS_Subset
<1>2. Small(N) = SUBSET S
  BY <1>1
<1> HIDE DEF N, Small
<1>3. SUFFICES ASSUME T # {} PROVE FALSE
  <2>1. N \in 0 .. N /\ T = {}
    BY <1>1, <1>3
  <2>2. \E f : IsSum(f, Small(N), ring)
    BY <2>1
  <2> QED BY <1>2, <2>2
<1>4. PICK n \in T : \A m \in T : n <= m
  <2>1. T \subseteq Nat
    BY <1>1
  <2> HIDE DEF T
  <2> QED BY <1>3, <2>1, LeastNumber
<1>5. n \in 0 .. N /\ n \in Nat /\ \A f : ~IsSum(f, Small(n), ring)
  BY <1>1, <1>4
<1>6. CASE n = 0
  <2> DEFINE f == [s \in Small(0) |-> 0]
  <2>1. \A s \in Small(0) : s = {}
    <3> TAKE s \in Small(0)
    <3>1. s \in SUBSET S /\ Cardinality(s) <= 0
      BY DEF Small
    <3>2. Cardinality(s) = 0 /\ IsFiniteSet(s)
      BY <1>1, <3>1
    <3> QED BY <3>2, FS_EmptySet
  <2>2. DOMAIN f = Small(0) /\ f = [s \in Small(0) |-> f[s]]
        /\ \A s \in Small(0) : f[s] = 0
    OBVIOUS
  <2> HIDE DEF f
  <2>3. \A s \in Small(0) : f[s] = IF s = {} THEN 0 ELSE ring[Pick(s)] + f[s \ {Pick(s)}]
    BY <2>1, <2>2
  <2>4. IsSum(f, Small(0), ring)
    BY <2>2, <2>3, SumFrom
  <2> QED BY <1>5, <1>6, <2>4
<1>7. CASE n # 0
  <2>1. n - 1 \in 0 .. N /\ ~(n <= n - 1)
    BY <1>1, <1>5, <1>7
  <2>2. n - 1 \notin T
    <3> HIDE DEF T
    <3> QED BY <1>4, <2>1
  <2>3. PICK f : IsSum(f, Small(n - 1), ring)
    BY <2>1, <2>2
  <2> DEFINE g == [s \in Small(n) |-> IF s = {} THEN 0 ELSE ring[Pick(s)] + f[s \ {Pick(s)}]]
  <2>4. DOMAIN g = Small(n) /\ g = [s \in Small(n) |-> g[s]]
        /\ \A s \in Small(n) : g[s] = IF s = {} THEN 0 ELSE ring[Pick(s)] + f[s \ {Pick(s)}]
    OBVIOUS
  <2> HIDE DEF g
  <2>5. ASSUME NEW s \in Small(n), s # {}
        PROVE  s \ {Pick(s)} \in Small(n - 1)
    <3>1. s \in SUBSET S /\ Cardinality(s) <= n /\ Pick(s) \in s
      BY <2>5, PickType DEF Small
    <3>2. Cardinality(s \ {Pick(s)}) = Cardinality(s) - 1
      BY <1>1, <3>1, FS_RemoveElement
    <3>3. Cardinality(s \ {Pick(s)}) <= n - 1
      BY <1>1, <1>5, <3>1, <3>2
    <3> QED BY <3>1, <3>3 DEF Small
  <2>6. ASSUME NEW s \in Small(n - 1)
        PROVE  s \in Small(n) /\ g[s] = f[s]
    <3>1. s \in SUBSET S /\ Cardinality(s) <= n - 1 /\ Cardinality(s) \in Nat
      BY <1>1 DEF Small
    <3>2. s \in Small(n)
      BY <1>5, <3>1 DEF Small
    <3>3. f[s] = IF s = {} THEN 0 ELSE ring[Pick(s)] + f[s \ {Pick(s)}]
      BY <2>3, SumOf
    <3> QED BY <2>4, <3>2, <3>3
  <2>7. \A s \in Small(n) : g[s] = IF s = {} THEN 0 ELSE ring[Pick(s)] + g[s \ {Pick(s)}]
    BY <2>4, <2>5, <2>6
  <2>8. IsSum(g, Small(n), ring)
    BY <2>4, <2>7, SumFrom
  <2> QED BY <1>5, <2>8
<1> QED BY <1>6, <1>7

(* It lies between its least and its greatest term, times their number.    *)
LEMMA SumBounds ==
  ASSUME NEW S, IsFiniteSet(S), NEW ring, NEW low \in Int, NEW high \in Int,
         \A i \in S : ring[i] \in Int /\ low <= ring[i] /\ ring[i] <= high,
         NEW f, IsSum(f, SUBSET S, ring)
  PROVE  /\ f[S] \in Int
         /\ low * Cardinality(S) <= f[S] /\ f[S] <= high * Cardinality(S)
<1> DEFINE Within(s) == /\ f[s] \in Int
                        /\ low * Cardinality(s) <= f[s] /\ f[s] <= high * Cardinality(s)
           T == {n \in Nat : \E s \in SUBSET S : Cardinality(s) = n /\ ~Within(s)}
<1>1. \A s \in SUBSET S : IsFiniteSet(s) /\ Cardinality(s) \in Nat
  BY FS_CardinalityType, FS_Subset
<1>2. SUFFICES ASSUME ~Within(S) PROVE FALSE
  OBVIOUS
<1>3. PICK n \in T : \A m \in T : n <= m
  <2>1. T \subseteq Nat /\ Cardinality(S) \in T
    BY <1>1, <1>2
  <2> HIDE DEF T
  <2> QED BY <2>1, LeastNumber
<1>4. PICK s \in SUBSET S : Cardinality(s) = n /\ ~Within(s)
  BY <1>3
<1>5. f[s] = IF s = {} THEN 0 ELSE ring[Pick(s)] + f[s \ {Pick(s)}]
  <2> DEFINE h == [t \in SUBSET S |-> IF t = {} THEN 0 ELSE ring[Pick(t)] + f[t \ {Pick(t)}]]
  <2>1. f = h
    BY DEF IsSum
  <2>2. h[s] = IF s = {} THEN 0 ELSE ring[Pick(s)] + f[s \ {Pick(s)}]
    OBVIOUS
  <2> HIDE DEF h
  <2> QED BY <2>1, <2>2
<1>6. CASE s = {}
  <2>1. Cardinality(s) = 0 /\ f[s] = 0
    BY <1>5, <1>6, FS_EmptySet
  <2> QED BY <1>4, <2>1
<1>7. CASE s # {}
  <2> DEFINE i == Pick(s)
             rest == s \ {i}
             c == Cardinality(rest)
             term == ring[i]
             sum == f[rest]
  <2>1. i \in s /\ i \in S /\ rest \in SUBSET S
    BY <1>7, PickType
  <2>2. c = n - 1 /\ c \in Nat /\ n \in Nat
    <3>1. c = Cardinality(s) - 1
      BY <1>1, <2>1, FS_RemoveElement
    <3> HIDE DEF rest
    <3> QED BY <1>1, <1>4, <2>1, <3>1
  <2>3. Within(rest)
    <3>1. c \notin T
      <4> HIDE DEF T, c
      <4> QED BY <1>3, <2>2
    <3> HIDE DEF Within
    <3> QED BY <2>1, <2>2, <3>1
  <2>4. term \in Int /\ low <= term /\ term <= high
    BY <2>1
  <2>5. f[s] = term + sum
    BY <1>5, <1>7
  <2>6. sum \in Int /\ low * c <= sum /\ sum <= high * c
    BY <2>3
  <2> HIDE DEF c, term, sum
  <2>7. low * n = low * c + low /\ high * n = high * c + high
        /\ low * c \in Int /\ high * c \in Int
    BY <2>2
  <2> DEFINE a == low * c
             b == high * c
  <2>8. a \in Int /\ b \in Int /\ a <= sum /\ sum <= b /\ low * n = a + low /\ high * n = b + high
    BY <2>6, <2>7
  <2> HIDE DEF a, b
  <2>9. f[s] \in Int /\ a + low <= f[s] /\ f[s] <= b + high
    BY <2>4, <2>5, <2>6, <2>8
  <2> QED BY <1>4, <2>8, <2>9
<1> QED BY <1>6, <1>7

(* The mean of numbers, as C divides, lies between them.                   *)
LEMMA QuotientBounds ==
  ASSUME NEW sum \in Int, NEW n \in Nat, n > 0, NEW low \in Int, NEW high \in Int,
         low * n <= sum, sum <= high * n
  PROVE  Quotient(sum, n) \in low .. high
<1>1. ASSUME NEW a \in Int, NEW l \in Int, l * n <= a PROVE a \div n \in Int /\ l <= a \div n
  <2> DEFINE q == a \div n
             r == a % n
  <2>1. q \in Int /\ r \in Int /\ r < n /\ a = n * q + r
    OBVIOUS
  <2> HIDE DEF q, r
  <2>2. SUFFICES ASSUME q <= l - 1 PROVE FALSE
    BY <2>1 DEF q
  <2>3. n * q <= n * (l - 1)
    BY <2>1, <2>2
  <2>4. n * (l - 1) = l * n - n
    OBVIOUS
  <2> DEFINE x == n * q
             y == l * n
  <2>5. x \in Int /\ y \in Int /\ a = x + r /\ x <= y - n /\ y <= a
    BY <1>1, <2>1, <2>3, <2>4
  <2> HIDE DEF x, y
  <2> QED BY <2>1, <2>5
<1>2. ASSUME NEW a \in Int, NEW h \in Int, a <= h * n PROVE a \div n \in Int /\ a \div n <= h
  <2> DEFINE q == a \div n
             r == a % n
  <2>1. q \in Int /\ r \in Int /\ 0 <= r /\ a = n * q + r
    OBVIOUS
  <2> HIDE DEF q, r
  <2>2. SUFFICES ASSUME h + 1 <= q PROVE FALSE
    BY <2>1 DEF q
  <2>3. n * (h + 1) <= n * q
    BY <2>1, <2>2
  <2>4. n * (h + 1) = h * n + n
    OBVIOUS
  <2> DEFINE x == n * q
             y == h * n
  <2>5. x \in Int /\ y \in Int /\ a = x + r /\ y + n <= x /\ a <= y
    BY <1>2, <2>1, <2>3, <2>4
  <2> HIDE DEF x, y
  <2> QED BY <2>1, <2>5
<1>3. CASE sum >= 0
  <2>1. sum \div n \in Int /\ low <= sum \div n /\ sum \div n <= high
    BY <1>1, <1>2
  <2> QED BY <1>3, <2>1 DEF Quotient
<1>4. CASE ~(sum >= 0)
  <2>1. (-high) * n = -(high * n) /\ (-low) * n = -(low * n)
    OBVIOUS
  <2> DEFINE x == high * n
             y == low * n
             minus == -sum
  <2>2. x \in Int /\ y \in Int /\ y <= sum /\ sum <= x /\ (-high) * n = -x /\ (-low) * n = -y
    BY <2>1
  <2> HIDE DEF x, y
  <2>3. (-high) * n <= minus /\ minus <= (-low) * n /\ minus \in Int /\ -high \in Int /\ -low \in Int
    BY <2>2
  <2>4. minus \div n \in Int /\ -high <= minus \div n /\ minus \div n <= -low
    BY <1>1, <1>2, <2>3
  <2>5. -(minus \div n) \in low .. high
    BY <2>4
  <2> QED BY <1>4, <2>5 DEF Quotient
<1> QED BY <1>3, <1>4

(* The average of a full ring lies between bounds of its values.           *)
LEMMA AverageBounds ==
  ASSUME NEW c \in Cell, NEW low \in Int, NEW high \in Int,
         \A i \in 1 .. Readings : c.ring[i] \in Int /\ c.ring[i] # Unset
                                  /\ low <= c.ring[i] /\ c.ring[i] <= high
  PROVE  getAverageRawValue(c) \in low .. high
<1> DEFINE S == 1 .. Readings
           ring == c.ring
           sum == CHOOSE f : IsSum(f, SUBSET S, ring)
<1>1. Used(c) = S
  BY DEF Used
<1>2. Readings \in Nat /\ Readings > 0
  BY LoadCellAssumption
<1>3. IsFiniteSet(S) /\ Cardinality(S) = Readings
  <2>1. 1 \in Int /\ Readings \in Int /\ ~(1 > Readings) /\ Readings - 1 + 1 = Readings
    BY <1>2
  <2> QED BY <2>1, FS_Interval
<1>4. MapThenSumSet(LAMBDA i : c.ring[i], Used(c)) = sum[S]
  <2>1. MapThenSumSet(LAMBDA i : c.ring[i], Used(c))
          = (CHOOSE f : f = [s \in SUBSET Used(c) |->
               IF s = {} THEN 0 ELSE c.ring[Pick(s)] + f[s \ {Pick(s)}]])[Used(c)]
    BY DEF MapThenSumSet, MapThenFoldSet, Pick
  <2> HIDE DEF S
  <2> QED BY <1>1, <2>1 DEF IsSum
<1>5. IsSum(sum, SUBSET S, ring)
  <2> HIDE DEF S, ring
  <2>1. \E f : IsSum(f, SUBSET S, ring)
    BY <1>3, SumExists
  <2> QED BY <2>1
<1>6. sum[S] \in Int /\ low * Readings <= sum[S] /\ sum[S] <= high * Readings
  <2>1. \A i \in S : ring[i] \in Int /\ low <= ring[i] /\ ring[i] <= high
    OBVIOUS
  <2> HIDE DEF S, ring, sum
  <2>2. /\ sum[S] \in Int
        /\ low * Cardinality(S) <= sum[S] /\ sum[S] <= high * Cardinality(S)
    BY <1>3, <1>5, <2>1, SumBounds
  <2> QED BY <1>3, <2>2
<1>7. getAverageRawValue(c) = Quotient(sum[S], Readings)
  BY <1>1, <1>3, <1>4 DEF getAverageRawValue
<1> HIDE DEF sum, S
<1> QED BY <1>2, <1>6, <1>7, QuotientBounds

(* Initially nothing has been read.                                        *)
LEMMA InitRing == Init => RingKept
<1> SUFFICES ASSUME Init PROVE RingKept
  OBVIOUS
<1>1. history.source["A"] = <<>>
  BY DEF Init, NoSource, Inputs
<1>2. Len(<<>>) = 0
  BY EmptySeq
<1> QED BY <1>1, <1>2, LoadCellAssumption DEF RingKept

(* A reading of the SPI driver moves each other one place further.         *)
LEMMA LoopSpiRing ==
  ASSUME CellInv, RingKept, LoopSpi
  PROVE  RingKept'
<1> DEFINE value == TopAligned(Sampled)
           at == cell.at
           old == history.source["A"]
           new == history'.source["A"]
<1>1. /\ TypeOK /\ Aligned /\ cell.wiring = "SPI"
      /\ cell' = Buffered(cell, value) /\ history' = Noted("A", Readings)
  BY DEF CellInv, LoopSpi
<1>2. /\ cell \in Cell /\ chip \in Chip /\ at \in 0 .. Readings - 1
      /\ Readings \in Nat /\ Readings > 0 /\ at \in Int
  BY <1>1, LoadCellAssumption DEF TypeOK, Cell
<1>3. value \in Value /\ (history.doubt = 0 => value = SignExtended(chip.raw))
  <2>1. history.doubt = 0 => chip.shifted = 0
    BY <1>1 DEF Aligned
  <2> QED BY <1>2, <2>1, SampledWhole, ValueType
<1> HIDE DEF value
<1>4. /\ old \in Seq(Source) /\ new \in Seq(Source)
      /\ Len(new) \in 1 .. Len(old) + 1 /\ Len(new) <= Readings
      /\ new[1].value = SignExtended(chip.raw) /\ (new[1].trusted <=> history.doubt = 0)
      /\ \A i \in 1 .. Len(new) - 1 : i <= Len(old) /\ new[i + 1] = old[i]
  <2>1. "A" \in Inputs /\ Readings \in Nat \ {0}
    BY <1>2 DEF Inputs
  <2> QED BY <1>1, <2>1, NotedSources
<1> DEFINE next == (at + 1) % Readings
           ring == [cell.ring EXCEPT ![at + 1] = value]
<1>5. cell'.at = next /\ cell'.ring = ring
  <2>1. cell' = [cell EXCEPT !.ring = ring, !.at = next]
    BY <1>1 DEF Buffered, Cell
  <2> HIDE DEF ring, next
  <2> QED BY <1>2, <2>1 DEF Cell
<1>6. /\ ring[at + 1] = value
      /\ \A j \in 1 .. Readings : j # at + 1 => ring[j] = cell.ring[j]
  <2>1. cell.ring \in [1 .. Readings -> Value \union {Unset}] /\ at + 1 \in 1 .. Readings
    BY <1>2 DEF Cell
  <2> HIDE DEF at
  <2> QED BY <2>1
<1>7. /\ \A i \in 1 .. Readings : Place(at, i) \in 1 .. Readings
      /\ Place(next, 1) = at + 1
      /\ \A i \in 1 .. Readings - 1 :
           Place(next, i + 1) = Place(at, i) /\ Place(at, i) # at + 1
  BY <1>2, PlaceType
<1>8. \A i \in 1 .. Len(old) : old[i].trusted => cell.ring[Place(at, i)] = old[i].value
  BY <1>1 DEF RingKept
<1>9. Len(old) \in Nat /\ Len(new) \in Nat
  BY <1>4, LenProperties
<1> HIDE DEF ring, next, at, old, new
<1>10. ASSUME NEW k \in 1 .. Len(new), new[k].trusted
       PROVE  ring[Place(next, k)] = new[k].value
  <2>1. CASE k = 1
    BY <1>3, <1>4, <1>6, <1>7, <1>10, <2>1
  <2>2. CASE k # 1
    <3> DEFINE i == k - 1
    <3>1. i \in 1 .. Len(new) - 1 /\ i \in 1 .. Readings - 1 /\ i \in 1 .. Readings /\ k = i + 1
      BY <1>2, <1>4, <1>9, <2>2
    <3> HIDE DEF i
    <3>2. i \in 1 .. Len(old) /\ new[k] = old[i]
      BY <1>4, <1>9, <3>1
    <3>3. cell.ring[Place(at, i)] = old[i].value
      BY <1>8, <1>10, <3>2
    <3>4. /\ Place(next, k) = Place(at, i) /\ Place(at, i) # at + 1
          /\ Place(at, i) \in 1 .. Readings
      BY <1>7, <3>1
    <3> QED BY <1>6, <3>2, <3>3, <3>4
  <2> QED BY <2>1, <2>2
<1>11. \A k \in 1 .. Len(new) :
         new[k].trusted => cell'.ring[Place(cell'.at, k)] = new[k].value
  BY <1>5, <1>10
<1> QED BY <1>4, <1>11 DEF RingKept, new

(* The other steps leave the readings of the SPI driver, or forget them.   *)
LEMMA RingStep ==
  ASSUME CellInv, RingKept, [Next]_vars
  PROVE  RingKept'
<1>0. /\ cell \in Cell /\ history \in History
      /\ history.source \in [Inputs -> Seq(Source)] /\ "A" \in Inputs
  BY DEF CellInv, TypeOK, History, Inputs
<1>1. CASE LoopSpi
  BY <1>1, LoopSpiRing
<1>2. CASE /\ cell'.wiring = cell.wiring /\ cell'.ring = cell.ring /\ cell'.at = cell.at
           /\ history'.source = history.source
  BY <1>2 DEF RingKept
<1>3. CASE cell'.wiring = "GPIO"
  BY <1>3 DEF RingKept
<1>4. CASE history'.source = NoSource
  <2>1. history'.source["A"] = <<>> /\ Len(<<>>) = 0
    BY <1>0, <1>4, EmptySeq DEF NoSource
  <2> QED BY <2>1, LoadCellAssumption DEF RingKept
<1>5. CASE Setup
  <2>1. CASE cell.wiring = "SPI"
    <3>1. /\ cell' \in {[cell EXCEPT !.state = "ERROR"], [cell EXCEPT !.state = "WAIT_FOR_DATA_READY"]}
          /\ history' = history
      BY <1>5, <2>1 DEF Setup
    <3>2. cell'.wiring = cell.wiring /\ cell'.ring = cell.ring /\ cell'.at = cell.at
      BY <1>0, <3>1 DEF Cell
    <3> QED BY <1>2, <3>1, <3>2
  <2>2. CASE cell.wiring # "SPI"
    <3>1. history' = [history EXCEPT !.source = NoSource]
      BY <1>5, <2>2 DEF Setup
    <3>2. history'.source = NoSource
      BY <1>0, <3>1 DEF History
    <3> QED BY <1>4, <3>2
  <2> QED BY <2>1, <2>2
<1>6. CASE LoopGpio
  <2>1. cell.wiring = "GPIO"
    BY <1>6 DEF LoopGpio
  <2>2. cell'.wiring = cell.wiring
    <3>1. \/ cell' = [cell EXCEPT !.index = NextIndex(cell)]
          \/ \E mode, v : cell' = [updateLastReading(cell, mode, v) EXCEPT !.index = NextIndex(cell)]
      BY <1>6 DEF LoopGpio
    <3>2. CASE cell' = [cell EXCEPT !.index = NextIndex(cell)]
      BY <1>0, <3>2 DEF Cell
    <3>3. ASSUME NEW mode, NEW v,
                 cell' = [updateLastReading(cell, mode, v) EXCEPT !.index = NextIndex(cell)]
          PROVE  cell'.wiring = cell.wiring
      BY <1>0, <3>3 DEF updateLastReading, Cell
    <3> QED BY <3>1, <3>2, <3>3
  <2> QED BY <1>3, <2>1, <2>2
<1>7. CASE Convert
  BY <1>2, <1>7 DEF Convert
<1>8. CASE TransferTimesOut
  <2>1. cell' = cell /\ Cut(history)
    BY <1>8 DEF TransferTimesOut
  <2>2. history'.source = history.source
    BY <1>0, <2>1 DEF Cut, History
  <2> QED BY <1>2, <2>1, <2>2
<1>9. CASE Restart
  <2> DEFINE forgotten == [history EXCEPT !.source = NoSource]
  <2>1. forgotten \in History /\ forgotten.source = NoSource
    BY <1>0, NoSourceType DEF History
  <2>2. Cut(forgotten) \/ history' = forgotten
    BY <1>9 DEF Restart
  <2> HIDE DEF forgotten
  <2>3. history'.source = NoSource
    BY <2>1, <2>2 DEF Cut, History
  <2> QED BY <1>4, <2>3
<1>10. CASE UNCHANGED vars
  BY <1>2, <1>10 DEF vars
<1> QED BY <1>1, <1>5, <1>6, <1>7, <1>8, <1>9, <1>10 DEF Next

(* A full ring of trusted readings has their values, and no others.        *)
LEMMA AverageOfRing == CellInv /\ RingKept => AverageIsOfReadings
<1> DEFINE sources == history.source["A"]
           values == {sources[i].value : i \in DOMAIN sources}
<1> SUFFICES ASSUME CellInv, RingKept, cell.wiring = "SPI", Len(sources) = Readings,
                    \A i \in DOMAIN sources : sources[i].trusted
             PROVE  getAverageRawValue(cell) \in Min(values) .. Max(values)
  BY DEF AverageIsOfReadings
<1>1. /\ cell \in Cell /\ sources \in Seq(Source) /\ cell.at \in 0 .. Readings - 1
      /\ Readings \in Nat /\ Readings > 0
  BY LoadCellAssumption DEF CellInv, TypeOK, Cell, History, Inputs
<1>2. DOMAIN sources = 1 .. Readings
  BY <1>1, LenProperties
<1>3. \A i \in 1 .. Readings : sources[i].value \in Value /\ sources[i].value \in values
  <2> TAKE i \in 1 .. Readings
  <2>1. sources[i].value \in values
    BY <1>2
  <2>2. sources[i] \in Source
    <3> HIDE DEF sources, values
    <3> QED BY <1>1, ElementOfSeq
  <2>3. sources[i].value \in Value
    <3> HIDE DEF sources, values
    <3> QED BY <2>2 DEF Source
  <2> QED BY <2>1, <2>3
<1>4. values \subseteq Value /\ values # {}
  <2>1. \A v \in values : \E i \in 1 .. Readings : v = sources[i].value
    BY <1>2
  <2>2. 1 \in 1 .. Readings
    BY <1>1
  <2> HIDE DEF values, sources
  <2> QED BY <1>3, <2>1, <2>2
<1>5. \A i \in 1 .. Readings : cell.ring[Place(cell.at, i)] = sources[i].value
  BY <1>2 DEF RingKept
<1> HIDE DEF values, sources
<1>6. \A j \in 1 .. Readings : cell.ring[j] \in values
  <2> TAKE j \in 1 .. Readings
  <2>1. PICK i \in 1 .. Readings : Place(cell.at, i) = j
    BY <1>1, PlaceType
  <2> QED BY <1>3, <1>5, <2>1
<1>7. \A x \in Value : x \in Int /\ x # Unset
  <2> DEFINE half == 2 ^ (Width - 1)
  <2>1. half \in Int /\ half > 0 /\ Value = -half .. half - 1 /\ Unset = -(2 * half)
    <3>1. Width \in Nat \ {0} /\ 2 ^ 1 = 2
      BY LoadCellAssumption
    <3>2. 1 \in 0 .. Width + 8 /\ Width - 1 \in 0 .. Width + 8 /\ 1 + (Width - 1) = Width
      BY <3>1
    <3>3. half > 0 /\ 2 ^ (1 + (Width - 1)) = 2 ^ 1 * half
      BY <3>2, PowersAssumption
    <3>4. half \in Int
      BY <3>1
    <3> QED BY <3>1, <3>2, <3>3, <3>4 DEF Value, Unset
  <2> HIDE DEF half
  <2> QED BY <2>1
<1>8. /\ Min(values) \in Int /\ Max(values) \in Int
      /\ \A x \in values : Min(values) <= x /\ x <= Max(values)
  BY <1>4, <1>7, Extremes
<1>9. \A j \in 1 .. Readings : cell.ring[j] \in Int /\ cell.ring[j] # Unset
        /\ Min(values) <= cell.ring[j] /\ cell.ring[j] <= Max(values)
  BY <1>4, <1>6, <1>7, <1>8
<1> QED BY <1>1, <1>8, <1>9, AverageBounds

(* For all numbers of readings and all widths, whatever breaks off and     *)
(* restarts: the average of a ring full of readings that can be trusted,   *)
(* as C divides, lies among the last readings.                             *)
THEOREM AverageLiesAmongReadings == Spec => []AverageIsOfReadings
<1>1. Init => CellInv /\ RingKept
  BY InitInv, InitRing
<1>2. RingKept /\ CellInv /\ [Next]_vars => RingKept'
  BY RingStep
<1>3. CellInv /\ RingKept => AverageIsOfReadings
  BY AverageOfRing
<1> QED BY <1>1, <1>2, <1>3, CellInvariant, PTL DEF Spec
=============================================================================
