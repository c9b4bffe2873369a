---------------------------- MODULE ModbusCommons ----------------------------
(***************************************************************************)
(* What the two Modbus servers have in common: they read the same request  *)
(* out of bytes and serve it, one register at a time, from the registers   *)
(* they share (modbus/modbus_commons.hh, IModbusRegisterModel).  Each      *)
(* access to a register is atomic; the registers of one request are not.   *)
(***************************************************************************)
EXTENDS Integers, Sequences

CONSTANTS
  HoldingMaxIndex,  \* HOLDING_REGISTER_MAX_INDEX
  InputMaxIndex     \* INPUT_REGISTER_MAX_INDEX

ASSUME RegistersAssumption == HoldingMaxIndex \in Nat /\ InputMaxIndex \in Nat

Byte == 0 .. 255
Word == 0 .. 65535
Registers == [0 .. HoldingMaxIndex -> Word]

(* Input registers: the application's, constant here. *)
InputRegister(i) == 7 + i

(* Function codes. *)
ReadHolding == 3
ReadInput == 4
WriteSingle == 6
WriteMultiple == 16

Reads(fc) == fc \in {ReadHolding, ReadInput}
Writes(fc) == fc \in {WriteSingle, WriteMultiple}

(* The big endian word at position i, which counts from 0 as in the code. *)
U16(data, i) == data[i + 1] * 256 + data[i + 2]

Bytes(word) == <<word \div 256, word % 256>>

Words(data, i, n) == [k \in 1 .. n |-> U16(data, i + 2 * (k - 1))]

(***************************************************************************)
(* A client's request, and the PDU that carries it from the function code  *)
(* on.  `quantity` is what a multiple write claims, right or wrong.        *)
(***************************************************************************)
PduValues(values) ==
  IF values = << >>
  THEN << >>
  ELSE <<2 * Len(values)>> \o
         [k \in 1 .. 2 * Len(values) |-> Bytes(values[(k + 1) \div 2])[2 - (k % 2)]]

Pdu(request) ==
  <<request.fc>> \o Bytes(request.start) \o
    (IF request.fc = WriteSingle
     THEN Bytes(request.values[1])
     ELSE Bytes(request.quantity) \o PduValues(request.values))

(* What a client may put into one: the values of a function that has none, *)
(* one or several, no more than their number of bytes can count.           *)
Sendable(request) ==
  /\ request.fc \in Byte /\ request.start \in Word /\ request.quantity \in Word
  /\ request.values \in Seq(Word) /\ Len(request.values) <= 127
  /\ Reads(request.fc) => request.values = << >>
  /\ request.fc = WriteSingle => Len(request.values) = 1 /\ request.quantity = 1
  /\ request.fc = WriteMultiple => request.values # << >>

----------------------------------------------------------------------------
(* The request that a server has taken: `done` counts the registers read   *)
(* or written.  One that is refused (code > 0) has none.                   *)
Job == [fc : Byte, code : 0 .. 3, start : Word, quantity : 0 .. 125,
        values : Seq(Word), done : 0 .. 125]

Serve(fc, start, quantity, values) ==
  [fc |-> fc, code |-> 0, start |-> start, quantity |-> quantity, values |-> values, done |-> 0]

Refuse(fc, code) ==
  [fc |-> fc, code |-> code, start |-> 0, quantity |-> 0, values |-> << >>, done |-> 0]

NoJob == Refuse(0, 0)

Finished(job) == job.done = job.quantity

ValueAt(job, holding) ==
  IF job.fc = ReadInput
  THEN InputRegister(job.start + job.done)
  ELSE holding[job.start + job.done]

(* One round of the loop over the registers. *)
NextJob(job, holding) ==
  [job EXCEPT !.done = @ + 1,
              !.values = IF Reads(job.fc) THEN Append(@, ValueAt(job, holding)) ELSE @]

(* Variant: counts the registers from the first one. *)
NextHoldingAtFirst(job, holding) ==
  IF Writes(job.fc)
  THEN [holding EXCEPT ![job.done] = job.values[job.done + 1]]
  ELSE holding

NextHolding(job, holding) ==
  IF Writes(job.fc)
  THEN [holding EXCEPT ![job.start + job.done] = job.values[job.done + 1]]
  ELSE holding

(* What the client reads in the response. *)
Response == [fc : Byte, code : 0 .. 3, start : Word, quantity : 0 .. 125, values : Seq(Word)]

Answer(job) ==
  [fc |-> job.fc, code |-> job.code,
   start |-> IF Reads(job.fc) THEN 0 ELSE job.start,
   quantity |-> job.quantity,
   values |-> IF job.fc = WriteMultiple THEN << >> ELSE job.values]

NoAnswer == Answer(NoJob)
=============================================================================
