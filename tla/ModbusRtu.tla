------------------------------ MODULE ModbusRtu ------------------------------
(***************************************************************************)
(* The Modbus RTU slave of modbus/modbus_rtu_server.hpp on a USB serial    *)
(* line, and its master.  A frame may arrive in any chunks: ProcessChunk   *)
(* is called after each and decides from the bytes so far.  The caller,    *)
(* outside this repository, drops an unfinished frame when nothing more    *)
(* arrives and does not read while it has a response to send.              *)
(***************************************************************************)
EXTENDS ModbusCommons

CONSTANTS
  SlaveId,      \* m_slave_id
  RtuRequests,  \* what the master may ask for: requests with their slave
  Chunks,       \* sizes of the chunks that USB brings, besides all there is
  Noise,        \* bytes that disturbances leave
  MaxFaults     \* bound: frames that are disturbed

VARIABLES
  holding,  \* the holding registers, shared with the other server
  rtu,      \* the slave
  line,     \* bytes on their way to it
  master

Rtu == [buf : Seq(Byte),               \* the message_length first bytes of m_buf
        serving : BOOLEAN, job : Job]

Master == [waiting : BOOLEAN, request : RtuRequests,
           intact : BOOLEAN,   \* history: the request got to the line undisturbed
           clean : BOOLEAN,    \* history: nothing of an earlier frame was left then
           faults : Nat,
           answer : Response]

RtuTypeOK ==
  /\ rtu \in Rtu
  /\ line \in Seq(Byte)
  /\ master \in Master

----------------------------------------------------------------------------
(* A 16 bit check sum that tells apart whatever the line makes of a frame. *)
CalcCRC(data) ==
  LET sum[n \in 0 .. Len(data)] ==
        IF n = 0 THEN 65535 ELSE (sum[n - 1] * 31 + data[n] + 1) % 65521
  IN  sum[Len(data)]

WithCRC(data) == LET crc == CalcCRC(data) IN data \o <<crc % 256, crc \div 256>>

ValidCRC(data) == data = WithCRC(SubSeq(data, 1, Len(data) - 2))

Frame(request) == WithCRC(<<request.slave>> \o Pdu(request))

(* The results of Parse.  Only a job makes the slave answer. *)
Result(result) == [result |-> result, job |-> NoJob]
OK(job) == [result |-> "OK", job |-> job]

ProcessReadRegisters(data) ==
  LET fc == data[2]
      start == U16(data, 2)
      quantity == U16(data, 4)
      maxIndex == IF fc = ReadHolding THEN HoldingMaxIndex ELSE InputMaxIndex
  IN  IF Len(data) # 8 THEN Result("LENGTH_ERROR")
      ELSE IF ~ValidCRC(data) THEN Result("CRC_ERROR")
      ELSE IF quantity = 0 \/ quantity > 125 \/ start + quantity > maxIndex + 1
           THEN OK(Refuse(fc, 2))
           ELSE OK(Serve(fc, start, quantity, << >>))

WriteSingleJob(data) ==
  IF U16(data, 2) > HoldingMaxIndex
  THEN Refuse(WriteSingle, 2)
  ELSE Serve(WriteSingle, U16(data, 2), 1, Words(data, 4, 1))

(* Variant: does not check the CRC. *)
WriteSingleUnchecked(data) ==
  IF Len(data) # 8 THEN Result("LENGTH_ERROR") ELSE OK(WriteSingleJob(data))

ProcessWriteSingleRegister(data) ==
  IF Len(data) # 8 THEN Result("LENGTH_ERROR")
  ELSE IF ~ValidCRC(data) THEN Result("CRC_ERROR")
  ELSE OK(WriteSingleJob(data))

ProcessWriteMultipleRegisters(data) ==
  LET start == U16(data, 2)
      quantity == U16(data, 4)
      necessary == 7 + data[7] + 2
  IN  IF Len(data) < 9 THEN Result("NOT_YET_COMPLETE")
      ELSE IF quantity = 0 \/ quantity > 123 \/ data[7] # quantity * 2
           THEN OK(Refuse(WriteMultiple, 3))
      ELSE IF Len(data) < necessary THEN Result("NOT_YET_COMPLETE")
      ELSE IF Len(data) > necessary THEN Result("LENGTH_ERROR")
      ELSE IF ~ValidCRC(data) THEN Result("CRC_ERROR")
      ELSE IF start + quantity > HoldingMaxIndex + 1
           THEN OK(Refuse(WriteMultiple, 2))
           ELSE OK(Serve(WriteMultiple, start, quantity, Words(data, 7, quantity)))

Dispatch(data) ==
  CASE Reads(data[2]) -> ProcessReadRegisters(data)
    [] data[2] = WriteSingle -> ProcessWriteSingleRegister(data)
    [] data[2] = WriteMultiple -> ProcessWriteMultipleRegisters(data)
    [] OTHER -> OK(Refuse(data[2], 1))

(* Variant: takes an unfinished frame for a broken one. *)
ParseAtOnce(data) ==
  IF Len(data) < 8 THEN Result("LENGTH_ERROR")
  ELSE IF data[1] # SlaveId THEN Result("NOT_FOR_ME")
  ELSE Dispatch(data)

Parse(data) ==
  IF Len(data) < 8 THEN Result("NOT_YET_COMPLETE")
  ELSE IF data[1] # SlaveId THEN Result("NOT_FOR_ME")
  ELSE Dispatch(data)

(* Any frame that is not unfinished is done with, answered or not. *)
ProcessChunk(data) ==
  LET parsed == Parse(data)
  IN  rtu' = [buf |-> IF parsed.result = "NOT_YET_COMPLETE" THEN data ELSE << >>,
              serving |-> parsed.result = "OK",
              job |-> parsed.job]

----------------------------------------------------------------------------
RtuInit ==
  /\ rtu = [buf |-> << >>, serving |-> FALSE, job |-> NoJob]
  /\ line = << >>
  /\ master = [waiting |-> FALSE, request |-> CHOOSE r \in RtuRequests : TRUE,
               intact |-> FALSE, clean |-> FALSE, faults |-> 0, answer |-> NoAnswer]

(* The caller reads some of the bytes that have come. *)
Receive ==
  /\ ~rtu.serving
  /\ \E n \in (Chunks \union {Len(line)}) \intersect 1 .. Len(line) :
        /\ ProcessChunk(rtu.buf \o SubSeq(line, 1, n))
        /\ line' = SubSeq(line, n + 1, Len(line))
  /\ UNCHANGED <<holding, master>>

(* The caller has waited for InterFrameTimeoutTicks. *)
InterFrameTimeout ==
  /\ ~rtu.serving /\ rtu.buf # << >> /\ line = << >>
  /\ rtu' = [rtu EXCEPT !.buf = << >>]
  /\ UNCHANGED <<holding, line, master>>

AccessRegister ==
  /\ rtu.serving /\ ~Finished(rtu.job)
  /\ rtu' = [rtu EXCEPT !.job = NextJob(@, holding)]
  /\ holding' = NextHolding(rtu.job, holding)
  /\ UNCHANGED <<line, master>>

(* Variant: has no length to send. *)
SendNothing ==
  /\ rtu.serving /\ Finished(rtu.job)
  /\ rtu' = [rtu EXCEPT !.serving = FALSE, !.job = NoJob]
  /\ UNCHANGED <<holding, line, master>>

(* The caller sends the response. *)
SendResponse ==
  /\ rtu.serving /\ Finished(rtu.job)
  /\ rtu' = [rtu EXCEPT !.serving = FALSE, !.job = NoJob]
  /\ master' = IF master.waiting
               THEN [master EXCEPT !.waiting = FALSE, !.answer = Answer(rtu.job)]
               ELSE master
  /\ UNCHANGED <<holding, line>>

----------------------------------------------------------------------------
(* The master and the line.  It waits for an answer before it goes on, and *)
(* longer than the slave waits for the rest of a frame.                    *)

(* One byte garbled, or a chunk at the beginning or the end lost. *)
Disturbed(frame) ==
  {[frame EXCEPT ![i] = byte] : i \in DOMAIN frame, byte \in Noise}
    \union {SubSeq(frame, n + 1, Len(frame)) : n \in Chunks}
    \union {SubSeq(frame, 1, Len(frame) - n) : n \in Chunks}

Transmit(request, frame, fault) ==
  /\ line' = line \o frame
  /\ master' = [waiting |-> TRUE, request |-> request, intact |-> frame = Frame(request),
                clean |-> line = << >> /\ rtu.buf = << >> /\ ~rtu.serving,
                faults |-> master.faults + fault, answer |-> NoAnswer]
  /\ UNCHANGED <<holding, rtu>>

MasterSends ==
  /\ ~master.waiting
  /\ \E request \in RtuRequests :
        \/ Transmit(request, Frame(request), 0)
        \/ /\ master.faults < MaxFaults
           /\ \E frame \in Disturbed(Frame(request)) : Transmit(request, frame, 1)

MasterGivesUp ==
  /\ master.waiting
  /\ line = << >> /\ rtu.buf = << >> /\ ~rtu.serving
  /\ master' = [master EXCEPT !.waiting = FALSE]
  /\ UNCHANGED <<holding, rtu, line>>

RtuServes == Receive \/ InterFrameTimeout \/ AccessRegister \/ SendResponse
=============================================================================
