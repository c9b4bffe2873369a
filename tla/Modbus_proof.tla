---------------------------- MODULE Modbus_proof ----------------------------
(***************************************************************************)
(* Proofs about Modbus, whatever the requests are and in whatever pieces   *)
(* they arrive:                                                            *)
(*   - no request is forgotten (NoRequestIsForgotten), and a master that   *)
(*     has given up has written nothing (SilenceWritesNothing), whatever   *)
(*     the line loses, garbles or cuts in pieces;                          *)
(*   - where nothing is lost or cut (Undisturbed), what is written is what *)
(*     was asked for (WritesAreAskedFor), what is answered is what was     *)
(*     stored (AnswersAreTrue), and a write is confirmed                   *)
(*     (WritesAreConfirmed), with the two servers taking turns, register   *)
(*     by register, on the same registers.                                 *)
(* The check sum is any function: all that matters is that the slave       *)
(* computes it of the same bytes.                                          *)
(***************************************************************************)
EXTENDS Modbus, SequenceTheorems, TLAPS

(* What is on the line: bytes, and the halves of check sums.               *)
Symbols ==
  Nat \union {RtuServer!CalcCRC(data) % 256 : data \in Seq(Nat)}
      \union {RtuServer!CalcCRC(data) \div 256 : data \in Seq(Nat)}

----------------------------------------------------------------------------
(* The bytes of a request. *)

(* Two pieces put together: the places of the first, then of the second.   *)
LEMMA Pieces ==
  ASSUME NEW S, NEW s \in Seq(S), NEW t \in Seq(S)
  PROVE  /\ s \o t \in Seq(S) /\ Len(s \o t) = Len(s) + Len(t)
         /\ Len(s) \in Nat /\ Len(t) \in Nat
         /\ \A i \in 1 .. Len(s) : (s \o t)[i] = s[i]
         /\ \A i \in 1 .. Len(t) : (s \o t)[Len(s) + i] = t[i]
<1>1. Len(s) \in Nat /\ Len(t) \in Nat
  BY LenProperties
<1>2. /\ s \o t \in Seq(S) /\ Len(s \o t) = Len(s) + Len(t)
      /\ \A i \in 1 .. Len(s) + Len(t) :
            (s \o t)[i] = IF i <= Len(s) THEN s[i] ELSE t[i - Len(s)]
  BY ConcatProperties
<1>3. ASSUME NEW i \in 1 .. Len(s) PROVE (s \o t)[i] = s[i]
  BY <1>1, <1>2
<1>4. ASSUME NEW i \in 1 .. Len(t) PROVE (s \o t)[Len(s) + i] = t[i]
  <2>1. Len(s) + i \in 1 .. Len(s) + Len(t) /\ ~(Len(s) + i <= Len(s)) /\ Len(s) + i - Len(s) = i
    BY <1>1
  <2> QED BY <1>2, <2>1
<1> QED BY <1>1, <1>2, <1>3, <1>4

(* The same as one fact, to be taken apart where it is used. *)
Joined(S, s, t) ==
  /\ s \o t \in Seq(S) /\ Len(s \o t) = Len(s) + Len(t)
  /\ Len(s) \in Nat /\ Len(t) \in Nat
  /\ \A i \in 1 .. Len(s) : (s \o t)[i] = s[i]
  /\ \A i \in 1 .. Len(t) : (s \o t)[Len(s) + i] = t[i]

(* Two sequences are joined by the concatenation. *)
LEMMA Joins ==
  ASSUME NEW S, NEW s \in Seq(S), NEW t \in Seq(S)
  PROVE  Joined(S, s, t)
<1>1. /\ s \o t \in Seq(S) /\ Len(s \o t) = Len(s) + Len(t)
      /\ Len(s) \in Nat /\ Len(t) \in Nat
      /\ \A i \in 1 .. Len(s) : (s \o t)[i] = s[i]
      /\ \A i \in 1 .. Len(t) : (s \o t)[Len(s) + i] = t[i]
  BY Pieces
<1> QED BY <1>1, Zenon DEF Joined

(* Bytes and words are numbers. *)
LEMMA Natural == Word \subseteq Nat /\ Byte \subseteq Nat
BY DEF Word, Byte

(* One byte. *)
LEMMA One ==
  ASSUME NEW x \in Nat
  PROVE  <<x>> \in Seq(Nat) /\ Len(<<x>>) = 1 /\ <<x>>[1] = x
OBVIOUS

(* The two bytes of a word. *)
High(n) == n \div 256
Low(n) == n % 256

(* A word is sent as its high byte and its low byte. *)
LEMMA BytesType ==
  ASSUME NEW n \in Nat
  PROVE  /\ Bytes(n) \in Seq(Nat) /\ Len(Bytes(n)) = 2
         /\ Bytes(n)[1] = High(n) /\ Bytes(n)[2] = Low(n)
         /\ High(n) \in Nat /\ Low(n) \in Nat
<1>1. High(n) \in Nat /\ Low(n) \in Nat
  BY DEF High, Low
<1>2. Bytes(n) = <<High(n), Low(n)>>
  BY DEF Bytes, High, Low
<1> QED BY <1>1, <1>2

(* The bytes of the values, with their number in front. *)
LEMMA ValuesType ==
  ASSUME NEW values \in Seq(Word)
  PROVE  /\ PduValues(values) \in Seq(Nat)
         /\ Len(PduValues(values)) = IF values = << >> THEN 0 ELSE 1 + 2 * Len(values)
         /\ values # << >> => PduValues(values)[1] = 2 * Len(values)
<1> DEFINE n == 2 * Len(values)
           bytes == [k \in 1 .. n |-> Bytes(values[(k + 1) \div 2])[2 - (k % 2)]]
<1>1. n \in Nat /\ Len(values) \in Nat
  BY LenProperties
<1>2. \A k \in 1 .. n : Bytes(values[(k + 1) \div 2])[2 - (k % 2)] \in Nat
  <2> SUFFICES ASSUME NEW k \in 1 .. n PROVE Bytes(values[(k + 1) \div 2])[2 - (k % 2)] \in Nat
    OBVIOUS
  <2>1. (k + 1) \div 2 \in 1 .. Len(values) /\ 2 - (k % 2) \in {1, 2}
    BY <1>1
  <2>2. values[(k + 1) \div 2] \in Word
    BY <2>1, ElementOfSeq
  <2>3. values[(k + 1) \div 2] \in Nat
    BY <2>2, Natural
  <2> QED BY <2>1, <2>3, BytesType
<1>3. bytes \in Seq(Nat) /\ Len(bytes) = n
  BY <1>1, <1>2
<1>4. PduValues(values) = IF values = << >> THEN << >> ELSE <<n>> \o bytes
  BY DEF PduValues
<1> HIDE DEF bytes
<1>5. <<n>> \in Seq(Nat) /\ Len(<<n>>) = 1 /\ <<n>>[1] = n
  BY <1>1, One
<1>6. <<n>> \o bytes \in Seq(Nat) /\ Len(<<n>> \o bytes) = 1 + n /\ (<<n>> \o bytes)[1] = n
  BY <1>1, <1>3, <1>5, ConcatProperties
<1> HIDE DEF n
<1>7. << >> \in Seq(Nat) /\ Len(<< >>) = 0
  BY EmptySeq
<1> QED BY <1>4, <1>6, <1>7 DEF n

(* A PDU begins with its function code; the sixth byte of a multiple write *)
(* counts the bytes that follow it.                                        *)
LEMMA PduType ==
  ASSUME NEW request, Sendable(request)
  PROVE  /\ Pdu(request) \in Seq(Nat)
         /\ Len(Pdu(request)) = IF request.fc = WriteSingle \/ request.values = << >>
                                THEN 5 ELSE 6 + 2 * Len(request.values)
         /\ Pdu(request)[1] = request.fc
         /\ request.fc = WriteMultiple => Pdu(request)[6] = 2 * Len(request.values)
<1> DEFINE values == request.values
           head == <<request.fc>> \o Bytes(request.start)
           tail == PduValues(values)
<1>1. request.fc \in Nat /\ request.start \in Nat /\ request.quantity \in Nat
  BY Natural DEF Sendable
<1>2. values \in Seq(Word) /\ Len(values) \in Nat
  <2>1. values \in Seq(Word)
    BY DEF Sendable
  <2> QED BY <2>1, LenProperties
<1>3. head \in Seq(Nat) /\ Len(head) = 3 /\ head[1] = request.fc
  <2>1. <<request.fc>> \in Seq(Nat) /\ Len(<<request.fc>>) = 1 /\ <<request.fc>>[1] = request.fc
    BY <1>1, One
  <2>2. Bytes(request.start) \in Seq(Nat) /\ Len(Bytes(request.start)) = 2
    BY <1>1, BytesType
  <2>3. /\ head \in Seq(Nat) /\ Len(head) = Len(<<request.fc>>) + Len(Bytes(request.start))
        /\ \A i \in 1 .. Len(<<request.fc>>) : head[i] = <<request.fc>>[i]
    <3> DEFINE fc == <<request.fc>>
               start == Bytes(request.start)
    <3>1. fc \in Seq(Nat) /\ start \in Seq(Nat)
      BY <2>1, <2>2
    <3> HIDE DEF fc, start
    <3>2. Joined(Nat, fc, start)
      BY <3>1, Joins
    <3> QED BY <3>2, Zenon DEF Joined, fc, start
  <2> HIDE DEF head
  <2> QED BY <2>1, <2>2, <2>3
<1>4. Pdu(request) = head \o (IF request.fc = WriteSingle THEN Bytes(values[1])
                              ELSE Bytes(request.quantity) \o tail)
  BY DEF Pdu
<1>5. /\ tail \in Seq(Nat) /\ Len(tail) = IF values = << >> THEN 0 ELSE 1 + 2 * Len(values)
      /\ values # << >> => tail[1] = 2 * Len(values)
  BY <1>2, ValuesType
<1>8. /\ request.fc = WriteSingle => Len(values) = 1
      /\ request.fc = WriteMultiple => values # << >>
  BY DEF Sendable
<1> HIDE DEF head, tail, values
<1>6. CASE request.fc = WriteSingle
  <2> DEFINE value == Bytes(values[1])
  <2>1. Len(values) = 1
    BY <1>6, <1>8
  <2>2. values[1] \in Word
    <3>1. 1 \in 1 .. Len(values)
      BY <2>1
    <3> QED BY <1>2, <3>1, ElementOfSeq
  <2>3. value \in Seq(Nat) /\ Len(value) = 2
    <3> DEFINE v == values[1]
    <3>1. v \in Word
      BY <2>2
    <3> HIDE DEF v
    <3>2. v \in Nat
      BY <3>1, Natural, Zenon
    <3>3. Bytes(v) \in Seq(Nat) /\ Len(Bytes(v)) = 2
      BY <3>2, BytesType
    <3> QED BY <3>3 DEF v
  <2>4. Pdu(request) = head \o value
    BY <1>4, <1>6
  <2> HIDE DEF value
  <2>5. /\ head \o value \in Seq(Nat) /\ Len(head \o value) = 5
        /\ \A i \in 1 .. Len(head) : (head \o value)[i] = head[i]
    <3>1. /\ head \o value \in Seq(Nat) /\ Len(head \o value) = Len(head) + Len(value)
          /\ \A i \in 1 .. Len(head) : (head \o value)[i] = head[i]
      <4>1. Joined(Nat, head, value)
        BY <1>3, <2>3, Joins
      <4> QED BY <4>1, Zenon DEF Joined
    <3> QED BY <1>3, <2>3, <3>1
  <2>6. Pdu(request)[1] = request.fc
    BY <1>3, <2>4, <2>5, SMTT(30)
  <2> QED BY <1>6, <2>4, <2>5, <2>6 DEF WriteSingle, WriteMultiple
<1>7. CASE request.fc # WriteSingle
  <2> DEFINE quantity == Bytes(request.quantity)
             rest == quantity \o tail
  <2>1. quantity \in Seq(Nat) /\ Len(quantity) = 2
    BY <1>1, BytesType
  <2>2. Pdu(request) = head \o rest
    BY <1>4, <1>7
  <2> HIDE DEF quantity
  <2>3. /\ rest \in Seq(Nat) /\ Len(rest) = 2 + Len(tail) /\ Len(tail) \in Nat
        /\ \A i \in 1 .. Len(tail) : rest[2 + i] = tail[i]
    <3>1. quantity \in Seq(Nat) /\ tail \in Seq(Nat)
      BY <1>5, <2>1
    <3>2. /\ quantity \o tail \in Seq(Nat) /\ Len(quantity \o tail) = Len(quantity) + Len(tail)
          /\ Len(tail) \in Nat
          /\ \A i \in 1 .. Len(tail) : (quantity \o tail)[Len(quantity) + i] = tail[i]
      <4>1. Joined(Nat, quantity, tail)
        BY <3>1, Joins
      <4> QED BY <4>1, Zenon DEF Joined
    <3> QED BY <2>1, <3>2
  <2> HIDE DEF rest
  <2>4. /\ head \o rest \in Seq(Nat) /\ Len(head \o rest) = 3 + Len(rest)
        /\ \A i \in 1 .. Len(head) : (head \o rest)[i] = head[i]
        /\ \A i \in 1 .. Len(rest) : (head \o rest)[3 + i] = rest[i]
    <3>1. head \in Seq(Nat) /\ rest \in Seq(Nat)
      BY <1>3, <2>3
    <3>2. /\ head \o rest \in Seq(Nat) /\ Len(head \o rest) = Len(head) + Len(rest)
          /\ \A i \in 1 .. Len(head) : (head \o rest)[i] = head[i]
          /\ \A i \in 1 .. Len(rest) : (head \o rest)[Len(head) + i] = rest[i]
      <4>1. Joined(Nat, head, rest)
        BY <3>1, Joins
      <4> QED BY <4>1, Zenon DEF Joined
    <3> QED BY <1>3, <3>2
  <2>5. Pdu(request)[1] = request.fc
    BY <1>3, <2>2, <2>4
  <2>6. Len(tail) > 0 => Pdu(request)[6] = tail[1]
    <3> SUFFICES ASSUME Len(tail) > 0 PROVE Pdu(request)[6] = tail[1]
      OBVIOUS
    <3>1. rest[3] = tail[1]
      <4>1. 1 \in 1 .. Len(tail) /\ 2 + 1 = 3
        BY <2>3
      <4> QED BY <2>3, <4>1
    <3>2. (head \o rest)[6] = rest[3]
      <4>1. 3 \in 1 .. Len(rest) /\ 3 + 3 = 6
        BY <2>3
      <4> QED BY <2>4, <4>1
    <3> QED BY <2>2, <3>1, <3>2
  <2>7. request.fc = WriteMultiple => values # << >>
    BY <1>8
  <2>8. Len(Pdu(request)) = IF values = << >> THEN 5 ELSE 6 + 2 * Len(values)
    BY <1>2, <1>5, <2>2, <2>3, <2>4
  <2>9. request.fc = WriteMultiple => Pdu(request)[6] = 2 * Len(values)
    <3>1. values # << >> => Len(tail) > 0
      BY <1>2, <1>5
    <3> QED BY <1>5, <2>6, <2>7, <3>1
  <2>10. Pdu(request) \in Seq(Nat)
    BY <2>2, <2>4
  <2> QED BY <1>7, <2>5, <2>8, <2>9, <2>10 DEF values
<1> QED BY <1>6, <1>7 DEF values

----------------------------------------------------------------------------
(* The frames of the serial line. *)

(* Both servers take the same bytes for a request.                         *)
LEMMA RtuPdu == \A request : RtuServer!Pdu(request) = Pdu(request)
BY DEF RtuServer!Pdu, Pdu, RtuServer!PduValues, PduValues, RtuServer!Bytes, Bytes,
       RtuServer!WriteSingle, WriteSingle

(* What has been given its check sum is found to have it.                  *)
LEMMA CheckSum ==
  ASSUME NEW data \in Seq(Nat)
  PROVE  LET whole == RtuServer!WithCRC(data)
         IN  /\ whole \in Seq(Symbols) /\ Len(whole) = Len(data) + 2
             /\ \A i \in 1 .. Len(data) : whole[i] = data[i]
             /\ RtuServer!ValidCRC(whole)
<1> DEFINE crc == RtuServer!CalcCRC(data)
           low == crc % 256
           high == crc \div 256
           sum == <<low, high>>
           whole == data \o sum
<1>1. RtuServer!WithCRC(data) = whole
  BY DEF RtuServer!WithCRC
<1>2. low \in Symbols /\ high \in Symbols
  BY DEF Symbols
<1> HIDE DEF low, high
<1>3. sum \in Seq(Symbols) /\ Len(sum) = 2
  BY <1>2
<1>4. data \in Seq(Symbols)
  <2>1. Nat \subseteq Symbols
    BY DEF Symbols
  <2> QED BY <2>1
<1> HIDE DEF sum
<1>5. /\ whole \in Seq(Symbols) /\ Len(whole) = Len(data) + Len(sum) /\ Len(data) \in Nat
      /\ \A i \in 1 .. Len(data) : whole[i] = data[i]
  <2>1. Joined(Symbols, data, sum)
    BY <1>3, <1>4, Joins
  <2> QED BY <2>1, Zenon DEF Joined
<1> HIDE DEF whole
<1>6. Len(whole) = Len(data) + 2
  BY <1>3, <1>5
<1>7. SubSeq(whole, 1, Len(whole) - 2) = data
  <2> DEFINE sub == SubSeq(whole, 1, Len(data))
  <2>1. \A i \in 1 .. Len(data) : whole[i] \in Symbols
    BY <1>5, <1>6, ElementOfSeq
  <2>2. /\ sub \in Seq(Symbols) /\ Len(sub) = Len(data)
        /\ \A i \in 1 .. Len(data) : sub[i] = whole[i]
    BY <1>5, <2>1, SubSeqProperties
  <2>3. Len(whole) - 2 = Len(data)
    BY <1>5, <1>6
  <2> HIDE DEF sub
  <2>4. sub = data
    BY <1>4, <1>5, <2>2, SeqEqual
  <2> QED BY <2>3, <2>4 DEF sub
<1>8. RtuServer!ValidCRC(whole)
  BY <1>1, <1>7 DEF RtuServer!ValidCRC
<1> QED BY <1>1, <1>5, <1>6, <1>8

(* How long a frame is: eight bytes, or the values more. *)
LEMMA FrameType ==
  ASSUME NEW request \in RtuRequests
  PROVE  LET frame == RtuServer!Frame(request)
         IN  /\ frame \in Seq(Symbols)
             /\ Len(frame) = IF request.fc = WriteSingle \/ request.values = << >>
                             THEN 8 ELSE 9 + 2 * Len(request.values)
             /\ Len(frame) >= 8
             /\ frame[1] = request.slave /\ frame[2] = request.fc
             /\ request.fc = WriteMultiple => frame[7] = 2 * Len(request.values)
             /\ RtuServer!ValidCRC(frame)
             /\ \A i \in 1 .. Len(Pdu(request)) : frame[1 + i] = Pdu(request)[i]
<1> DEFINE pdu == Pdu(request)
           data == <<request.slave>> \o pdu
           frame == RtuServer!WithCRC(data)
<1>1. Sendable(request) /\ request.slave \in Nat
  BY RequestsAssumption, Natural
<1>2. Len(request.values) \in Nat
  BY <1>1, LenProperties DEF Sendable
<1>3. /\ pdu \in Seq(Nat)
      /\ Len(pdu) = IF request.fc = WriteSingle \/ request.values = << >>
                    THEN 5 ELSE 6 + 2 * Len(request.values)
      /\ pdu[1] = request.fc
      /\ request.fc = WriteMultiple => pdu[6] = 2 * Len(request.values)
  BY <1>1, PduType
<1>4. RtuServer!Frame(request) = frame
  BY RtuPdu DEF RtuServer!Frame
<1> HIDE DEF pdu
<1>5. <<request.slave>> \in Seq(Nat) /\ Len(<<request.slave>>) = 1 /\ <<request.slave>>[1] = request.slave
  BY <1>1, One
<1>6. /\ data \in Seq(Nat) /\ Len(data) = 1 + Len(pdu) /\ data[1] = request.slave
      /\ \A i \in 1 .. Len(pdu) : data[1 + i] = pdu[i]
  <2> DEFINE slave == <<request.slave>>
  <2>1. slave \in Seq(Nat) /\ pdu \in Seq(Nat)
    BY <1>3, <1>5
  <2> HIDE DEF slave
  <2>2. /\ slave \o pdu \in Seq(Nat) /\ Len(slave \o pdu) = Len(slave) + Len(pdu)
        /\ \A i \in 1 .. Len(slave) : (slave \o pdu)[i] = slave[i]
        /\ \A i \in 1 .. Len(pdu) : (slave \o pdu)[Len(slave) + i] = pdu[i]
    BY <2>1, Pieces
  <2>3. Len(slave) = 1 /\ slave[1] = request.slave /\ data = slave \o pdu
    BY <1>5 DEF slave
  <2> HIDE DEF data
  <2> QED BY <2>2, <2>3
<1>7. Len(pdu) \in Nat /\ Len(pdu) >= 5 /\ (request.fc = WriteMultiple => Len(pdu) >= 6)
  <2>1. request.fc = WriteMultiple => request.fc # WriteSingle /\ request.values # << >>
    BY <1>1 DEF Sendable, WriteSingle, WriteMultiple
  <2> QED BY <1>2, <1>3, <2>1
<1>8. data[2] = request.fc /\ (request.fc = WriteMultiple => data[7] = 2 * Len(request.values))
  <2>1. data[1 + 1] = pdu[1]
    BY <1>6, <1>7
  <2>2. request.fc = WriteMultiple => data[1 + 6] = pdu[6]
    BY <1>6, <1>7
  <2>3. 1 + 1 = 2 /\ 1 + 6 = 7
    OBVIOUS
  <2>4. data[2] = pdu[1] /\ (request.fc = WriteMultiple => data[7] = pdu[6])
    BY <2>1, <2>2, <2>3
  <2>5. pdu[1] = request.fc /\ (request.fc = WriteMultiple => pdu[6] = 2 * Len(request.values))
    BY <1>3
  <2> QED BY <2>4, <2>5
<1> HIDE DEF data
<1>9. /\ frame \in Seq(Symbols) /\ Len(frame) = Len(data) + 2
      /\ \A i \in 1 .. Len(data) : frame[i] = data[i]
      /\ RtuServer!ValidCRC(frame)
  BY <1>6, CheckSum
<1> HIDE DEF frame
<1>10. frame[1] = data[1] /\ frame[2] = data[2] /\ (request.fc = WriteMultiple => frame[7] = data[7])
  BY <1>6, <1>7, <1>9
<1>11. /\ Len(frame) = IF request.fc = WriteSingle \/ request.values = << >>
                       THEN 8 ELSE 9 + 2 * Len(request.values)
       /\ Len(frame) >= 8
  BY <1>2, <1>3, <1>6, <1>7, <1>9
<1>12. \A i \in 1 .. Len(pdu) : frame[1 + i] = pdu[i]
  <2> SUFFICES ASSUME NEW i \in 1 .. Len(pdu) PROVE frame[1 + i] = pdu[i]
    OBVIOUS
  <2>1. 1 + i \in 1 .. Len(data)
    BY <1>6, <1>7
  <2> QED BY <1>6, <1>9, <2>1
<1> QED BY <1>4, <1>6, <1>8, <1>9, <1>10, <1>11, <1>12 DEF pdu

(* The first bytes of a frame for this slave: it waits for the rest or     *)
(* answers, and answers when it has them all.                              *)
LEMMA FrameParsed ==
  ASSUME NEW request \in RtuRequests, request.slave = SlaveId,
         NEW data \in Seq(Symbols), Len(data) <= Len(RtuServer!Frame(request)),
         \A i \in 1 .. Len(data) : data[i] = RtuServer!Frame(request)[i],
         Len(data) = Len(RtuServer!Frame(request)) => data = RtuServer!Frame(request)
  PROVE  /\ RtuServer!Parse(data).result \in {"OK", "NOT_YET_COMPLETE"}
         /\ data = RtuServer!Frame(request) => RtuServer!Parse(data).result = "OK"
<1> DEFINE frame == RtuServer!Frame(request)
           n == Len(data)
           values == request.values
           whole == data = frame
<1>1. /\ Len(frame) = IF request.fc = WriteSingle \/ values = << >> THEN 8 ELSE 9 + 2 * Len(values)
      /\ Len(frame) >= 8 /\ frame \in Seq(Symbols)
      /\ frame[1] = request.slave /\ frame[2] = request.fc
      /\ request.fc = WriteMultiple => frame[7] = 2 * Len(values)
      /\ RtuServer!ValidCRC(frame)
  BY FrameType
<1>2. n \in Nat /\ n <= Len(frame) /\ (n = Len(frame) => whole) /\ (whole => n = Len(frame)) /\ Len(frame) \in Nat
  BY <1>1, LenProperties
<1>3. /\ n >= 8 => data[1] = SlaveId /\ data[2] = request.fc
      /\ n >= 8 /\ request.fc = WriteMultiple => data[7] = 2 * Len(values)
  BY <1>1, <1>2
<1>4. whole => RtuServer!ValidCRC(data)
  BY <1>1
<1> SUFFICES /\ RtuServer!Parse(data).result \in {"OK", "NOT_YET_COMPLETE"}
             /\ whole => RtuServer!Parse(data).result = "OK"
  OBVIOUS
<1> HIDE DEF whole, frame, n
<1>5. Sendable(request)
  BY RequestsAssumption
<1>6. \A job : RtuServer!OK(job).result = "OK"
  BY DEF RtuServer!OK
<1>7. RtuServer!Result("NOT_YET_COMPLETE").result = "NOT_YET_COMPLETE"
  BY DEF RtuServer!Result
<1>8. CASE n < 8
  <2>1. RtuServer!Parse(data) = RtuServer!Result("NOT_YET_COMPLETE")
    BY <1>8 DEF RtuServer!Parse, n
  <2> QED BY <1>1, <1>2, <1>7, <1>8, <2>1
<1>9. CASE ~(n < 8)
  <2>1. data[1] = SlaveId /\ data[2] = request.fc /\ (request.fc = WriteMultiple => data[7] = 2 * Len(values))
    BY <1>2, <1>3, <1>9
  <2>2. RtuServer!Parse(data) = RtuServer!Dispatch(data)
    BY <1>9, <2>1 DEF RtuServer!Parse, n
  <2>3. CASE RtuServer!Reads(request.fc)
    <3>1. Len(frame) = 8
      BY <1>1, <1>5, <2>3 DEF Sendable, RtuServer!Reads, Reads, RtuServer!ReadHolding, ReadHolding,
                              RtuServer!ReadInput, ReadInput
    <3>2. n = 8 /\ whole
      BY <1>2, <1>9, <3>1
    <3>3. RtuServer!Dispatch(data) = RtuServer!ProcessReadRegisters(data)
      BY <2>1, <2>3 DEF RtuServer!Dispatch, RtuServer!WriteMultiple, RtuServer!WriteSingle, RtuServer!Reads,
                        RtuServer!ReadHolding, RtuServer!ReadInput
    <3>4. RtuServer!ProcessReadRegisters(data).result = "OK"
      BY <1>4, <1>6, <3>2 DEF RtuServer!ProcessReadRegisters, n
    <3> QED BY <2>2, <3>3, <3>4
  <2>4. CASE request.fc = RtuServer!WriteSingle
    <3>1. Len(frame) = 8
      BY <1>1, <2>4 DEF RtuServer!WriteSingle, WriteSingle
    <3>2. n = 8 /\ whole
      BY <1>2, <1>9, <3>1
    <3>3. RtuServer!Dispatch(data) = RtuServer!ProcessWriteSingleRegister(data)
      BY <2>1, <2>4 DEF RtuServer!Dispatch, RtuServer!WriteMultiple, RtuServer!WriteSingle, RtuServer!Reads,
                        RtuServer!ReadHolding, RtuServer!ReadInput
    <3>4. RtuServer!ProcessWriteSingleRegister(data).result = "OK"
      BY <1>4, <1>6, <3>2 DEF RtuServer!ProcessWriteSingleRegister, n
    <3> QED BY <2>2, <3>3, <3>4
  <2>5. CASE request.fc = RtuServer!WriteMultiple
    <3>1. request.fc = WriteMultiple /\ data[7] = 2 * Len(values)
      BY <2>1, <2>5 DEF RtuServer!WriteMultiple, WriteMultiple
    <3>2. Len(frame) = 9 + 2 * Len(values) /\ Len(values) \in Nat
      <4>1. request.fc # WriteSingle /\ values # << >> /\ values \in Seq(Word)
        BY <1>5, <3>1 DEF Sendable, WriteSingle, WriteMultiple
      <4> QED BY <1>1, <4>1, LenProperties
    <3>3. RtuServer!Dispatch(data) = RtuServer!ProcessWriteMultipleRegisters(data)
      BY <2>1, <2>5 DEF RtuServer!Dispatch, RtuServer!WriteMultiple, RtuServer!WriteSingle, RtuServer!Reads,
                        RtuServer!ReadHolding, RtuServer!ReadInput
    <3> DEFINE necessary == 7 + data[7] + 2
    <3>4. necessary = Len(frame) /\ Len(frame) \in Nat /\ Len(frame) >= 9
      BY <3>1, <3>2
    <3>5. ~(n > necessary) /\ (whole => ~(n < 9) /\ ~(n < necessary)) /\ (~(n < necessary) => whole)
      BY <1>2, <3>4
    <3>6. /\ RtuServer!ProcessWriteMultipleRegisters(data).result \in {"OK", "NOT_YET_COMPLETE"}
          /\ whole => RtuServer!ProcessWriteMultipleRegisters(data).result = "OK"
      <4> DEFINE start == RtuServer!U16(data, 2)
                 quantity == RtuServer!U16(data, 4)
                 wrong == quantity = 0 \/ quantity > 123 \/ data[7] # quantity * 2
                 outside == start + quantity > HoldingMaxIndex + 1
                 good == RtuServer!Serve(RtuServer!WriteMultiple, start, quantity,
                                         RtuServer!Words(data, 7, quantity))
      <4>1. RtuServer!ProcessWriteMultipleRegisters(data) =
              IF n < 9 THEN RtuServer!Result("NOT_YET_COMPLETE")
              ELSE IF wrong THEN RtuServer!OK(RtuServer!Refuse(RtuServer!WriteMultiple, 3))
              ELSE IF n < necessary THEN RtuServer!Result("NOT_YET_COMPLETE")
              ELSE IF n > necessary THEN RtuServer!Result("LENGTH_ERROR")
              ELSE IF ~RtuServer!ValidCRC(data) THEN RtuServer!Result("CRC_ERROR")
              ELSE IF outside THEN RtuServer!OK(RtuServer!Refuse(RtuServer!WriteMultiple, 2))
              ELSE RtuServer!OK(good)
        BY DEF RtuServer!ProcessWriteMultipleRegisters, n
      <4> HIDE DEF wrong, outside, good, necessary, whole
      <4> QED BY <1>4, <1>6, <1>7, <3>5, <4>1
    <3> QED BY <2>2, <3>3, <3>6
  <2>6. CASE ~(RtuServer!Reads(request.fc) \/ request.fc = RtuServer!WriteSingle \/ request.fc = RtuServer!WriteMultiple)
    <3>1. RtuServer!Dispatch(data) = RtuServer!OK(RtuServer!Refuse(request.fc, 1))
      BY <2>1, <2>6 DEF RtuServer!Dispatch
    <3> QED BY <1>6, <2>2, <3>1
  <2> QED BY <2>3, <2>4, <2>5, <2>6
<1> QED BY <1>8, <1>9

----------------------------------------------------------------------------
(* The serial line. *)

(* What has come of a request and what is on the way make up its frame.    *)
FrameOnTheWay ==
  master.waiting /\ master.intact /\ master.clean /\ master.request.slave = SlaveId /\ ~rtu.serving
    => line # << >> /\ rtu.buf \o line = RtuServer!Frame(master.request)

(* The invariant of the serial line.                                       *)
LineInv ==
  /\ rtu = [buf |-> rtu.buf, serving |-> rtu.serving, job |-> rtu.job]
  /\ master = [waiting |-> master.waiting, request |-> master.request, intact |-> master.intact,
               clean |-> master.clean, faults |-> master.faults, answer |-> master.answer]
  /\ rtu.buf \in Seq(Symbols) /\ line \in Seq(Symbols)
  /\ master.waiting => master.request \in RtuRequests
  /\ FrameOnTheWay

(* Any part of a sequence. *)
LEMMA PartType ==
  ASSUME NEW S, NEW s \in Seq(S), NEW m \in Int, NEW n \in Int, m >= 1, n <= Len(s)
  PROVE  SubSeq(s, m, n) \in Seq(S)
<1>1. Len(s) \in Nat
  BY LenProperties
<1>2. \A i \in m .. n : s[i] \in S
  <2> SUFFICES ASSUME NEW i \in m .. n PROVE s[i] \in S
    OBVIOUS
  <2>1. i \in 1 .. Len(s)
    BY <1>1
  <2> QED BY <2>1, ElementOfSeq
<1> QED BY <1>2, SubSeqProperties

(* Pieces may be put together in any order. *)
LEMMA Associative ==
  ASSUME NEW S, NEW u \in Seq(S), NEW v \in Seq(S), NEW w \in Seq(S)
  PROVE  (u \o v) \o w = u \o (v \o w)
BY ConcatAssociative, SMTT(30)

(* Of three pieces: the first two, put together before the third or after. *)
Grouped(S, u, v, w) ==
  /\ u \o v \in Seq(S)
  /\ (u \o v) \o w = u \o (v \o w)
  /\ Len(u \o v) <= Len(u \o (v \o w))
  /\ \A i \in 1 .. Len(u \o v) : (u \o v)[i] = (u \o (v \o w))[i]
  /\ Len(u \o v) = Len(u \o (v \o w)) => u \o v = u \o (v \o w)
  /\ u \o v # u \o (v \o w) => w # << >>

(* A piece that moves from one side to the other changes nothing. *)
LEMMA Regrouped ==
  ASSUME NEW S, NEW u \in Seq(S), NEW v \in Seq(S), NEW w \in Seq(S)
  PROVE  Grouped(S, u, v, w)
<1> DEFINE a == u \o v
           all == u \o (v \o w)
<1>1. a \in Seq(S)
  <2>1. Joined(S, u, v)
    BY Joins
  <2> QED BY <2>1, Zenon DEF Joined
<1>2. a \o w = all
  BY Associative, SMTT(30)
<1> HIDE DEF a, all
<1>3. /\ Len(a \o w) = Len(a) + Len(w) /\ Len(a) \in Nat /\ Len(w) \in Nat
      /\ \A i \in 1 .. Len(a) : (a \o w)[i] = a[i]
  <2>1. Joined(S, a, w)
    BY <1>1, Joins
  <2> QED BY <2>1, Zenon DEF Joined
<1>4. w = << >> => a \o w = a
  BY <1>1, ConcatEmptySeq
<1>5. Len(w) = 0 => w = << >>
  BY EmptySeq
<1>6. Len(a) = Len(all) => a = all
  <2>1. Len(a) = Len(a \o w) => Len(w) = 0
    BY <1>3
  <2> QED BY <1>2, <1>4, <1>5, <2>1
<1>7. Len(a) <= Len(all)
  BY <1>2, <1>3
<1>8. \A i \in 1 .. Len(a) : a[i] = all[i]
  BY <1>2, <1>3
<1>9. a # all => w # << >>
  BY <1>2, <1>4
<1> QED BY <1>1, <1>2, <1>6, <1>7, <1>8, <1>9 DEF Grouped, a, all

(* What remains when the chunk a is taken and b is left, of all there was.  *)
Taken(S, a, b, all) ==
  /\ a \in Seq(S) /\ b \in Seq(S) /\ a \o b = all
  /\ Len(a) <= Len(all)
  /\ \A i \in 1 .. Len(a) : a[i] = all[i]
  /\ Len(a) = Len(all) => a = all
  /\ a # all => b # << >>

(* A chunk taken from the line and added to what has come before.          *)
LEMMA ChunkTaken ==
  ASSUME NEW S, NEW x \in Seq(S), NEW y \in Seq(S), NEW n \in 1 .. Len(y)
  PROVE  Taken(S, x \o SubSeq(y, 1, n), SubSeq(y, n + 1, Len(y)), x \o y)
<1> DEFINE c == SubSeq(y, 1, n)
           b == SubSeq(y, n + 1, Len(y))
<1>1. Len(y) \in Nat /\ n \in Nat /\ n >= 1 /\ n <= Len(y)
  BY LenProperties
<1>2. c \in Seq(S)
  BY <1>1, PartType
<1>3. b \in Seq(S)
  <2>1. n + 1 \in Int /\ n + 1 >= 1
    BY <1>1
  <2> QED BY <1>1, <2>1, PartType
<1>4. c \o b = y
  <2>1. 1 \in 1 .. Len(y) + 1 /\ n \in 1 - 1 .. Len(y) /\ Len(y) \in n .. Len(y)
    BY <1>1
  <2>2. c \o b = SubSeq(y, 1, Len(y))
    BY <2>1, ConcatAdjacentSubSeq
  <2> QED BY <2>2, SubSeqFull
<1> HIDE DEF c, b
<1>5. Grouped(S, x, c, b)
  BY <1>2, <1>3, Regrouped
<1>6. /\ x \o c \in Seq(S)
      /\ (x \o c) \o b = x \o y
      /\ Len(x \o c) <= Len(x \o y)
      /\ \A i \in 1 .. Len(x \o c) : (x \o c)[i] = (x \o y)[i]
      /\ Len(x \o c) = Len(x \o y) => x \o c = x \o y
      /\ x \o c # x \o y => b # << >>
  BY <1>4, <1>5, Zenon DEF Grouped
<1> QED BY <1>3, <1>6, Zenon DEF Taken, b, c

(* A chunk moves from the line to the buffer and is parsed: incomplete, or *)
(* whole and served.                                                       *)
LEMMA ReceiveStep ==
  ASSUME LineInv, RtuServer!Receive
  PROVE  LineInv'
<1>1. PICK n \in (Chunks \union {Len(line)}) \intersect (1 .. Len(line)) :
        /\ RtuServer!ProcessChunk(rtu.buf \o SubSeq(line, 1, n))
        /\ line' = SubSeq(line, n + 1, Len(line))
  BY DEF RtuServer!Receive
<1>2. n \in 1 .. Len(line) /\ master' = master /\ rtu.buf \in Seq(Symbols) /\ line \in Seq(Symbols) /\ ~rtu.serving
  BY DEF RtuServer!Receive, LineInv
<1> DEFINE data == rtu.buf \o SubSeq(line, 1, n)
           rest == SubSeq(line, n + 1, Len(line))
           all == rtu.buf \o line
           result == RtuServer!Parse(data).result
           serving == result = "OK"
           buf == IF result = "NOT_YET_COMPLETE" THEN data ELSE << >>
           job == RtuServer!Parse(data).job
<1>3. rtu' = [buf |-> buf, serving |-> serving, job |-> job]
  BY <1>1 DEF RtuServer!ProcessChunk
<1>4. line' = rest
  BY <1>1
<1>5. /\ data \in Seq(Symbols) /\ rest \in Seq(Symbols) /\ data \o rest = all
      /\ Len(data) <= Len(all)
      /\ \A i \in 1 .. Len(data) : data[i] = all[i]
      /\ Len(data) = Len(all) => data = all
      /\ data # all => rest # << >>
  <2> DEFINE buffer == rtu.buf
  <2>1. buffer \in Seq(Symbols)
    BY <1>2
  <2> HIDE DEF buffer
  <2>2. Taken(Symbols, buffer \o SubSeq(line, 1, n), SubSeq(line, n + 1, Len(line)),
              buffer \o line)
    BY <1>2, <2>1, ChunkTaken, Zenon
  <2> QED BY <2>2, Zenon DEF Taken, buffer
<1> HIDE DEF data, rest, all
<1>6. buf \in Seq(Symbols)
  BY <1>5, EmptySeq
<1>7. rtu'.serving <=> result = "OK"
  BY <1>3
<1> HIDE DEF serving, job
<1>8. /\ rtu' = [buf |-> rtu'.buf, serving |-> rtu'.serving, job |-> rtu'.job]
      /\ rtu'.buf = buf
  <2> HIDE DEF buf
  <2> QED BY <1>3
<1>9. FrameOnTheWay'
  <2> SUFFICES ASSUME master.waiting, master.intact, master.clean, master.request.slave = SlaveId,
                      ~rtu'.serving
               PROVE  line' # << >> /\ rtu'.buf \o line' = RtuServer!Frame(master.request)
    BY <1>2 DEF FrameOnTheWay
  <2> DEFINE request == master.request
  <2>1. request \in RtuRequests /\ all = RtuServer!Frame(request)
    BY <1>2 DEF LineInv, FrameOnTheWay, all
  <2> HIDE DEF request
  <2>2. request.slave = SlaveId
    BY DEF request
  <2>3. result \in {"OK", "NOT_YET_COMPLETE"} /\ (data = RtuServer!Frame(request) => result = "OK")
    BY <1>5, <2>1, <2>2, FrameParsed
  <2>4. result = "NOT_YET_COMPLETE" /\ data # all
    BY <1>7, <2>1, <2>3
  <2>5. rtu'.buf = data
    BY <1>8, <2>4
  <2> QED BY <1>4, <1>5, <2>1, <2>4, <2>5 DEF request
<1> QED BY <1>2, <1>4, <1>5, <1>6, <1>8, <1>9 DEF LineInv

(* The buffer is cleared after a timeout only, which needs an empty line. *)
LEMMA InterFrameTimeoutStep ==
  ASSUME LineInv, RtuServer!InterFrameTimeout
  PROVE  LineInv'
<1>1. rtu' = [rtu EXCEPT !.buf = << >>] /\ line = << >> /\ line' = line /\ master' = master /\ ~rtu.serving
  BY DEF RtuServer!InterFrameTimeout
<1>2. rtu = [buf |-> rtu.buf, serving |-> rtu.serving, job |-> rtu.job]
  BY DEF LineInv
<1> DEFINE serving == rtu.serving
           job == rtu.job
<1> HIDE DEF serving, job
<1>3. rtu' = [buf |-> << >>, serving |-> serving, job |-> job]
  BY <1>1, <1>2 DEF serving, job
<1>4. rtu' = [buf |-> rtu'.buf, serving |-> rtu'.serving, job |-> rtu'.job] /\ rtu'.buf = << >> /\ rtu'.serving = serving
  BY <1>3
<1>5. rtu'.buf \in Seq(Symbols)
  BY <1>4, EmptySeq
<1>6. FrameOnTheWay'
  BY <1>1, <1>4 DEF LineInv, FrameOnTheWay, serving
<1> QED BY <1>1, <1>4, <1>5, <1>6 DEF LineInv

(* A request that is served stays served until it is answered. *)
LEMMA RtuAccessStep ==
  ASSUME LineInv, RtuServer!AccessRegister
  PROVE  LineInv'
<1>1. rtu.serving /\ line' = line /\ master' = master
  BY DEF RtuServer!AccessRegister
<1> DEFINE job == RtuServer!NextJob(rtu.job, holding)
           buf == rtu.buf
           serving == rtu.serving
<1>2. rtu' = [rtu EXCEPT !.job = job]
  BY DEF RtuServer!AccessRegister, LineInv
<1> HIDE DEF job
<1>3. rtu = [buf |-> buf, serving |-> serving, job |-> rtu.job]
  BY DEF LineInv
<1> HIDE DEF buf, serving
<1>4. rtu' = [buf |-> buf, serving |-> serving, job |-> job]
  BY <1>2, <1>3
<1>5. rtu' = [buf |-> rtu'.buf, serving |-> rtu'.serving, job |-> rtu'.job] /\ rtu'.buf = buf /\ rtu'.serving = serving
  BY <1>4
<1>6. FrameOnTheWay'
  BY <1>1, <1>5 DEF FrameOnTheWay, serving
<1> QED BY <1>1, <1>5, <1>6 DEF LineInv, buf

(* A served request is answered, in whatever way. *)
LEMMA RtuSendStep ==
  ASSUME LineInv, RtuServer!SendResponse
  PROVE  LineInv'
<1> DEFINE no == FALSE
           buf == rtu.buf
           job == RtuServer!NoJob
           answer == RtuServer!Answer(rtu.job)
<1>1. /\ rtu' = [rtu EXCEPT !.serving = no, !.job = job] /\ line' = line
      /\ master' = IF master.waiting THEN [master EXCEPT !.waiting = no, !.answer = answer] ELSE master
  BY DEF RtuServer!SendResponse
<1>2. ~no
  OBVIOUS
<1> HIDE DEF no, job, answer
<1>3. rtu' = [buf |-> rtu'.buf, serving |-> rtu'.serving, job |-> rtu'.job] /\ rtu'.buf = rtu.buf
  <2> DEFINE serving == rtu.serving
             served == rtu.job
  <2>1. rtu = [buf |-> buf, serving |-> serving, job |-> served] /\ rtu' = [rtu EXCEPT !.serving = no, !.job = job]
    BY <1>1 DEF LineInv
  <2> HIDE DEF buf, serving, served
  <2>2. rtu' = [buf |-> buf, serving |-> no, job |-> job]
    BY <2>1
  <2>3. rtu.buf = buf
    BY DEF buf
  <2> QED BY <2>2, <2>3
<1>4. CASE master.waiting
  <2>1. master = [waiting |-> master.waiting, request |-> master.request, intact |-> master.intact,
                  clean |-> master.clean, faults |-> master.faults, answer |-> master.answer]
    BY DEF LineInv
  <2>2. master' = [waiting |-> no, request |-> master.request, intact |-> master.intact,
                   clean |-> master.clean, faults |-> master.faults, answer |-> answer]
    BY <1>1, <1>4, <2>1
  <2>3. /\ master' = [waiting |-> master'.waiting, request |-> master'.request, intact |-> master'.intact,
                     clean |-> master'.clean, faults |-> master'.faults, answer |-> master'.answer]
        /\ master'.waiting = no
    BY <2>2
  <2>4. ~master'.waiting
    BY <1>2, <2>3
  <2> QED BY <1>1, <1>3, <2>3, <2>4 DEF LineInv, FrameOnTheWay
<1>5. CASE ~master.waiting
  BY <1>1, <1>3, <1>5 DEF LineInv, FrameOnTheWay
<1> QED BY <1>4, <1>5

(* A master that has given up waits for nothing. *)
LEMMA MasterGivesUpStep ==
  ASSUME LineInv, RtuServer!MasterGivesUp
  PROVE  LineInv'
<1> DEFINE no == FALSE
<1>1. master' = [master EXCEPT !.waiting = no] /\ line' = line /\ rtu' = rtu
  BY DEF RtuServer!MasterGivesUp
<1>2. ~no
  OBVIOUS
<1> HIDE DEF no
<1>3. master = [waiting |-> master.waiting, request |-> master.request, intact |-> master.intact,
                clean |-> master.clean, faults |-> master.faults, answer |-> master.answer]
  BY DEF LineInv
<1>4. master' = [waiting |-> no, request |-> master.request, intact |-> master.intact,
                 clean |-> master.clean, faults |-> master.faults, answer |-> master.answer]
  BY <1>1, <1>3
<1>5. /\ master' = [waiting |-> master'.waiting, request |-> master'.request, intact |-> master'.intact,
                   clean |-> master'.clean, faults |-> master'.faults, answer |-> master'.answer]
      /\ master'.waiting = no
  BY <1>4
<1>6. ~master'.waiting
  BY <1>2, <1>5
<1> QED BY <1>1, <1>5, <1>6 DEF LineInv, FrameOnTheWay

(* What a disturbance leaves of a frame. *)
LEMMA DisturbedType ==
  ASSUME NEW whole \in Seq(Symbols), NEW frame \in RtuServer!Disturbed(whole)
  PROVE  frame \in Seq(Symbols)
<1>1. Len(whole) \in Nat /\ DOMAIN whole = 1 .. Len(whole)
  BY LenProperties
<1>2. Noise \subseteq Symbols /\ Chunks \subseteq Nat
  BY LineAssumption, Natural DEF Symbols
<1>3. \/ \E i \in DOMAIN whole, byte \in Noise : frame = [whole EXCEPT ![i] = byte]
      \/ \E n \in Chunks : frame = SubSeq(whole, n + 1, Len(whole))
      \/ \E n \in Chunks : frame = SubSeq(whole, 1, Len(whole) - n)
  BY DEF RtuServer!Disturbed
<1>4. ASSUME NEW i \in DOMAIN whole, NEW byte \in Noise, frame = [whole EXCEPT ![i] = byte]
      PROVE  frame \in Seq(Symbols)
  <2>1. i \in 1 .. Len(whole) /\ byte \in Symbols
    BY <1>1, <1>2
  <2> QED BY <1>4, <2>1, ExceptSeq
<1>5. ASSUME NEW n \in Chunks, frame = SubSeq(whole, n + 1, Len(whole))
      PROVE  frame \in Seq(Symbols)
  <2>1. n + 1 \in Int /\ n + 1 >= 1
    BY <1>2
  <2> QED BY <1>1, <1>5, <2>1, PartType
<1>6. ASSUME NEW n \in Chunks, frame = SubSeq(whole, 1, Len(whole) - n)
      PROVE  frame \in Seq(Symbols)
  <2>1. Len(whole) - n \in Int /\ Len(whole) - n <= Len(whole)
    BY <1>1, <1>2
  <2> QED BY <1>6, <2>1, PartType
<1> QED BY <1>3, <1>4, <1>5, <1>6

(* A new request: its whole frame is on the line. *)
LEMMA MasterSendsStep ==
  ASSUME LineInv, RtuServer!MasterSends
  PROVE  LineInv'
<1>1. PICK request \in RtuRequests :
        \/ RtuServer!Transmit(request, RtuServer!Frame(request), 0)
        \/ \E frame \in RtuServer!Disturbed(RtuServer!Frame(request)) :
              RtuServer!Transmit(request, frame, 1)
  BY DEF RtuServer!MasterSends
<1>2. RtuServer!Frame(request) \in Seq(Symbols) /\ Len(RtuServer!Frame(request)) >= 8
  BY FrameType
<1>3. PICK frame \in Seq(Symbols), fault \in {0, 1} : RtuServer!Transmit(request, frame, fault)
  BY <1>1, <1>2, DisturbedType
<1> DEFINE intact == frame = RtuServer!Frame(request)
           clean == line = << >> /\ rtu.buf = << >> /\ ~rtu.serving
           faults == master.faults + fault
           answer == RtuServer!NoAnswer
           yes == TRUE
<1>4. /\ line' = line \o frame /\ rtu' = rtu
      /\ master' = [waiting |-> yes, request |-> request, intact |-> intact, clean |-> clean,
                    faults |-> faults, answer |-> answer]
  BY <1>3 DEF RtuServer!Transmit
<1>5. (master'.intact <=> intact) /\ (master'.clean <=> clean) /\ master'.request = request
  BY <1>4
<1> HIDE DEF intact, clean, faults, answer, yes
<1>6. master' = [waiting |-> master'.waiting, request |-> master'.request, intact |-> master'.intact,
                 clean |-> master'.clean, faults |-> master'.faults, answer |-> master'.answer]
  BY <1>4
<1>7. line \in Seq(Symbols) /\ line' \in Seq(Symbols)
  BY <1>4, Pieces DEF LineInv
<1>8. FrameOnTheWay'
  <2> SUFFICES ASSUME master'.intact, master'.clean
               PROVE  line' # << >> /\ rtu'.buf \o line' = RtuServer!Frame(request)
    BY <1>5 DEF FrameOnTheWay
  <2>1. frame = RtuServer!Frame(request) /\ line = << >> /\ rtu.buf = << >>
    BY <1>5 DEF intact, clean
  <2>2. << >> \o frame = frame
    BY ConcatEmptySeq
  <2>3. frame # << >>
    BY <1>2, <2>1, EmptySeq
  <2> QED BY <1>4, <2>1, <2>2, <2>3
<1> QED BY <1>4, <1>5, <1>6, <1>7, <1>8 DEF LineInv

----------------------------------------------------------------------------
(* The packets of the TCP connection. *)

(* Both servers take the same bytes for a request.                         *)
LEMMA TcpPdu ==
  /\ \A request : TcpServer!Pdu(request) = Pdu(request)
  /\ \A n : TcpServer!Bytes(n) = Bytes(n)
BY DEF TcpServer!Pdu, Pdu, TcpServer!PduValues, PduValues, TcpServer!Bytes, Bytes,
       TcpServer!WriteSingle, WriteSingle

(* The second piece does not hide the first two places of the first.       *)
Begins(u, v) ==
  /\ u \o v \in Seq(Nat) /\ Len(u \o v) = Len(u) + Len(v)
  /\ Len(u) >= 2 => (u \o v)[1] = u[1] /\ (u \o v)[2] = u[2]

(* What two pieces begin with. *)
LEMMA PiecesBegin ==
  ASSUME NEW u \in Seq(Nat), NEW v \in Seq(Nat)
  PROVE  Begins(u, v)
<1>1. /\ u \o v \in Seq(Nat) /\ Len(u \o v) = Len(u) + Len(v) /\ Len(u) \in Nat
      /\ \A i \in 1 .. Len(u) : (u \o v)[i] = u[i]
  BY Pieces
<1>2. Len(u) >= 2 => 1 \in 1 .. Len(u) /\ 2 \in 1 .. Len(u)
  BY <1>1
<1> QED BY <1>1, <1>2 DEF Begins

(* A packet that brings a whole request tells its transaction.             *)
LEMMA AduType ==
  ASSUME NEW transaction \in Nat, NEW request \in TcpRequests
  PROVE  LET adu == TcpServer!Adu(transaction, request)
         IN  /\ adu \in Seq(Nat) /\ Len(adu) >= 8
             /\ TcpServer!U16(adu, 0) = transaction
             /\ Len(adu) = 7 + Len(Pdu(request))
             /\ \A i \in 1 .. Len(Pdu(request)) : adu[7 + i] = Pdu(request)[i]
<1> DEFINE pdu == Pdu(request)
<1>1. pdu \in Seq(Nat) /\ Len(pdu) \in Nat /\ Len(pdu) >= 5
  <2>1. Sendable(request)
    BY RequestsAssumption
  <2>2. request.values \in Seq(Word) /\ Len(request.values) \in Nat
    BY <2>1, LenProperties DEF Sendable
  <2>3. /\ pdu \in Seq(Nat)
        /\ Len(pdu) = IF request.fc = WriteSingle \/ request.values = << >>
                      THEN 5 ELSE 6 + 2 * Len(request.values)
    BY <2>1, PduType
  <2> HIDE DEF pdu
  <2> QED BY <2>2, <2>3
<1> DEFINE a == Bytes(transaction)
           b == Bytes(0)
           c == Bytes(Len(pdu) + 1)
           d == <<1>>
           adu == (((a \o b) \o c) \o d) \o pdu
<1>2. TcpServer!Adu(transaction, request) = adu
  BY TcpPdu DEF TcpServer!Adu, TcpServer!MbapHeader
<1> HIDE DEF pdu
<1>3. /\ a \in Seq(Nat) /\ Len(a) = 2 /\ a[1] = High(transaction) /\ a[2] = Low(transaction)
      /\ b \in Seq(Nat) /\ Len(b) = 2 /\ c \in Seq(Nat) /\ Len(c) = 2
      /\ d \in Seq(Nat) /\ Len(d) = 1
  <2> DEFINE n == Len(pdu) + 1
  <2>1. 0 \in Nat /\ 1 \in Nat /\ n \in Nat
    BY <1>1
  <2> HIDE DEF n
  <2>2. /\ a \in Seq(Nat) /\ Len(a) = 2
        /\ a[1] = High(transaction) /\ a[2] = Low(transaction)
    BY BytesType
  <2>3. b \in Seq(Nat) /\ Len(b) = 2
    BY <2>1, BytesType
  <2>4. Bytes(n) \in Seq(Nat) /\ Len(Bytes(n)) = 2
    BY <2>1, BytesType
  <2>5. d \in Seq(Nat) /\ Len(d) = 1
    BY <2>1, One
  <2> HIDE DEF a, b, c, d
  <2>6. c = Bytes(n)
    BY DEF c, n
  <2> QED BY <2>2, <2>3, <2>4, <2>5, <2>6
<1> HIDE DEF a, b, c, d
<1>4. \A u, v \in Seq(Nat) : Begins(u, v)
  BY PiecesBegin
<1> DEFINE ab == a \o b
           abc == ab \o c
           abcd == abc \o d
<1>5. ab \in Seq(Nat) /\ Len(ab) = 4 /\ ab[1] = a[1] /\ ab[2] = a[2]
  <2>1. Begins(a, b)
    BY <1>3, <1>4
  <2> QED BY <1>3, <2>1 DEF Begins
<1> HIDE DEF ab
<1>6. abc \in Seq(Nat) /\ Len(abc) = 6 /\ abc[1] = a[1] /\ abc[2] = a[2]
  <2>1. Begins(ab, c)
    BY <1>3, <1>4, <1>5
  <2>2. /\ ab \o c \in Seq(Nat) /\ Len(ab \o c) = Len(ab) + Len(c)
        /\ Len(ab) >= 2 => (ab \o c)[1] = ab[1] /\ (ab \o c)[2] = ab[2]
    BY <2>1, Zenon DEF Begins
  <2>3. Len(ab) + Len(c) = 6 /\ Len(ab) >= 2
    BY <1>3, <1>5
  <2> QED BY <1>5, <2>2, <2>3
<1> HIDE DEF abc
<1>7. abcd \in Seq(Nat) /\ Len(abcd) = 7 /\ abcd[1] = a[1] /\ abcd[2] = a[2]
  <2>1. Begins(abc, d)
    BY <1>3, <1>4, <1>6
  <2> QED BY <1>3, <1>6, <2>1 DEF Begins
<1> HIDE DEF abcd
<1>8. adu \in Seq(Nat) /\ Len(adu) >= 8 /\ adu[1] = a[1] /\ adu[2] = a[2]
  <2>1. Begins(abcd, pdu)
    BY <1>1, <1>4, <1>7
  <2>2. adu = abcd \o pdu
    BY DEF abcd, abc, ab
  <2> HIDE DEF adu
  <2> QED BY <1>1, <1>7, <2>1, <2>2 DEF Begins
<1>10. Len(adu) = 7 + Len(pdu) /\ \A i \in 1 .. Len(pdu) : adu[7 + i] = pdu[i]
  <2>1. Joined(Nat, abcd, pdu)
    BY <1>1, <1>7, Joins
  <2>2. /\ Len(abcd \o pdu) = Len(abcd) + Len(pdu)
        /\ \A i \in 1 .. Len(pdu) : (abcd \o pdu)[Len(abcd) + i] = pdu[i]
    BY <2>1, Zenon DEF Joined
  <2>3. adu = abcd \o pdu
    BY DEF abcd, abc, ab
  <2> HIDE DEF adu
  <2> QED BY <1>7, <2>2, <2>3
<1> HIDE DEF adu
<1>9. TcpServer!U16(adu, 0) = transaction
  <2>1. TcpServer!U16(adu, 0) = adu[1] * 256 + adu[2]
    BY DEF TcpServer!U16
  <2>2. High(transaction) * 256 + Low(transaction) = transaction
    BY DEF High, Low
  <2> QED BY <1>3, <1>8, <2>1, <2>2
<1> QED BY <1>2, <1>8, <1>9, <1>10 DEF pdu

(* A whole request that has no answer yet is the last packet, or the       *)
(* server has taken it and will answer in its name, or will disconnect.    *)
RequestOnTheWay ==
  client.at = "waiting" /\ client.whole =>
    \/ tcp.at = "close"
    \/ tcp.at = "serve" /\ tcp.transaction = client.transaction
    \/ /\ packets # << >>
       /\ packets[Len(packets)] = TcpServer!Adu(client.transaction, client.request)

(* What a client keeps.                                                    *)
ClientRecord(c) ==
  c = [at |-> c.at, request |-> c.request, transaction |-> c.transaction,
       whole |-> c.whole, splits |-> c.splits, answer |-> c.answer]

(* The invariant of the TCP connection.                                    *)
ConnectionInv ==
  /\ tcp = [at |-> tcp.at, transaction |-> tcp.transaction, job |-> tcp.job]
  /\ ClientRecord(client)
  /\ packets \in Seq(Seq(Nat))
  /\ client.transaction \in Nat
  /\ client.at = "waiting" => client.request \in TcpRequests
  /\ client.at \in {"idle", "waiting"} => tcp.at # "accept"
  /\ RequestOnTheWay

(* The parts of a client. *)
LEMMA ClientParts ==
  ASSUME NEW c, NEW at, NEW request, NEW transaction, NEW whole, NEW splits, NEW answer,
         c = [at |-> at, request |-> request, transaction |-> transaction,
              whole |-> whole, splits |-> splits, answer |-> answer]
  PROVE  /\ ClientRecord(c)
         /\ c.at = at /\ c.request = request /\ c.transaction = transaction
         /\ c.whole = whole /\ c.splits = splits /\ c.answer = answer
BY DEF ClientRecord

(* Steps that change where the client is. *)
LEMMA ClientAt ==
  ASSUME ClientRecord(client), NEW at,
         client' = [client EXCEPT !.at = at]
  PROVE  /\ ClientRecord(client)' /\ client'.at = at /\ client'.answer = client.answer
         /\ client'.request = client.request /\ client'.transaction = client.transaction
         /\ client'.whole = client.whole /\ client'.splits = client.splits
<1>1. client = [at |-> client.at, request |-> client.request, transaction |-> client.transaction,
                whole |-> client.whole, splits |-> client.splits, answer |-> client.answer]
  BY Zenon DEF ClientRecord
<1>2. client' = [at |-> at, request |-> client.request, transaction |-> client.transaction,
                 whole |-> client.whole, splits |-> client.splits, answer |-> client.answer]
  BY <1>1
<1>3. /\ ClientRecord(client') /\ client'.at = at /\ client'.answer = client.answer
      /\ client'.request = client.request /\ client'.transaction = client.transaction
      /\ client'.whole = client.whole /\ client'.splits = client.splits
  BY <1>2, ClientParts, Zenon
<1> QED BY <1>3, Zenon DEF ClientRecord

(* The step that gives it an answer. *)
LEMMA ClientAnswered ==
  ASSUME ClientRecord(client), NEW at, NEW reply,
         client' = [client EXCEPT !.at = at, !.answer = reply]
  PROVE  /\ ClientRecord(client)' /\ client'.at = at /\ client'.answer = reply
         /\ client'.request = client.request /\ client'.transaction = client.transaction
         /\ client'.whole = client.whole /\ client'.splits = client.splits
<1>1. client = [at |-> client.at, request |-> client.request, transaction |-> client.transaction,
                whole |-> client.whole, splits |-> client.splits, answer |-> client.answer]
  BY Zenon DEF ClientRecord
<1>2. client' = [at |-> at, request |-> client.request, transaction |-> client.transaction,
                 whole |-> client.whole, splits |-> client.splits, answer |-> reply]
  BY <1>1
<1>3. /\ ClientRecord(client') /\ client'.at = at /\ client'.answer = reply
      /\ client'.request = client.request /\ client'.transaction = client.transaction
      /\ client'.whole = client.whole /\ client'.splits = client.splits
  BY <1>2, ClientParts, Zenon
<1> QED BY <1>3, Zenon DEF ClientRecord

(* Steps that change the place of the server. *)
LEMMA ServerAt ==
  ASSUME tcp = [at |-> tcp.at, transaction |-> tcp.transaction, job |-> tcp.job],
         NEW at, NEW job,
         tcp' = [tcp EXCEPT !.at = at] \/ tcp' = [tcp EXCEPT !.at = at, !.job = job]
  PROVE  /\ tcp' = [at |-> tcp'.at, transaction |-> tcp'.transaction, job |-> tcp'.job]
         /\ tcp'.at = at /\ tcp'.transaction = tcp.transaction
<1> DEFINE transaction == tcp.transaction
           served == tcp.job
           before == tcp.at
<1>1. tcp = [at |-> before, transaction |-> transaction, job |-> served]
  OBVIOUS
<1> HIDE DEF transaction, served, before
<1>2. \/ tcp' = [at |-> at, transaction |-> transaction, job |-> served]
      \/ tcp' = [at |-> at, transaction |-> transaction, job |-> job]
  <2>1. CASE tcp' = [tcp EXCEPT !.at = at]
    BY <1>1, <2>1
  <2>2. CASE tcp' = [tcp EXCEPT !.at = at, !.job = job]
    BY <1>1, <2>2
  <2> QED BY <2>1, <2>2
<1>3. /\ tcp' = [at |-> tcp'.at, transaction |-> tcp'.transaction, job |-> tcp'.job]
      /\ tcp'.at = at /\ tcp'.transaction = transaction
  BY <1>2
<1> QED BY <1>3 DEF transaction

(* A connection is accepted: nothing has been sent on it. *)
LEMMA AcceptStep ==
  ASSUME ConnectionInv, TcpServer!Accept
  PROVE  ConnectionInv'
<1>1. /\ tcp' = [tcp EXCEPT !.at = "receive"] /\ client' = [client EXCEPT !.at = "idle"]
      /\ packets' = packets
  BY DEF TcpServer!Accept
<1>2. /\ tcp' = [at |-> tcp'.at, transaction |-> tcp'.transaction, job |-> tcp'.job]
      /\ tcp'.at = "receive"
  BY <1>1, ServerAt DEF ConnectionInv
<1>3. ClientRecord(client)' /\ client'.at = "idle" /\ client'.transaction = client.transaction
  BY <1>1, ClientAt DEF ConnectionInv
<1> QED BY <1>1, <1>2, <1>3 DEF ConnectionInv, RequestOnTheWay

(* A connection is closed: nobody waits on it. *)
LEMMA CloseStep ==
  ASSUME ConnectionInv, TcpServer!Close
  PROVE  ConnectionInv'
<1> DEFINE at == IF client.at = "connecting" THEN client.at ELSE "closed"
<1>1. /\ tcp' = [tcp EXCEPT !.at = "accept"] /\ client' = [client EXCEPT !.at = at]
      /\ packets' = << >>
  BY DEF TcpServer!Close, ConnectionInv, ClientRecord
<1>2. /\ tcp' = [at |-> tcp'.at, transaction |-> tcp'.transaction, job |-> tcp'.job]
  BY <1>1, ServerAt DEF ConnectionInv
<1>3. at \in {"connecting", "closed"}
  OBVIOUS
<1> HIDE DEF at
<1>4. ClientRecord(client)' /\ client'.at = at /\ client'.transaction = client.transaction
  BY <1>1, ClientAt DEF ConnectionInv
<1>5. packets' \in Seq(Seq(Nat))
  BY <1>1, EmptySeq
<1> QED BY <1>2, <1>3, <1>4, <1>5 DEF ConnectionInv, RequestOnTheWay

(* The packets after the first. *)
LEMMA RestType ==
  ASSUME packets \in Seq(Seq(Nat)), packets # << >>
  PROVE  /\ Head(packets) = packets[1] /\ Tail(packets) \in Seq(Seq(Nat))
         /\ Len(packets) = 1 \/ (Tail(packets) # << >>
                                 /\ Tail(packets)[Len(Tail(packets))] = packets[Len(packets)])
<1>1. Len(packets) \in Nat /\ Len(packets) > 0
  BY EmptySeq, LenProperties
<1>2. /\ Tail(packets) \in Seq(Seq(Nat)) /\ Len(Tail(packets)) = Len(packets) - 1
      /\ \A i \in 1 .. Len(Tail(packets)) : Tail(packets)[i] = packets[i + 1]
  BY HeadTailProperties
<1>3. CASE Len(packets) > 1
  <2>1. Len(Tail(packets)) \in 1 .. Len(Tail(packets)) /\ Len(Tail(packets)) + 1 = Len(packets)
    BY <1>1, <1>2, <1>3
  <2>2. Tail(packets) # << >>
    <3> DEFINE length == Len(Tail(packets))
               lengths == Len(packets)
    <3>1. length = lengths - 1 /\ lengths \in Nat /\ lengths > 1
      BY <1>1, <1>2, <1>3
    <3> HIDE DEF length, lengths
    <3>2. length # 0
      BY <3>1
    <3>3. Len(Tail(packets)) # 0
      BY <3>2 DEF length
    <3>4. Len(<< >>) = 0
      OBVIOUS
    <3> QED BY <3>3, <3>4, Zenon
  <2> QED BY <1>2, <2>1, <2>2
<1> QED BY <1>1, <1>2, <1>3

(* A fragment is too short to be a whole request. *)
LEMMA ReceiveFragmentStep ==
  ASSUME ConnectionInv, TcpServer!ReceiveFragment
  PROVE  ConnectionInv'
<1>1. /\ packets # << >> /\ ~(Len(Head(packets)) >= 8) /\ packets' = Tail(packets)
      /\ tcp' = tcp /\ client' = client /\ tcp.at = "receive"
  <2>1. packets # << >> /\ Len(Head(packets)) < 8
    BY DEF TcpServer!ReceiveFragment
  <2>2. Len(Head(packets)) \in Nat
    BY <2>1, HeadTailProperties, LenProperties DEF ConnectionInv
  <2> QED BY <2>1, <2>2 DEF TcpServer!ReceiveFragment
<1>2. /\ Head(packets) = packets[1] /\ Tail(packets) \in Seq(Seq(Nat))
      /\ Len(packets) = 1 \/ (Tail(packets) # << >>
                              /\ Tail(packets)[Len(Tail(packets))] = packets[Len(packets)])
  BY <1>1, RestType DEF ConnectionInv
<1>3. client.at = "waiting" => Len(TcpServer!Adu(client.transaction, client.request)) >= 8
  BY AduType DEF ConnectionInv
<1>4. RequestOnTheWay'
  <2> SUFFICES ASSUME client.at = "waiting", client.whole
               PROVE  /\ packets' # << >>
                      /\ packets'[Len(packets')] = TcpServer!Adu(client.transaction, client.request)
    BY <1>1 DEF RequestOnTheWay
  <2>1. packets[Len(packets)] = TcpServer!Adu(client.transaction, client.request)
    BY <1>1 DEF ConnectionInv, RequestOnTheWay
  <2>2. Len(packets) # 1
    BY <1>1, <1>2, <1>3, <2>1
  <2> QED BY <1>1, <1>2, <2>1, <2>2
<1> QED BY <1>1, <1>2, <1>4 DEF ConnectionInv

(* A packet with a whole request is served under its transaction. *)
LEMMA ReceiveRequestStep ==
  ASSUME ConnectionInv, TcpServer!ReceiveRequest
  PROVE  ConnectionInv'
<1> DEFINE transaction == TcpServer!U16(Head(packets), 0)
           job == TcpServer!ProcessModbusRequest(Head(packets))
<1>1. /\ packets # << >> /\ packets' = Tail(packets) /\ client' = client /\ tcp.at = "receive"
      /\ tcp' = [at |-> "serve", transaction |-> transaction, job |-> job]
  BY DEF TcpServer!ReceiveRequest
<1>2. /\ Head(packets) = packets[1] /\ Tail(packets) \in Seq(Seq(Nat))
      /\ Len(packets) = 1 \/ (Tail(packets) # << >>
                              /\ Tail(packets)[Len(Tail(packets))] = packets[Len(packets)])
  BY <1>1, RestType DEF ConnectionInv
<1>3. client.at = "waiting" =>
        TcpServer!U16(TcpServer!Adu(client.transaction, client.request), 0) = client.transaction
  BY AduType DEF ConnectionInv
<1>4. client.at = "waiting" /\ client.whole =>
        packets[Len(packets)] = TcpServer!Adu(client.transaction, client.request)
  BY <1>1 DEF ConnectionInv, RequestOnTheWay
<1>5. client.at = "waiting" /\ client.whole /\ Len(packets) = 1 => transaction = client.transaction
  BY <1>2, <1>3, <1>4
<1> HIDE DEF transaction, job
<1>6. /\ tcp' = [at |-> tcp'.at, transaction |-> tcp'.transaction, job |-> tcp'.job]
      /\ tcp'.at = "serve" /\ tcp'.transaction = transaction
  BY <1>1
<1>7. RequestOnTheWay'
  BY <1>1, <1>2, <1>4, <1>5, <1>6 DEF RequestOnTheWay
<1> QED BY <1>1, <1>2, <1>6, <1>7 DEF ConnectionInv

(* A server that fails to receive is going to close. *)
LEMMA ReceiveFailsStep ==
  ASSUME ConnectionInv, TcpServer!ReceiveFails
  PROVE  ConnectionInv'
<1>1. tcp' = [tcp EXCEPT !.at = "close"] /\ client' = client /\ packets' = packets
  BY DEF TcpServer!ReceiveFails
<1>2. /\ tcp' = [at |-> tcp'.at, transaction |-> tcp'.transaction, job |-> tcp'.job]
      /\ tcp'.at = "close"
  BY <1>1, ServerAt DEF ConnectionInv
<1> QED BY <1>1, <1>2 DEF ConnectionInv, RequestOnTheWay

(* A request that is served stays served until it is answered. *)
LEMMA TcpAccessStep ==
  ASSUME ConnectionInv, TcpServer!AccessRegister
  PROVE  ConnectionInv'
<1> DEFINE at == tcp.at
           transaction == tcp.transaction
           served == tcp.job
           job == TcpServer!NextJob(tcp.job, holding)
<1>1. packets' = packets /\ client' = client /\ tcp' = [tcp EXCEPT !.job = job]
  BY DEF TcpServer!AccessRegister, ConnectionInv
<1>2. tcp = [at |-> at, transaction |-> transaction, job |-> served]
  BY DEF ConnectionInv
<1> HIDE DEF at, transaction, served, job
<1>3. tcp' = [at |-> at, transaction |-> transaction, job |-> job]
  BY <1>1, <1>2
<1>4. /\ tcp' = [at |-> tcp'.at, transaction |-> tcp'.transaction, job |-> tcp'.job]
      /\ tcp'.at = at /\ tcp'.transaction = transaction
  BY <1>3
<1>5. tcp'.at = tcp.at /\ tcp'.transaction = tcp.transaction
  BY <1>4 DEF at, transaction
<1> QED BY <1>1, <1>4, <1>5 DEF ConnectionInv, RequestOnTheWay

(* The answer ends the waiting, if it is to the last request. *)
LEMMA TcpSendStep ==
  ASSUME ConnectionInv, TcpServer!SendResponse
  PROVE  ConnectionInv'
<1> DEFINE answered == client.at = "waiting" /\ client.transaction = tcp.transaction
           answer == TcpServer!Answer(tcp.job)
           job == TcpServer!NoJob
<1>1. /\ tcp.at = "serve" /\ packets' = packets
      /\ tcp' = [tcp EXCEPT !.at = "receive", !.job = job]
      /\ client' = IF answered THEN [client EXCEPT !.at = "idle", !.answer = answer] ELSE client
  BY DEF TcpServer!SendResponse
<1> HIDE DEF answer, job
<1>2. /\ tcp' = [at |-> tcp'.at, transaction |-> tcp'.transaction, job |-> tcp'.job]
      /\ tcp'.at = "receive" /\ tcp'.transaction = tcp.transaction
  BY <1>1, ServerAt DEF ConnectionInv
<1>3. CASE answered
  <2>1. client' = [client EXCEPT !.at = "idle", !.answer = answer]
    BY <1>1, <1>3
  <2>2. ClientRecord(client)' /\ client'.at = "idle" /\ client'.transaction = client.transaction
    BY <2>1, ClientAnswered DEF ConnectionInv
  <2> QED BY <1>1, <1>2, <2>2 DEF ConnectionInv, RequestOnTheWay
<1>4. CASE ~answered
  BY <1>1, <1>2, <1>4 DEF ConnectionInv, RequestOnTheWay
<1> QED BY <1>3, <1>4

(* A new connection: nothing is sent or waited for. *)
LEMMA ConnectStep ==
  ASSUME ConnectionInv, TcpServer!Connect
  PROVE  ConnectionInv'
<1>1. tcp' = tcp /\ packets' = packets /\ client' = [client EXCEPT !.at = "connecting"]
  BY DEF TcpServer!Connect
<1>2. ClientRecord(client)' /\ client'.at = "connecting" /\ client'.transaction = client.transaction
  BY <1>1, ClientAt DEF ConnectionInv
<1> QED BY <1>1, <1>2 DEF ConnectionInv, RequestOnTheWay

(* A client that disconnects waits no longer. *)
LEMMA DisconnectStep ==
  ASSUME ConnectionInv, TcpServer!Disconnect
  PROVE  ConnectionInv'
<1>1. tcp' = tcp /\ packets' = packets /\ client' = [client EXCEPT !.at = "closed"]
  BY DEF TcpServer!Disconnect
<1>2. ClientRecord(client)' /\ client'.at = "closed" /\ client'.transaction = client.transaction
  BY <1>1, ClientAt DEF ConnectionInv
<1> QED BY <1>1, <1>2 DEF ConnectionInv, RequestOnTheWay

(* The client after it has sent a request. *)
LEMMA RequestStep ==
  ASSUME ConnectionInv, client.at = "idle",
         NEW request \in TcpRequests, NEW whole, NEW sent \in Seq(Seq(Nat)),
         TcpServer!Request(request, whole, sent),
         whole => /\ packets' # << >>
                  /\ packets'[Len(packets')] = TcpServer!Adu(client.transaction + 1, request)
  PROVE  ConnectionInv'
<1> DEFINE transaction == client.transaction + 1
           splits == IF whole THEN client.splits ELSE client.splits + 1
           answer == TcpServer!NoAnswer
<1>1. /\ packets' = packets \o sent /\ tcp' = tcp
      /\ client' = [client EXCEPT !.at = "waiting", !.request = request, !.whole = whole,
                                  !.transaction = transaction, !.splits = splits, !.answer = answer]
  BY DEF TcpServer!Request, ConnectionInv, ClientRecord
<1>2. transaction \in Nat
  BY DEF ConnectionInv
<1>3. whole => packets' # << >> /\ packets'[Len(packets')] = TcpServer!Adu(transaction, request)
  OBVIOUS
<1> HIDE DEF transaction, splits, answer
<1>4. client' = [at |-> "waiting", request |-> request, transaction |-> transaction,
                 whole |-> whole, splits |-> splits, answer |-> answer]
  <2> DEFINE a == client.at
             b == client.request
             c == client.transaction
             d == client.whole
             e == client.splits
             f == client.answer
  <2>1. client = [at |-> a, request |-> b, transaction |-> c, whole |-> d, splits |-> e, answer |-> f]
    BY DEF ConnectionInv, ClientRecord
  <2> HIDE DEF a, b, c, d, e, f
  <2> QED BY <1>1, <2>1
<1>5. /\ ClientRecord(client)' /\ client'.at = "waiting" /\ client'.request = request
      /\ client'.transaction = transaction /\ client'.whole = whole
  BY <1>4 DEF ClientRecord
<1>6. packets' \in Seq(Seq(Nat))
  BY <1>1, Pieces DEF ConnectionInv
<1>7. tcp'.at # "accept" /\ tcp' = tcp
  BY <1>1 DEF ConnectionInv
<1> QED BY <1>2, <1>3, <1>5, <1>6, <1>7 DEF ConnectionInv, RequestOnTheWay

(* What is put into a queue is its last. *)
LEMMA LastPacket ==
  ASSUME NEW S, NEW q \in Seq(S), NEW x \in S
  PROVE  q \o <<x>> # << >> /\ (q \o <<x>>)[Len(q \o <<x>>)] = x
<1>1. Append(q, x) = q \o <<x>>
  BY AppendIsConcat
<1>2. /\ Append(q, x) # << >> /\ Len(Append(q, x)) = Len(q) + 1
      /\ Append(q, x)[Len(q) + 1] = x
  BY AppendProperties
<1> QED BY <1>1, <1>2

(* A request that is sent whole is the last packet. *)
LEMMA ClientSendsStep ==
  ASSUME ConnectionInv, TcpServer!ClientSends
  PROVE  ConnectionInv'
<1>1. PICK request \in TcpRequests :
        LET adu == TcpServer!Adu(client.transaction + 1, request)
        IN  \/ TcpServer!Request(request, TRUE, <<adu>>)
            \/ \E n \in Cuts \intersect (1 .. Len(adu) - 1) :
                 TcpServer!Request(request, FALSE,
                                   <<SubSeq(adu, 1, n), SubSeq(adu, n + 1, Len(adu))>>)
  BY DEF TcpServer!ClientSends
<1> DEFINE adu == TcpServer!Adu(client.transaction + 1, request)
           yes == TRUE
           no == FALSE
<1>2. client.at = "idle" /\ packets \in Seq(Seq(Nat))
  BY DEF TcpServer!ClientSends, ConnectionInv
<1>3. adu \in Seq(Nat)
  <2>1. client.transaction + 1 \in Nat
    BY DEF ConnectionInv
  <2> QED BY <2>1, AduType
<1>4. CASE TcpServer!Request(request, TRUE, <<adu>>)
  <2> DEFINE whole == adu
  <2>1. whole \in Seq(Nat)
    BY <1>3
  <2>2. packets' = packets \o <<whole>> /\ TcpServer!Request(request, yes, <<whole>>)
    BY <1>4 DEF TcpServer!Request
  <2>3. yes
    OBVIOUS
  <2> HIDE DEF whole, adu, yes
  <2>4. <<whole>> \in Seq(Seq(Nat)) /\ Len(<<whole>>) = 1 /\ <<whole>>[1] = whole
    BY <2>1
  <2>5. packets' # << >> /\ packets'[Len(packets')] = whole
    BY <1>2, <2>1, <2>2, LastPacket
  <2>6. yes => /\ packets' # << >>
               /\ packets'[Len(packets')] = TcpServer!Adu(client.transaction + 1, request)
    BY <2>5 DEF whole, adu
  <2> QED BY <1>2, <2>2, <2>4, <2>6, RequestStep
<1>5. ASSUME NEW n \in Cuts \intersect (1 .. Len(adu) - 1),
             TcpServer!Request(request, FALSE,
                               <<SubSeq(adu, 1, n), SubSeq(adu, n + 1, Len(adu))>>)
      PROVE  ConnectionInv'
  <2> DEFINE first == SubSeq(adu, 1, n)
             second == SubSeq(adu, n + 1, Len(adu))
             sent == <<first, second>>
  <2>1. Len(adu) \in Nat /\ n \in Nat /\ n >= 1 /\ n <= Len(adu)
    <3>1. Len(adu) \in Nat
      BY <1>3, LenProperties
    <3> QED BY <3>1
  <2>2. first \in Seq(Nat)
    <3> HIDE DEF adu
    <3> QED BY <1>3, <2>1, PartType
  <2>3. second \in Seq(Nat)
    <3> HIDE DEF adu
    <3>1. n + 1 \in Int /\ n + 1 >= 1
      BY <2>1
    <3> QED BY <1>3, <2>1, <3>1, PartType
  <2>4. TcpServer!Request(request, no, sent)
    BY <1>5
  <2>5. ~no
    OBVIOUS
  <2> HIDE DEF first, second, no
  <2>6. sent \in Seq(Seq(Nat))
    BY <2>2, <2>3
  <2> HIDE DEF sent
  <2>7. no => /\ packets' # << >>
              /\ packets'[Len(packets')] = TcpServer!Adu(client.transaction + 1, request)
    BY <2>5
  <2> QED BY <1>2, <2>4, <2>6, <2>7, RequestStep
<1> QED BY <1>1, <1>4, <1>5

----------------------------------------------------------------------------
(* Both servers. *)

(* Both are true at first.                                                 *)
LEMMA InitInv ==
  ASSUME Init
  PROVE  LineInv /\ ConnectionInv
<1> DEFINE no == FALSE
           job == RtuServer!NoJob
           answer == RtuServer!NoAnswer
           first == CHOOSE r \in RtuRequests : TRUE
           served == TcpServer!NoJob
           reply == TcpServer!NoAnswer
           second == CHOOSE r \in TcpRequests : TRUE
<1>1. /\ rtu = [buf |-> << >>, serving |-> no, job |-> job] /\ line = << >>
      /\ master = [waiting |-> no, request |-> first, intact |-> no, clean |-> no, faults |-> 0, answer |-> answer]
  BY DEF Init, RtuServer!RtuInit
<1>2. /\ tcp = [at |-> "accept", transaction |-> 0, job |-> served] /\ packets = << >>
      /\ client = [at |-> "closed", request |-> second, transaction |-> 0,
                   whole |-> no, splits |-> 0, answer |-> reply]
  BY DEF Init, TcpServer!TcpInit
<1>3. ~no
  OBVIOUS
<1> HIDE DEF no, job, answer, first, served, reply, second
<1>4. << >> \in Seq(Symbols) /\ << >> \in Seq(Seq(Nat))
  BY EmptySeq
<1>5. LineInv
  <2>1. rtu = [buf |-> rtu.buf, serving |-> rtu.serving, job |-> rtu.job] /\ rtu.buf = << >>
    BY <1>1
  <2>2. /\ master = [waiting |-> master.waiting, request |-> master.request, intact |-> master.intact,
                    clean |-> master.clean, faults |-> master.faults, answer |-> master.answer]
        /\ ~master.waiting
    BY <1>1, <1>3
  <2> QED BY <1>1, <1>4, <2>1, <2>2 DEF LineInv, FrameOnTheWay
<1>6. ConnectionInv
  <2>1. tcp = [at |-> tcp.at, transaction |-> tcp.transaction, job |-> tcp.job]
    BY <1>2
  <2>2. ClientRecord(client) /\ client.at = "closed" /\ client.transaction = 0
    BY <1>2 DEF ClientRecord
  <2> QED BY <1>2, <1>4, <2>1, <2>2 DEF ConnectionInv, RequestOnTheWay
<1> QED BY <1>5, <1>6

(* All steps of the serial line keep its invariant. *)
LEMMA RtuSteps ==
  ASSUME LineInv, RtuNext
  PROVE  LineInv'
<1>1. RtuServer!RtuServes \/ RtuServer!MasterGivesUp \/ RtuServer!MasterSends
  BY DEF RtuNext
<1>2. \/ RtuServer!Receive \/ RtuServer!InterFrameTimeout \/ RtuServer!AccessRegister \/ RtuServer!SendResponse
      \/ RtuServer!MasterGivesUp \/ RtuServer!MasterSends
  BY <1>1 DEF RtuServer!RtuServes
<1> QED BY <1>2, ReceiveStep, InterFrameTimeoutStep, RtuAccessStep, RtuSendStep, MasterGivesUpStep, MasterSendsStep

(* All steps of the connection keep its invariant. *)
LEMMA TcpSteps ==
  ASSUME ConnectionInv, TcpNext
  PROVE  ConnectionInv'
<1>1. TcpServer!TcpServes \/ TcpServer!Connect \/ TcpServer!Disconnect \/ TcpServer!ClientSends
  BY DEF TcpNext
<1>2. \/ TcpServer!Accept \/ TcpServer!Close \/ TcpServer!ReceiveFragment \/ TcpServer!ReceiveRequest
      \/ TcpServer!ReceiveFails \/ TcpServer!AccessRegister \/ TcpServer!SendResponse
      \/ TcpServer!Connect \/ TcpServer!Disconnect \/ TcpServer!ClientSends
  BY <1>1 DEF TcpServer!TcpServes
<1> QED BY <1>2, AcceptStep, CloseStep, ReceiveFragmentStep, ReceiveRequestStep, ReceiveFailsStep,
           TcpAccessStep, TcpSendStep, ConnectStep, DisconnectStep, ClientSendsStep

(* The TCP server does not touch the serial line. *)
LEMMA LineStutter ==
  ASSUME LineInv, UNCHANGED rtuVars
  PROVE  LineInv'
BY DEF LineInv, FrameOnTheWay, rtuVars

(* Nor the RTU slave the connection. *)
LEMMA ConnectionStutter ==
  ASSUME ConnectionInv, UNCHANGED tcpVars
  PROVE  ConnectionInv'
BY DEF ConnectionInv, RequestOnTheWay, ClientRecord, tcpVars

(* No request is forgotten by either server, for all requests a client may *)
(* send, all chunks and disturbances of a line and cuts of packets, and    *)
(* whatever the other server does meanwhile.                               *)
THEOREM NoRequestIsForgotten == Spec => []NoneForgotten
<1>1. Init => LineInv /\ ConnectionInv
  BY InitInv
<1>2. LineInv /\ ConnectionInv /\ [Next]_vars => LineInv' /\ ConnectionInv'
  <2> SUFFICES ASSUME LineInv, ConnectionInv, [Next]_vars
               PROVE  LineInv' /\ ConnectionInv'
    OBVIOUS
  <2>1. CASE RtuNext
    <3>1. UNCHANGED tcpVars
      BY <2>1 DEF RtuNext
    <3> QED BY <2>1, <3>1, RtuSteps, ConnectionStutter
  <2>2. CASE TcpNext
    <3>1. UNCHANGED rtuVars
      BY <2>2 DEF TcpNext
    <3> QED BY <2>2, <3>1, TcpSteps, LineStutter
  <2>3. CASE UNCHANGED vars
    <3>1. UNCHANGED rtuVars /\ UNCHANGED tcpVars
      BY <2>3 DEF vars
    <3> QED BY <3>1, LineStutter, ConnectionStutter
  <2> QED BY <2>1, <2>2, <2>3 DEF Next
<1>3. LineInv /\ ConnectionInv => NoneForgotten
  BY DEF LineInv, FrameOnTheWay, ConnectionInv, RequestOnTheWay, NoneForgotten
<1> QED BY <1>1, <1>2, <1>3, PTL DEF Spec

----------------------------------------------------------------------------
(* What a server reads out of the bytes of a request is the request.       *)

(* A word is read as it has been sent. *)
LEMMA WordRead == \A n \in Nat : High(n) * 256 + Low(n) = n
BY DEF High, Low

(* The bytes of a value are found at twice its place.                      *)
LEMMA ValuePlaces ==
  ASSUME NEW values \in Seq(Word), values # << >>, NEW k \in 1 .. Len(values)
  PROVE  /\ PduValues(values)[2 * k] = High(values[k])
         /\ PduValues(values)[2 * k + 1] = Low(values[k])
<1> DEFINE n == 2 * Len(values)
           byte(i) == Bytes(values[(i + 1) \div 2])[2 - (i % 2)]
           bytes == [i \in 1 .. n |-> byte(i)]
           first == <<n>>
<1>1. n \in Nat /\ Len(values) \in Nat /\ k \in Nat /\ k >= 1 /\ k <= Len(values)
  BY LenProperties
<1>2. PduValues(values) = first \o bytes
  BY DEF PduValues
<1>3. values[k] \in Nat
  <2>1. values[k] \in Word
    BY ElementOfSeq
  <2> QED BY <2>1, Natural
<1>4. byte(2 * k - 1) = High(values[k]) /\ byte(2 * k) = Low(values[k])
  <2>1. (2 * k - 1 + 1) \div 2 = k /\ (2 * k - 1) % 2 = 1
    BY <1>1
  <2>2. (2 * k + 1) \div 2 = k /\ (2 * k) % 2 = 0
    BY <1>1
  <2>3. Bytes(values[k])[1] = High(values[k]) /\ Bytes(values[k])[2] = Low(values[k])
    BY <1>3, BytesType
  <2> QED BY <2>1, <2>2, <2>3
<1>5. \A i \in 1 .. n : byte(i) \in Nat
  <2> SUFFICES ASSUME NEW i \in 1 .. n PROVE byte(i) \in Nat
    OBVIOUS
  <2>1. (i + 1) \div 2 \in 1 .. Len(values) /\ 2 - (i % 2) \in {1, 2}
    BY <1>1
  <2>2. values[(i + 1) \div 2] \in Word
    BY <2>1, ElementOfSeq
  <2>3. values[(i + 1) \div 2] \in Nat
    BY <2>2, Natural
  <2> QED BY <2>1, <2>3, BytesType
<1> HIDE DEF byte
<1>6. bytes \in Seq(Nat) /\ Len(bytes) = n /\ \A i \in 1 .. n : bytes[i] = byte(i)
  BY <1>1, <1>5
<1>7. first \in Seq(Nat) /\ Len(first) = 1
  BY <1>1
<1> HIDE DEF bytes, first, n
<1>8. Joined(Nat, first, bytes)
  BY <1>6, <1>7, Joins
<1>9. \A i \in 1 .. n : (first \o bytes)[1 + i] = byte(i)
  BY <1>6, <1>7, <1>8, Zenon DEF Joined
<1>10. 2 * k - 1 \in 1 .. n /\ 2 * k \in 1 .. n /\ 1 + (2 * k - 1) = 2 * k /\ 1 + 2 * k = 2 * k + 1
  BY <1>1 DEF n
<1>11. /\ (first \o bytes)[1 + (2 * k - 1)] = byte(2 * k - 1)
       /\ (first \o bytes)[1 + 2 * k] = byte(2 * k)
  BY <1>9, <1>10, Zenon
<1> QED BY <1>2, <1>4, <1>10, <1>11

(* Three pieces: the places of the second and of the third.                *)
LEMMA ThreePieces ==
  ASSUME NEW s \in Seq(Nat), NEW t \in Seq(Nat), NEW u \in Seq(Nat)
  PROVE  /\ \A i \in 1 .. Len(t) : (s \o (t \o u))[Len(s) + i] = t[i]
         /\ \A i \in 1 .. Len(u) : (s \o (t \o u))[Len(s) + Len(t) + i] = u[i]
<1> DEFINE v == t \o u
<1>1. Joined(Nat, t, u)
  BY Joins
<1>2. /\ v \in Seq(Nat) /\ Len(v) = Len(t) + Len(u) /\ Len(t) \in Nat /\ Len(u) \in Nat
      /\ \A i \in 1 .. Len(t) : v[i] = t[i]
      /\ \A i \in 1 .. Len(u) : v[Len(t) + i] = u[i]
  BY <1>1, Zenon DEF Joined
<1> HIDE DEF v
<1>3. Joined(Nat, s, v)
  BY <1>2, Joins
<1>4. Len(s) \in Nat /\ \A i \in 1 .. Len(v) : (s \o v)[Len(s) + i] = v[i]
  BY <1>3, Zenon DEF Joined
<1>5. ASSUME NEW i \in 1 .. Len(t) PROVE (s \o v)[Len(s) + i] = t[i]
  <2>1. i \in 1 .. Len(v)
    BY <1>2
  <2> QED BY <1>2, <1>4, <2>1
<1>6. ASSUME NEW i \in 1 .. Len(u) PROVE (s \o v)[Len(s) + Len(t) + i] = u[i]
  <2>1. Len(t) + i \in 1 .. Len(v) /\ Len(s) + (Len(t) + i) = Len(s) + Len(t) + i
    BY <1>2, <1>4
  <2>2. (s \o v)[Len(s) + (Len(t) + i)] = v[Len(t) + i]
    BY <1>4, <2>1
  <2> QED BY <1>2, <2>1, <2>2
<1> QED BY <1>5, <1>6 DEF v

(* The words of a PDU: the start, then the quantity or the single value,   *)
(* and the values of a multiple write.                                     *)
PduRead(request) ==
  LET pdu == Pdu(request)
  IN  /\ pdu[2] * 256 + pdu[3] = request.start
      /\ pdu[4] * 256 + pdu[5] = IF request.fc = WriteSingle THEN request.values[1]
                                                             ELSE request.quantity
      /\ request.fc = WriteMultiple =>
           \A k \in 1 .. Len(request.values) :
             pdu[5 + 2 * k] * 256 + pdu[6 + 2 * k] = request.values[k]

(* Every word of a PDU is read as it has been sent.                        *)
LEMMA PduWords ==
  ASSUME NEW request, Sendable(request)
  PROVE  PduRead(request)
<1> DEFINE values == request.values
           start == request.start
           quantity == request.quantity
           second == IF request.fc = WriteSingle THEN values[1] ELSE quantity
           fc == <<request.fc>>
           s == Bytes(start)
           q == Bytes(second)
           u == IF request.fc = WriteSingle THEN << >> ELSE PduValues(values)
           head == fc \o s
<1>1. /\ request.fc \in Nat /\ start \in Nat /\ quantity \in Nat /\ values \in Seq(Word)
      /\ request.fc = WriteSingle => Len(values) = 1
      /\ request.fc = WriteMultiple => values # << >>
      /\ WriteSingle # WriteMultiple
  <2>1. request.fc \in Byte /\ start \in Word /\ quantity \in Word /\ values \in Seq(Word)
    BY DEF Sendable
  <2>2. /\ request.fc = WriteSingle => Len(values) = 1
        /\ request.fc = WriteMultiple => values # << >>
    BY DEF Sendable
  <2>3. WriteSingle # WriteMultiple
    BY DEF WriteSingle, WriteMultiple
  <2> QED BY <2>1, <2>2, <2>3, Natural
<1>2. second \in Nat
  <2>1. CASE request.fc = WriteSingle
    <3>1. values[1] \in Word
      <4>1. Len(values) = 1
        BY <1>1, <2>1
      <4>2. 1 \in 1 .. Len(values)
        BY <4>1
      <4> QED BY <1>1, <4>2, ElementOfSeq
    <3> QED BY <2>1, <3>1, Natural
  <2>2. CASE request.fc # WriteSingle
    BY <1>1, <2>2
  <2> QED BY <2>1, <2>2
<1> HIDE DEF second
<1>3. fc \in Seq(Nat) /\ Len(fc) = 1
  BY <1>1, One
<1>4. s \in Seq(Nat) /\ Len(s) = 2 /\ s[1] = High(start) /\ s[2] = Low(start)
  BY <1>1, BytesType
<1>5. q \in Seq(Nat) /\ Len(q) = 2 /\ q[1] = High(second) /\ q[2] = Low(second)
  BY <1>2, BytesType
<1>6. u \in Seq(Nat)
  BY <1>1, ValuesType, EmptySeq
<1>7. Pdu(request) = head \o (q \o u)
  <2>1. CASE request.fc = WriteSingle
    <3>1. q \in Seq(Nat) /\ u = << >>
      BY <1>5, <2>1
    <3>2. q \o << >> = q
      BY <1>5, ConcatEmptySeq
    <3> QED BY <2>1, <3>1, <3>2 DEF Pdu, second
  <2>2. CASE request.fc # WriteSingle
    BY <2>2 DEF Pdu, second
  <2> QED BY <2>1, <2>2
<1> HIDE DEF fc, s, q, u
<1>8. /\ head \in Seq(Nat) /\ Len(head) = 3 /\ head[2] = High(start) /\ head[3] = Low(start)
  <2>1. Joined(Nat, fc, s)
    BY <1>3, <1>4, Joins
  <2>2. /\ head \in Seq(Nat) /\ Len(head) = Len(fc) + Len(s)
        /\ \A i \in 1 .. Len(s) : head[Len(fc) + i] = s[i]
    BY <2>1, Zenon DEF Joined
  <2> HIDE DEF head
  <2>3. head[1 + 1] = s[1] /\ head[1 + 2] = s[2]
    BY <1>3, <1>4, <2>2
  <2> QED BY <1>3, <1>4, <2>2, <2>3
<1> HIDE DEF head
<1> DEFINE pdu == head \o (q \o u)
<1>9. /\ \A i \in 1 .. 2 : pdu[3 + i] = q[i]
      /\ \A i \in 1 .. Len(u) : pdu[3 + 2 + i] = u[i]
  <2>1. /\ \A i \in 1 .. Len(q) : (head \o (q \o u))[Len(head) + i] = q[i]
        /\ \A i \in 1 .. Len(u) : (head \o (q \o u))[Len(head) + Len(q) + i] = u[i]
    BY <1>5, <1>6, <1>8, ThreePieces
  <2>2. Len(head) = 3 /\ Len(q) = 2
    BY <1>5, <1>8
  <2> HIDE DEF pdu
  <2>3. pdu = head \o (q \o u)
    BY DEF pdu
  <2> QED BY <2>1, <2>2, <2>3, Zenon
<1>10. \A i \in 1 .. 3 : pdu[i] = head[i]
  <2> DEFINE v == q \o u
  <2>1. v \in Seq(Nat)
    <3>1. Joined(Nat, q, u)
      BY <1>5, <1>6, Joins
    <3> QED BY <3>1, Zenon DEF Joined
  <2> HIDE DEF v
  <2>2. Joined(Nat, head, v)
    BY <1>8, <2>1, Joins
  <2>3. \A i \in 1 .. Len(head) : (head \o v)[i] = head[i]
    BY <2>2, Zenon DEF Joined
  <2> QED BY <1>8, <2>3 DEF v
<1> HIDE DEF pdu
<1>11. pdu[2] * 256 + pdu[3] = start
  <2>1. pdu[2] = High(start) /\ pdu[3] = Low(start)
    BY <1>8, <1>10
  <2>2. High(start) * 256 + Low(start) = start
    BY <1>1, WordRead
  <2> QED BY <2>1, <2>2
<1>12. pdu[4] * 256 + pdu[5] = second
  <2>1. pdu[3 + 1] = q[1] /\ pdu[3 + 2] = q[2]
    BY <1>9
  <2>2. High(second) * 256 + Low(second) = second
    BY <1>2, WordRead
  <2> QED BY <1>5, <2>1, <2>2
<1>13. ASSUME request.fc = WriteMultiple, NEW k \in 1 .. Len(values)
       PROVE  pdu[5 + 2 * k] * 256 + pdu[6 + 2 * k] = values[k]
  <2>1. values # << >> /\ u = PduValues(values)
    BY <1>1, <1>13 DEF u
  <2>2. Len(values) \in Nat
    BY <1>1, LenProperties
  <2>3. Len(u) = 1 + 2 * Len(values)
    BY <1>1, <2>1, ValuesType
  <2> DEFINE n == Len(values)
  <2>4. n \in Nat /\ k \in 1 .. n /\ Len(u) = 1 + 2 * n
    BY <2>2, <2>3
  <2> HIDE DEF n
  <2>5. 2 * k \in 1 .. Len(u) /\ 2 * k + 1 \in 1 .. Len(u)
    BY <2>4
  <2>6. pdu[3 + 2 + 2 * k] = u[2 * k] /\ pdu[3 + 2 + (2 * k + 1)] = u[2 * k + 1]
    BY <1>9, <2>5
  <2>7. 3 + 2 + 2 * k = 5 + 2 * k /\ 3 + 2 + (2 * k + 1) = 6 + 2 * k
    BY <2>4
  <2>8. u[2 * k] = High(values[k]) /\ u[2 * k + 1] = Low(values[k])
    BY <1>1, <2>1, ValuePlaces
  <2>9. values[k] \in Nat
    <3>1. values[k] \in Word
      BY <1>1, ElementOfSeq
    <3> QED BY <3>1, Natural
  <2>10. High(values[k]) * 256 + Low(values[k]) = values[k]
    BY <2>9, WordRead
  <2>11. pdu[5 + 2 * k] = High(values[k]) /\ pdu[6 + 2 * k] = Low(values[k])
    BY <2>6, <2>7, <2>8
  <2> QED BY <2>10, <2>11
<1>14. Pdu(request) = pdu
  BY <1>7 DEF pdu
<1> QED BY <1>11, <1>12, <1>13, <1>14 DEF PduRead, second

(* A job that has been made of a request, and how far it is.               *)
Takes(job, request) ==
  /\ job = [fc |-> request.fc, code |-> job.code, start |-> job.start, quantity |-> job.quantity,
            values |-> job.values, done |-> job.done]
  /\ job.code \in Nat /\ job.done \in Nat /\ job.quantity \in Nat /\ job.done <= job.quantity
  /\ IF job.code = 0
     THEN /\ job.start = request.start /\ job.quantity = request.quantity
          /\ Reads(request.fc) \/ Writes(request.fc)
          /\ request.fc # ReadInput => job.start + job.quantity <= HoldingMaxIndex + 1
          /\ job.values \in Seq(Nat)
          /\ IF Writes(request.fc)
             THEN job.values = request.values /\ Len(job.values) = job.quantity
             ELSE Len(job.values) = job.done
     ELSE job.quantity = 0

(* A sequence over a set is one over a larger set.                         *)
LEMMA WiderSeq == ASSUME NEW S, NEW T, S \subseteq T, NEW s \in Seq(S) PROVE s \in Seq(T)
OBVIOUS

(* How a job is made: refused, or served when its registers are there.     *)
LEMMA Jobs ==
  ASSUME NEW request, Sendable(request)
  PROVE  /\ \A code \in Nat \ {0} : Takes(Refuse(request.fc, code), request)
         /\ (/\ Reads(request.fc)
             /\ request.fc = ReadHolding => request.start + request.quantity <= HoldingMaxIndex + 1)
              => Takes(Serve(request.fc, request.start, request.quantity, << >>), request)
         /\ (/\ Writes(request.fc) /\ Len(request.values) = request.quantity
             /\ request.start + request.quantity <= HoldingMaxIndex + 1)
              => Takes(Serve(request.fc, request.start, request.quantity, request.values), request)
<1>1. request.quantity \in Nat
  <2>1. request.quantity \in Word
    BY DEF Sendable
  <2> QED BY <2>1, Natural
<1>2. request.values \in Seq(Nat)
  <2> DEFINE values == request.values
  <2>1. values \in Seq(Word) /\ Word \subseteq Nat
    BY Natural DEF Sendable
  <2> HIDE DEF values
  <2>2. values \in Seq(Nat)
    BY <2>1, WiderSeq
  <2> QED BY <2>2 DEF values
<1> DEFINE fc == request.fc
           start == request.start
           quantity == request.quantity
           values == request.values
<1>3. /\ Writes(fc) => fc # ReadInput /\ ~Reads(fc)
      /\ Reads(fc) => ~Writes(fc) /\ (fc # ReadInput => fc = ReadHolding)
  BY DEF Writes, Reads, ReadInput, ReadHolding, WriteSingle, WriteMultiple
<1> HIDE DEF fc, start, quantity, values
<1>4. ASSUME NEW code \in Nat \ {0} PROVE Takes(Refuse(fc, code), request)
  <2> DEFINE job == Refuse(fc, code)
  <2>1. job = [fc |-> fc, code |-> code, start |-> 0, quantity |-> 0, values |-> << >>, done |-> 0]
    BY DEF Refuse
  <2> HIDE DEF job
  <2>2. /\ job = [fc |-> fc, code |-> job.code, start |-> job.start, quantity |-> job.quantity,
                  values |-> job.values, done |-> job.done]
        /\ job.code = code /\ job.quantity = 0 /\ job.done = 0
    BY <2>1
  <2>3. code \in Nat /\ code # 0 /\ 0 \in Nat /\ 0 <= 0
    OBVIOUS
  <2>4. Takes(job, request)
    BY <2>2, <2>3, Zenon DEF Takes, fc
  <2> QED BY <2>4 DEF job
<1>5. ASSUME Reads(fc), fc = ReadHolding => start + quantity <= HoldingMaxIndex + 1
      PROVE  Takes(Serve(fc, start, quantity, << >>), request)
  <2> DEFINE none == << >>
             job == Serve(fc, start, quantity, none)
  <2>1. job = [fc |-> fc, code |-> 0, start |-> start, quantity |-> quantity, values |-> none, done |-> 0]
    BY DEF Serve
  <2>2. none \in Seq(Nat) /\ Len(none) = 0
    BY EmptySeq
  <2> HIDE DEF job, none
  <2>3. /\ job = [fc |-> fc, code |-> job.code, start |-> job.start, quantity |-> job.quantity,
                  values |-> job.values, done |-> job.done]
        /\ job.code = 0 /\ job.start = start /\ job.quantity = quantity /\ job.done = 0
        /\ job.values \in Seq(Nat) /\ Len(job.values) = 0
    BY <2>1, <2>2
  <2>4. Takes(job, request)
    BY <1>1, <1>3, <1>5, <2>3 DEF Takes, fc, start, quantity
  <2> QED BY <2>4 DEF job, none
<1>6. ASSUME Writes(fc), Len(values) = quantity, start + quantity <= HoldingMaxIndex + 1
      PROVE  Takes(Serve(fc, start, quantity, values), request)
  <2> DEFINE job == Serve(fc, start, quantity, values)
  <2>1. job = [fc |-> fc, code |-> 0, start |-> start, quantity |-> quantity, values |-> values, done |-> 0]
    BY DEF Serve
  <2> HIDE DEF job
  <2>2. /\ job = [fc |-> fc, code |-> job.code, start |-> job.start, quantity |-> job.quantity,
                  values |-> job.values, done |-> job.done]
        /\ job.code = 0 /\ job.start = start /\ job.quantity = quantity /\ job.done = 0
        /\ job.values = values
    BY <2>1, SMTT(30)
  <2>3. /\ job.values \in Seq(Nat) /\ Len(job.values) = job.quantity
        /\ job.code \in Nat /\ job.done \in Nat /\ job.quantity \in Nat /\ job.done <= job.quantity
        /\ job.start + job.quantity <= HoldingMaxIndex + 1
    BY <1>1, <1>2, <1>6, <2>2 DEF quantity, values
  <2>4. Takes(job, request)
    BY <1>3, <1>6, <2>2, <2>3, Zenon DEF Takes, fc, start, quantity, values
  <2> QED BY <2>4, Zenon DEF job
<1>7. \A code \in Nat \ {0} : Takes(Refuse(fc, code), request)
  BY <1>4
<1>8. Reads(fc) /\ (fc = ReadHolding => start + quantity <= HoldingMaxIndex + 1)
        => Takes(Serve(fc, start, quantity, << >>), request)
  BY <1>5, Zenon
<1>9. Writes(fc) /\ Len(values) = quantity /\ start + quantity <= HoldingMaxIndex + 1
        => Takes(Serve(fc, start, quantity, values), request)
  BY <1>6, Zenon
<1> QED BY <1>7, <1>8, <1>9, Zenon DEF fc, start, quantity, values

(* Both servers make jobs in the same way. *)
LEMMA SameJobs ==
  /\ \A fc, code : RtuServer!Refuse(fc, code) = Refuse(fc, code)
                   /\ TcpServer!Refuse(fc, code) = Refuse(fc, code)
  /\ \A fc, start, quantity, values :
        /\ RtuServer!Serve(fc, start, quantity, values) = Serve(fc, start, quantity, values)
        /\ TcpServer!Serve(fc, start, quantity, values) = Serve(fc, start, quantity, values)
BY DEF RtuServer!Refuse, TcpServer!Refuse, Refuse, RtuServer!Serve, TcpServer!Serve, Serve

(* The words of a frame, where the slave looks for them.                   *)
FrameRead(request) ==
  LET frame == RtuServer!Frame(request)
  IN  /\ RtuServer!U16(frame, 2) = request.start
      /\ RtuServer!U16(frame, 4) = IF request.fc = WriteSingle THEN request.values[1]
                                                               ELSE request.quantity
      /\ request.fc = WriteMultiple =>
           RtuServer!Words(frame, 7, Len(request.values)) = request.values

(* The slave reads the request out of its frame. *)
LEMMA FrameWords ==
  ASSUME NEW request \in RtuRequests
  PROVE  FrameRead(request)
<1> DEFINE frame == RtuServer!Frame(request)
           pdu == Pdu(request)
           values == request.values
<1>1. Sendable(request)
  BY RequestsAssumption
<1>2. PduRead(request)
  BY <1>1, PduWords
<1>3. \A i \in 1 .. Len(pdu) : frame[1 + i] = pdu[i]
  BY FrameType
<1>4. /\ pdu[2] * 256 + pdu[3] = request.start
      /\ pdu[4] * 256 + pdu[5] = IF request.fc = WriteSingle THEN values[1] ELSE request.quantity
      /\ request.fc = WriteMultiple =>
           \A k \in 1 .. Len(values) : pdu[5 + 2 * k] * 256 + pdu[6 + 2 * k] = values[k]
  BY <1>2, Zenon DEF PduRead
<1>5. /\ values \in Seq(Word) /\ Len(values) \in Nat
      /\ Len(pdu) = IF request.fc = WriteSingle \/ values = << >> THEN 5 ELSE 6 + 2 * Len(values)
      /\ request.fc = WriteMultiple => request.fc # WriteSingle /\ values # << >>
  <2>1. values \in Seq(Word) /\ (request.fc = WriteMultiple => values # << >>)
    BY <1>1 DEF Sendable
  <2>2. Len(values) \in Nat
    BY <2>1, LenProperties
  <2>3. Len(pdu) = IF request.fc = WriteSingle \/ values = << >> THEN 5 ELSE 6 + 2 * Len(values)
    BY <1>1, PduType
  <2>4. request.fc = WriteMultiple => request.fc # WriteSingle
    BY DEF WriteSingle, WriteMultiple
  <2> QED BY <2>1, <2>2, <2>3, <2>4
<1> HIDE DEF frame, pdu, values
<1>6. \A i : RtuServer!U16(frame, i) = frame[i + 1] * 256 + frame[i + 2]
  BY DEF RtuServer!U16
<1>7. RtuServer!U16(frame, 2) = pdu[2] * 256 + pdu[3] /\ RtuServer!U16(frame, 4) = pdu[4] * 256 + pdu[5]
  <2>1. \A i \in {2, 3, 4, 5} : i \in 1 .. Len(pdu)
    BY <1>5
  <2>2. /\ frame[1 + 2] = pdu[2] /\ frame[1 + 3] = pdu[3]
        /\ frame[1 + 4] = pdu[4] /\ frame[1 + 5] = pdu[5]
    BY <1>3, <2>1
  <2>3. frame[3] = pdu[2] /\ frame[4] = pdu[3] /\ frame[5] = pdu[4] /\ frame[6] = pdu[5]
    BY <2>2
  <2>4. /\ RtuServer!U16(frame, 2) = frame[2 + 1] * 256 + frame[2 + 2]
        /\ RtuServer!U16(frame, 4) = frame[4 + 1] * 256 + frame[4 + 2]
    BY <1>6
  <2> QED BY <2>3, <2>4
<1>8. ASSUME request.fc = WriteMultiple
      PROVE  RtuServer!Words(frame, 7, Len(values)) = values
  <2> DEFINE n == Len(values)
  <2>1. n \in Nat /\ Len(pdu) = 6 + 2 * n
    BY <1>5, <1>8
  <2>2. values = [k \in 1 .. n |-> values[k]]
    BY <1>5
  <2>3. RtuServer!Words(frame, 7, n) = [k \in 1 .. n |-> RtuServer!U16(frame, 7 + 2 * (k - 1))]
    BY DEF RtuServer!Words
  <2> HIDE DEF n
  <2>4. ASSUME NEW k \in 1 .. n
        PROVE  RtuServer!U16(frame, 7 + 2 * (k - 1)) = values[k]
    <3>1. 5 + 2 * k \in 1 .. Len(pdu) /\ 6 + 2 * k \in 1 .. Len(pdu)
      BY <2>1
    <3>2. frame[1 + (5 + 2 * k)] = pdu[5 + 2 * k] /\ frame[1 + (6 + 2 * k)] = pdu[6 + 2 * k]
      BY <1>3, <3>1
    <3>3. 7 + 2 * (k - 1) + 1 = 1 + (5 + 2 * k) /\ 7 + 2 * (k - 1) + 2 = 1 + (6 + 2 * k)
      BY <2>1
    <3>4. RtuServer!U16(frame, 7 + 2 * (k - 1)) = pdu[5 + 2 * k] * 256 + pdu[6 + 2 * k]
      BY <1>6, <3>2, <3>3
    <3> QED BY <1>4, <1>8, <3>4 DEF n
  <2> QED BY <2>2, <2>3, <2>4 DEF n
<1> QED BY <1>4, <1>7, <1>8, Zenon DEF FrameRead, frame, values

(* The words of a packet, where the server looks for them.                 *)
AduRead(adu, request) ==
  /\ adu[8] = request.fc
  /\ TcpServer!U16(adu, 8) = request.start
  /\ TcpServer!U16(adu, 10) = IF request.fc = WriteSingle THEN request.values[1]
                                                          ELSE request.quantity
  /\ request.fc = WriteMultiple =>
       /\ adu[13] = 2 * Len(request.values)
       /\ TcpServer!Words(adu, 13, Len(request.values)) = request.values

(* The server reads the request out of its packet. *)
LEMMA AduWords ==
  ASSUME NEW transaction \in Nat, NEW request \in TcpRequests
  PROVE  AduRead(TcpServer!Adu(transaction, request), request)
<1> DEFINE adu == TcpServer!Adu(transaction, request)
           pdu == Pdu(request)
           values == request.values
<1>1. Sendable(request)
  BY RequestsAssumption
<1>2. PduRead(request)
  BY <1>1, PduWords
<1>3. \A i \in 1 .. Len(pdu) : adu[7 + i] = pdu[i]
  BY AduType
<1>4. /\ pdu[2] * 256 + pdu[3] = request.start
      /\ pdu[4] * 256 + pdu[5] = IF request.fc = WriteSingle THEN values[1] ELSE request.quantity
      /\ request.fc = WriteMultiple =>
           \A k \in 1 .. Len(values) : pdu[5 + 2 * k] * 256 + pdu[6 + 2 * k] = values[k]
  BY <1>2, Zenon DEF PduRead
<1>5. /\ values \in Seq(Word) /\ Len(values) \in Nat
      /\ Len(pdu) = IF request.fc = WriteSingle \/ values = << >> THEN 5 ELSE 6 + 2 * Len(values)
      /\ request.fc = WriteMultiple => request.fc # WriteSingle /\ values # << >>
      /\ pdu[1] = request.fc
      /\ request.fc = WriteMultiple => pdu[6] = 2 * Len(values)
  <2>1. values \in Seq(Word) /\ (request.fc = WriteMultiple => values # << >>)
    BY <1>1 DEF Sendable
  <2>2. Len(values) \in Nat
    BY <2>1, LenProperties
  <2>3. /\ Len(pdu) = IF request.fc = WriteSingle \/ values = << >> THEN 5 ELSE 6 + 2 * Len(values)
        /\ pdu[1] = request.fc
        /\ request.fc = WriteMultiple => pdu[6] = 2 * Len(values)
    BY <1>1, PduType
  <2>4. request.fc = WriteMultiple => request.fc # WriteSingle
    BY DEF WriteSingle, WriteMultiple
  <2> QED BY <2>1, <2>2, <2>3, <2>4
<1> HIDE DEF adu, pdu, values
<1>6. \A i : TcpServer!U16(adu, i) = adu[i + 1] * 256 + adu[i + 2]
  BY DEF TcpServer!U16
<1>7. /\ adu[8] = request.fc
      /\ TcpServer!U16(adu, 8) = pdu[2] * 256 + pdu[3] /\ TcpServer!U16(adu, 10) = pdu[4] * 256 + pdu[5]
  <2>1. \A i \in {1, 2, 3, 4, 5} : i \in 1 .. Len(pdu)
    BY <1>5
  <2>2. /\ adu[7 + 1] = pdu[1] /\ adu[7 + 2] = pdu[2] /\ adu[7 + 3] = pdu[3]
        /\ adu[7 + 4] = pdu[4] /\ adu[7 + 5] = pdu[5]
    BY <1>3, <2>1
  <2>3. /\ adu[8] = pdu[1] /\ adu[9] = pdu[2] /\ adu[10] = pdu[3]
        /\ adu[11] = pdu[4] /\ adu[12] = pdu[5]
    BY <2>2
  <2>4. /\ TcpServer!U16(adu, 8) = adu[8 + 1] * 256 + adu[8 + 2]
        /\ TcpServer!U16(adu, 10) = adu[10 + 1] * 256 + adu[10 + 2]
    BY <1>6
  <2> QED BY <1>5, <2>3, <2>4
<1>8. ASSUME request.fc = WriteMultiple
      PROVE  adu[13] = 2 * Len(values) /\ TcpServer!Words(adu, 13, Len(values)) = values
  <2> DEFINE n == Len(values)
  <2>1. n \in Nat /\ Len(pdu) = 6 + 2 * n /\ pdu[6] = 2 * n
    BY <1>5, <1>8
  <2>2. values = [k \in 1 .. n |-> values[k]]
    BY <1>5
  <2>3. TcpServer!Words(adu, 13, n) = [k \in 1 .. n |-> TcpServer!U16(adu, 13 + 2 * (k - 1))]
    BY DEF TcpServer!Words
  <2> HIDE DEF n
  <2>4. ASSUME NEW k \in 1 .. n
        PROVE  TcpServer!U16(adu, 13 + 2 * (k - 1)) = values[k]
    <3>1. 5 + 2 * k \in 1 .. Len(pdu) /\ 6 + 2 * k \in 1 .. Len(pdu)
      BY <2>1
    <3>2. adu[7 + (5 + 2 * k)] = pdu[5 + 2 * k] /\ adu[7 + (6 + 2 * k)] = pdu[6 + 2 * k]
      BY <1>3, <3>1
    <3>3. 13 + 2 * (k - 1) + 1 = 7 + (5 + 2 * k) /\ 13 + 2 * (k - 1) + 2 = 7 + (6 + 2 * k)
      BY <2>1
    <3>4. TcpServer!U16(adu, 13 + 2 * (k - 1)) = pdu[5 + 2 * k] * 256 + pdu[6 + 2 * k]
      BY <1>6, <3>2, <3>3
    <3> QED BY <1>4, <1>8, <3>4 DEF n
  <2>5. adu[13] = 2 * n
    <3>1. 6 \in 1 .. Len(pdu)
      BY <2>1
    <3>2. adu[7 + 6] = pdu[6]
      BY <1>3, <3>1
    <3> QED BY <2>1, <3>2
  <2> QED BY <2>2, <2>3, <2>4, <2>5 DEF n
<1> QED BY <1>4, <1>7, <1>8, Zenon DEF AduRead, adu, values

(* A job that has not been begun. *)
Fresh(job, request) == Takes(job, request) /\ job.done = 0

(* Nothing has been done when a job is made. *)
LEMMA FreshJobs ==
  /\ \A fc, code : Refuse(fc, code).done = 0
  /\ \A fc, start, quantity, values : Serve(fc, start, quantity, values).done = 0
BY DEF Refuse, Serve

(* The frame of a request to this slave makes the job that is asked for.   *)
LEMMA FrameServed ==
  ASSUME NEW request \in RtuRequests, request.slave = SlaveId
  PROVE  /\ RtuServer!Parse(RtuServer!Frame(request)).result = "OK"
         /\ Fresh(RtuServer!Parse(RtuServer!Frame(request)).job, request)
<1> DEFINE frame == RtuServer!Frame(request)
           fc == request.fc
           start == request.start
           quantity == request.quantity
           values == request.values
<1>1. Sendable(request)
  BY RequestsAssumption
<1>2. /\ fc \in Nat /\ start \in Nat /\ quantity \in Nat
      /\ values \in Seq(Word) /\ Len(values) \in Nat
      /\ Reads(fc) => values = << >>
      /\ fc = WriteSingle => Len(values) = 1 /\ quantity = 1
      /\ fc = WriteMultiple => values # << >>
  <2>1. /\ fc \in Byte /\ start \in Word /\ quantity \in Word /\ values \in Seq(Word)
        /\ Reads(fc) => values = << >>
        /\ fc = WriteSingle => Len(values) = 1 /\ quantity = 1
        /\ fc = WriteMultiple => values # << >>
    BY <1>1, Zenon DEF Sendable
  <2>2. Len(values) \in Nat
    BY <2>1, LenProperties
  <2> QED BY <2>1, <2>2, Natural
<1>3. /\ frame \in Seq(Symbols)
      /\ Len(frame) = IF fc = WriteSingle \/ values = << >> THEN 8 ELSE 9 + 2 * Len(values)
      /\ frame[1] = SlaveId /\ frame[2] = fc
      /\ fc = WriteMultiple => frame[7] = 2 * Len(values)
      /\ RtuServer!ValidCRC(frame)
  BY FrameType
<1>4. FrameRead(request)
  BY FrameWords
<1>5. /\ RtuServer!U16(frame, 2) = start
      /\ RtuServer!U16(frame, 4) = IF fc = WriteSingle THEN values[1] ELSE quantity
      /\ fc = WriteMultiple => RtuServer!Words(frame, 7, Len(values)) = values
  BY <1>4, Zenon DEF FrameRead
<1>6. /\ \A code \in Nat \ {0} : Takes(Refuse(fc, code), request)
      /\ (Reads(fc) /\ (fc = ReadHolding => start + quantity <= HoldingMaxIndex + 1))
           => Takes(Serve(fc, start, quantity, << >>), request)
      /\ (Writes(fc) /\ Len(values) = quantity /\ start + quantity <= HoldingMaxIndex + 1)
           => Takes(Serve(fc, start, quantity, values), request)
  BY <1>1, Jobs
<1>7. Len(frame) >= 8 /\ HoldingMaxIndex \in Nat /\ InputMaxIndex \in Nat
  BY <1>2, <1>3, RegistersAssumption
<1>8. RtuServer!Parse(frame) = RtuServer!Dispatch(frame)
  <2>1. ~(Len(frame) < 8)
    BY <1>2, <1>3
  <2> HIDE DEF frame
  <2> QED BY <1>3, <2>1 DEF RtuServer!Parse
<1>9. \A job : RtuServer!OK(job).result = "OK" /\ RtuServer!OK(job).job = job
  BY DEF RtuServer!OK
<1> SUFFICES \E job : RtuServer!Dispatch(frame) = RtuServer!OK(job) /\ Fresh(job, request)
  BY <1>8, <1>9
<1>10. /\ RtuServer!ReadHolding = ReadHolding /\ RtuServer!ReadInput = ReadInput
       /\ RtuServer!WriteSingle = WriteSingle /\ RtuServer!WriteMultiple = WriteMultiple
       /\ RtuServer!Reads(fc) <=> Reads(fc)
  BY DEF RtuServer!ReadHolding, ReadHolding, RtuServer!ReadInput, ReadInput,
         RtuServer!WriteSingle, WriteSingle, RtuServer!WriteMultiple, WriteMultiple,
         RtuServer!Reads, Reads
<1>11. /\ Reads(fc) => fc # WriteSingle /\ fc # WriteMultiple
       /\ WriteSingle # WriteMultiple
  BY DEF Reads, ReadHolding, ReadInput, WriteSingle, WriteMultiple
<1> HIDE DEF frame, fc, start, quantity, values
<1>12. /\ \A code \in Nat \ {0} : Fresh(RtuServer!Refuse(fc, code), request)
       /\ (Reads(fc) /\ (fc = ReadHolding => start + quantity <= HoldingMaxIndex + 1))
            => Fresh(RtuServer!Serve(fc, start, quantity, << >>), request)
       /\ (Writes(fc) /\ Len(values) = quantity /\ start + quantity <= HoldingMaxIndex + 1)
            => Fresh(RtuServer!Serve(fc, start, quantity, values), request)
  <2>1. ASSUME NEW code \in Nat \ {0} PROVE Fresh(RtuServer!Refuse(fc, code), request)
    BY <1>6, SameJobs, FreshJobs, Zenon DEF Fresh
  <2>2. \A list : /\ RtuServer!Serve(fc, start, quantity, list) = Serve(fc, start, quantity, list)
                  /\ Serve(fc, start, quantity, list).done = 0
    BY SameJobs, FreshJobs, Zenon
  <2> QED BY <1>6, <2>1, <2>2, Zenon DEF Fresh
<1>13. CASE Reads(fc)
  <2> DEFINE maxIndex == IF fc = ReadHolding THEN HoldingMaxIndex ELSE InputMaxIndex
             outside == quantity = 0 \/ quantity > 125 \/ start + quantity > maxIndex + 1
             refused == RtuServer!Refuse(fc, 2)
             served == RtuServer!Serve(fc, start, quantity, << >>)
  <2>1. RtuServer!U16(frame, 4) = quantity /\ Len(frame) = 8
    BY <1>2, <1>3, <1>5, <1>11, <1>13
  <2>2. RtuServer!Dispatch(frame) = RtuServer!ProcessReadRegisters(frame)
    BY <1>3, <1>10, <1>11, <1>13, Zenon DEF RtuServer!Dispatch
  <2>3. RtuServer!ProcessReadRegisters(frame) = IF outside THEN RtuServer!OK(refused) ELSE RtuServer!OK(served)
    <3>1. RtuServer!ProcessReadRegisters(frame) =
            IF Len(frame) # 8 THEN RtuServer!Result("LENGTH_ERROR")
            ELSE IF ~RtuServer!ValidCRC(frame) THEN RtuServer!Result("CRC_ERROR")
            ELSE IF outside THEN RtuServer!OK(refused) ELSE RtuServer!OK(served)
      BY <1>3, <1>5, <1>10, <2>1, Zenon DEF RtuServer!ProcessReadRegisters
    <3> HIDE DEF outside, refused, served
    <3> QED BY <1>3, <2>1, <3>1, Zenon
  <2>4. Fresh(refused, request) /\ (~outside => Fresh(served, request))
    <3>1. ~outside /\ fc = ReadHolding => start + quantity <= HoldingMaxIndex + 1
      BY <1>2, <1>7
    <3>2. 2 \in Nat \ {0}
      OBVIOUS
    <3> HIDE DEF outside
    <3> QED BY <1>12, <1>13, <3>1, <3>2, Zenon
  <2> HIDE DEF outside, refused, served
  <2> QED BY <2>2, <2>3, <2>4, Zenon
<1>14. CASE fc = WriteSingle
  <2> DEFINE outside == start > HoldingMaxIndex
             refused == RtuServer!Refuse(WriteSingle, 2)
             served == RtuServer!Serve(WriteSingle, start, 1, values)
  <2>1. Len(values) = 1 /\ quantity = 1 /\ Len(frame) = 8 /\ RtuServer!U16(frame, 4) = values[1]
    BY <1>2, <1>3, <1>5, <1>14
  <2>2. RtuServer!Words(frame, 4, 1) = values
    <3>1. RtuServer!Words(frame, 4, 1) = [k \in 1 .. 1 |-> RtuServer!U16(frame, 4 + 2 * (k - 1))]
      BY DEF RtuServer!Words
    <3>2. values = [k \in 1 .. 1 |-> values[k]]
      BY <1>2, <2>1
    <3>3. \A k \in 1 .. 1 : RtuServer!U16(frame, 4 + 2 * (k - 1)) = values[k]
      <4>1. 4 + 2 * (1 - 1) = 4
        OBVIOUS
      <4>2. \A k \in 1 .. 1 : k = 1
        OBVIOUS
      <4>3. RtuServer!U16(frame, 4 + 2 * (1 - 1)) = values[1]
        BY <2>1, <4>1
      <4> QED BY <4>2, <4>3, Zenon
    <3> QED BY <3>1, <3>2, <3>3
  <2>3. RtuServer!Dispatch(frame) = RtuServer!ProcessWriteSingleRegister(frame)
    BY <1>3, <1>10, <1>11, <1>14, Zenon DEF RtuServer!Dispatch
  <2>4. RtuServer!WriteSingleJob(frame) = IF outside THEN refused ELSE served
    BY <1>5, <1>10, <2>2 DEF RtuServer!WriteSingleJob
  <2>5. RtuServer!ProcessWriteSingleRegister(frame) = RtuServer!OK(RtuServer!WriteSingleJob(frame))
    BY <1>3, <2>1 DEF RtuServer!ProcessWriteSingleRegister
  <2>6. Fresh(refused, request) /\ (~outside => Fresh(served, request))
    <3>1. ~outside => start + quantity <= HoldingMaxIndex + 1
      BY <1>2, <1>7, <2>1
    <3>2. 2 \in Nat \ {0} /\ Writes(fc) /\ Len(values) = quantity
      BY <1>14, <2>1 DEF Writes
    <3> HIDE DEF outside
    <3> QED BY <1>12, <1>14, <2>1, <3>1, <3>2, Zenon
  <2> HIDE DEF outside, refused, served
  <2> QED BY <2>3, <2>4, <2>5, <2>6, Zenon
<1>15. CASE fc = WriteMultiple
  <2> DEFINE count == 2 * Len(values)
             wrong == quantity = 0 \/ quantity > 123 \/ count # quantity * 2
             outside == start + quantity > HoldingMaxIndex + 1
             served == RtuServer!Serve(WriteMultiple, start, quantity, RtuServer!Words(frame, 7, quantity))
  <2>1. /\ RtuServer!U16(frame, 4) = quantity /\ Len(frame) = 9 + count /\ frame[7] = count
        /\ count \in Nat
    BY <1>2, <1>3, <1>5, <1>11, <1>15
  <2>2. RtuServer!Dispatch(frame) = RtuServer!ProcessWriteMultipleRegisters(frame)
    BY <1>3, <1>10, <1>11, <1>15, Zenon DEF RtuServer!Dispatch
  <2>3. ~(Len(frame) < 9) /\ ~(Len(frame) < 7 + count + 2) /\ ~(Len(frame) > 7 + count + 2)
    <3> DEFINE n == Len(frame)
    <3>1. n = 9 + count /\ count \in Nat
      BY <2>1
    <3> HIDE DEF n, count
    <3>2. ~(n < 9) /\ ~(n < 7 + count + 2) /\ ~(n > 7 + count + 2)
      BY <3>1
    <3> QED BY <3>2 DEF n
  <2>4. ~wrong => quantity = Len(values)
    BY <1>2
  <2> HIDE DEF count
  <2>5. RtuServer!ProcessWriteMultipleRegisters(frame) =
          IF wrong THEN RtuServer!OK(RtuServer!Refuse(WriteMultiple, 3))
          ELSE IF outside THEN RtuServer!OK(RtuServer!Refuse(WriteMultiple, 2))
          ELSE RtuServer!OK(served)
    <3>1. RtuServer!ProcessWriteMultipleRegisters(frame) =
            IF Len(frame) < 9 THEN RtuServer!Result("NOT_YET_COMPLETE")
            ELSE IF wrong THEN RtuServer!OK(RtuServer!Refuse(WriteMultiple, 3))
            ELSE IF Len(frame) < 7 + count + 2 THEN RtuServer!Result("NOT_YET_COMPLETE")
            ELSE IF Len(frame) > 7 + count + 2 THEN RtuServer!Result("LENGTH_ERROR")
            ELSE IF ~RtuServer!ValidCRC(frame) THEN RtuServer!Result("CRC_ERROR")
            ELSE IF outside THEN RtuServer!OK(RtuServer!Refuse(WriteMultiple, 2))
            ELSE RtuServer!OK(served)
      BY <1>5, <1>10, <2>1, Zenon DEF RtuServer!ProcessWriteMultipleRegisters
    <3> HIDE DEF wrong, outside, served
    <3> QED BY <1>3, <2>3, <3>1, Zenon
  <2>6. Fresh(RtuServer!Refuse(WriteMultiple, 2), request) /\ Fresh(RtuServer!Refuse(WriteMultiple, 3), request)
    <3>1. 2 \in Nat \ {0} /\ 3 \in Nat \ {0}
      OBVIOUS
    <3> QED BY <1>12, <1>15, <3>1, Zenon
  <2>7. ~wrong /\ ~outside => Fresh(served, request)
    <3>1. ~outside => start + quantity <= HoldingMaxIndex + 1
      BY <1>2, <1>7
    <3>2. Writes(fc)
      BY <1>15 DEF Writes
    <3> HIDE DEF wrong, outside
    <3> QED BY <1>5, <1>12, <1>15, <2>4, <3>1, <3>2, Zenon
  <2> HIDE DEF wrong, outside, served
  <2> QED BY <2>2, <2>5, <2>6, <2>7, Zenon
<1>16. CASE ~Reads(fc) /\ fc # WriteSingle /\ fc # WriteMultiple
  <2>1. RtuServer!Dispatch(frame) = RtuServer!OK(RtuServer!Refuse(fc, 1))
    BY <1>3, <1>10, <1>16, Zenon DEF RtuServer!Dispatch
  <2>2. 1 \in Nat \ {0}
    OBVIOUS
  <2> QED BY <1>12, <2>1, <2>2, Zenon
<1> QED BY <1>13, <1>14, <1>15, <1>16

(* The slave does not look at what another one is asked for. *)
LEMMA NotForMe ==
  ASSUME NEW request \in RtuRequests, request.slave # SlaveId
  PROVE  RtuServer!Parse(RtuServer!Frame(request)).result = "NOT_FOR_ME"
<1> DEFINE frame == RtuServer!Frame(request)
<1>1. frame[1] # SlaveId /\ Len(frame) >= 8 /\ Len(frame) \in Nat
  <2>1. frame \in Seq(Symbols) /\ Len(frame) >= 8 /\ frame[1] = request.slave
    BY FrameType
  <2>2. Len(frame) \in Nat
    BY <2>1, LenProperties
  <2> QED BY <2>1, <2>2
<1> HIDE DEF frame
<1>2. RtuServer!Parse(frame) = RtuServer!Result("NOT_FOR_ME")
  BY <1>1 DEF RtuServer!Parse
<1> QED BY <1>2 DEF RtuServer!Result, frame

(* A request that the serial line brings whole, in one chunk, or one whose *)
(* frame says from its first bytes on what is to come.                     *)
InOneChunk(request) == \A n \in Chunks : Len(RtuServer!Frame(request)) <= n

WellFormed(request) ==
  /\ request.slave = SlaveId
  /\ Reads(request.fc) \/ Writes(request.fc)
  /\ request.fc = WriteMultiple => request.quantity = Len(request.values) /\ request.quantity <= 123

(* Of a well-formed frame for this slave, no part is taken for the whole.  *)
LEMMA PartParsed ==
  ASSUME NEW request \in RtuRequests, WellFormed(request),
         NEW data \in Seq(Symbols), Len(data) < Len(RtuServer!Frame(request)),
         \A i \in 1 .. Len(data) : data[i] = RtuServer!Frame(request)[i]
  PROVE  RtuServer!Parse(data).result = "NOT_YET_COMPLETE"
<1> DEFINE frame == RtuServer!Frame(request)
           n == Len(data)
           values == request.values
           fc == request.fc
<1>1. Sendable(request) /\ request.slave = SlaveId
  BY RequestsAssumption DEF WellFormed
<1>2. /\ frame \in Seq(Symbols)
      /\ Len(frame) = IF fc = WriteSingle \/ values = << >> THEN 8 ELSE 9 + 2 * Len(values)
      /\ frame[1] = SlaveId /\ frame[2] = fc
      /\ fc = WriteMultiple => frame[7] = 2 * Len(values)
  BY <1>1, FrameType
<1>3. n \in Nat /\ Len(frame) \in Nat /\ n < Len(frame)
  BY <1>2, LenProperties
<1>4. RtuServer!Result("NOT_YET_COMPLETE").result = "NOT_YET_COMPLETE"
  BY DEF RtuServer!Result
<1>5. CASE n < 8
  <2>1. RtuServer!Parse(data) = RtuServer!Result("NOT_YET_COMPLETE")
    BY <1>5 DEF RtuServer!Parse
  <2> QED BY <1>4, <2>1
<1>6. CASE ~(n < 8)
  <2>1. fc = WriteMultiple /\ request.quantity = Len(values) /\ request.quantity <= 123
    <3>1. ~(fc = WriteSingle \/ values = << >>)
      BY <1>2, <1>3, <1>6
    <3>2. ~Reads(fc)
      BY <1>1, <3>1 DEF Sendable
    <3>3. Writes(fc)
      BY <3>2 DEF WellFormed
    <3>4. fc = WriteMultiple
      BY <3>1, <3>3 DEF Writes
    <3> QED BY <3>4 DEF WellFormed
  <2>2. values \in Seq(Word) /\ Len(values) \in Nat /\ values # << >>
    <3>1. values \in Seq(Word) /\ values # << >>
      BY <1>1, <2>1 DEF Sendable
    <3> QED BY <3>1, LenProperties
  <2>3. FrameRead(request)
    BY FrameWords
  <2>4. RtuServer!U16(frame, 4) = request.quantity
    <3>1. fc # WriteSingle
      BY <2>1 DEF WriteSingle, WriteMultiple
    <3> QED BY <2>3, <3>1, Zenon DEF FrameRead
  <2>5. \A i \in 1 .. 8 : data[i] = frame[i]
    BY <1>3, <1>6
  <2> HIDE DEF frame, n
  <2>6. /\ data[1] = SlaveId /\ data[2] = fc /\ data[7] = 2 * Len(values)
        /\ RtuServer!U16(data, 4) = request.quantity
    <3>1. data[1] = frame[1] /\ data[2] = frame[2] /\ data[7] = frame[7]
      BY <2>5
    <3>2. data[4 + 1] = frame[4 + 1] /\ data[4 + 2] = frame[4 + 2]
      BY <2>5
    <3>3. RtuServer!U16(data, 4) = RtuServer!U16(frame, 4)
      BY <3>2 DEF RtuServer!U16
    <3> QED BY <1>2, <2>1, <2>4, <3>1, <3>3
  <2>7. RtuServer!Parse(data) = RtuServer!Dispatch(data)
    BY <1>6, <2>6 DEF RtuServer!Parse, n
  <2>8. RtuServer!Dispatch(data) = RtuServer!ProcessWriteMultipleRegisters(data)
    BY <2>1, <2>6 DEF RtuServer!Dispatch, RtuServer!WriteMultiple, RtuServer!WriteSingle, RtuServer!Reads,
                      RtuServer!ReadHolding, RtuServer!ReadInput, WriteMultiple
  <2> DEFINE count == data[7]
             quantity == RtuServer!U16(data, 4)
             wrong == quantity = 0 \/ quantity > 123 \/ count # quantity * 2
  <2>9. ~wrong /\ n < 7 + count + 2
    <3>1. Len(values) > 0
      BY <2>2, EmptySeq
    <3>2. Len(frame) = 9 + 2 * Len(values)
      BY <1>2, <2>1, <2>2 DEF WriteSingle, WriteMultiple
    <3> DEFINE m == Len(values)
               l == Len(frame)
    <3>3. m > 0 /\ m \in Nat /\ m <= 123 /\ l = 9 + 2 * m /\ n < l /\ count = 2 * m /\ quantity = m
      BY <1>3, <2>1, <2>2, <2>6, <3>1, <3>2
    <3> HIDE DEF m, l, count, quantity
    <3> QED BY <1>3, <3>3
  <2>10. \/ RtuServer!ProcessWriteMultipleRegisters(data) = RtuServer!Result("NOT_YET_COMPLETE")
         \/ wrong \/ ~(n < 7 + count + 2)
    <3> HIDE DEF wrong
    <3>1. \E u, v :
            RtuServer!ProcessWriteMultipleRegisters(data) =
              IF n < 9 THEN RtuServer!Result("NOT_YET_COMPLETE")
              ELSE IF wrong THEN u
              ELSE IF n < 7 + count + 2 THEN RtuServer!Result("NOT_YET_COMPLETE")
              ELSE v
      BY Zenon DEF RtuServer!ProcessWriteMultipleRegisters, n, wrong
    <3> QED BY <3>1, Zenon
  <2> QED BY <1>4, <2>7, <2>8, <2>9, <2>10
<1> QED BY <1>5, <1>6

(* The packet of a whole request makes the job that is asked for.          *)
LEMMA AduServed ==
  ASSUME NEW transaction \in Nat, NEW request \in TcpRequests
  PROVE  Fresh(TcpServer!ProcessModbusRequest(TcpServer!Adu(transaction, request)), request)
<1> DEFINE adu == TcpServer!Adu(transaction, request)
           fc == request.fc
           start == request.start
           quantity == request.quantity
           values == request.values
<1>1. Sendable(request)
  BY RequestsAssumption
<1>2. /\ start \in Nat /\ quantity \in Nat
      /\ values \in Seq(Word) /\ Len(values) \in Nat
      /\ Reads(fc) => values = << >>
      /\ fc = WriteSingle => Len(values) = 1 /\ quantity = 1
      /\ fc = WriteMultiple => values # << >>
  <2>1. /\ start \in Word /\ quantity \in Word /\ values \in Seq(Word)
        /\ Reads(fc) => values = << >>
        /\ fc = WriteSingle => Len(values) = 1 /\ quantity = 1
        /\ fc = WriteMultiple => values # << >>
    BY <1>1, Zenon DEF Sendable
  <2>2. Len(values) \in Nat
    BY <2>1, LenProperties
  <2> QED BY <2>1, <2>2, Natural
<1>3. Len(adu) = IF fc = WriteSingle \/ values = << >> THEN 12 ELSE 13 + 2 * Len(values)
  <2>1. Len(adu) = 7 + Len(Pdu(request))
    BY AduType
  <2>2. Len(Pdu(request)) = IF fc = WriteSingle \/ values = << >> THEN 5 ELSE 6 + 2 * Len(values)
    BY <1>1, PduType
  <2> HIDE DEF adu
  <2> QED BY <1>2, <2>1, <2>2
<1>4. AduRead(adu, request)
  BY AduWords
<1>5. /\ adu[8] = fc /\ TcpServer!U16(adu, 8) = start
      /\ TcpServer!U16(adu, 10) = IF fc = WriteSingle THEN values[1] ELSE quantity
      /\ fc = WriteMultiple => /\ adu[13] = 2 * Len(values)
                               /\ TcpServer!Words(adu, 13, Len(values)) = values
  BY <1>4, Zenon DEF AduRead
<1>6. /\ \A code \in Nat \ {0} : Takes(Refuse(fc, code), request)
      /\ (Reads(fc) /\ (fc = ReadHolding => start + quantity <= HoldingMaxIndex + 1))
           => Takes(Serve(fc, start, quantity, << >>), request)
      /\ (Writes(fc) /\ Len(values) = quantity /\ start + quantity <= HoldingMaxIndex + 1)
           => Takes(Serve(fc, start, quantity, values), request)
  BY <1>1, Jobs
<1>7. /\ TcpServer!ReadHolding = ReadHolding /\ TcpServer!ReadInput = ReadInput
      /\ TcpServer!WriteSingle = WriteSingle /\ TcpServer!WriteMultiple = WriteMultiple
      /\ Reads(fc) <=> fc \in {ReadHolding, ReadInput}
      /\ Writes(fc) <=> fc \in {WriteSingle, WriteMultiple}
  BY DEF TcpServer!ReadHolding, ReadHolding, TcpServer!ReadInput, ReadInput,
         TcpServer!WriteSingle, WriteSingle, TcpServer!WriteMultiple, WriteMultiple, Reads, Writes
<1>8. /\ ReadHolding # ReadInput /\ ReadHolding # WriteSingle /\ ReadHolding # WriteMultiple
      /\ ReadInput # WriteSingle /\ ReadInput # WriteMultiple /\ WriteSingle # WriteMultiple
  BY DEF ReadHolding, ReadInput, WriteSingle, WriteMultiple
<1> DEFINE job == TcpServer!ProcessModbusRequest(adu)
<1> HIDE DEF adu, fc, start, quantity, values
<1>9. /\ \A code \in Nat \ {0} : Fresh(TcpServer!Refuse(fc, code), request)
      /\ (Reads(fc) /\ (fc = ReadHolding => start + quantity <= HoldingMaxIndex + 1))
           => Fresh(TcpServer!Serve(fc, start, quantity, << >>), request)
      /\ (Writes(fc) /\ Len(values) = quantity /\ start + quantity <= HoldingMaxIndex + 1)
           => Fresh(TcpServer!Serve(fc, start, quantity, values), request)
  <2>1. ASSUME NEW code \in Nat \ {0} PROVE Fresh(TcpServer!Refuse(fc, code), request)
    BY <1>6, SameJobs, FreshJobs, Zenon DEF Fresh
  <2>2. \A list : /\ TcpServer!Serve(fc, start, quantity, list) = Serve(fc, start, quantity, list)
                  /\ Serve(fc, start, quantity, list).done = 0
    BY SameJobs, FreshJobs, Zenon
  <2> QED BY <1>6, <2>1, <2>2, Zenon DEF Fresh
<1>10. 1 \in Nat \ {0} /\ 2 \in Nat \ {0} /\ HoldingMaxIndex \in Nat
  BY RegistersAssumption
<1>11. job = CASE fc = ReadHolding /\ Len(adu) >= 12 -> TcpServer!ReadJob(adu, HoldingMaxIndex)
               [] fc = ReadInput /\ Len(adu) >= 12 -> TcpServer!ReadJob(adu, InputMaxIndex)
               [] fc = WriteSingle /\ Len(adu) >= 12 -> TcpServer!WriteSingleJob(adu)
               [] fc = WriteMultiple /\ Len(adu) >= 13 -> TcpServer!WriteMultipleJob(adu)
               [] OTHER -> TcpServer!Refuse(fc, 1)
  BY <1>5, <1>7, Zenon DEF TcpServer!ProcessModbusRequest
<1> HIDE DEF job
<1>12. ASSUME Reads(fc), NEW maxIndex, fc = ReadHolding => maxIndex = HoldingMaxIndex
       PROVE  Fresh(TcpServer!ReadJob(adu, maxIndex), request)
  <2> DEFINE outside == quantity > 125 \/ start + quantity > maxIndex + 1
  <2>1. TcpServer!U16(adu, 10) = quantity
    BY <1>5, <1>7, <1>8, <1>12
  <2>2. TcpServer!ReadJob(adu, maxIndex) = IF outside THEN TcpServer!Refuse(fc, 2)
                                           ELSE TcpServer!Serve(fc, start, quantity, << >>)
    BY <1>5, <2>1, Zenon DEF TcpServer!ReadJob
  <2>3. ~outside => (fc = ReadHolding => start + quantity <= HoldingMaxIndex + 1)
    BY <1>2, <1>10, <1>12
  <2> HIDE DEF outside
  <2> QED BY <1>9, <1>10, <1>12, <2>2, <2>3, Zenon
<1>13. CASE Reads(fc)
  <2>1. Len(adu) >= 12
    BY <1>2, <1>3, <1>13
  <2>2. job = TcpServer!ReadJob(adu, HoldingMaxIndex) \/ (fc = ReadInput /\ job = TcpServer!ReadJob(adu, InputMaxIndex))
    BY <1>7, <1>8, <1>11, <1>13, <2>1, Zenon
  <2> QED BY <1>8, <1>12, <1>13, <2>2 DEF job, adu
<1>14. CASE fc = WriteSingle
  <2> DEFINE outside == start > HoldingMaxIndex
  <2>1. Len(values) = 1 /\ quantity = 1 /\ Len(adu) >= 12 /\ TcpServer!U16(adu, 10) = values[1]
    BY <1>2, <1>3, <1>5, <1>14
  <2>2. TcpServer!Words(adu, 10, 1) = values
    <3>1. TcpServer!Words(adu, 10, 1) = [k \in 1 .. 1 |-> TcpServer!U16(adu, 10 + 2 * (k - 1))]
      BY DEF TcpServer!Words
    <3>2. values = [k \in 1 .. 1 |-> values[k]]
      BY <1>2, <2>1
    <3>3. \A k \in 1 .. 1 : TcpServer!U16(adu, 10 + 2 * (k - 1)) = values[k]
      <4>1. 10 + 2 * (1 - 1) = 10
        OBVIOUS
      <4>2. \A k \in 1 .. 1 : k = 1
        OBVIOUS
      <4>3. TcpServer!U16(adu, 10 + 2 * (1 - 1)) = values[1]
        BY <2>1, <4>1
      <4> QED BY <4>2, <4>3, Zenon
    <3> QED BY <3>1, <3>2, <3>3
  <2>3. job = TcpServer!WriteSingleJob(adu)
    BY <1>8, <1>11, <1>14, <2>1, Zenon
  <2>4. TcpServer!WriteSingleJob(adu) = IF outside THEN TcpServer!Refuse(fc, 2)
                                        ELSE TcpServer!Serve(fc, start, quantity, values)
    BY <1>5, <1>7, <1>14, <2>1, <2>2, Zenon DEF TcpServer!WriteSingleJob
  <2>5. ~outside => start + quantity <= HoldingMaxIndex + 1
    BY <1>2, <1>10, <2>1
  <2>6. Writes(fc) /\ Len(values) = quantity
    BY <1>7, <1>14, <2>1
  <2> HIDE DEF outside
  <2>7. Fresh(job, request)
    BY <1>9, <1>10, <2>3, <2>4, <2>5, <2>6, Zenon
  <2> QED BY <2>7 DEF job, adu
<1>15. CASE fc = WriteMultiple
  <2> DEFINE count == 2 * Len(values)
             outside == \/ quantity > 123 \/ count # quantity * 2
                        \/ Len(adu) < 13 + count
                        \/ start + quantity > HoldingMaxIndex + 1
  <2>1. Len(adu) >= 13 /\ adu[13] = count /\ TcpServer!U16(adu, 10) = quantity
    BY <1>2, <1>3, <1>5, <1>8, <1>15
  <2>2. job = TcpServer!WriteMultipleJob(adu)
    BY <1>8, <1>11, <1>15, <2>1, Zenon
  <2>3. ~outside => quantity = Len(values) /\ start + quantity <= HoldingMaxIndex + 1
    BY <1>2, <1>10
  <2> HIDE DEF count
  <2>4. TcpServer!WriteMultipleJob(adu) =
          IF outside THEN TcpServer!Refuse(fc, 2)
          ELSE TcpServer!Serve(fc, start, quantity, TcpServer!Words(adu, 13, quantity))
    BY <1>5, <1>7, <1>15, <2>1, Zenon DEF TcpServer!WriteMultipleJob
  <2>5. Writes(fc)
    BY <1>7, <1>15
  <2> HIDE DEF outside
  <2>6. Fresh(job, request)
    BY <1>5, <1>9, <1>10, <1>15, <2>2, <2>3, <2>4, <2>5, Zenon
  <2> QED BY <2>6 DEF job, adu
<1>16. CASE ~Reads(fc) /\ fc # WriteSingle /\ fc # WriteMultiple
  <2>1. job = TcpServer!Refuse(fc, 1)
    BY <1>7, <1>11, <1>16, Zenon
  <2>2. Fresh(job, request)
    BY <1>9, <1>10, <2>1, Zenon
  <2> QED BY <2>2 DEF job, adu
<1> QED BY <1>13, <1>14, <1>15, <1>16

----------------------------------------------------------------------------
(* Jobs and registers. *)

(* What it has read or written so far has been in the registers.           *)
Told(job, request, values) ==
  job.code = 0 =>
    \A k \in 1 .. job.done :
      IF request.fc = ReadInput
      THEN job.values[k] = InputRegister(request.start + k - 1)
      ELSE job.values[k] \in values[request.start + k - 1]

(* AnswerIsTrue of one client. *)
Truthful(answer, request, values) ==
  LET read == IF Reads(request.fc) THEN answer.values ELSE request.values
  IN  answer # NoAnswer /\ answer.code = 0 =>
        /\ answer.fc = request.fc
        /\ Len(read) = request.quantity
        /\ \A k \in DOMAIN read :
             IF request.fc = ReadInput
             THEN read[k] = InputRegister(request.start + k - 1)
             ELSE read[k] \in values[request.start + k - 1]

(* A job has the function code of its request.                             *)
LEMMA TakesItsFunction ==
  ASSUME NEW request, NEW job, Takes(job, request)
  PROVE  job.fc = request.fc
<1> DEFINE fc == request.fc
           code == job.code
           start == job.start
           quantity == job.quantity
           values == job.values
           done == job.done
<1>1. job = [fc |-> fc, code |-> code, start |-> start, quantity |-> quantity,
             values |-> values, done |-> done]
  BY Zenon DEF Takes
<1> HIDE DEF fc, code, start, quantity, values, done
<1>2. job.fc = fc
  BY <1>1
<1> QED BY <1>2 DEF fc

(* The next round of the loop: a register that is there, and a value that  *)
(* has been asked for.                                                     *)
LEMMA NextTakes ==
  ASSUME NEW request, Sendable(request), NEW job, Takes(job, request), ~Finished(job),
         holding \in [0 .. HoldingMaxIndex -> Nat]
  PROVE  /\ Takes(NextJob(job, holding), request)
         /\ job.code = 0 /\ NextJob(job, holding).code = 0
         /\ NextJob(job, holding).done = job.done + 1
         /\ job.done + 1 <= job.quantity
         /\ \A k \in 1 .. job.done : NextJob(job, holding).values[k] = job.values[k]
         /\ NextJob(job, holding).values[job.done + 1] =
              IF Writes(request.fc) THEN request.values[job.done + 1] ELSE ValueAt(job, holding)
<1> DEFINE code == job.code
           start == job.start
           quantity == job.quantity
           values == job.values
           done == job.done
           fc == request.fc
           value == ValueAt(job, holding)
           list == IF Writes(fc) THEN values ELSE Append(values, value)
           next == NextJob(job, holding)
<1>1. /\ job = [fc |-> fc, code |-> code, start |-> start, quantity |-> quantity,
                values |-> values, done |-> done]
      /\ code \in Nat /\ done \in Nat /\ quantity \in Nat /\ done <= quantity
      /\ code # 0 => quantity = 0
      /\ code = 0 => /\ start = request.start /\ quantity = request.quantity
                     /\ Reads(fc) \/ Writes(fc)
                     /\ fc # ReadInput => start + quantity <= HoldingMaxIndex + 1
                     /\ values \in Seq(Nat)
                     /\ Writes(fc) => values = request.values /\ Len(values) = quantity
                     /\ ~Writes(fc) => Len(values) = done
  BY Zenon DEF Takes
<1>2. start \in Nat \/ code # 0
  <2>1. request.start \in Nat
    BY Natural DEF Sendable
  <2> QED BY <1>1, <2>1
<1>3. done # quantity
  BY DEF Finished
<1>4. code = 0 /\ done + 1 <= quantity /\ done + 1 \in Nat
  BY <1>1, <1>3
<1>5. job.fc = fc
  BY <1>1
<1>6. Reads(fc) <=> ~Writes(fc)
  BY <1>1, <1>4 DEF Reads, Writes, ReadHolding, ReadInput, WriteSingle, WriteMultiple
<1>7. next = [job EXCEPT !.done = done + 1, !.values = list]
  BY <1>5, <1>6, Zenon DEF NextJob
<1>8. ~Writes(fc) => value \in Nat
  <2>1. CASE fc = ReadInput
    BY <1>1, <1>2, <1>4, <1>5, <2>1 DEF ValueAt, InputRegister
  <2>2. CASE fc # ReadInput
    <3>1. start + done \in 0 .. HoldingMaxIndex
      BY <1>1, <1>2, <1>4, <2>2, RegistersAssumption
    <3>2. value = holding[start + done]
      BY <1>5, <2>2, Zenon DEF ValueAt
    <3> HIDE DEF value
    <3> QED BY <3>1, <3>2
  <2> QED BY <2>1, <2>2
<1> HIDE DEF code, start, quantity, values, done, fc, value, next
<1>9. /\ list \in Seq(Nat)
      /\ Writes(fc) => list = request.values /\ Len(list) = quantity
      /\ ~Writes(fc) => Len(list) = done + 1 /\ list[done + 1] = value
      /\ \A k \in 1 .. done : list[k] = values[k]
  <2>1. CASE Writes(fc)
    BY <1>1, <1>4, <2>1
  <2>2. CASE ~Writes(fc)
    <3>1. values \in Seq(Nat) /\ value \in Nat /\ Len(values) = done
      BY <1>1, <1>4, <1>8, <2>2
    <3>2. list = Append(values, value)
      BY <2>2
    <3> HIDE DEF list
    <3>3. /\ list \in Seq(Nat) /\ Len(list) = Len(values) + 1
          /\ \A k \in 1 .. Len(values) : list[k] = values[k]
          /\ list[Len(values) + 1] = value
      BY <3>1, <3>2, AppendProperties
    <3> QED BY <2>2, <3>1, <3>3
  <2> QED BY <2>1, <2>2
<1> HIDE DEF list
<1>10. next = [fc |-> fc, code |-> code, start |-> start, quantity |-> quantity,
               values |-> list, done |-> done + 1]
  BY <1>1, <1>7
<1>11. /\ next = [fc |-> fc, code |-> next.code, start |-> next.start, quantity |-> next.quantity,
                  values |-> next.values, done |-> next.done]
       /\ next.code = code /\ next.start = start /\ next.quantity = quantity
       /\ next.values = list /\ next.done = done + 1
  BY <1>10
<1>12. Takes(next, request)
  BY <1>1, <1>4, <1>9, <1>11, Zenon DEF Takes, fc
<1>13. next.values[done + 1] = IF Writes(fc) THEN request.values[done + 1] ELSE value
  BY <1>9, <1>11
<1> QED BY <1>4, <1>9, <1>11, <1>12, <1>13 DEF code, quantity, values, done, fc, value, next

(* The same, of the registers. *)
LEMMA NextRegisters ==
  ASSUME NEW request, Sendable(request), NEW job, Takes(job, request), ~Finished(job),
         holding \in [0 .. HoldingMaxIndex -> Nat]
  PROVE  LET next == NextHolding(job, holding)
         IN  /\ next \in [0 .. HoldingMaxIndex -> Nat]
             /\ next # holding => Writes(request.fc)
             /\ Writes(request.fc) => next[request.start + job.done] = request.values[job.done + 1]
             /\ \A i \in 0 .. HoldingMaxIndex : next[i] # holding[i] => Asked(request, i, next[i])
             /\ request.fc # ReadInput => request.start + job.done \in 0 .. HoldingMaxIndex
<1> DEFINE next == NextHolding(job, holding)
           values == request.values
           done == job.done
           place == request.start + done
           value == values[done + 1]
<1>1. /\ job.code = 0 /\ job.done \in Nat /\ job.quantity \in Nat /\ job.done + 1 <= job.quantity
      /\ job.fc = request.fc /\ job.start = request.start
      /\ request.fc # ReadInput => job.start + job.quantity <= HoldingMaxIndex + 1
      /\ Writes(request.fc) => /\ job.values = values /\ values \in Seq(Nat)
                               /\ Len(values) = job.quantity
  <2>1. job.code = 0 /\ job.done + 1 <= job.quantity
    BY NextTakes
  <2>2. job.fc = request.fc
    BY TakesItsFunction
  <2> QED BY <2>1, <2>2, Zenon DEF Takes
<1>2. request.start \in Nat
  BY Natural DEF Sendable
<1>3. request.fc # ReadInput => place \in 0 .. HoldingMaxIndex
  <2>1. ASSUME NEW max \in Nat, NEW start \in Nat, NEW length \in Nat, NEW k \in Nat,
               k + 1 <= length, start + length <= max + 1
        PROVE  start + k \in 0 .. max
    BY <2>1
  <2> QED BY <1>1, <1>2, <2>1, RegistersAssumption, Zenon
<1>4. Writes(request.fc) => request.fc # ReadInput
  BY DEF Writes, ReadInput, WriteSingle, WriteMultiple
<1>5. next = IF Writes(request.fc) THEN [holding EXCEPT ![place] = value] ELSE holding
  BY <1>1, Zenon DEF NextHolding
<1>6. CASE ~Writes(request.fc)
  BY <1>3, <1>5, <1>6
<1>7. CASE Writes(request.fc)
  <2>1. done + 1 \in DOMAIN values /\ value \in Nat
    <3>1. done + 1 \in 1 .. Len(values)
      BY <1>1, <1>7
    <3>2. values \in Seq(Nat)
      BY <1>1, <1>7
    <3> QED BY <3>1, <3>2, ElementOfSeq
  <2>2. place \in 0 .. HoldingMaxIndex /\ place - request.start + 1 = done + 1
    BY <1>1, <1>2, <1>3, <1>4, <1>7
  <2>3. next = [holding EXCEPT ![place] = value]
    BY <1>5, <1>7
  <2>4. Asked(request, place, value)
    BY <1>7, <2>1, <2>2 DEF Asked
  <2> HIDE DEF next, place, value
  <2>5. /\ next \in [0 .. HoldingMaxIndex -> Nat] /\ next[place] = value
        /\ \A i \in 0 .. HoldingMaxIndex : i # place => next[i] = holding[i]
    BY <2>1, <2>2, <2>3
  <2>6. \A i \in 0 .. HoldingMaxIndex : next[i] # holding[i] => Asked(request, i, next[i])
    BY <2>4, <2>5
  <2> QED BY <1>7, <2>2, <2>5, <2>6 DEF next, place, value
<1> QED BY <1>6, <1>7

(* What a job tells stays true when the values are watched on.             *)
LEMMA ToldMore ==
  ASSUME NEW request, Sendable(request), NEW job, Takes(job, request),
         NEW values, NEW more, \A i \in 0 .. HoldingMaxIndex : values[i] \subseteq more[i],
         Told(job, request, values)
  PROVE  Told(job, request, more)
<1>1. request.start \in Nat
  BY Natural DEF Sendable
<1> SUFFICES ASSUME job.code = 0, NEW k \in 1 .. job.done, request.fc # ReadInput
             PROVE  job.values[k] \in more[request.start + k - 1]
  BY Zenon DEF Told
<1>2. /\ job.done \in Nat /\ job.quantity \in Nat /\ job.done <= job.quantity
      /\ request.start + job.quantity <= HoldingMaxIndex + 1
  BY Zenon DEF Takes
<1>3. request.start + k - 1 \in 0 .. HoldingMaxIndex
  BY <1>1, <1>2, RegistersAssumption
<1>4. job.values[k] \in values[request.start + k - 1]
  BY Zenon DEF Told
<1> QED BY <1>3, <1>4

(* The next register is read or written while its values are watched.      *)
LEMMA NextTold ==
  ASSUME NEW request, Sendable(request), NEW job, Takes(job, request), ~Finished(job),
         holding \in [0 .. HoldingMaxIndex -> Nat],
         NEW values, NEW more, \A i \in 0 .. HoldingMaxIndex : values[i] \subseteq more[i],
         \A i \in 0 .. HoldingMaxIndex : NextHolding(job, holding)[i] \in more[i],
         Told(job, request, values)
  PROVE  Told(NextJob(job, holding), request, more)
<1> DEFINE next == NextJob(job, holding)
           place == request.start + job.done
<1>1. /\ job.code = 0 /\ job.start = request.start /\ job.done \in Nat
      /\ next.done = job.done + 1
      /\ \A k \in 1 .. job.done : next.values[k] = job.values[k]
      /\ next.values[job.done + 1] =
           IF Writes(request.fc) THEN request.values[job.done + 1] ELSE ValueAt(job, holding)
  <2>1. job.code = 0
    BY NextTakes
  <2>2. job.start = request.start /\ job.done \in Nat
    BY <2>1, Zenon DEF Takes
  <2> QED BY <2>1, <2>2, NextTakes
<1>2. job.fc = request.fc
  BY TakesItsFunction
<1>3. /\ request.fc # ReadInput => place \in 0 .. HoldingMaxIndex
      /\ Writes(request.fc) => NextHolding(job, holding)[place] = request.values[job.done + 1]
  BY NextRegisters
<1>4. Writes(request.fc) => request.fc # ReadInput
  BY DEF Writes, ReadInput, WriteSingle, WriteMultiple
<1>5. Told(job, request, more)
  BY ToldMore
<1> SUFFICES ASSUME NEW k \in 1 .. job.done + 1
             PROVE  IF request.fc = ReadInput
                    THEN next.values[k] = InputRegister(request.start + k - 1)
                    ELSE next.values[k] \in more[request.start + k - 1]
  BY <1>1, Zenon DEF Told
<1>6. CASE k \in 1 .. job.done
  <2>1. next.values[k] = job.values[k]
    BY <1>1, <1>6
  <2> HIDE DEF next
  <2> QED BY <1>1, <1>5, <1>6, <2>1, Zenon DEF Told
<1>7. CASE k = job.done + 1
  <2>1. request.start \in Nat
    BY Natural DEF Sendable
  <2>2. request.start + k - 1 = place
    BY <1>1, <1>7, <2>1
  <2> DEFINE value == next.values[k]
  <2>3. value = IF Writes(request.fc) THEN request.values[job.done + 1] ELSE ValueAt(job, holding)
    BY <1>1, <1>7
  <2> HIDE DEF value
  <2>4. CASE Writes(request.fc)
    <3>1. NextHolding(job, holding)[place] \in more[place]
      BY <1>3, <1>4, <2>4
    <3>2. value \in more[place]
      BY <1>3, <2>3, <2>4, <3>1
    <3> QED BY <1>4, <2>2, <2>4, <3>2 DEF value
  <2>5. CASE ~Writes(request.fc) /\ request.fc = ReadInput
    <3>1. value = InputRegister(place)
      BY <1>1, <1>2, <2>3, <2>5, Zenon DEF ValueAt
    <3> QED BY <2>2, <2>5, <3>1 DEF value
  <2>6. CASE ~Writes(request.fc) /\ request.fc # ReadInput
    <3>1. value = holding[place]
      BY <1>1, <1>2, <2>3, <2>6, Zenon DEF ValueAt
    <3>2. NextHolding(job, holding) = holding
      BY <1>2, <2>6, Zenon DEF NextHolding
    <3>3. place \in 0 .. HoldingMaxIndex
      BY <1>3, <2>6
    <3>4. holding[place] \in more[place]
      BY <3>2, <3>3
    <3> QED BY <2>2, <2>6, <3>1, <3>4 DEF value
  <2> QED BY <2>4, <2>5, <2>6
<1>8. k \in 1 .. job.done \/ k = job.done + 1
  BY <1>1
<1> QED BY <1>6, <1>7, <1>8

(* What a finished job tells is what its answer says. *)
LEMMA Answered ==
  ASSUME NEW request, Sendable(request), NEW job, Takes(job, request), Finished(job),
         NEW values, Told(job, request, values)
  PROVE  /\ Truthful(Answer(job), request, values)
         /\ Answer(job).code = job.code
<1> DEFINE answer == Answer(job)
           read == IF Reads(request.fc) THEN answer.values ELSE request.values
<1>1. job.fc = request.fc
  BY TakesItsFunction
<1>2. /\ answer.fc = request.fc /\ answer.code = job.code
      /\ answer.values = IF request.fc = WriteMultiple THEN << >> ELSE job.values
  BY <1>1 DEF Answer
<1> HIDE DEF answer
<1>3. CASE job.code = 0
  <2>1. /\ job.done = job.quantity /\ job.quantity = request.quantity /\ job.quantity \in Nat
        /\ Reads(request.fc) \/ Writes(request.fc)
        /\ Writes(request.fc) => job.values = request.values /\ Len(job.values) = job.quantity
        /\ ~Writes(request.fc) => Len(job.values) = job.done
        /\ job.values \in Seq(Nat)
    BY <1>3, Zenon DEF Takes, Finished
  <2>2. /\ Reads(request.fc) => ~Writes(request.fc) /\ request.fc # WriteMultiple
        /\ Writes(request.fc) => ~Reads(request.fc)
    BY DEF Reads, Writes, ReadHolding, ReadInput, WriteSingle, WriteMultiple
  <2>3. read = job.values
    BY <1>2, <2>1, <2>2
  <2>4. Len(read) = request.quantity /\ DOMAIN read = 1 .. job.done
    BY <2>1, <2>2, <2>3
  <2>5. \A k \in DOMAIN read :
          IF request.fc = ReadInput
          THEN read[k] = InputRegister(request.start + k - 1)
          ELSE read[k] \in values[request.start + k - 1]
    <3> HIDE DEF read
    <3> QED BY <1>3, <2>3, <2>4, Zenon DEF Told
  <2>6. answer.fc = request.fc
    BY <1>2
  <2> QED BY <1>2, <2>4, <2>5, <2>6, Zenon DEF Truthful, answer
<1>4. CASE job.code # 0
  <2>1. answer.code # 0
    BY <1>2, <1>4
  <2> QED BY <1>2, <2>1, Zenon DEF Truthful, answer
<1> QED BY <1>3, <1>4

(* Both servers serve a job in the same way. *)
LEMMA SameService ==
  /\ \A job : /\ RtuServer!Finished(job) = Finished(job) /\ TcpServer!Finished(job) = Finished(job)
              /\ RtuServer!Answer(job) = Answer(job) /\ TcpServer!Answer(job) = Answer(job)
              /\ RtuServer!NextJob(job, holding) = NextJob(job, holding)
              /\ TcpServer!NextJob(job, holding) = NextJob(job, holding)
              /\ RtuServer!NextHolding(job, holding) = NextHolding(job, holding)
              /\ TcpServer!NextHolding(job, holding) = NextHolding(job, holding)
  /\ RtuServer!NoAnswer = NoAnswer /\ TcpServer!NoAnswer = NoAnswer
<1>1. /\ \A job : RtuServer!Answer(job) = Answer(job)
      /\ \A job : TcpServer!Answer(job) = Answer(job)
  BY DEF RtuServer!Answer, TcpServer!Answer, Answer, RtuServer!Reads, TcpServer!Reads, Reads,
         RtuServer!ReadHolding, TcpServer!ReadHolding, ReadHolding,
         RtuServer!ReadInput, TcpServer!ReadInput, ReadInput,
         RtuServer!WriteMultiple, TcpServer!WriteMultiple, WriteMultiple
<1>2. /\ \A job : RtuServer!Finished(job) = Finished(job)
      /\ \A job : TcpServer!Finished(job) = Finished(job)
  BY DEF RtuServer!Finished, TcpServer!Finished, Finished
<1>3. /\ \A job : RtuServer!NextJob(job, holding) = NextJob(job, holding)
      /\ \A job : TcpServer!NextJob(job, holding) = NextJob(job, holding)
  BY DEF RtuServer!NextJob, TcpServer!NextJob, NextJob,
         RtuServer!ValueAt, TcpServer!ValueAt, ValueAt,
         RtuServer!InputRegister, TcpServer!InputRegister, InputRegister,
         RtuServer!Reads, TcpServer!Reads, Reads,
         RtuServer!ReadHolding, TcpServer!ReadHolding, ReadHolding,
         RtuServer!ReadInput, TcpServer!ReadInput, ReadInput
<1>4. /\ \A job : RtuServer!NextHolding(job, holding) = NextHolding(job, holding)
      /\ \A job : TcpServer!NextHolding(job, holding) = NextHolding(job, holding)
  BY DEF RtuServer!NextHolding, TcpServer!NextHolding, NextHolding,
         RtuServer!Writes, TcpServer!Writes, Writes,
         RtuServer!WriteSingle, TcpServer!WriteSingle, WriteSingle,
         RtuServer!WriteMultiple, TcpServer!WriteMultiple, WriteMultiple
<1>5. RtuServer!NoAnswer = NoAnswer /\ TcpServer!NoAnswer = NoAnswer
  <2>1. RtuServer!NoJob = NoJob /\ TcpServer!NoJob = NoJob
    BY SameJobs DEF RtuServer!NoJob, TcpServer!NoJob, NoJob
  <2> QED BY <1>1, <2>1 DEF RtuServer!NoAnswer, TcpServer!NoAnswer, NoAnswer
<1> QED BY <1>1, <1>2, <1>3, <1>4, <1>5, Zenon

(* Only no answer looks like none: one has a code or a function. *)
LEMMA Answers ==
  ASSUME NEW job, job.code # 0 \/ Reads(job.fc) \/ Writes(job.fc)
  PROVE  Answer(job) # NoAnswer
<1>1. Answer(job).code = job.code /\ Answer(job).fc = job.fc
  BY DEF Answer
<1>2. NoAnswer.code = 0 /\ NoAnswer.fc = 0
  BY DEF NoAnswer, Answer, NoJob, Refuse
<1>3. Reads(job.fc) \/ Writes(job.fc) => job.fc # 0
  BY DEF Reads, Writes, ReadHolding, ReadInput, WriteSingle, WriteMultiple
<1> QED BY <1>1, <1>2, <1>3

----------------------------------------------------------------------------
(* What is remembered of a client. *)

(* The values that its registers have while it waits are all remembered.   *)
RegistersInv ==
  /\ holding \in [0 .. HoldingMaxIndex -> Nat]
  /\ seen \in [Clients -> [0 .. HoldingMaxIndex -> SUBSET Nat]]
  /\ touched \in [Clients -> BOOLEAN]
  /\ \A c \in Clients : Waits(c) => \A i \in 0 .. HoldingMaxIndex : holding[i] \in seen[c][i]

(* Only its own request marks a client. *)
LEMMA TouchedObserved ==
  ASSUME touched \in [Clients -> BOOLEAN], NEW writer \in Clients, Observed(writer)
  PROVE  /\ touched' \in [Clients -> BOOLEAN]
         /\ \A c \in Clients : c # writer => touched'[c] = touched[c]
         /\ touched'[writer] <=> touched[writer] \/ holding' # holding
<1>1. touched' = [touched EXCEPT ![writer] = touched[writer] \/ holding' # holding]
  BY DEF Observed
<1> QED BY <1>1

(* The mark is taken away when it sends another. *)
LEMMA TouchedSent ==
  ASSUME touched \in [Clients -> BOOLEAN], NEW sender \in Clients, Sent(sender)
  PROVE  /\ touched' \in [Clients -> BOOLEAN]
         /\ ~touched'[sender]
         /\ \A c \in Clients : c # sender => touched'[c] = touched[c]
<1> DEFINE no == FALSE
<1>1. touched' = [touched EXCEPT ![sender] = no]
  BY DEF Sent
<1>2. no \in BOOLEAN /\ ~no
  OBVIOUS
<1> HIDE DEF no
<1>3. /\ touched' \in [Clients -> BOOLEAN] /\ touched'[sender] = no
      /\ \A c \in Clients : c # sender => touched'[c] = touched[c]
  BY <1>1, <1>2
<1> QED BY <1>2, <1>3

(* A step of a server or of a client that sends nothing. *)
LEMMA ObservedEffect ==
  ASSUME RegistersInv, NEW writer \in Clients, Observed(writer),
         holding' \in [0 .. HoldingMaxIndex -> Nat]
  PROVE  /\ seen' \in [Clients -> [0 .. HoldingMaxIndex -> SUBSET Nat]]
         /\ touched' \in [Clients -> BOOLEAN]
         /\ \A c \in Clients :
              /\ \A i \in 0 .. HoldingMaxIndex : seen[c][i] \subseteq seen'[c][i]
              /\ Waits(c) => \A i \in 0 .. HoldingMaxIndex : holding'[i] \in seen'[c][i]
              /\ ~Waits(c) => seen'[c] = seen[c]
              /\ c # writer => touched'[c] = touched[c]
         /\ touched'[writer] <=> touched[writer] \/ holding' # holding
<1> DEFINE indices == 0 .. HoldingMaxIndex
           wider(c) == [i \in indices |-> seen[c][i] \union {holding'[i]}]
<1>1. /\ DOMAIN holding = indices
      /\ seen \in [Clients -> [indices -> SUBSET Nat]] /\ touched \in [Clients -> BOOLEAN]
      /\ holding' \in [indices -> Nat]
  BY DEF RegistersInv
<1>2. seen' = [c \in Clients |-> IF Waits(c) THEN wider(c) ELSE seen[c]]
  BY <1>1 DEF Observed
<1> HIDE DEF indices
<1>3. ASSUME NEW c \in Clients
      PROVE  /\ wider(c) \in [indices -> SUBSET Nat]
             /\ \A i \in indices : wider(c)[i] = seen[c][i] \union {holding'[i]}
  <2> DEFINE before == seen[c]
             now == holding'
  <2>1. before \in [indices -> SUBSET Nat] /\ now \in [indices -> Nat]
    BY <1>1
  <2>2. wider(c) = [i \in indices |-> before[i] \union {now[i]}]
    OBVIOUS
  <2> HIDE DEF wider, before, now
  <2>3. \A i \in indices : before[i] \union {now[i]} \in SUBSET Nat
    BY <2>1
  <2>4. /\ wider(c) \in [indices -> SUBSET Nat]
        /\ \A i \in indices : wider(c)[i] = before[i] \union {now[i]}
    BY <2>2, <2>3
  <2> QED BY <2>4 DEF before, now
<1>4. \A c \in Clients : seen'[c] = IF Waits(c) THEN wider(c) ELSE seen[c]
  BY <1>2
<1> HIDE DEF wider
<1>5. seen' \in [Clients -> [indices -> SUBSET Nat]]
  BY <1>1, <1>2, <1>3
<1>6. \A c \in Clients :
        /\ \A i \in indices : seen[c][i] \subseteq seen'[c][i]
        /\ Waits(c) => \A i \in indices : holding'[i] \in seen'[c][i]
        /\ ~Waits(c) => seen'[c] = seen[c]
  BY <1>3, <1>4
<1>7. /\ touched' \in [Clients -> BOOLEAN]
      /\ \A c \in Clients : c # writer => touched'[c] = touched[c]
      /\ touched'[writer] <=> touched[writer] \/ holding' # holding
  BY TouchedObserved DEF RegistersInv
<1> QED BY <1>5, <1>6, <1>7 DEF indices

(* It keeps the memory true, if no client begins to wait. *)
LEMMA ObservedStep ==
  ASSUME RegistersInv, NEW writer \in Clients, Observed(writer),
         holding' \in [0 .. HoldingMaxIndex -> Nat],
         \A c \in Clients : Waits(c)' => Waits(c)
  PROVE  RegistersInv'
<1>1. /\ seen' \in [Clients -> [0 .. HoldingMaxIndex -> SUBSET Nat]]
      /\ touched' \in [Clients -> BOOLEAN]
      /\ \A c \in Clients :
           Waits(c) => \A i \in 0 .. HoldingMaxIndex : holding'[i] \in seen'[c][i]
  BY ObservedEffect
<1> QED BY <1>1 DEF RegistersInv

(* A client that sends a request begins to remember. *)
LEMMA SentEffect ==
  ASSUME RegistersInv, NEW sender \in Clients, Sent(sender), holding' = holding
  PROVE  /\ seen' \in [Clients -> [0 .. HoldingMaxIndex -> SUBSET Nat]]
         /\ touched' \in [Clients -> BOOLEAN]
         /\ \A i \in 0 .. HoldingMaxIndex : holding'[i] \in seen'[sender][i]
         /\ ~touched'[sender]
         /\ \A c \in Clients : c # sender => seen'[c] = seen[c] /\ touched'[c] = touched[c]
<1> DEFINE indices == 0 .. HoldingMaxIndex
           now == [i \in indices |-> {holding[i]}]
<1>1. /\ DOMAIN holding = indices /\ holding \in [indices -> Nat]
      /\ seen \in [Clients -> [indices -> SUBSET Nat]] /\ touched \in [Clients -> BOOLEAN]
  BY DEF RegistersInv
<1>2. seen' = [seen EXCEPT ![sender] = now]
  BY <1>1 DEF Sent
<1> HIDE DEF indices
<1>3. now \in [indices -> SUBSET Nat] /\ \A i \in indices : now[i] = {holding[i]}
  BY <1>1
<1> HIDE DEF now
<1>4. /\ seen' \in [Clients -> [indices -> SUBSET Nat]] /\ seen'[sender] = now
      /\ \A c \in Clients : c # sender => seen'[c] = seen[c]
  BY <1>1, <1>2, <1>3
<1>5. /\ touched' \in [Clients -> BOOLEAN] /\ ~touched'[sender]
      /\ \A c \in Clients : c # sender => touched'[c] = touched[c]
  BY <1>1, TouchedSent
<1> QED BY <1>3, <1>4, <1>5 DEF indices

(* It keeps the memory true, if no other client begins to wait. *)
LEMMA SentStep ==
  ASSUME RegistersInv, NEW sender \in Clients, Sent(sender), holding' = holding,
         \A c \in Clients : c # sender /\ Waits(c)' => Waits(c)
  PROVE  RegistersInv'
<1>1. /\ seen' \in [Clients -> [0 .. HoldingMaxIndex -> SUBSET Nat]]
      /\ touched' \in [Clients -> BOOLEAN]
      /\ \A i \in 0 .. HoldingMaxIndex : holding'[i] \in seen'[sender][i]
      /\ \A c \in Clients : c # sender => seen'[c] = seen[c]
  BY SentEffect
<1>2. /\ holding \in [0 .. HoldingMaxIndex -> Nat]
      /\ \A c \in Clients : Waits(c) => \A i \in 0 .. HoldingMaxIndex : holding[i] \in seen[c][i]
  BY DEF RegistersInv
<1>3. ASSUME NEW c \in Clients, Waits(c)', NEW i \in 0 .. HoldingMaxIndex
      PROVE  holding'[i] \in seen'[c][i]
  <2>1. CASE c = sender
    BY <1>1, <2>1
  <2>2. CASE c # sender
    BY <1>1, <1>2, <1>3, <2>2
  <2> QED BY <2>1, <2>2
<1> QED BY <1>1, <1>2, <1>3 DEF RegistersInv

----------------------------------------------------------------------------
(* What the steps of the serial line do. *)

(* A chunk is taken and parsed with what has come before. *)
ChunkParsed(data, rest) ==
  LET parsed == RtuServer!Parse(data)
  IN  /\ Taken(Symbols, data, rest, rtu.buf \o line)
      /\ line' = rest
      /\ (\A n \in Chunks : Len(line) <= n) => rest = << >>
      /\ rtu'.serving <=> parsed.result = "OK"
      /\ rtu'.buf = IF parsed.result = "NOT_YET_COMPLETE" THEN data ELSE << >>
      /\ rtu'.job = parsed.job

(* What a chunk of bytes does to the line, the slave and the rest.         *)
LEMMA ReceiveEffect ==
  ASSUME LineInv, RtuServer!Receive
  PROVE  /\ ~rtu.serving /\ line # << >> /\ holding' = holding /\ master' = master
         /\ \E data, rest : ChunkParsed(data, rest)
<1>1. PICK n \in (Chunks \union {Len(line)}) \intersect (1 .. Len(line)) :
        /\ RtuServer!ProcessChunk(rtu.buf \o SubSeq(line, 1, n))
        /\ line' = SubSeq(line, n + 1, Len(line))
  BY DEF RtuServer!Receive
<1>2. /\ n \in 1 .. Len(line) /\ ~rtu.serving /\ holding' = holding /\ master' = master
      /\ rtu.buf \in Seq(Symbols) /\ line \in Seq(Symbols)
  BY DEF RtuServer!Receive, LineInv
<1> DEFINE buffer == rtu.buf
           data == buffer \o SubSeq(line, 1, n)
           rest == SubSeq(line, n + 1, Len(line))
           result == RtuServer!Parse(data).result
           serving == result = "OK"
           buf == IF result = "NOT_YET_COMPLETE" THEN data ELSE << >>
           job == RtuServer!Parse(data).job
<1>3. rtu' = [buf |-> buf, serving |-> serving, job |-> job] /\ line' = rest
  BY <1>1 DEF RtuServer!ProcessChunk
<1>4. line # << >>
  BY <1>2, EmptySeq
<1>5. Taken(Symbols, data, rest, buffer \o line)
  <2> HIDE DEF buffer
  <2>1. buffer \in Seq(Symbols)
    BY <1>2 DEF buffer
  <2> QED BY <1>2, <2>1, ChunkTaken, Zenon
<1>6. (\A k \in Chunks : Len(line) <= k) => rest = << >>
  <2> SUFFICES ASSUME \A m \in Chunks : Len(line) <= m
               PROVE  rest = << >>
    OBVIOUS
  <2>1. n = Len(line) /\ Len(line) \in Nat
    <3>1. Len(line) \in Nat /\ n <= Len(line) /\ n \in Nat
      BY <1>2, LenProperties
    <3>2. n \in Chunks => Len(line) <= n
      OBVIOUS
    <3> QED BY <3>1, <3>2
  <2>2. rest = SubSeq(line, Len(line) + 1, Len(line))
    BY <2>1
  <2> QED BY <1>2, <2>1, <2>2, SubSeqEmpty
<1>7. (rtu'.serving <=> serving) /\ rtu'.buf = buf /\ rtu'.job = job
  <2> HIDE DEF serving, buf, job
  <2> QED BY <1>3
<1>8. ChunkParsed(data, rest)
  BY <1>3, <1>5, <1>6, <1>7 DEF ChunkParsed
<1> QED BY <1>2, <1>4, <1>8

(* A register is read or written. *)
LEMMA RtuAccessEffect ==
  ASSUME LineInv, RtuServer!AccessRegister
  PROVE  /\ rtu.serving /\ ~Finished(rtu.job) /\ rtu'.serving /\ rtu'.buf = rtu.buf
         /\ rtu'.job = NextJob(rtu.job, holding) /\ holding' = NextHolding(rtu.job, holding)
         /\ line' = line /\ master' = master
<1> DEFINE job == NextJob(rtu.job, holding)
           buf == rtu.buf
           serving == rtu.serving
<1>1. /\ serving /\ ~Finished(rtu.job) /\ line' = line /\ master' = master
      /\ holding' = NextHolding(rtu.job, holding)
  BY SameService DEF RtuServer!AccessRegister
<1>2. rtu' = [rtu EXCEPT !.job = job]
  BY SameService DEF RtuServer!AccessRegister, LineInv
<1> HIDE DEF job
<1>3. rtu = [buf |-> buf, serving |-> serving, job |-> rtu.job]
  BY DEF LineInv
<1> HIDE DEF buf, serving
<1>4. rtu' = [buf |-> buf, serving |-> serving, job |-> job]
  BY <1>2, <1>3
<1>5. rtu'.buf = buf /\ rtu'.serving = serving /\ rtu'.job = job
  BY <1>4
<1> QED BY <1>1, <1>5 DEF job, buf, serving

(* The response is sent, to a master that may have given up. *)
LEMMA RtuSendEffect ==
  ASSUME LineInv, RtuServer!SendResponse
  PROVE  /\ rtu.serving /\ Finished(rtu.job) /\ ~rtu'.serving /\ rtu'.buf = rtu.buf
         /\ line' = line /\ holding' = holding
         /\ master.waiting => /\ ~master'.waiting /\ master'.answer = Answer(rtu.job)
                              /\ master'.request = master.request
                              /\ master'.faults = master.faults
         /\ ~master.waiting => master' = master
<1> DEFINE no == FALSE
           buf == rtu.buf
           none == RtuServer!NoJob
           job == rtu.job
           answer == Answer(job)
<1>1. /\ rtu' = [rtu EXCEPT !.serving = no, !.job = none] /\ line' = line /\ holding' = holding
      /\ rtu.serving /\ Finished(rtu.job)
      /\ master' = IF master.waiting THEN [master EXCEPT !.waiting = no, !.answer = answer] ELSE master
  BY SameService DEF RtuServer!SendResponse
<1>2. ~no
  OBVIOUS
<1> HIDE DEF no, none, answer
<1>3. rtu'.serving = no /\ rtu'.buf = buf
  <2> DEFINE serving == rtu.serving
  <2>1. rtu = [buf |-> buf, serving |-> serving, job |-> job] /\ rtu' = [rtu EXCEPT !.serving = no, !.job = none]
    BY <1>1 DEF LineInv
  <2> HIDE DEF buf, serving, job
  <2>2. rtu' = [buf |-> buf, serving |-> no, job |-> none]
    BY <2>1
  <2> QED BY <2>2
<1>4. ASSUME master.waiting
      PROVE  /\ master'.waiting = no /\ master'.answer = answer
             /\ master'.request = master.request /\ master'.faults = master.faults
  <2>1. master = [waiting |-> master.waiting, request |-> master.request, intact |-> master.intact,
                  clean |-> master.clean, faults |-> master.faults, answer |-> master.answer]
    BY DEF LineInv
  <2>2. master' = [waiting |-> no, request |-> master.request, intact |-> master.intact,
                   clean |-> master.clean, faults |-> master.faults, answer |-> answer]
    BY <1>1, <1>4, <2>1
  <2> QED BY <2>2
<1> QED BY <1>1, <1>2, <1>3, <1>4 DEF answer, job, buf

(* The master stops to wait, when nothing is under way. *)
LEMMA GivesUpEffect ==
  ASSUME LineInv, RtuServer!MasterGivesUp
  PROVE  /\ line = << >> /\ rtu.buf = << >> /\ ~rtu.serving /\ master.waiting
         /\ line' = line /\ rtu' = rtu /\ holding' = holding
         /\ ~master'.waiting /\ master'.answer = master.answer
         /\ master'.request = master.request /\ master'.faults = master.faults
<1> DEFINE no == FALSE
<1>1. /\ line = << >> /\ rtu.buf = << >> /\ ~rtu.serving /\ master.waiting
      /\ line' = line /\ rtu' = rtu /\ holding' = holding
      /\ master' = [master EXCEPT !.waiting = no]
  BY DEF RtuServer!MasterGivesUp
<1>2. ~no
  OBVIOUS
<1> HIDE DEF no
<1>3. master = [waiting |-> master.waiting, request |-> master.request, intact |-> master.intact,
                clean |-> master.clean, faults |-> master.faults, answer |-> master.answer]
  BY DEF LineInv
<1>4. master' = [waiting |-> no, request |-> master.request, intact |-> master.intact,
                 clean |-> master.clean, faults |-> master.faults, answer |-> master.answer]
  BY <1>1, <1>3
<1>5. /\ master'.waiting = no /\ master'.answer = master.answer
      /\ master'.request = master.request /\ master'.faults = master.faults
  BY <1>4
<1> QED BY <1>1, <1>2, <1>5

(* The master sends a request, which may be disturbed. *)
LEMMA SendsEffect ==
  ASSUME RtuServer!MasterSends
  PROVE  /\ ~master.waiting /\ rtu' = rtu /\ holding' = holding
         /\ master'.waiting /\ master'.answer = NoAnswer
         /\ \E request \in RtuRequests, fault \in {0, 1} :
              /\ fault = 1 => master.faults < MaxFaults
              /\ fault = 0 => master'.intact /\ line' = line \o RtuServer!Frame(request)
              /\ master'.request = request /\ master'.faults = master.faults + fault
<1>1. PICK request \in RtuRequests :
        \/ RtuServer!Transmit(request, RtuServer!Frame(request), 0)
        \/ /\ master.faults < MaxFaults
           /\ \E frame \in RtuServer!Disturbed(RtuServer!Frame(request)) :
                RtuServer!Transmit(request, frame, 1)
  BY DEF RtuServer!MasterSends
<1> DEFINE Brought(frame, fault) ==
             /\ RtuServer!Transmit(request, frame, fault) /\ fault \in {0, 1}
             /\ fault = 1 => master.faults < MaxFaults
             /\ fault = 0 => frame = RtuServer!Frame(request)
<1>2. PICK frame, fault : Brought(frame, fault)
  <2>1. CASE RtuServer!Transmit(request, RtuServer!Frame(request), 0)
    <3>1. Brought(RtuServer!Frame(request), 0)
      BY <2>1
    <3> QED BY <3>1
  <2>2. ASSUME NEW frame \in RtuServer!Disturbed(RtuServer!Frame(request)),
               RtuServer!Transmit(request, frame, 1), master.faults < MaxFaults
        PROVE  \E other, fault : Brought(other, fault)
    <3>1. Brought(frame, 1)
      BY <2>2
    <3> QED BY <3>1
  <2> QED BY <1>1, <2>1, <2>2, Zenon
<1> DEFINE intact == frame = RtuServer!Frame(request)
           clean == line = << >> /\ rtu.buf = << >> /\ ~rtu.serving
           faults == master.faults + fault
           yes == TRUE
<1>3. /\ line' = line \o frame /\ rtu' = rtu /\ holding' = holding
      /\ master' = [waiting |-> yes, request |-> request, intact |-> intact, clean |-> clean,
                    faults |-> faults, answer |-> NoAnswer]
  BY <1>2, SameService DEF RtuServer!Transmit
<1>4. yes /\ (fault = 0 => intact)
  BY <1>2
<1> HIDE DEF intact, clean, faults, yes
<1>5. /\ master'.waiting = yes /\ master'.request = request /\ master'.intact = intact
      /\ master'.faults = faults /\ master'.answer = NoAnswer
  BY <1>3
<1>6. ~master.waiting
  BY DEF RtuServer!MasterSends
<1> QED BY <1>2, <1>3, <1>4, <1>5, <1>6 DEF faults

----------------------------------------------------------------------------
(* What a missing answer says, on any line. *)

(* A job that a server has made: its answer is one. *)
Serviceable(job) ==
  /\ job = [fc |-> job.fc, code |-> job.code, start |-> job.start, quantity |-> job.quantity,
            values |-> job.values, done |-> job.done]
  /\ job.code # 0 \/ Reads(job.fc) \/ Writes(job.fc)

(* A job is refused, or it reads or writes. *)
LEMMA MadeJobs ==
  /\ \A fc, code : code # 0 => Serviceable(Refuse(fc, code))
  /\ \A fc, start, quantity, values :
        Reads(fc) \/ Writes(fc) => Serviceable(Serve(fc, start, quantity, values))
<1>1. ASSUME NEW fc, NEW code, code # 0 PROVE Serviceable(Refuse(fc, code))
  <2> DEFINE none == << >>
             job == Refuse(fc, code)
  <2>1. job = [fc |-> fc, code |-> code, start |-> 0, quantity |-> 0, values |-> none, done |-> 0]
    BY DEF Refuse
  <2> HIDE DEF none, job
  <2>2. /\ job = [fc |-> job.fc, code |-> job.code, start |-> job.start, quantity |-> job.quantity,
                  values |-> job.values, done |-> job.done]
        /\ job.code = code
    BY <2>1
  <2>3. Serviceable(job)
    BY <1>1, <2>2, Zenon DEF Serviceable
  <2> QED BY <2>3 DEF job
<1>2. ASSUME NEW fc, NEW start, NEW quantity, NEW values, Reads(fc) \/ Writes(fc)
      PROVE  Serviceable(Serve(fc, start, quantity, values))
  <2> DEFINE job == Serve(fc, start, quantity, values)
  <2>1. job = [fc |-> fc, code |-> 0, start |-> start, quantity |-> quantity, values |-> values, done |-> 0]
    BY DEF Serve
  <2> HIDE DEF job
  <2>2. /\ job = [fc |-> job.fc, code |-> job.code, start |-> job.start, quantity |-> job.quantity,
                  values |-> job.values, done |-> job.done]
        /\ job.fc = fc
    BY <2>1
  <2>3. Serviceable(job)
    BY <1>2, <2>2, Zenon DEF Serviceable
  <2> QED BY <2>3 DEF job
<1> QED BY <1>1, <1>2

(* So does every job that the slave makes of what it has received, whatever
   that is. *)
LEMMA ParsedJob ==
  ASSUME NEW data, RtuServer!Parse(data).result = "OK"
  PROVE  Serviceable(RtuServer!Parse(data).job)
<1> DEFINE Made(parsed) == parsed.result = "OK" => Serviceable(parsed.job)
<1>1. \A result : result # "OK" => Made(RtuServer!Result(result))
  BY DEF RtuServer!Result
<1>2. \A job : Serviceable(job) => Made(RtuServer!OK(job))
  BY DEF RtuServer!OK
<1>3. /\ RtuServer!WriteSingle = WriteSingle /\ RtuServer!WriteMultiple = WriteMultiple
      /\ Writes(WriteSingle) /\ Writes(WriteMultiple)
      /\ \A fc : RtuServer!Reads(fc) = Reads(fc)
  BY DEF RtuServer!WriteSingle, WriteSingle, RtuServer!WriteMultiple, WriteMultiple, Writes,
         RtuServer!Reads, Reads, RtuServer!ReadHolding, ReadHolding, RtuServer!ReadInput, ReadInput
<1>4. /\ \A fc, code : code # 0 => Serviceable(RtuServer!Refuse(fc, code))
      /\ \A fc, start, quantity, values :
            Reads(fc) \/ Writes(fc) => Serviceable(RtuServer!Serve(fc, start, quantity, values))
  BY MadeJobs, SameJobs
<1>5. "LENGTH_ERROR" # "OK" /\ "CRC_ERROR" # "OK" /\ "NOT_YET_COMPLETE" # "OK" /\ "NOT_FOR_ME" # "OK"
      /\ 1 # 0 /\ 2 # 0 /\ 3 # 0
  OBVIOUS
<1> HIDE DEF Made
<1>6. RtuServer!Reads(data[2]) => Made(RtuServer!ProcessReadRegisters(data))
  BY <1>1, <1>2, <1>3, <1>4, <1>5, Zenon DEF RtuServer!ProcessReadRegisters
<1>7. Made(RtuServer!ProcessWriteSingleRegister(data))
  BY <1>1, <1>2, <1>3, <1>4, <1>5, Zenon DEF RtuServer!ProcessWriteSingleRegister, RtuServer!WriteSingleJob
<1>8. Made(RtuServer!ProcessWriteMultipleRegisters(data))
  BY <1>1, <1>2, <1>3, <1>4, <1>5, Zenon DEF RtuServer!ProcessWriteMultipleRegisters
<1>9. Made(RtuServer!OK(RtuServer!Refuse(data[2], 1)))
  BY <1>2, <1>4, <1>5
<1>10. Made(RtuServer!Dispatch(data))
  <2>1. CASE RtuServer!Reads(data[2])
    <3>1. data[2] # RtuServer!WriteSingle /\ data[2] # RtuServer!WriteMultiple
      BY <2>1 DEF RtuServer!Reads, RtuServer!ReadHolding, RtuServer!ReadInput,
                  RtuServer!WriteSingle, RtuServer!WriteMultiple
    <3>2. RtuServer!Dispatch(data) = RtuServer!ProcessReadRegisters(data)
      BY <2>1, <3>1 DEF RtuServer!Dispatch
    <3> QED BY <1>6, <2>1, <3>2
  <2>2. CASE ~RtuServer!Reads(data[2])
    BY <1>7, <1>8, <1>9, <2>2 DEF RtuServer!Dispatch
  <2> QED BY <2>1, <2>2
<1>11. Made(RtuServer!Parse(data))
  BY <1>1, <1>5, <1>10, Zenon DEF RtuServer!Parse
<1> QED BY <1>11 DEF Made

(* A job stays one. *)
LEMMA NextServiceable ==
  ASSUME NEW job, Serviceable(job)
  PROVE  Serviceable(NextJob(job, holding))
<1> DEFINE fc == job.fc
           code == job.code
           start == job.start
           quantity == job.quantity
           values == job.values
           done == job.done
           list == IF Reads(fc) THEN Append(values, ValueAt(job, holding)) ELSE values
           next == NextJob(job, holding)
<1>1. /\ job = [fc |-> fc, code |-> code, start |-> start, quantity |-> quantity,
                values |-> values, done |-> done]
      /\ code # 0 \/ Reads(fc) \/ Writes(fc)
  BY Zenon DEF Serviceable
<1>2. next = [job EXCEPT !.done = done + 1, !.values = list]
  BY Zenon DEF NextJob
<1> HIDE DEF fc, code, start, quantity, values, done, list, next
<1>3. next = [fc |-> fc, code |-> code, start |-> start, quantity |-> quantity,
              values |-> list, done |-> done + 1]
  BY <1>1, <1>2
<1>4. /\ next = [fc |-> next.fc, code |-> next.code, start |-> next.start,
                 quantity |-> next.quantity, values |-> next.values, done |-> next.done]
      /\ next.fc = fc /\ next.code = code
  BY <1>3
<1>5. Serviceable(next)
  BY <1>1, <1>4, Zenon DEF Serviceable
<1> QED BY <1>5 DEF next

(* What a master that has no answer can be sure of: nothing of its request *)
(* has been written, and nothing of it is left.                            *)
SilenceInv ==
  /\ touched \in [Clients -> BOOLEAN]
  /\ rtu.serving => Serviceable(rtu.job)
  /\ master.waiting /\ touched["rtu"] => rtu.serving
  /\ ~master.waiting =>
       \/ master.answer # NoAnswer
       \/ ~touched["rtu"] /\ ~rtu.serving /\ rtu.buf = << >> /\ line = << >>

(* The steps of the serial line keep this. *)
LEMMA SilenceSteps ==
  ASSUME LineInv, SilenceInv, RtuNext
  PROVE  SilenceInv'
<1>1. "rtu" \in Clients /\ touched \in [Clients -> BOOLEAN]
  BY DEF Clients, SilenceInv
<1>2. \/ Observed("rtu")
      \/ Sent("rtu") /\ RtuServer!MasterSends
  BY DEF RtuNext
<1>3. touched' \in [Clients -> BOOLEAN]
  BY <1>1, <1>2, TouchedObserved, TouchedSent
<1>4. ASSUME Observed("rtu"), holding' = holding
      PROVE  touched'["rtu"] <=> touched["rtu"]
  BY <1>1, <1>4, TouchedObserved
<1>5. CASE RtuServer!Receive /\ Observed("rtu")
  <2>1. PICK data, rest : ChunkParsed(data, rest)
    BY <1>5, ReceiveEffect
  <2>2. /\ ~rtu.serving /\ line # << >> /\ master' = master
        /\ touched'["rtu"] <=> touched["rtu"]
    BY <1>4, <1>5, ReceiveEffect
  <2>3. rtu'.serving => Serviceable(rtu'.job)
    BY <2>1, ParsedJob DEF ChunkParsed
  <2> QED BY <1>3, <2>2, <2>3 DEF SilenceInv
<1>6. CASE RtuServer!InterFrameTimeout /\ Observed("rtu")
  <2>1. /\ ~rtu.serving /\ rtu.buf # << >> /\ line' = line /\ master' = master
        /\ rtu' = [rtu EXCEPT !.buf = << >>] /\ (touched'["rtu"] <=> touched["rtu"])
    BY <1>4, <1>6 DEF RtuServer!InterFrameTimeout
  <2>2. ~rtu'.serving
    <3> DEFINE buf == rtu.buf
               serving == rtu.serving
               job == rtu.job
               none == << >>
    <3>1. rtu = [buf |-> buf, serving |-> serving, job |-> job] /\ rtu' = [rtu EXCEPT !.buf = none]
      BY <2>1 DEF LineInv
    <3> HIDE DEF buf, serving, job, none
    <3>2. rtu'.serving = serving
      BY <3>1
    <3> QED BY <2>1, <3>2 DEF serving
  <2> QED BY <1>3, <2>1, <2>2 DEF SilenceInv
<1>7. CASE RtuServer!AccessRegister /\ Observed("rtu")
  BY <1>3, <1>7, RtuAccessEffect, NextServiceable DEF SilenceInv
<1>8. CASE RtuServer!SendResponse /\ Observed("rtu")
  <2>1. Serviceable(rtu.job)
    BY <1>8, RtuSendEffect DEF SilenceInv
  <2>2. Answer(rtu.job) # NoAnswer
    <3> DEFINE job == rtu.job
    <3>1. Serviceable(job)
      BY <2>1
    <3> HIDE DEF job
    <3>2. job.code # 0 \/ Reads(job.fc) \/ Writes(job.fc)
      BY <3>1, Zenon DEF Serviceable
    <3> QED BY <3>2, Answers DEF job
  <2>3. /\ rtu.serving /\ ~rtu'.serving
        /\ master.waiting => ~master'.waiting /\ master'.answer = Answer(rtu.job)
        /\ ~master.waiting => master' = master
    BY <1>8, RtuSendEffect
  <2> QED BY <1>3, <2>2, <2>3 DEF SilenceInv
<1>9. CASE RtuServer!MasterGivesUp /\ Observed("rtu")
  BY <1>3, <1>4, <1>9, GivesUpEffect DEF SilenceInv
<1>10. CASE RtuServer!MasterSends /\ Sent("rtu")
  <2>1. ~touched'["rtu"]
    BY <1>1, <1>10, TouchedSent
  <2>2. master'.waiting /\ rtu' = rtu
    BY <1>10, SendsEffect
  <2> QED BY <1>3, <2>1, <2>2 DEF SilenceInv
<1> QED BY <1>5, <1>6, <1>7, <1>8, <1>9, <1>10 DEF RtuNext, RtuServer!RtuServes

(* Those of the connection leave the serial line alone. *)
LEMMA SilenceStutter ==
  ASSUME SilenceInv, TcpNext
  PROVE  SilenceInv'
<1>1. "rtu" \in Clients /\ "tcp" \in Clients /\ "rtu" # "tcp" /\ touched \in [Clients -> BOOLEAN]
  BY DEF Clients, SilenceInv
<1>2. UNCHANGED rtuVars /\ (Observed("tcp") \/ Sent("tcp"))
  BY DEF TcpNext
<1>3. touched' \in [Clients -> BOOLEAN] /\ touched'["rtu"] = touched["rtu"]
  BY <1>1, <1>2, TouchedObserved, TouchedSent
<1> QED BY <1>2, <1>3 DEF SilenceInv, rtuVars

(* At first nothing has been asked for. *)
LEMMA SilenceInit ==
  ASSUME Init
  PROVE  SilenceInv
<1> DEFINE no == FALSE
           job == RtuServer!NoJob
           answer == RtuServer!NoAnswer
           first == CHOOSE r \in RtuRequests : TRUE
<1>1. /\ rtu = [buf |-> << >>, serving |-> no, job |-> job] /\ line = << >>
      /\ master = [waiting |-> no, request |-> first, intact |-> no, clean |-> no, faults |-> 0, answer |-> answer]
      /\ touched = [c \in Clients |-> no]
  BY DEF Init, RtuServer!RtuInit
<1>2. ~no /\ no \in BOOLEAN /\ "rtu" \in Clients
  BY DEF Clients
<1> HIDE DEF no, job, answer, first
<1>3. rtu.serving = no /\ rtu.buf = << >> /\ master.waiting = no
  BY <1>1
<1>4. touched \in [Clients -> BOOLEAN] /\ ~touched["rtu"]
  BY <1>1, <1>2
<1> QED BY <1>1, <1>2, <1>3, <1>4 DEF SilenceInv

(* The first half of OnlyConfirmedWrites: on any line, whatever it loses,  *)
(* garbles or cuts in pieces, a master that stops to wait without an       *)
(* answer has written nothing, and may safely repeat its request.          *)
NothingUnanswered == touched["rtu"] /\ ~master.waiting => master.answer # NoAnswer

(* Silence writes nothing: the slave answers every job whose registers it  *)
(* writes (RtuServer.cpp), so what has no answer has no effect.            *)
THEOREM SilenceWritesNothing == Spec => []NothingUnanswered
<1>1. Init => LineInv /\ SilenceInv
  BY InitInv, SilenceInit
<1>2. LineInv /\ SilenceInv /\ [Next]_vars => LineInv' /\ SilenceInv'
  <2> SUFFICES ASSUME LineInv, SilenceInv, [Next]_vars
               PROVE  LineInv' /\ SilenceInv'
    OBVIOUS
  <2>1. CASE RtuNext
    BY <2>1, RtuSteps, SilenceSteps
  <2>2. CASE TcpNext
    <3>1. UNCHANGED rtuVars
      BY <2>2 DEF TcpNext
    <3> QED BY <2>2, <3>1, LineStutter, SilenceStutter
  <2>3. CASE UNCHANGED vars
    <3>1. UNCHANGED rtuVars /\ UNCHANGED touched
      BY <2>3 DEF vars
    <3>2. SilenceInv'
      BY <3>1 DEF SilenceInv, rtuVars
    <3> QED BY <3>1, <3>2, LineStutter
  <2> QED BY <2>1, <2>2, <2>3 DEF Next
<1>3. SilenceInv => NothingUnanswered
  BY DEF SilenceInv, NothingUnanswered
<1> QED BY <1>1, <1>2, <1>3, PTL DEF Spec

----------------------------------------------------------------------------
(* An undisturbed line and connection. *)

(* No frame is garbled and no packet cut.  Frames may still come in chunks *)
(* when their first bytes say how long they are; others come in one.       *)
Undisturbed ==
  /\ MaxFaults = 0 /\ MaxSplits = 0
  /\ \A request \in RtuRequests : InOneChunk(request) \/ WellFormed(request)

(* Only a write that is served marks its client. *)
Earned(job, c) == touched[c] => job.code = 0 /\ Writes(job.fc)

(* The master, while nothing is lost or garbled: it waits for the answer   *)
(* to the request it sent, and has the answer to the one before.           *)
MasterInv ==
  /\ master.faults \in Nat
  /\ master.waiting => master.intact /\ master.answer = NoAnswer
  /\ Truthful(master.answer, master.request, seen["rtu"])
  /\ master.answer.code > 0 => ~touched["rtu"]

(* The slave serves the master's request, or has received a part of it, or *)
(* there is nothing left of it.                                            *)
SlaveInv ==
  IF rtu.serving
  THEN /\ line = << >> /\ rtu.buf = << >>
       /\ master.waiting /\ master.request.slave = SlaveId
       /\ Takes(rtu.job, master.request) /\ Told(rtu.job, master.request, seen["rtu"])
       /\ Earned(rtu.job, "rtu")
  ELSE \/ line = << >> /\ rtu.buf = << >>
       \/ /\ line # << >> /\ master.waiting
          /\ rtu.buf \o line = RtuServer!Frame(master.request)
          /\ rtu.buf # << >> => WellFormed(master.request)

(* No answer says nothing. *)
LEMMA NoAnswerIsTrue ==
  /\ \A request, values : Truthful(NoAnswer, request, values)
  /\ ~(NoAnswer.code > 0)
<1>1. \A request, values : Truthful(NoAnswer, request, values)
  BY Zenon DEF Truthful
<1>2. NoAnswer.code = 0
  BY DEF NoAnswer, Answer, NoJob, Refuse
<1> QED BY <1>1, <1>2

(* A job is taken when nothing of it has been done. *)
LEMMA FreshTold ==
  ASSUME NEW job, NEW request, Fresh(job, request)
  PROVE  Takes(job, request) /\ \A values : Told(job, request, values)
<1>1. Takes(job, request) /\ job.done = 0
  BY Zenon DEF Fresh
<1>2. 1 .. job.done = {}
  BY <1>1
<1>3. \A values : Told(job, request, values)
  BY <1>2, Zenon DEF Told
<1> QED BY <1>1, <1>3

(* A chunk completes the frame, or the slave waits for the rest. *)
LEMMA ChunkReceived ==
  ASSUME Undisturbed, LineInv, SlaveInv, ~rtu.serving, line # << >>,
         NEW data, NEW rest, ChunkParsed(data, rest)
  PROVE  \/ /\ line' = << >> /\ rtu'.buf = << >> /\ rtu'.serving
            /\ master.request.slave = SlaveId /\ Fresh(rtu'.job, master.request)
         \/ line' = << >> /\ rtu'.buf = << >> /\ ~rtu'.serving
         \/ /\ line' # << >> /\ ~rtu'.serving
            /\ rtu'.buf \o line' = RtuServer!Frame(master.request)
            /\ WellFormed(master.request)
<1> DEFINE request == master.request
           frame == RtuServer!Frame(request)
           buf == rtu.buf
           parsed == RtuServer!Parse(data)
<1>1. /\ master.waiting /\ buf \o line = frame /\ (buf # << >> => WellFormed(request))
      /\ request \in RtuRequests
  BY DEF SlaveInv, LineInv
<1>2. /\ data \in Seq(Symbols) /\ rest \in Seq(Symbols) /\ data \o rest = frame
      /\ \A i \in 1 .. Len(data) : data[i] = frame[i]
      /\ Len(data) = Len(frame) => data = frame
      /\ Len(data) <= Len(frame)
      /\ data # frame => rest # << >>
  BY <1>1, Zenon DEF ChunkParsed, Taken
<1>3. /\ line' = rest
      /\ (\A n \in Chunks : Len(line) <= n) => rest = << >>
      /\ rtu'.serving <=> parsed.result = "OK"
      /\ rtu'.buf = IF parsed.result = "NOT_YET_COMPLETE" THEN data ELSE << >>
      /\ rtu'.job = parsed.job
  BY Zenon DEF ChunkParsed
<1>4. line \in Seq(Symbols) /\ (buf = << >> => line = frame)
  BY <1>1, ConcatEmptySeq DEF LineInv
<1>5. "NOT_FOR_ME" # "OK" /\ "NOT_FOR_ME" # "NOT_YET_COMPLETE" /\ "OK" # "NOT_YET_COMPLETE"
  OBVIOUS
<1> HIDE DEF request, frame, buf, parsed
<1>6. CASE rest = << >>
  <2>1. data = frame
    BY <1>2, <1>6
  <2>2. CASE request.slave = SlaveId
    <3>1. parsed.result = "OK" /\ Fresh(parsed.job, request)
      BY <1>1, <2>1, <2>2, FrameServed DEF frame, parsed
    <3> QED BY <1>3, <1>5, <1>6, <2>2, <3>1 DEF request
  <2>3. CASE request.slave # SlaveId
    <3>1. parsed.result = "NOT_FOR_ME"
      BY <1>1, <2>1, <2>3, NotForMe DEF frame, parsed
    <3> QED BY <1>3, <1>5, <1>6, <3>1
  <2> QED BY <2>2, <2>3
<1>7. CASE rest # << >>
  <2>1. WellFormed(request)
    <3>1. CASE buf = << >>
      <4>1. ~InOneChunk(request)
        BY <1>3, <1>4, <1>7, <3>1, Zenon DEF InOneChunk, frame
      <4> QED BY <1>1, <4>1 DEF Undisturbed
    <3> QED BY <1>1, <3>1
  <2>2. Len(data) < Len(frame)
    <3>1. Len(data) \in Nat /\ Len(frame) = Len(data) + Len(rest) /\ Len(rest) \in Nat
      <4>1. Joined(Symbols, data, rest)
        BY <1>2, Joins
      <4> QED BY <1>2, <4>1, LenProperties, Zenon DEF Joined
    <3>2. Len(rest) # 0
      BY <1>2, <1>7, EmptySeq
    <3> QED BY <3>1, <3>2
  <2>3. parsed.result = "NOT_YET_COMPLETE"
    BY <1>1, <1>2, <2>1, <2>2, PartParsed DEF frame, parsed
  <2> QED BY <1>2, <1>3, <1>5, <1>7, <2>1, <2>3 DEF request, frame
<1> QED BY <1>6, <1>7

(* What another's step does to a client's memory. *)
Onlooks(c) ==
  /\ \A i \in 0 .. HoldingMaxIndex : seen[c][i] \subseteq seen'[c][i]
  /\ ~Waits(c) => seen'[c] = seen[c]
  /\ touched'[c] <=> touched[c]

(* To one that looks on, and in a step that writes nothing to all. *)
LEMMA OnlookerEffect ==
  ASSUME RegistersInv, NEW writer \in Clients, NEW c \in Clients,
         \/ Observed(writer) /\ holding' \in [0 .. HoldingMaxIndex -> Nat]
                             /\ (c # writer \/ holding' = holding)
         \/ Sent(writer) /\ holding' = holding /\ c # writer
  PROVE  Onlooks(c)
<1>1. CASE Observed(writer) /\ holding' \in [0 .. HoldingMaxIndex -> Nat]
                            /\ (c # writer \/ holding' = holding)
  BY <1>1, ObservedEffect DEF Onlooks
<1>2. CASE Sent(writer) /\ holding' = holding /\ c # writer
  BY <1>2, SentEffect DEF Onlooks
<1> QED BY <1>1, <1>2

(* The master keeps what it has while another step is made. *)
LEMMA MasterLooksOn ==
  ASSUME MasterInv, Onlooks("rtu"), master' = master
  PROVE  MasterInv'
<1>1. CASE master.waiting
  BY <1>1, NoAnswerIsTrue DEF MasterInv, Onlooks
<1>2. CASE ~master.waiting
  <2>1. seen'["rtu"] = seen["rtu"]
    BY <1>2 DEF Onlooks, Waits
  <2> QED BY <1>2, <2>1 DEF MasterInv, Onlooks
<1> QED BY <1>1, <1>2

(* So does the slave. *)
LEMMA SlaveLooksOn ==
  ASSUME LineInv, SlaveInv, Onlooks("rtu"), UNCHANGED rtuVars
  PROVE  SlaveInv'
<1>1. rtu' = rtu /\ line' = line /\ master' = master
  BY DEF rtuVars
<1>2. CASE rtu.serving
  <2>1. /\ line = << >> /\ rtu.buf = << >> /\ master.waiting /\ master.request.slave = SlaveId
        /\ Takes(rtu.job, master.request) /\ Told(rtu.job, master.request, seen["rtu"])
        /\ touched["rtu"] => rtu.job.code = 0 /\ Writes(rtu.job.fc)
    BY <1>2 DEF SlaveInv, Earned
  <2>2. Sendable(master.request)
    BY <2>1, RequestsAssumption DEF LineInv
  <2>3. /\ \A i \in 0 .. HoldingMaxIndex : seen["rtu"][i] \subseteq seen'["rtu"][i]
        /\ touched'["rtu"] <=> touched["rtu"]
    BY DEF Onlooks
  <2>4. Told(rtu.job, master.request, seen'["rtu"])
    BY <2>1, <2>2, <2>3, ToldMore
  <2> QED BY <1>1, <1>2, <2>1, <2>3, <2>4 DEF SlaveInv, Earned
<1>3. CASE ~rtu.serving
  BY <1>1, <1>3 DEF SlaveInv
<1> QED BY <1>2, <1>3

(* A chunk is received. *)
LEMMA WholeReceive ==
  ASSUME Undisturbed, LineInv, SilenceInv, RegistersInv, MasterInv, SlaveInv,
         RtuServer!Receive, Observed("rtu")
  PROVE  MasterInv' /\ SlaveInv'
<1>1. /\ ~rtu.serving /\ line # << >> /\ holding' = holding /\ master' = master
      /\ \E data, rest : ChunkParsed(data, rest)
  BY ReceiveEffect
<1>2. PICK data, rest : ChunkParsed(data, rest)
  BY <1>1
<1>3. Onlooks("rtu")
  <2>1. "rtu" \in Clients /\ holding' \in [0 .. HoldingMaxIndex -> Nat]
    BY <1>1 DEF Clients, RegistersInv
  <2> QED BY <1>1, <2>1, OnlookerEffect
<1>4. MasterInv'
  BY <1>1, <1>3, MasterLooksOn
<1>5. master.waiting /\ ~touched["rtu"]
  BY <1>1 DEF SlaveInv, SilenceInv
<1>6. ~touched'["rtu"]
  BY <1>3, <1>5 DEF Onlooks
<1>7. \/ /\ line' = << >> /\ rtu'.buf = << >> /\ rtu'.serving
         /\ master.request.slave = SlaveId /\ Fresh(rtu'.job, master.request)
      \/ line' = << >> /\ rtu'.buf = << >> /\ ~rtu'.serving
      \/ /\ line' # << >> /\ ~rtu'.serving
         /\ rtu'.buf \o line' = RtuServer!Frame(master.request)
         /\ WellFormed(master.request)
  BY <1>1, <1>2, ChunkReceived
<1>8. CASE /\ line' = << >> /\ rtu'.buf = << >> /\ rtu'.serving
           /\ master.request.slave = SlaveId /\ Fresh(rtu'.job, master.request)
  <2>1. Takes(rtu'.job, master.request) /\ Told(rtu'.job, master.request, seen'["rtu"])
    BY <1>8, FreshTold
  <2> QED BY <1>1, <1>4, <1>5, <1>6, <1>8, <2>1 DEF SlaveInv, Earned
<1>9. CASE line' = << >> /\ rtu'.buf = << >> /\ ~rtu'.serving
  BY <1>4, <1>9 DEF SlaveInv
<1>10. CASE /\ line' # << >> /\ ~rtu'.serving
            /\ rtu'.buf \o line' = RtuServer!Frame(master.request)
            /\ WellFormed(master.request)
  BY <1>1, <1>4, <1>5, <1>10 DEF SlaveInv
<1> QED BY <1>7, <1>8, <1>9, <1>10

(* A register of a request is read or written. *)
LEMMA WholeAccess ==
  ASSUME LineInv, RegistersInv, MasterInv, SlaveInv,
         RtuServer!AccessRegister, Observed("rtu")
  PROVE  /\ MasterInv' /\ SlaveInv'
         /\ holding' \in [0 .. HoldingMaxIndex -> Nat]
         /\ \A i \in 0 .. HoldingMaxIndex :
              holding'[i] # holding[i] => Asked(master.request, i, holding'[i])
<1> DEFINE request == master.request
           job == rtu.job
           next == NextJob(job, holding)
<1>1. /\ rtu.serving /\ ~Finished(job) /\ rtu'.serving /\ rtu'.buf = rtu.buf
      /\ rtu'.job = next /\ holding' = NextHolding(job, holding)
      /\ line' = line /\ master' = master
  BY RtuAccessEffect
<1>2. /\ line = << >> /\ rtu.buf = << >> /\ master.waiting /\ request.slave = SlaveId
      /\ Takes(job, request) /\ Told(job, request, seen["rtu"])
      /\ touched["rtu"] => job.code = 0 /\ Writes(job.fc)
  BY <1>1 DEF SlaveInv, Earned
<1>3. Sendable(request)
  BY <1>2, RequestsAssumption DEF LineInv
<1>4. holding \in [0 .. HoldingMaxIndex -> Nat] /\ "rtu" \in Clients /\ Waits("rtu")
  BY <1>2 DEF RegistersInv, Clients, Waits
<1> HIDE DEF request, job, next
<1>5. Takes(next, request) /\ next.code = 0
  BY <1>1, <1>2, <1>3, <1>4, NextTakes DEF next
<1>6. /\ holding' \in [0 .. HoldingMaxIndex -> Nat]
      /\ holding' # holding => Writes(request.fc)
      /\ \A i \in 0 .. HoldingMaxIndex : holding'[i] # holding[i] => Asked(request, i, holding'[i])
  BY <1>1, <1>2, <1>3, <1>4, NextRegisters
<1>7. /\ \A i \in 0 .. HoldingMaxIndex : seen["rtu"][i] \subseteq seen'["rtu"][i]
      /\ \A i \in 0 .. HoldingMaxIndex : holding'[i] \in seen'["rtu"][i]
      /\ touched'["rtu"] <=> touched["rtu"] \/ holding' # holding
  BY <1>4, <1>6, ObservedEffect
<1>8. Told(next, request, seen'["rtu"])
  BY <1>1, <1>2, <1>3, <1>4, <1>7, NextTold DEF next
<1>9. job.fc = request.fc /\ next.fc = request.fc
  BY <1>2, <1>5, TakesItsFunction
<1>10. touched'["rtu"] => next.code = 0 /\ Writes(next.fc)
  BY <1>2, <1>5, <1>6, <1>7, <1>9
<1>11. SlaveInv'
  BY <1>1, <1>2, <1>5, <1>8, <1>10 DEF SlaveInv, Earned, request
<1>12. MasterInv'
  BY <1>1, <1>2, NoAnswerIsTrue DEF MasterInv
<1> QED BY <1>6, <1>11, <1>12 DEF request

(* The response tells the master what has been done. *)
LEMMA WholeResponse ==
  ASSUME LineInv, RegistersInv, MasterInv, SlaveInv,
         RtuServer!SendResponse, Observed("rtu")
  PROVE  MasterInv' /\ SlaveInv'
<1> DEFINE request == master.request
           job == rtu.job
<1>1. /\ rtu.serving /\ Finished(job) /\ ~rtu'.serving /\ rtu'.buf = rtu.buf
      /\ line' = line /\ holding' = holding
      /\ master.waiting => /\ ~master'.waiting /\ master'.answer = Answer(job)
                           /\ master'.request = request /\ master'.faults = master.faults
  BY RtuSendEffect
<1>2. /\ line = << >> /\ rtu.buf = << >> /\ master.waiting
      /\ Takes(job, request) /\ Told(job, request, seen["rtu"])
      /\ touched["rtu"] => job.code = 0 /\ Writes(job.fc)
  BY <1>1 DEF SlaveInv, Earned
<1>3. Sendable(request)
  BY <1>2, RequestsAssumption DEF LineInv
<1>4. Onlooks("rtu")
  <2>1. "rtu" \in Clients /\ holding' \in [0 .. HoldingMaxIndex -> Nat]
    BY <1>1 DEF Clients, RegistersInv
  <2> QED BY <1>1, <2>1, OnlookerEffect
<1>5. /\ \A i \in 0 .. HoldingMaxIndex : seen["rtu"][i] \subseteq seen'["rtu"][i]
      /\ touched'["rtu"] <=> touched["rtu"]
  BY <1>4 DEF Onlooks
<1> HIDE DEF request, job
<1>6. Told(job, request, seen'["rtu"])
  BY <1>2, <1>3, <1>5, ToldMore
<1>7. Truthful(Answer(job), request, seen'["rtu"]) /\ Answer(job).code = job.code
  BY <1>1, <1>2, <1>3, <1>6, Answered
<1>8. master.faults \in Nat /\ (Answer(job).code > 0 => ~touched'["rtu"])
  BY <1>2, <1>5, <1>7 DEF MasterInv
<1>9. MasterInv'
  BY <1>1, <1>2, <1>7, <1>8 DEF MasterInv
<1>10. SlaveInv'
  BY <1>1, <1>2 DEF SlaveInv
<1> QED BY <1>9, <1>10

(* A master that gives up has heard nothing. *)
LEMMA WholeGivesUp ==
  ASSUME LineInv, RegistersInv, MasterInv, SlaveInv,
         RtuServer!MasterGivesUp, Observed("rtu")
  PROVE  MasterInv' /\ SlaveInv'
<1>1. /\ line = << >> /\ rtu.buf = << >> /\ ~rtu.serving /\ master.waiting
      /\ line' = line /\ rtu' = rtu /\ holding' = holding
      /\ ~master'.waiting /\ master'.answer = master.answer
      /\ master'.request = master.request /\ master'.faults = master.faults
  BY GivesUpEffect
<1>2. master'.answer = NoAnswer
  BY <1>1 DEF MasterInv
<1> QED BY <1>1, <1>2, NoAnswerIsTrue DEF MasterInv, SlaveInv

(* A new frame finds an empty line and an empty buffer. *)
LEMMA WholeSends ==
  ASSUME Undisturbed, LineInv, MasterInv, SlaveInv, RtuServer!MasterSends
  PROVE  MasterInv' /\ SlaveInv'
<1>1. /\ ~master.waiting /\ rtu' = rtu /\ master'.waiting /\ master'.answer = NoAnswer
      /\ \E request \in RtuRequests, fault \in {0, 1} :
           /\ fault = 1 => master.faults < MaxFaults
           /\ fault = 0 => master'.intact /\ line' = line \o RtuServer!Frame(request)
           /\ master'.request = request /\ master'.faults = master.faults + fault
  BY SendsEffect
<1>2. master.faults \in Nat /\ ~(master.faults < MaxFaults)
  BY DEF MasterInv, Undisturbed
<1>3. PICK request \in RtuRequests :
        /\ master'.intact /\ line' = line \o RtuServer!Frame(request)
        /\ master'.request = request /\ master'.faults = master.faults + 0
  BY <1>1, <1>2
<1>4. line = << >> /\ rtu.buf = << >> /\ ~rtu.serving
  BY <1>1 DEF SlaveInv
<1>5. RtuServer!Frame(request) \in Seq(Symbols) /\ Len(RtuServer!Frame(request)) >= 8
  BY FrameType
<1> DEFINE frame == RtuServer!Frame(request)
<1>6. frame \in Seq(Symbols) /\ frame # << >> /\ << >> \o frame = frame
  <2>1. frame \in Seq(Symbols) /\ Len(frame) >= 8
    BY <1>5
  <2> HIDE DEF frame
  <2> QED BY <2>1, EmptySeq, ConcatEmptySeq
<1>7. line' = frame
  BY <1>3, <1>4, <1>6
<1>8. SlaveInv'
  BY <1>1, <1>3, <1>4, <1>6, <1>7 DEF SlaveInv
<1>9. MasterInv'
  BY <1>1, <1>2, <1>3, NoAnswerIsTrue DEF MasterInv
<1> QED BY <1>8, <1>9

(* The steps of an undisturbed line. *)
LEMMA WholeLine ==
  ASSUME Undisturbed, LineInv, SilenceInv, RegistersInv, MasterInv, SlaveInv, RtuNext
  PROVE  /\ RegistersInv' /\ MasterInv' /\ SlaveInv'
         /\ \A i \in 0 .. HoldingMaxIndex : holding'[i] # holding[i] =>
              /\ master.intact /\ master.request.slave = SlaveId
              /\ Asked(master.request, i, holding'[i])
<1>1. "rtu" \in Clients /\ client' = client /\ holding \in [0 .. HoldingMaxIndex -> Nat]
  BY DEF Clients, RtuNext, tcpVars, RegistersInv
<1>2. ASSUME Observed("rtu"), holding' \in [0 .. HoldingMaxIndex -> Nat],
             master'.waiting => master.waiting
      PROVE  RegistersInv'
  <2>1. \A c \in Clients : Waits(c)' => Waits(c)
    BY <1>1, <1>2 DEF Waits
  <2> QED BY <1>1, <1>2, <2>1, ObservedStep
<1>3. CASE RtuServer!Receive /\ Observed("rtu")
  <2>1. holding' = holding /\ master' = master
    BY <1>3, ReceiveEffect
  <2> QED BY <1>1, <1>2, <1>3, <2>1, WholeReceive
<1>4. ~RtuServer!InterFrameTimeout
  BY DEF RtuServer!InterFrameTimeout, SlaveInv
<1>5. CASE RtuServer!AccessRegister /\ Observed("rtu")
  <2>1. master' = master /\ rtu.serving
    BY <1>5, RtuAccessEffect
  <2>2. master.intact /\ master.request.slave = SlaveId
    BY <2>1 DEF SlaveInv, MasterInv
  <2> QED BY <1>2, <1>5, <2>1, <2>2, WholeAccess
<1>6. CASE RtuServer!SendResponse /\ Observed("rtu")
  <2>1. holding' = holding /\ (master'.waiting => master.waiting)
    BY <1>6, RtuSendEffect
  <2> QED BY <1>1, <1>2, <1>6, <2>1, WholeResponse
<1>7. CASE RtuServer!MasterGivesUp /\ Observed("rtu")
  <2>1. holding' = holding /\ (master'.waiting => master.waiting)
    BY <1>7, GivesUpEffect
  <2> QED BY <1>1, <1>2, <1>7, <2>1, WholeGivesUp
<1>8. CASE RtuServer!MasterSends /\ Sent("rtu")
  <2>1. holding' = holding
    BY <1>8, SendsEffect
  <2>2. \A c \in Clients : c # "rtu" /\ Waits(c)' => Waits(c)
    BY <1>1 DEF Waits
  <2>3. RegistersInv'
    BY <1>1, <1>8, <2>1, <2>2, SentStep
  <2> QED BY <1>8, <2>1, <2>3, WholeSends
<1> QED BY <1>3, <1>4, <1>5, <1>6, <1>7, <1>8 DEF RtuNext, RtuServer!RtuServes

(* The last request of the client, sent and not answered. *)
Pending ==
  /\ client.at # "idle" /\ client.whole /\ client.request \in TcpRequests
  /\ client.answer = NoAnswer

(* The client, while nothing is cut in pieces.                             *)
ClientInv ==
  /\ client.splits = 0
  /\ client.at = "waiting" => client.answer = NoAnswer
  /\ client.at = "waiting" /\ tcp.at # "serve" => ~touched["tcp"]
  /\ client.at = "idle" => packets = << >>
  /\ tcp.at = "accept" => packets = << >>
  /\ Truthful(client.answer, client.request, seen["tcp"])
  /\ client.answer.code > 0 => ~touched["tcp"]

(* The server serves the client's last request, which the client may have  *)
(* given up, or has it before it, or there is nothing left of it.          *)
ServerInv ==
  /\ packets # << >> =>
       /\ Pending /\ tcp.at # "serve"
       /\ packets = <<TcpServer!Adu(client.transaction, client.request)>>
  /\ tcp.at = "serve" =>
       /\ Pending /\ tcp.transaction = client.transaction
       /\ Takes(tcp.job, client.request)
       /\ client.at = "waiting" => Told(tcp.job, client.request, seen["tcp"]) /\ Earned(tcp.job, "tcp")

(* A register is read or written. *)
LEMMA TcpAccessEffect ==
  ASSUME ConnectionInv, TcpServer!AccessRegister
  PROVE  /\ tcp.at = "serve" /\ ~Finished(tcp.job)
         /\ tcp'.at = "serve" /\ tcp'.transaction = tcp.transaction
         /\ tcp'.job = NextJob(tcp.job, holding) /\ holding' = NextHolding(tcp.job, holding)
         /\ packets' = packets /\ client' = client
<1> DEFINE at == tcp.at
           transaction == tcp.transaction
           served == tcp.job
           job == NextJob(tcp.job, holding)
<1>1. /\ at = "serve" /\ ~Finished(tcp.job) /\ packets' = packets /\ client' = client
      /\ holding' = NextHolding(tcp.job, holding)
  BY SameService DEF TcpServer!AccessRegister
<1>2. tcp' = [tcp EXCEPT !.job = job]
  BY SameService DEF TcpServer!AccessRegister, ConnectionInv
<1>3. tcp = [at |-> at, transaction |-> transaction, job |-> served]
  BY DEF ConnectionInv
<1> HIDE DEF at, transaction, served, job
<1>4. tcp' = [at |-> at, transaction |-> transaction, job |-> job]
  BY <1>2, <1>3
<1>5. tcp'.at = at /\ tcp'.transaction = transaction /\ tcp'.job = job
  BY <1>4
<1> QED BY <1>1, <1>5 DEF at, transaction, job

(* The response is sent, to the client that waits for it. *)
LEMMA TcpSendEffect ==
  ASSUME ConnectionInv, TcpServer!SendResponse
  PROVE  /\ tcp.at = "serve" /\ Finished(tcp.job) /\ tcp'.at = "receive"
         /\ packets' = packets /\ holding' = holding
         /\ IF client.at = "waiting" /\ client.transaction = tcp.transaction
            THEN /\ client'.at = "idle" /\ client'.answer = Answer(tcp.job)
                 /\ client'.request = client.request /\ client'.splits = client.splits
            ELSE client' = client
<1> DEFINE answered == client.at = "waiting" /\ client.transaction = tcp.transaction
           answer == Answer(tcp.job)
           job == TcpServer!NoJob
<1>1. /\ tcp.at = "serve" /\ Finished(tcp.job) /\ packets' = packets /\ holding' = holding
      /\ tcp' = [tcp EXCEPT !.at = "receive", !.job = job]
      /\ client' = IF answered THEN [client EXCEPT !.at = "idle", !.answer = answer] ELSE client
  BY SameService DEF TcpServer!SendResponse
<1> HIDE DEF answer, job
<1>2. tcp'.at = "receive"
  BY <1>1, ServerAt DEF ConnectionInv
<1>3. CASE answered
  <2>1. client' = [client EXCEPT !.at = "idle", !.answer = answer]
    BY <1>1, <1>3
  <2>2. /\ client'.at = "idle" /\ client'.answer = answer
        /\ client'.request = client.request /\ client'.splits = client.splits
    BY <2>1, ClientAnswered DEF ConnectionInv
  <2> QED BY <1>1, <1>2, <1>3, <2>2 DEF answer
<1>4. CASE ~answered
  BY <1>1, <1>2, <1>4
<1> QED BY <1>3, <1>4

(* A step that only moves the client. *)
Moves(at) ==
  /\ client'.at = at /\ client'.answer = client.answer /\ client'.request = client.request
  /\ client'.transaction = client.transaction /\ client'.whole = client.whole
  /\ client'.splits = client.splits

(* The steps of the connection that neither ask nor answer.                *)
LEMMA MoveEffects ==
  ASSUME ConnectionInv
  PROVE  /\ TcpServer!Accept =>
              /\ tcp.at = "accept" /\ client.at = "connecting" /\ tcp'.at = "receive" /\ Moves("idle")
              /\ holding' = holding /\ packets' = packets
         /\ TcpServer!Close =>
              /\ tcp.at = "close" /\ tcp'.at = "accept"
              /\ Moves("connecting") \/ Moves("closed")
              /\ holding' = holding /\ packets' = << >>
         /\ TcpServer!ReceiveFails =>
              /\ tcp.at = "receive" /\ tcp'.at = "close" /\ client' = client
              /\ holding' = holding /\ packets' = packets
         /\ TcpServer!Connect =>
              /\ client.at = "closed" /\ Moves("connecting") /\ tcp' = tcp
              /\ holding' = holding /\ packets' = packets
         /\ TcpServer!Disconnect =>
              /\ client.at \in {"idle", "waiting"} /\ Moves("closed") /\ tcp' = tcp
              /\ holding' = holding /\ packets' = packets
<1>1. /\ ClientRecord(client)
      /\ tcp = [at |-> tcp.at, transaction |-> tcp.transaction, job |-> tcp.job]
  BY DEF ConnectionInv
<1>2. ASSUME NEW at, client' = [client EXCEPT !.at = at] PROVE Moves(at)
  BY <1>1, <1>2, ClientAt DEF Moves
<1>3. ASSUME NEW at, tcp' = [tcp EXCEPT !.at = at] PROVE tcp'.at = at
  BY <1>1, <1>3, ServerAt
<1>4. ASSUME TcpServer!Accept
      PROVE  /\ tcp.at = "accept" /\ client.at = "connecting" /\ tcp'.at = "receive" /\ Moves("idle")
             /\ holding' = holding /\ packets' = packets
  BY <1>2, <1>3, <1>4, Zenon DEF TcpServer!Accept
<1>5. ASSUME TcpServer!Close
      PROVE  /\ tcp.at = "close" /\ tcp'.at = "accept"
             /\ Moves("connecting") \/ Moves("closed")
             /\ holding' = holding /\ packets' = << >>
  <2> DEFINE at == IF client.at = "connecting" THEN client.at ELSE "closed"
  <2>1. /\ tcp.at = "close" /\ tcp' = [tcp EXCEPT !.at = "accept"]
        /\ client' = [client EXCEPT !.at = at]
        /\ holding' = holding /\ packets' = << >>
    BY <1>1, <1>5 DEF TcpServer!Close, ClientRecord
  <2>2. at = "connecting" \/ at = "closed"
    OBVIOUS
  <2> HIDE DEF at
  <2>3. Moves(at)
    BY <1>2, <2>1
  <2> QED BY <1>3, <2>1, <2>2, <2>3
<1>6. ASSUME TcpServer!ReceiveFails
      PROVE  /\ tcp.at = "receive" /\ tcp'.at = "close" /\ client' = client
             /\ holding' = holding /\ packets' = packets
  BY <1>3, <1>6, Zenon DEF TcpServer!ReceiveFails
<1>7. ASSUME TcpServer!Connect
      PROVE  /\ client.at = "closed" /\ Moves("connecting") /\ tcp' = tcp
             /\ holding' = holding /\ packets' = packets
  BY <1>2, <1>7, Zenon DEF TcpServer!Connect
<1>8. ASSUME TcpServer!Disconnect
      PROVE  /\ client.at \in {"idle", "waiting"} /\ Moves("closed") /\ tcp' = tcp
             /\ holding' = holding /\ packets' = packets
  BY <1>2, <1>8, Zenon DEF TcpServer!Disconnect
<1> QED BY <1>4, <1>5, <1>6, <1>7, <1>8

(* The client sends a request, which may be cut. *)
LEMMA ClientSendsEffect ==
  ASSUME ConnectionInv, TcpServer!ClientSends
  PROVE  /\ client.at = "idle" /\ tcp' = tcp /\ holding' = holding
         /\ client'.at = "waiting" /\ client'.answer = NoAnswer
         /\ client'.request \in TcpRequests /\ client'.transaction = client.transaction + 1
         /\ \/ /\ client'.whole /\ client'.splits = client.splits
               /\ packets' = packets \o <<TcpServer!Adu(client'.transaction, client'.request)>>
            \/ client.splits < MaxSplits
<1>1. PICK request \in TcpRequests :
        \/ TcpServer!Request(request, TRUE, <<TcpServer!Adu(client.transaction + 1, request)>>)
        \/ client.splits < MaxSplits /\ \E sent : TcpServer!Request(request, FALSE, sent)
  BY DEF TcpServer!ClientSends
<1> DEFINE transaction == client.transaction + 1
<1>2. ASSUME NEW whole, NEW sent, TcpServer!Request(request, whole, sent)
      PROVE  /\ client'.at = "waiting" /\ client'.answer = NoAnswer
             /\ client'.request = request /\ client'.transaction = transaction
             /\ client'.whole = whole /\ (whole => client'.splits = client.splits)
             /\ packets' = packets \o sent /\ tcp' = tcp /\ holding' = holding
  <2> DEFINE splits == IF whole THEN client.splits ELSE client.splits + 1
             a == client.at
             b == client.request
             c == client.transaction
             d == client.whole
             e == client.splits
             f == client.answer
  <2>1. client = [at |-> a, request |-> b, transaction |-> c, whole |-> d, splits |-> e, answer |-> f]
    BY DEF ConnectionInv, ClientRecord
  <2>2. /\ packets' = packets \o sent /\ tcp' = tcp /\ holding' = holding
        /\ client' = [client EXCEPT !.at = "waiting", !.request = request, !.whole = whole,
                                    !.transaction = transaction, !.splits = splits, !.answer = NoAnswer]
    BY <1>2, <2>1, SameService DEF TcpServer!Request
  <2>3. whole => splits = client.splits
    OBVIOUS
  <2> HIDE DEF splits, transaction, a, b, c, d, e, f
  <2>4. client' = [at |-> "waiting", request |-> request, transaction |-> transaction,
                   whole |-> whole, splits |-> splits, answer |-> NoAnswer]
    BY <2>1, <2>2
  <2>5. /\ client'.at = "waiting" /\ client'.request = request /\ client'.transaction = transaction
        /\ client'.whole = whole /\ client'.splits = splits /\ client'.answer = NoAnswer
    BY <2>4, ClientParts, Zenon
  <2> QED BY <2>2, <2>3, <2>5
<1>3. client.at = "idle"
  BY DEF TcpServer!ClientSends
<1>4. CASE TcpServer!Request(request, TRUE, <<TcpServer!Adu(client.transaction + 1, request)>>)
  <2> DEFINE yes == TRUE
             sent == <<TcpServer!Adu(transaction, request)>>
  <2>1. TcpServer!Request(request, yes, sent) /\ yes
    BY <1>4
  <2> HIDE DEF yes, sent, transaction
  <2>2. /\ client'.at = "waiting" /\ client'.answer = NoAnswer
        /\ client'.request = request /\ client'.transaction = transaction
        /\ client'.whole /\ client'.splits = client.splits
        /\ packets' = packets \o sent /\ tcp' = tcp /\ holding' = holding
    BY <1>2, <2>1
  <2> QED BY <1>3, <2>2 DEF sent, transaction
<1>5. ASSUME client.splits < MaxSplits, NEW sent, TcpServer!Request(request, FALSE, sent)
      PROVE  /\ client'.at = "waiting" /\ client'.answer = NoAnswer
             /\ client'.request = request /\ client'.transaction = transaction
             /\ tcp' = tcp /\ holding' = holding
  BY <1>2, <1>5, Zenon
<1> QED BY <1>1, <1>3, <1>4, <1>5

(* The connection keeps what it has while the other server makes a step. *)
LEMMA ConnectionLooksOn ==
  ASSUME ClientInv, ServerInv, Onlooks("tcp"), UNCHANGED tcpVars
  PROVE  ClientInv' /\ ServerInv'
<1>1. tcp' = tcp /\ packets' = packets /\ client' = client
  BY DEF tcpVars
<1>2. touched'["tcp"] <=> touched["tcp"]
  BY DEF Onlooks
<1>3. Truthful(client.answer, client.request, seen'["tcp"])
  <2>1. CASE client.at = "waiting"
    BY <2>1, NoAnswerIsTrue DEF ClientInv
  <2>2. CASE client.at # "waiting"
    <3>1. seen'["tcp"] = seen["tcp"]
      BY <2>2 DEF Onlooks, Waits
    <3> QED BY <3>1 DEF ClientInv
  <2> QED BY <2>1, <2>2
<1>4. ClientInv'
  BY <1>1, <1>2, <1>3 DEF ClientInv
<1>5. ASSUME tcp.at = "serve", client.at = "waiting"
      PROVE  Told(tcp.job, client.request, seen'["tcp"]) /\ Earned(tcp.job, "tcp")'
  <2>1. /\ client.request \in TcpRequests /\ Takes(tcp.job, client.request)
        /\ Told(tcp.job, client.request, seen["tcp"]) /\ Earned(tcp.job, "tcp")
    BY <1>5 DEF ServerInv, Pending
  <2>2. Sendable(client.request)
    BY <2>1, RequestsAssumption
  <2>3. Told(tcp.job, client.request, seen'["tcp"])
    BY <2>1, <2>2, ToldMore DEF Onlooks
  <2> QED BY <1>1, <1>2, <2>1, <2>3 DEF Earned
<1>6. ServerInv'
  BY <1>1, <1>5 DEF ServerInv, Pending
<1> QED BY <1>4, <1>6

(* A step that only moves the client, from one connection to another. *)
LEMMA WholeMove ==
  ASSUME ClientInv, Onlooks("tcp"), NEW at \in {"idle", "closed", "connecting"}, Moves(at)
  PROVE  /\ client'.splits = 0
         /\ Truthful(client'.answer, client'.request, seen'["tcp"])
         /\ client'.answer.code > 0 => ~touched'["tcp"]
<1>1. Truthful(client.answer, client.request, seen'["tcp"])
  <2>1. CASE client.at = "waiting"
    BY <2>1, NoAnswerIsTrue DEF ClientInv
  <2>2. CASE client.at # "waiting"
    <3>1. seen'["tcp"] = seen["tcp"]
      BY <2>2 DEF Onlooks, Waits
    <3> QED BY <3>1 DEF ClientInv
  <2> QED BY <2>1, <2>2
<1>2. touched'["tcp"] <=> touched["tcp"]
  BY DEF Onlooks
<1> QED BY <1>1, <1>2 DEF Moves, ClientInv

(* Connections are made and lost. *)
LEMMA WholeMoves ==
  ASSUME ConnectionInv, ClientInv, ServerInv, Onlooks("tcp"),
         \/ TcpServer!Accept \/ TcpServer!Close \/ TcpServer!ReceiveFails
         \/ TcpServer!Connect \/ TcpServer!Disconnect
  PROVE  ClientInv' /\ ServerInv'
<1>1. touched'["tcp"] <=> touched["tcp"]
  BY DEF Onlooks
<1>2. ASSUME NEW at \in {"idle", "closed", "connecting"}, Moves(at),
             tcp'.at # "serve" \/ (tcp' = tcp /\ at # "idle"),
             packets' = << >> \/ (packets' = packets /\ at # "idle" /\ tcp' = tcp /\ tcp.at # "accept"),
             client.at # "idle" \/ packets' = << >>, client.at # "idle" \/ tcp'.at # "serve"
      PROVE  ClientInv' /\ ServerInv'
  <2>1. /\ client'.splits = 0
        /\ Truthful(client'.answer, client'.request, seen'["tcp"])
        /\ client'.answer.code > 0 => ~touched'["tcp"]
    BY <1>2, WholeMove
  <2>2. /\ client'.at = at /\ at # "waiting" /\ client'.answer = client.answer
        /\ client'.request = client.request /\ client'.transaction = client.transaction
        /\ client'.whole = client.whole
    BY <1>2 DEF Moves
  <2>3. ClientInv'
    BY <1>2, <2>1, <2>2 DEF ClientInv
  <2>4. ServerInv'
    BY <1>2, <2>2 DEF ServerInv, Pending
  <2> QED BY <2>3, <2>4
<1>3. client.at = "idle" => packets = << >> /\ tcp.at # "serve"
  BY DEF ClientInv, ServerInv, Pending
<1>4. CASE TcpServer!Accept
  <2>1. /\ tcp.at = "accept" /\ client.at = "connecting" /\ tcp'.at = "receive" /\ Moves("idle")
        /\ packets' = packets
    BY <1>4, MoveEffects
  <2>2. packets' = << >>
    BY <2>1 DEF ClientInv
  <2> QED BY <1>2, <2>1, <2>2
<1>5. CASE TcpServer!Close
  <2>1. /\ tcp'.at = "accept" /\ packets' = << >> /\ (Moves("connecting") \/ Moves("closed"))
    BY <1>5, MoveEffects
  <2> QED BY <1>2, <2>1
<1>6. CASE TcpServer!ReceiveFails
  <2>1. tcp.at = "receive" /\ tcp'.at = "close" /\ client' = client /\ packets' = packets
    BY <1>6, MoveEffects
  <2>2. Truthful(client.answer, client.request, seen'["tcp"])
    <3>1. CASE client.at = "waiting"
      BY <3>1, NoAnswerIsTrue DEF ClientInv
    <3>2. CASE client.at # "waiting"
      <4>1. seen'["tcp"] = seen["tcp"]
        BY <3>2 DEF Onlooks, Waits
      <4> QED BY <4>1 DEF ClientInv
    <3> QED BY <3>1, <3>2
  <2> QED BY <1>1, <2>1, <2>2 DEF ClientInv, ServerInv, Pending
<1>7. CASE TcpServer!Connect
  <2>1. client.at = "closed" /\ Moves("connecting") /\ tcp' = tcp /\ packets' = packets
    BY <1>7, MoveEffects
  <2>2. packets' = << >> \/ tcp.at # "accept"
    BY <2>1 DEF ClientInv
  <2> QED BY <1>2, <2>1, <2>2
<1>8. CASE TcpServer!Disconnect
  <2>1. client.at \in {"idle", "waiting"} /\ Moves("closed") /\ tcp' = tcp /\ packets' = packets
    BY <1>8, MoveEffects
  <2>2. packets' = << >> \/ tcp.at # "accept"
    BY <2>1 DEF ClientInv
  <2> QED BY <1>2, <1>3, <2>1, <2>2
<1> QED BY <1>4, <1>5, <1>6, <1>7, <1>8

(* The whole request is taken from its packet. *)
LEMMA WholeRequest ==
  ASSUME ConnectionInv, ClientInv, ServerInv, Onlooks("tcp"), TcpServer!ReceiveRequest
  PROVE  ClientInv' /\ ServerInv'
<1> DEFINE request == client.request
           adu == TcpServer!Adu(client.transaction, request)
           transaction == TcpServer!U16(Head(packets), 0)
           job == TcpServer!ProcessModbusRequest(Head(packets))
<1>1. /\ tcp.at = "receive" /\ packets # << >> /\ packets' = Tail(packets) /\ client' = client
      /\ tcp' = [at |-> "serve", transaction |-> transaction, job |-> job]
  BY DEF TcpServer!ReceiveRequest
<1>2. Pending /\ packets = <<adu>>
  BY <1>1 DEF ServerInv
<1>3. request \in TcpRequests /\ client.transaction \in Nat
  BY <1>2 DEF Pending, ConnectionInv
<1>4. Fresh(TcpServer!ProcessModbusRequest(adu), request)
  BY <1>3, AduServed
<1>5. TcpServer!U16(adu, 0) = client.transaction
  BY <1>3, AduType
<1>6. Head(packets) = adu /\ packets' = << >>
  <2> HIDE DEF adu
  <2>1. Head(<<adu>>) = adu /\ Tail(<<adu>>) = << >>
    OBVIOUS
  <2> QED BY <1>1, <1>2, <2>1
<1>7. Fresh(job, request) /\ transaction = client.transaction
  BY <1>4, <1>5, <1>6
<1> HIDE DEF request, adu, transaction, job
<1>8. tcp'.at = "serve" /\ tcp'.transaction = transaction /\ tcp'.job = job
  BY <1>1
<1>9. Takes(job, request) /\ Told(job, request, seen'["tcp"])
  BY <1>7, FreshTold
<1>10. touched'["tcp"] <=> touched["tcp"]
  BY DEF Onlooks
<1>11. client.at = "waiting" => ~touched'["tcp"]
  BY <1>1, <1>10 DEF ClientInv
<1>12. client.answer = NoAnswer /\ client.at # "idle"
  BY <1>2 DEF Pending
<1>13. ClientInv'
  BY <1>1, <1>6, <1>8, <1>12, NoAnswerIsTrue DEF ClientInv
<1>14. ServerInv'
  BY <1>1, <1>2, <1>6, <1>7, <1>8, <1>9, <1>11 DEF ServerInv, Pending, Earned, request
<1> QED BY <1>13, <1>14

(* A whole request is no fragment. *)
LEMMA NoFragment ==
  ASSUME ConnectionInv, ServerInv
  PROVE  ~TcpServer!ReceiveFragment
<1> SUFFICES ASSUME TcpServer!ReceiveFragment
             PROVE  FALSE
  OBVIOUS
<1> DEFINE adu == TcpServer!Adu(client.transaction, client.request)
<1>1. packets # << >> /\ Len(Head(packets)) < 8
  BY DEF TcpServer!ReceiveFragment
<1>2. packets = <<adu>> /\ client.request \in TcpRequests /\ client.transaction \in Nat
  BY <1>1 DEF ServerInv, Pending, ConnectionInv
<1>3. adu \in Seq(Nat) /\ Len(adu) >= 8
  BY <1>2, AduType
<1> HIDE DEF adu
<1>4. Head(packets) = adu /\ Len(adu) \in Nat
  BY <1>2, <1>3
<1> QED BY <1>1, <1>3, <1>4

(* A register of a request is read or written. *)
LEMMA WholeTcpAccess ==
  ASSUME ConnectionInv, RegistersInv, ClientInv, ServerInv,
         TcpServer!AccessRegister, Observed("tcp")
  PROVE  /\ ClientInv' /\ ServerInv'
         /\ holding' \in [0 .. HoldingMaxIndex -> Nat]
         /\ \A i \in 0 .. HoldingMaxIndex :
              holding'[i] # holding[i] => client.whole /\ Asked(client.request, i, holding'[i])
<1> DEFINE request == client.request
           job == tcp.job
           next == NextJob(job, holding)
<1>1. /\ tcp.at = "serve" /\ ~Finished(job) /\ tcp'.at = "serve" /\ tcp'.transaction = tcp.transaction
      /\ tcp'.job = next /\ holding' = NextHolding(job, holding)
      /\ packets' = packets /\ client' = client
  BY TcpAccessEffect
<1>2. /\ packets = << >> /\ Pending /\ tcp.transaction = client.transaction
      /\ Takes(job, request)
      /\ client.at = "waiting" => Told(job, request, seen["tcp"]) /\ Earned(job, "tcp")
  BY <1>1 DEF ServerInv
<1>3. client.whole /\ Sendable(request) /\ client.answer = NoAnswer
  BY <1>2, RequestsAssumption DEF Pending
<1>4. /\ holding \in [0 .. HoldingMaxIndex -> Nat] /\ "tcp" \in Clients
      /\ Waits("tcp") <=> client.at = "waiting"
  BY DEF RegistersInv, Clients, Waits
<1> HIDE DEF request, job, next
<1>5. Takes(next, request) /\ next.code = 0 /\ job.code = 0
  BY <1>1, <1>2, <1>3, <1>4, NextTakes DEF next
<1>6. /\ holding' \in [0 .. HoldingMaxIndex -> Nat]
      /\ holding' # holding => Writes(request.fc)
      /\ \A i \in 0 .. HoldingMaxIndex : holding'[i] # holding[i] => Asked(request, i, holding'[i])
  BY <1>1, <1>2, <1>3, <1>4, NextRegisters
<1>7. /\ \A i \in 0 .. HoldingMaxIndex : seen["tcp"][i] \subseteq seen'["tcp"][i]
      /\ Waits("tcp") => \A i \in 0 .. HoldingMaxIndex : holding'[i] \in seen'["tcp"][i]
      /\ touched'["tcp"] <=> touched["tcp"] \/ holding' # holding
  BY <1>4, <1>6, ObservedEffect
<1>8. job.fc = request.fc /\ next.fc = request.fc
  BY <1>2, <1>5, TakesItsFunction
<1>9. ASSUME client.at = "waiting"
      PROVE  Told(next, request, seen'["tcp"]) /\ (touched'["tcp"] => Writes(next.fc))
  <2>1. Told(next, request, seen'["tcp"])
    BY <1>1, <1>2, <1>3, <1>4, <1>7, <1>9, NextTold DEF next
  <2>2. touched["tcp"] => Writes(job.fc)
    BY <1>2, <1>9 DEF Earned
  <2> QED BY <1>6, <1>7, <1>8, <2>1, <2>2
<1>10. client.at # "idle"
  BY <1>2 DEF Pending
<1>11. ClientInv'
  BY <1>1, <1>2, <1>3, <1>10, NoAnswerIsTrue DEF ClientInv
<1>12. ServerInv'
  BY <1>1, <1>2, <1>5, <1>9 DEF ServerInv, Pending, Earned, request
<1> QED BY <1>3, <1>6, <1>11, <1>12 DEF request

(* The response tells the client what has been done. *)
LEMMA WholeTcpResponse ==
  ASSUME ConnectionInv, ClientInv, ServerInv, Onlooks("tcp"), TcpServer!SendResponse
  PROVE  ClientInv' /\ ServerInv'
<1> DEFINE request == client.request
           job == tcp.job
<1>1. /\ tcp.at = "serve" /\ Finished(job) /\ tcp'.at = "receive" /\ packets' = packets
      /\ IF client.at = "waiting" /\ client.transaction = tcp.transaction
         THEN /\ client'.at = "idle" /\ client'.answer = Answer(job)
              /\ client'.request = request /\ client'.splits = client.splits
         ELSE client' = client
  BY TcpSendEffect
<1>2. /\ packets = << >> /\ Pending /\ tcp.transaction = client.transaction
      /\ Takes(job, request)
      /\ client.at = "waiting" => Told(job, request, seen["tcp"]) /\ Earned(job, "tcp")
  BY <1>1 DEF ServerInv
<1>3. Sendable(request) /\ client.answer = NoAnswer /\ client.at # "idle"
  BY <1>2, RequestsAssumption DEF Pending
<1>4. /\ \A i \in 0 .. HoldingMaxIndex : seen["tcp"][i] \subseteq seen'["tcp"][i]
      /\ touched'["tcp"] <=> touched["tcp"]
  BY DEF Onlooks
<1>5. ServerInv'
  BY <1>1, <1>2 DEF ServerInv
<1> HIDE DEF request, job
<1>6. CASE client.at = "waiting"
  <2>1. Told(job, request, seen["tcp"]) /\ (touched["tcp"] => job.code = 0)
    BY <1>2, <1>6 DEF Earned
  <2>2. Told(job, request, seen'["tcp"])
    BY <1>2, <1>3, <1>4, <2>1, ToldMore
  <2>3. Truthful(Answer(job), request, seen'["tcp"]) /\ Answer(job).code = job.code
    BY <1>1, <1>2, <1>3, <2>2, Answered
  <2>4. Answer(job).code > 0 => ~touched'["tcp"]
    BY <1>4, <2>1, <2>3
  <2>5. /\ client'.at = "idle" /\ client'.answer = Answer(job)
        /\ client'.request = request /\ client'.splits = client.splits
    BY <1>1, <1>2, <1>6
  <2>6. ClientInv'
    BY <1>1, <1>2, <2>3, <2>4, <2>5 DEF ClientInv
  <2> QED BY <1>5, <2>6
<1>7. CASE client.at # "waiting"
  <2>1. client' = client
    BY <1>1, <1>7
  <2>2. ClientInv'
    BY <1>1, <1>2, <1>3, <1>7, <2>1, NoAnswerIsTrue DEF ClientInv
  <2> QED BY <1>5, <2>2
<1> QED BY <1>6, <1>7

(* A new request is the only packet of its connection. *)
LEMMA WholeClientSends ==
  ASSUME Undisturbed, ConnectionInv, RegistersInv, ClientInv, ServerInv,
         TcpServer!ClientSends, Sent("tcp")
  PROVE  ClientInv' /\ ServerInv'
<1>1. /\ client.at = "idle" /\ tcp' = tcp /\ holding' = holding
      /\ client'.at = "waiting" /\ client'.answer = NoAnswer /\ client'.request \in TcpRequests
      /\ \/ /\ client'.whole /\ client'.splits = client.splits
            /\ packets' = packets \o <<TcpServer!Adu(client'.transaction, client'.request)>>
         \/ client.splits < MaxSplits
  BY ClientSendsEffect
<1>2. client.splits = 0 /\ ~(client.splits < MaxSplits)
  BY DEF ClientInv, Undisturbed
<1> DEFINE adu == TcpServer!Adu(client'.transaction, client'.request)
<1>3. client'.whole /\ client'.splits = 0 /\ packets' = packets \o <<adu>>
  BY <1>1, <1>2
<1>4. packets = << >> /\ tcp.at # "serve" /\ tcp.at # "accept"
  BY <1>1 DEF ClientInv, ServerInv, Pending, ConnectionInv
<1>5. packets' = <<adu>>
  <2> HIDE DEF adu
  <2>1. << >> \o <<adu>> = <<adu>>
    OBVIOUS
  <2> QED BY <1>3, <1>4, <2>1
<1>6. ~touched'["tcp"]
  <2>1. touched \in [Clients -> BOOLEAN] /\ "tcp" \in Clients
    BY DEF RegistersInv, Clients
  <2> QED BY <2>1, TouchedSent
<1>7. ClientInv'
  BY <1>1, <1>3, <1>4, <1>6, NoAnswerIsTrue DEF ClientInv
<1>8. ServerInv'
  BY <1>1, <1>3, <1>4, <1>5 DEF ServerInv, Pending
<1> QED BY <1>7, <1>8

(* The steps of an undisturbed connection. *)
LEMMA WholeConnection ==
  ASSUME Undisturbed, ConnectionInv, RegistersInv, ClientInv, ServerInv, TcpNext
  PROVE  /\ RegistersInv' /\ ClientInv' /\ ServerInv'
         /\ holding' \in [0 .. HoldingMaxIndex -> Nat]
         /\ \A i \in 0 .. HoldingMaxIndex :
              holding'[i] # holding[i] => client.whole /\ Asked(client.request, i, holding'[i])
<1>1. "tcp" \in Clients /\ master' = master /\ holding \in [0 .. HoldingMaxIndex -> Nat]
  BY DEF Clients, TcpNext, rtuVars, RegistersInv
<1>2. ASSUME Observed("tcp"), holding' \in [0 .. HoldingMaxIndex -> Nat],
             client'.at = "waiting" => client.at = "waiting"
      PROVE  RegistersInv'
  <2>1. \A c \in Clients : Waits(c)' => Waits(c)
    BY <1>1, <1>2 DEF Waits
  <2> QED BY <1>1, <1>2, <2>1, ObservedStep
<1>3. ASSUME Observed("tcp"), holding' = holding PROVE Onlooks("tcp")
  BY <1>1, <1>3, OnlookerEffect
<1>4. CASE /\ Observed("tcp")
           /\ \/ TcpServer!Accept \/ TcpServer!Close \/ TcpServer!ReceiveFails
              \/ TcpServer!Connect \/ TcpServer!Disconnect
  <2>1. holding' = holding /\ (client'.at = "waiting" => client.at = "waiting")
    BY <1>4, MoveEffects DEF Moves
  <2> QED BY <1>1, <1>2, <1>3, <1>4, <2>1, WholeMoves
<1>5. ~TcpServer!ReceiveFragment
  BY NoFragment
<1>6. CASE TcpServer!ReceiveRequest /\ Observed("tcp")
  <2>1. holding' = holding /\ client' = client
    BY <1>6 DEF TcpServer!ReceiveRequest
  <2> QED BY <1>1, <1>2, <1>3, <1>6, <2>1, WholeRequest
<1>7. CASE TcpServer!AccessRegister /\ Observed("tcp")
  <2>1. client' = client
    BY <1>7, TcpAccessEffect
  <2> QED BY <1>2, <1>7, <2>1, WholeTcpAccess
<1>8. CASE TcpServer!SendResponse /\ Observed("tcp")
  <2>1. holding' = holding /\ (client'.at = "waiting" => client.at = "waiting")
    BY <1>8, TcpSendEffect
  <2> QED BY <1>1, <1>2, <1>3, <1>8, <2>1, WholeTcpResponse
<1>9. CASE TcpServer!ClientSends /\ Sent("tcp")
  <2>1. holding' = holding
    BY <1>9, ClientSendsEffect
  <2>2. \A c \in Clients : c # "tcp" /\ Waits(c)' => Waits(c)
    BY <1>1 DEF Waits, Clients
  <2>3. RegistersInv'
    BY <1>1, <1>9, <2>1, <2>2, SentStep
  <2> QED BY <1>1, <1>9, <2>1, <2>3, WholeClientSends
<1> QED BY <1>4, <1>5, <1>6, <1>7, <1>8, <1>9 DEF TcpNext, TcpServer!TcpServes

(* To either client, the other's steps are steps to look on. *)
LEMMA OthersLookOn ==
  ASSUME RegistersInv, holding' \in [0 .. HoldingMaxIndex -> Nat]
  PROVE  /\ TcpNext => Onlooks("rtu")
         /\ RtuNext => Onlooks("tcp")
<1>1. "rtu" \in Clients /\ "tcp" \in Clients /\ "rtu" # "tcp"
  BY DEF Clients
<1>2. ASSUME TcpNext PROVE Onlooks("rtu")
  <2>1. Observed("tcp") \/ (Sent("tcp") /\ holding' = holding)
    BY <1>2 DEF TcpNext, TcpServer!ClientSends, TcpServer!Request
  <2> QED BY <1>1, <2>1, OnlookerEffect
<1>3. ASSUME RtuNext PROVE Onlooks("tcp")
  <2>1. Observed("rtu") \/ (Sent("rtu") /\ holding' = holding)
    BY <1>3 DEF RtuNext, RtuServer!MasterSends, RtuServer!Transmit
  <2> QED BY <1>1, <2>1, OnlookerEffect
<1> QED BY <1>2, <1>3

(* The invariant of the two servers, their clients and the registers.      *)
WholeInv ==
  /\ LineInv /\ SilenceInv /\ ConnectionInv
  /\ RegistersInv /\ MasterInv /\ SlaveInv /\ ClientInv /\ ServerInv

(* At first nothing is asked for and nothing is on its way. *)
LEMMA WholeInit ==
  ASSUME Init
  PROVE  WholeInv
<1> DEFINE no == FALSE
           job == RtuServer!NoJob
           first == CHOOSE r \in RtuRequests : TRUE
           served == TcpServer!NoJob
           second == CHOOSE r \in TcpRequests : TRUE
<1>1. /\ rtu = [buf |-> << >>, serving |-> no, job |-> job] /\ line = << >>
      /\ master = [waiting |-> no, request |-> first, intact |-> no, clean |-> no, faults |-> 0,
                   answer |-> NoAnswer]
  BY SameService DEF Init, RtuServer!RtuInit
<1>2. /\ tcp = [at |-> "accept", transaction |-> 0, job |-> served] /\ packets = << >>
      /\ client = [at |-> "closed", request |-> second, transaction |-> 0,
                   whole |-> no, splits |-> 0, answer |-> NoAnswer]
  BY SameService DEF Init, TcpServer!TcpInit
<1>3. ~no /\ no \in BOOLEAN
  OBVIOUS
<1> HIDE DEF no, job, first, served, second
<1>4. /\ rtu.serving = no /\ rtu.buf = << >>
      /\ master.waiting = no /\ master.faults = 0 /\ master.answer = NoAnswer
  BY <1>1
<1>5. tcp.at = "accept" /\ client.at = "closed" /\ client.splits = 0 /\ client.answer = NoAnswer
  BY <1>2
<1>6. /\ holding = [i \in 0 .. HoldingMaxIndex |-> 0]
      /\ seen = [c \in Clients |-> [i \in 0 .. HoldingMaxIndex |-> {0}]]
      /\ touched = [c \in Clients |-> FALSE]
  BY DEF Init
<1>7. RegistersInv
  <2>1. \A c \in Clients : ~Waits(c)
    BY <1>3, <1>4, <1>5 DEF Waits
  <2> QED BY <1>6, <2>1 DEF RegistersInv
<1>8. MasterInv /\ SlaveInv
  BY <1>1, <1>3, <1>4, NoAnswerIsTrue DEF MasterInv, SlaveInv
<1>9. ClientInv /\ ServerInv
  BY <1>2, <1>5, NoAnswerIsTrue DEF ClientInv, ServerInv
<1> QED BY <1>7, <1>8, <1>9, InitInv, SilenceInit DEF WholeInv

(* Every step keeps all of it, and writes only what is asked for. *)
LEMMA WholeSteps ==
  ASSUME Undisturbed, WholeInv, [Next]_vars
  PROVE  /\ WholeInv'
         /\ \A i \in DOMAIN holding :
              holding'[i] # holding[i] =>
                \/ /\ tcp' = tcp /\ master.intact /\ master.request.slave = SlaveId
                   /\ Asked(master.request, i, holding'[i])
                \/ rtu' = rtu /\ client.whole /\ Asked(client.request, i, holding'[i])
<1>1. /\ LineInv /\ SilenceInv /\ ConnectionInv
      /\ RegistersInv /\ MasterInv /\ SlaveInv /\ ClientInv /\ ServerInv
  BY DEF WholeInv
<1>2. DOMAIN holding = 0 .. HoldingMaxIndex
  BY <1>1 DEF RegistersInv
<1>3. CASE RtuNext
  <2>1. UNCHANGED tcpVars /\ tcp' = tcp
    BY <1>3 DEF RtuNext, tcpVars
  <2>2. /\ RegistersInv' /\ MasterInv' /\ SlaveInv'
        /\ \A i \in 0 .. HoldingMaxIndex : holding'[i] # holding[i] =>
             /\ master.intact /\ master.request.slave = SlaveId
             /\ Asked(master.request, i, holding'[i])
    BY <1>1, <1>3, WholeLine
  <2>3. LineInv' /\ SilenceInv' /\ ConnectionInv'
    BY <1>1, <1>3, <2>1, RtuSteps, SilenceSteps, ConnectionStutter
  <2>4. Onlooks("tcp")
    BY <1>1, <1>3, <2>2, OthersLookOn DEF RegistersInv
  <2>5. ClientInv' /\ ServerInv'
    BY <1>1, <2>1, <2>4, ConnectionLooksOn
  <2> QED BY <1>2, <2>1, <2>2, <2>3, <2>5 DEF WholeInv
<1>4. CASE TcpNext
  <2>1. UNCHANGED rtuVars /\ rtu' = rtu /\ master' = master
    BY <1>4 DEF TcpNext, rtuVars
  <2>2. /\ RegistersInv' /\ ClientInv' /\ ServerInv'
        /\ holding' \in [0 .. HoldingMaxIndex -> Nat]
        /\ \A i \in 0 .. HoldingMaxIndex :
             holding'[i] # holding[i] => client.whole /\ Asked(client.request, i, holding'[i])
    BY <1>1, <1>4, WholeConnection
  <2>3. LineInv' /\ SilenceInv' /\ ConnectionInv'
    BY <1>1, <1>4, <2>1, TcpSteps, SilenceStutter, LineStutter
  <2>4. Onlooks("rtu")
    BY <1>1, <1>4, <2>2, OthersLookOn
  <2>5. MasterInv' /\ SlaveInv'
    BY <1>1, <2>1, <2>4, MasterLooksOn, SlaveLooksOn
  <2> QED BY <1>2, <2>1, <2>2, <2>3, <2>5 DEF WholeInv
<1>5. CASE UNCHANGED vars
  <2>1. /\ holding' = holding /\ seen' = seen /\ touched' = touched
        /\ rtu' = rtu /\ line' = line /\ master' = master
        /\ tcp' = tcp /\ packets' = packets /\ client' = client
        /\ UNCHANGED rtuVars /\ UNCHANGED tcpVars
    BY <1>5 DEF vars, rtuVars, tcpVars
  <2>2. LineInv' /\ ConnectionInv'
    BY <1>1, <2>1, LineStutter, ConnectionStutter
  <2>3. SilenceInv' /\ RegistersInv'
    BY <1>1, <2>1 DEF SilenceInv, RegistersInv, Waits
  <2>4. MasterInv' /\ SlaveInv'
    BY <1>1, <2>1 DEF MasterInv, SlaveInv, Earned
  <2>5. ClientInv' /\ ServerInv'
    BY <1>1, <2>1 DEF ClientInv, ServerInv, Pending, Earned
  <2> QED BY <2>1, <2>2, <2>3, <2>4, <2>5 DEF WholeInv
<1> QED BY <1>3, <1>4, <1>5 DEF Next

(* Without disturbances no request is cut, and none of the exceptions of   *)
(* the three properties below occurs over TCP.                             *)
LEMMA NoRestIsServed == ASSUME Undisturbed PROVE Spec => []~RestMayBeServed
<1>1. Init => WholeInv
  BY WholeInit
<1>2. WholeInv /\ [Next]_vars => WholeInv'
  BY WholeSteps
<1>3. WholeInv => ~RestMayBeServed
  BY DEF WholeInv, ClientInv, RestMayBeServed
<1> QED BY <1>1, <1>2, <1>3, PTL DEF Spec

(* Without disturbances, a register changes only to what a client asked    *)
(* for in the request that is being served, for all requests that clients  *)
(* may send and whatever else the other client and its server do.  Nor is  *)
(* there an exception (NoRestIsServed).                                    *)
THEOREM WritesAreAskedFor == ASSUME Undisturbed PROVE Spec => AskedFor
<1>1. Init => WholeInv
  BY WholeInit
<1>2. WholeInv /\ [Next]_vars => WholeInv'
  BY WholeSteps
<1>3. WholeInv /\ [Next]_vars =>
        [\A i \in DOMAIN holding :
           holding'[i] # holding[i] =>
             \/ /\ tcp' = tcp /\ master.intact /\ master.request.slave = SlaveId
                /\ Asked(master.request, i, holding'[i])
             \/ /\ rtu' = rtu
                /\ \/ client.whole /\ Asked(client.request, i, holding'[i])
                   \/ RestMayBeServed]_vars
  BY WholeSteps
<1> QED BY <1>1, <1>2, <1>3, PTL DEF Spec, AskedFor

(* Without disturbances, a positive answer is true: each value in it has   *)
(* been in its register at some time since the request, although the other *)
(* server may write between the accesses of one request.                   *)
THEOREM AnswersAreTrue == ASSUME Undisturbed PROVE Spec => []AnswerIsTrue
<1>1. Init => WholeInv
  BY WholeInit
<1>2. WholeInv /\ [Next]_vars => WholeInv'
  BY WholeSteps
<1>3. WholeInv => AnswerIsTrue
  <2> SUFFICES ASSUME WholeInv, NEW c \in Clients
               PROVE  Truthful(AnswerOf(c), RequestOf(c), seen[c])
    BY Zenon DEF AnswerIsTrue, Truthful
  <2>1. /\ Truthful(master.answer, master.request, seen["rtu"])
        /\ Truthful(client.answer, client.request, seen["tcp"])
    BY DEF WholeInv, MasterInv, ClientInv
  <2> QED BY <2>1 DEF Clients, AnswerOf, RequestOf
<1> QED BY <1>1, <1>2, <1>3, PTL DEF Spec

(* Without disturbances, a request that was refused, and one of the serial *)
(* line that was not answered, has written nothing.                        *)
THEOREM WritesAreConfirmed == ASSUME Undisturbed PROVE Spec => []OnlyConfirmedWrites
<1>1. Init => WholeInv
  BY WholeInit
<1>2. WholeInv /\ [Next]_vars => WholeInv'
  BY WholeSteps
<1>3. WholeInv => OnlyConfirmedWrites
  <2> SUFFICES ASSUME WholeInv
               PROVE  OnlyConfirmedWrites
    OBVIOUS
  <2>1. touched["rtu"] /\ ~master.waiting => master.answer # NoAnswer
    BY DEF WholeInv, SilenceInv
  <2>2. /\ master.answer.code > 0 => ~touched["rtu"]
        /\ client.answer.code > 0 => ~touched["tcp"]
    BY DEF WholeInv, MasterInv, ClientInv
  <2> QED BY <2>1, <2>2 DEF OnlyConfirmedWrites, Clients, AnswerOf
<1> QED BY <1>1, <1>2, <1>3, PTL DEF Spec
=============================================================================
