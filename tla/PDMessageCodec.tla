---------------------------- MODULE PDMessageCodec ----------------------------
(***************************************************************************)
(* Messages on the CC line: usb_pd/PDMessageEncoder.cpp turns a message    *)
(* into half bits, PDMessageDecoder.cpp gets it back from the time stamps  *)
(* of the line's edges, which its caller captures and passes in chunks.    *)
(* The line carries frames that are intact, that have lost or gained edges *)
(* by a glitch, and glitches alone, with a gap after each.                 *)
(* The payload is a sequence without a bound: PDMessageDecoder.cpp:213-222 *)
(* writes each nibble into the message whatever the buffer's size, and     *)
(* what a longer packet overwrites there is not modelled.                  *)
(***************************************************************************)
EXTENDS Integers, Sequences, FiniteSetsExt, SequencesExt

CONSTANTS
  Frames,      \* what is sent: a start of packet sequence, header and objects in nibbles
  Damageable,  \* frames that may be damaged
  Ticks,       \* half bits, in ticks of the time stamps
  Glitches,    \* edges that are not part of a frame
  Gaps,        \* pauses on the line
  Chunks,      \* numbers of time stamps that are passed at once
  TimeMod,     \* the time stamps wrap around
  Discards,    \* does the caller discard what is unfinished in a gap?
  MaxFrames, MaxFaults    \* bounds: what the line carries, and damages

ASSUME CodecAssumption ==
  /\ Ticks \subseteq {4, 5, 6}      \* short up to 6, long from 7 to 12
  /\ Chunks \subseteq Nat \ {0} /\ TimeMod \in Nat \ {0} /\ Discards \in BOOLEAN
  /\ \A frame \in Frames :
        LET m == frame.payload
        IN  IF frame.sop \in {"hardReset", "cableReset"} THEN m = <<>>
            ELSE m \in Seq(0 .. 15) /\ Len(m) = 4 + 8 * (m[4] % 8)
  /\ \A gap \in Gaps : gap \in Nat /\ gap % TimeMod > 12
  /\ MaxFrames \in Nat /\ MaxFaults \in Nat

VARIABLES
  line,       \* what is on it, and what the decoder has got of it
  dec,        \* PDMessageDecoder
  reports     \* what the decoder has reported of it

vars == <<line, dec, reports>>

----------------------------------------------------------------------------
(* The encoder.  Words are sent from the least significant bit on.         *)

SopSymbols ==
  [sop |-> <<"SYNC1", "SYNC1", "SYNC1", "SYNC2">>,
   sop1 |-> <<"SYNC1", "SYNC1", "SYNC3", "SYNC3">>,
   sop2 |-> <<"SYNC1", "SYNC3", "SYNC1", "SYNC3">>,
   sop1Debug |-> <<"SYNC1", "RST2", "RST2", "SYNC3">>,
   sop2Debug |-> <<"SYNC1", "RST2", "SYNC3", "SYNC2">>,
   hardReset |-> <<"RST1", "RST1", "RST1", "RST2">>,
   cableReset |-> <<"RST1", "SYNC1", "RST1", "SYNC3">>]

Resets == {"hardReset", "cableReset"}

SymbolBitstreams ==
  [SYNC1 |-> \h2b3, SYNC2 |-> \h2cd, SYNC3 |-> \h32b, RST1 |-> \hd5, RST2 |-> \h14d, EOP |-> \had]

DataBitstreams ==
  <<\h2ab, \h34d, \h2d3, \h12d, \h34b, \hb5, \hab, \h355,
    \h2cb, \h135, \h12b, \h2d5, \h14b, \h2b5, \h153, \h2ad>>

Bits(word, width) == [i \in 1 .. width |-> (word \div 2 ^ (i - 1)) % 2]

(* A symbol is inverted when the bit before it has ended high.             *)
AddBits(levels, word) ==
  LET flip == Last(levels)
  IN  levels \o [i \in 1 .. 10 |-> (Bits(word, 10)[i] + flip) % 2]

Preamble == FlattenSeq([i \in 1 .. 16 |-> Bits(180, 8)])

(* The line ends low, at the end of a byte. *)
Finished(levels) ==
  LET high == levels \o (IF Last(levels) = 0 THEN <<1, 1>> ELSE <<>>)
  IN  high \o [i \in 1 .. 8 - (Len(high) % 8) |-> 0]

(* Any sum of 32 bits over all nibbles and their places will do.           *)
CRC32(nibbles) ==
  [j \in 1 .. 8 |-> MapThenSumSet(LAMBDA i : (i + j) * (nibbles[i] + 1), DOMAIN nibbles) % 16]

Symbols(frame) ==
  LET named(s) == [i \in DOMAIN s |-> SymbolBitstreams[s[i]]]
      payload == frame.payload \o CRC32(frame.payload)
      data == [i \in DOMAIN payload |-> DataBitstreams[payload[i] + 1]]
  IN  named(SopSymbols[frame.sop])
        \o IF frame.sop \in Resets THEN <<>> ELSE data \o named(<<"EOP">>)

(* The resets, which end with their four symbols, come from the partner.   *)
Encode(frame) == Finished(FoldLeft(AddBits, Preamble, Symbols(frame)))

----------------------------------------------------------------------------
(* The line. *)

(* In half bits.  The line is high while nobody drives it.                 *)
Edges(frame) ==
  LET levels == <<1>> \o Encode(frame) \o <<1>>
      edges == SelectSeq([i \in 1 .. Len(levels) - 1 |-> i], LAMBDA i : levels[i] # levels[i + 1])
  IN  [i \in DOMAIN edges |-> edges[i] - edges[1]]

FramesWithEdges == {<<frame, Edges(frame)>> : frame \in Frames}

NoFrame == [sop |-> "none", payload |-> <<>>]

(* An edge gets lost, or two more come within a pulse.                     *)
Lost(times, at) == RemoveAt(times, at)
Disturbed(times, at) ==
  SubSeq(times, 1, at) \o <<times[at] + 1, times[at] + 2>> \o SubSeq(times, at + 1, Len(times))

Idle == line.next > Len(line.times)

----------------------------------------------------------------------------
(* The decoder.  Symbols are those of its enumeration.                     *)

Sync1 == 16
Sync2 == 32
Sync3 == 48
Rst1 == 64
Rst2 == 80
EOP == 96
Error == 112

Decode4b5bTab ==
  <<Error, Error, Error, Sync1, Error, 2, Error, 14,
    Error, 8, 4, 12, Sync3, 10, 6, 0,
    Error, Sync2, 1, Rst2, Error, 3, EOP, 15,
    Error, 9, 5, 13, Rst1, 11, 7, Error>>

IsShort(value) == value <= 6
IsLong(value) == value \in 7 .. 12
IsGap(value) == value > 12
IsData(symbol) == symbol \div 16 = 0
IsSOP(symbol) == symbol \div 16 \in 1 .. 5

PayloadLenPreamble == -5
PayloadLenSOP == -4

(* Variant: without isHalfBit. *)
ResetInBit(d) ==
  [d EXCEPT !.preambleIndex = 0, !.partialSymbol = 0, !.numBitsOfSymbol = 0,
            !.payloadLen = PayloadLenPreamble]

Reset(d) ==
  [d EXCEPT !.preambleIndex = 0, !.partialSymbol = 0, !.numBitsOfSymbol = 0,
            !.payloadLen = PayloadLenPreamble, !.isHalfBit = FALSE]

Result(d, result) == [d EXCEPT !.result = result]

(* A start that does not look like the preamble is ignored (:100, :126).   *)
Irregular(d) ==
  IF d.preambleIndex <= 2 THEN [d EXCEPT !.preambleIndex = 0] ELSE Result(d, "invalid")

StartsSOP(d, bits, halfBit) ==
  [d EXCEPT !.payloadLen = PayloadLenSOP, !.partialSymbol = 0,
            !.numBitsOfSymbol = bits, !.isHalfBit = halfBit]

(* Even bits are long and odd ones are two short pulses, until a Sync-1 or *)
(* a Rst-1 breaks the rule.                                                *)
DecodePreamble(d, value) ==
  LET even == d.preambleIndex % 2 = 0
      late == d.preambleIndex \in 63 .. 67
  IN  CASE even /\ IsLong(value) ->
             IF d.isHalfBit THEN Irregular(d) ELSE [d EXCEPT !.preambleIndex = @ + 1]
        [] ~even /\ IsShort(value) ->
             [d EXCEPT !.preambleIndex = IF d.isHalfBit THEN @ + 1 ELSE @, !.isHalfBit = ~@]
        [] ~even /\ IsLong(value) /\ late /\ ~d.isHalfBit -> StartsSOP(d, 2, FALSE)
        [] even /\ IsShort(value) /\ late /\ ~d.isHalfBit -> StartsSOP(d, 0, TRUE)
        [] OTHER -> Irregular(d)

CombinedSymbols(s) ==
  CASE s = <<Sync1, Sync1, Sync1, Sync2>> -> "sop"
    [] s = <<Sync1, Sync1, Sync3, Sync3>> -> "sop1"
    [] s = <<Sync1, Sync3, Sync1, Sync3>> -> "sop2"
    [] s = <<Sync1, Rst2, Rst2, Sync3>> -> "sop1Debug"
    [] s = <<Sync1, Rst2, Sync3, Sync2>> -> "sop2Debug"
    [] s = <<Sync1, Sync1, Sync1, Sync3>> -> "sop"
    [] s = <<Rst1, Rst1, Rst1, Rst2>> -> "hardReset"
    [] s = <<Rst1, Sync1, Rst1, Sync3>> -> "cableReset"
    [] OTHER -> "invalid"

DecodeSOP(d) ==
  LET sop == CombinedSymbols(d.startSymbols)
  IN  IF sop \in Resets \union {"invalid"} THEN Result(d, sop) ELSE [d EXCEPT !.sopSequence = sop]

(* Variant: the length and the sum are taken for granted. *)
CheckNothing(d) == Result(d, "completeMessage")

CheckMessage(d) ==
  LET length == Len(d.payload)
      content == SubSeq(d.payload, 1, length - 8)
      good == /\ length >= 12 /\ length % 2 = 0
              /\ length = 12 + 8 * (d.payload[4] % 8)
              /\ SubSeq(d.payload, length - 7, length) = CRC32(content)
  IN  Result(d, IF good THEN "completeMessage" ELSE "invalid")

DecodeSymbol(d, symbol) ==
  CASE d.payloadLen >= 0 /\ IsData(symbol) ->
         [d EXCEPT !.payload = SubSeq(@, 1, d.payloadLen) \o <<symbol>>, !.payloadLen = @ + 1]
    [] d.payloadLen >= 0 /\ symbol = EOP -> CheckMessage(d)
    [] d.payloadLen < 0 /\ IsSOP(symbol) ->
         LET s == [d EXCEPT !.startSymbols[d.payloadLen + 5] = symbol, !.payloadLen = @ + 1,
                            !.payload = <<>>]
         IN  IF s.payloadLen = 0 THEN DecodeSOP(s) ELSE s
    [] OTHER -> Result(d, "invalid")

(* A bit is complete: 1 after two short pulses, 0 after a long one.        *)
DecodeBit(d, bit) ==
  LET symbol == 2 * d.partialSymbol + bit
      s == [d EXCEPT !.partialSymbol = 0, !.numBitsOfSymbol = 0]
  IN  IF d.numBitsOfSymbol = 4
      THEN DecodeSymbol(s, Decode4b5bTab[symbol + 1])
      ELSE [d EXCEPT !.partialSymbol = symbol, !.numBitsOfSymbol = @ + 1]

DecodeSymbols(d, value) ==
  CASE IsShort(value) ->
         LET s == [d EXCEPT !.isHalfBit = ~@] IN IF d.isHalfBit THEN DecodeBit(s, 1) ELSE s
    [] IsLong(value) /\ ~d.isHalfBit -> DecodeBit(d, 0)
    [] OTHER -> Result(d, "invalid")

(* decodeChunk works on a copy: `last` is the latest time stamp, lastValue *)
(* the one that is stored when a function returns, which an error or a     *)
(* result leaves as it was.                                                *)
Call(d) ==
  [d |-> Result(d, IF d.result = "invalid" THEN "invalid" ELSE "incomplete"),
   last |-> d.lastValue, skips |-> d.result = "invalid", processed |-> 0]

Stopped(c) == ~c.skips /\ c.d.result # "incomplete"

SkipToEOM(c, value) ==
  IF IsGap(value)
  THEN [c EXCEPT !.skips = FALSE, !.d.result = "incomplete", !.d.lastValue = c.last]
  ELSE c

Decodes(c, value) ==
  LET preamble == c.d.payloadLen = PayloadLenPreamble
      d == IF preamble THEN DecodePreamble(c.d, value) ELSE DecodeSymbols(c.d, value)
  IN  CASE d.result # "incomplete" -> [c EXCEPT !.d = Reset(d)]
        [] preamble /\ d.payloadLen = PayloadLenSOP -> [c EXCEPT !.d = [d EXCEPT !.lastValue = c.last]]
        [] OTHER -> [c EXCEPT !.d = d]

Process(c, time) ==
  LET value == (time - c.last) % TimeMod
      s == [c EXCEPT !.last = time, !.processed = @ + 1]
  IN  CASE Stopped(c) -> c
        [] c.skips -> SkipToEOM(s, value)
        [] OTHER -> Decodes(s, value)

Returned(c) == IF Stopped(c) THEN c.d ELSE [c.d EXCEPT !.lastValue = c.last]

----------------------------------------------------------------------------
Init ==
  /\ line = [frame |-> NoFrame, intact |-> FALSE, times |-> <<>>, next |-> 1,
             discarded |-> TRUE, frames |-> 0, faults |-> 0]
  /\ dec = Reset([result |-> "incomplete", lastValue |-> 0, preambleIndex |-> 0,
                  partialSymbol |-> 0, numBitsOfSymbol |-> 0, payloadLen |-> PayloadLenPreamble,
                  isHalfBit |-> FALSE, startSymbols |-> <<0, 0, 0, 0>>,
                  sopSequence |-> "none", payload |-> <<>>])
  /\ reports = <<>>

Silent == Idle /\ (Discards => line.discarded) /\ line.frames < MaxFrames

(* A gap, and something new.  Only differences of times matter: its first  *)
(* edge is at time 0.                                                      *)
Carry(frame, intact, times) ==
  /\ line' = [frame |-> frame, intact |-> intact, times |-> times, next |-> 1, discarded |-> FALSE,
              frames |-> line.frames + 1, faults |-> line.faults + IF intact THEN 0 ELSE 1]
  /\ LET end == IF line.times = <<>> THEN 0 ELSE Last(line.times)
     IN  \E gap \in Gaps : dec' = [dec EXCEPT !.lastValue = (@ - end - gap) % TimeMod]
  /\ reports' = <<>>

InTicks(edges, ticks) == [i \in DOMAIN edges |-> edges[i] * ticks]

CarryFrame ==
  /\ Silent
  /\ \E carried \in FramesWithEdges, ticks \in Ticks :
       Carry(carried[1], TRUE, InTicks(carried[2], ticks))

CarryDamaged ==
  /\ Silent /\ line.faults < MaxFaults
  /\ \E carried \in FramesWithEdges, ticks \in Ticks :
       /\ carried[1] \in Damageable
       /\ LET times == InTicks(carried[2], ticks)
          IN  \E at \in DOMAIN times : \E damaged \in {Lost(times, at), Disturbed(times, at)} :
                Carry(carried[1], FALSE, damaged)

CarryGlitch ==
  /\ Silent /\ line.faults < MaxFaults
  /\ \E glitch \in Glitches : Carry(NoFrame, FALSE, glitch)

DecodeChunk ==
  /\ ~Idle
  /\ \E n \in Chunks :
       LET length == Min({n, Len(line.times) - line.next + 1})
           after[i \in 0 .. length] ==
             IF i = 0 THEN Call(dec) ELSE Process(after[i - 1], line.times[line.next + i - 1])
           c == after[length]
           d == Returned(c)
       IN  /\ dec' = d
           /\ line' = [line EXCEPT !.next = @ + c.processed]
           /\ reports' =
                CASE d.result \in Resets -> Append(reports, [sop |-> d.result, payload |-> <<>>])
                  [] d.result = "completeMessage" ->
                       Append(reports, [sop |-> d.sopSequence,
                                        payload |-> SubSeq(d.payload, 1, Len(d.payload) - 8)])
                  [] OTHER -> reports

(* The caller notices the gap.  The stale lastValue stays.                 *)
DiscardMessage ==
  /\ Discards /\ Idle /\ ~line.discarded
  /\ dec' = Reset(Result(dec, "incomplete"))
  /\ line' = [line EXCEPT !.discarded = TRUE]
  /\ UNCHANGED reports

Next == CarryFrame \/ CarryDamaged \/ CarryGlitch \/ DecodeChunk \/ DiscardMessage

Spec == Init /\ [][Next]_vars

----------------------------------------------------------------------------
(* Properties. *)

(* Nothing is reported but what has been sent, and once: no damage turns a *)
(* message into another one or into a reset, and no message is found in    *)
(* the middle of one.                                                      *)
OnlyWhatWasSent == reports \in {<<>>, <<line.frame>>}

(* A message that has arrived intact after a gap is reported, however its  *)
(* edges are divided into chunks and whatever was on the line before       *)
(* (PDMessageDecoder.h:19, PDMessageDecoder.cpp:101).                      *)
NoneMissed ==
  Idle /\ line.intact => reports = <<line.frame>>
=============================================================================
