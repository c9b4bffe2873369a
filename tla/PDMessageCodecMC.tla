--------------------------- MODULE PDMessageCodecMC ---------------------------
(* A small instance of PDMessageCodec for TLC: two messages, which have    *)
(* all sixteen nibbles between them, and each start of packet sequence.    *)
EXTENDS PDMessageCodec

GoodCrc == <<1, 4, 6, 0>>
OneObject == <<2, 3, 5, 9, 7, 8, 10, 11, 12, 13, 14, 15>>

SomeFrames ==
  [sop : {"sop", "sop1", "sop1Debug"}, payload : {GoodCrc}]
    \union [sop : {"sop", "sop2", "sop2Debug"}, payload : {OneObject}]
    \union [sop : {"hardReset", "cableReset"}, payload : {<<>>}]

FewFrames == [sop : {"sop"}, payload : {GoodCrc}] \union [sop : {"hardReset"}, payload : {<<>>}]

(* A single edge, and three that look like the beginning of a preamble.    *)
TwoGlitches == {<<0>>, <<0, 8, 12>>}
=============================================================================
