---------------------------- MODULE PDSink_proof ----------------------------
(***************************************************************************)
(* Proofs about PDSink, for every source, wish, bound and interleaving.    *)
(*                                                                         *)
(* The operators on `sink` nest (a cancelled task runs the other one), so  *)
(* each has a lemma that says what it does to the tasks that poll, to what *)
(* the application is told and to what is sent: `Leaves` and `Sends` are   *)
(* what all but the handlers of attach, reset and PS_RDY have in common.   *)
(*                                                                         *)
(* Three invariants stand on one another: that the source is looked for    *)
(* (Inv), that what is known is what it offers (OffersKnown), and that     *)
(* what is agreed on is what it supplies (ContractInv).                    *)
(***************************************************************************)
EXTENDS PDSink, PDSourceCapability_proof

SinkOK(s) == s \in Sink /\ s.numSourceCapabilities <= Len(s.sourceCapabilities)

(* What the tasks leave alone. *)
Leaves(s, t) ==
  /\ SinkOK(t)
  /\ t.ccPin = s.ccPin /\ t.confirming = s.confirming
  /\ t.numSourceCapabilities = s.numSourceCapabilities
  /\ t.sourceCapabilities = s.sourceCapabilities
  /\ t.active = s.active /\ t.flagVoltageChanged = s.flagVoltageChanged

(* What may be sent: a request is one made of the known capabilities. *)
Sends(s, t) ==
  \/ t.sending = s.sending
  \/ t.sending \in {GetSourceCap, HardReset}
  \/ \E supply \in Supply :
        t.sending = Request(PowerRequestObject(Capabilities(s), supply).object)

Unpolled(s) == s.ccPin /\ ~IsConnected(s)

(* The inductive invariant.  A message that is being confirmed is still the *)
(* first of the source's; the other conjuncts are properties.              *)
ConfirmsMessage == sink.confirming => source.outbox # << >>

Inv == TypeOK /\ ConfirmsMessage /\ PollsOnce /\ PollingGoesOn /\ ApplicationKnows

(* The part of it about `sink` alone, and what keeps ApplicationKnows.     *)
Chain(s) == s.capsTasks <= 1 /\ (Unpolled(s) => s.capsTasks > 0)

Told(s, t) ==
  \/ t.flagVoltageChanged
  \/ t.active = s.active /\ (s.flagVoltageChanged => t.flagVoltageChanged)

----------------------------------------------------------------------------
(* Lemmas about the operators on `sink`. *)

LEMMA CapabilitiesLemma ==
  ASSUME NEW s, SinkOK(s)
  PROVE  /\ Capabilities(s) \in Seq(Capability)
         /\ Len(Capabilities(s)) = s.numSourceCapabilities
         /\ Len(Capabilities(s)) <= 7
         /\ \A i \in 1 .. s.numSourceCapabilities : Capabilities(s)[i] = s.sourceCapabilities[i]
<1> DEFINE n == s.numSourceCapabilities
           all == s.sourceCapabilities
<1>1. all \in Seq(Capability) /\ n \in 0 .. 7 /\ n <= Len(all)
  BY DEF SinkOK, Sink
<1>2. Len(all) \in Nat
  BY <1>1, LenProperties
<1>3. \A i \in 1 .. n : all[i] \in Capability
  BY <1>1, <1>2, ElementOfSeq
<1> HIDE DEF n, all
<1>4. /\ SubSeq(all, 1, n) \in Seq(Capability)
      /\ Len(SubSeq(all, 1, n)) = IF 1 <= n THEN n - 1 + 1 ELSE 0
      /\ \A i \in 1 .. n - 1 + 1 : SubSeq(all, 1, n)[i] = all[1 + i - 1]
  BY <1>1, <1>3, SubSeqProperties
<1>5. /\ Len(SubSeq(all, 1, n)) = n
      /\ \A i \in 1 .. n : SubSeq(all, 1, n)[i] = all[i]
  BY <1>1, <1>4
<1>6. QED
  BY <1>1, <1>4, <1>5 DEF Capabilities, n, all

(* All that is sent is a message. *)
LEMMA MessageLemma ==
  /\ {Nothing, GetSourceCap, HardReset, Stuck, PsReady, Reject} \subseteq Message
  /\ \A offers \in Offers : SourceCapabilities(offers) \in Message
  /\ \A object \in RequestObject : Request(object) \in Message
<1>1. \A object \in RequestObject : <<object>> \in [1 .. 1 -> RequestObject]
  OBVIOUS
<1>2. \A object \in RequestObject : Request(object) \in Message
  BY <1>1 DEF Request, Message
<1>3. QED
  BY <1>2 DEF Message

(* Of a message with capabilities, or a request. *)
LEMMA ContentLemma ==
  ASSUME NEW m \in Message
  PROVE  /\ m.type = "sourceCapabilities" => m.value \in Offers
         /\ m.type = "request" => m.value \in [1 .. 1 -> RequestObject]
BY DEF Message, Nothing, GetSourceCap, HardReset, Stuck, PsReady, Reject, SourceCapabilities

(* The repetition of a PPS request sends a request, and polls nobody. *)
LEMMA RerequestLemma ==
  ASSUME NEW s, SinkOK(s)
  PROVE  /\ Leaves(s, OnRerequestPps(s)) /\ Sends(s, OnRerequestPps(s))
         /\ OnRerequestPps(s).capsTasks = s.capsTasks
<1> DEFINE r == PowerRequestObject(Capabilities(s), s.requested)
           t == [s EXCEPT !.ppsIndex = r.index, !.requested = r.supply]
<1>1. s \in Sink /\ s.requested \in Supply
  BY DEF SinkOK, Sink
<1>2. r \in PowerRequest
  BY <1>1, CapabilitiesLemma, RequestLemma
<1>3. r.index \in 0 .. 7 /\ r.supply \in Supply /\ r.object \in RequestObject
  BY <1>2 DEF PowerRequest
<1>4. Request(r.object) \in Message
  BY <1>3, MessageLemma
<1>5. OnRerequestPps(s) = IF IsTransmitting(s) THEN [t EXCEPT !.ppsTasks = @ + 1]
                          ELSE [t EXCEPT !.sending = Request(r.object)]
  BY DEF OnRerequestPps, Send
<1> HIDE DEF r
<1>6. t \in Sink
  BY <1>1, <1>3 DEF Sink
<1>7. CASE IsTransmitting(s)
  <2>1. [t EXCEPT !.ppsTasks = @ + 1] \in Sink
    <3> HIDE DEF t
    <3>1. t.ppsTasks + 1 \in Nat
      BY <1>6 DEF Sink
    <3>2. [t EXCEPT !.ppsTasks = t.ppsTasks + 1] \in Sink
      BY <1>6, <3>1 DEF Sink
    <3>3. QED
      BY <3>2
  <2>2. QED
    BY <1>1, <1>5, <1>7, <2>1 DEF Leaves, Sends, SinkOK, Sink
<1>8. CASE ~IsTransmitting(s)
  <2>1. [t EXCEPT !.sending = Request(r.object)] \in Sink
    BY <1>4, <1>6 DEF Sink
  <2>2. Sends(s, OnRerequestPps(s))
    BY <1>1, <1>5, <1>8 DEF Sends, r, Sink
  <2>3. QED
    BY <1>1, <1>5, <1>8, <2>1, <2>2 DEF Leaves, SinkOK, Sink
<1>9. QED
  BY <1>7, <1>8

(* A poll schedules the next one as long as the capabilities are unknown.  *)
LEMMA PollLemma ==
  ASSUME NEW s, SinkOK(s)
  PROVE  /\ Leaves(s, OnRequestSourceCaps(s)) /\ Sends(s, OnRequestSourceCaps(s))
         /\ OnRequestSourceCaps(s).capsTasks
              = IF Unpolled(s) THEN s.capsTasks + 1 ELSE s.capsTasks
<1> DEFINE N == MaxSourceCapsRetriesBeforeHardReset
           t == OnRequestSourceCaps(s)
<1>1. s \in Sink /\ s.sourceCapsRetryCount \in 0 .. N /\ s.capsTasks \in Nat /\ N \in Nat
  BY SinkBounds DEF SinkOK, Sink
<1>2. GetSourceCap \in Message /\ HardReset \in Message
  BY MessageLemma
<1>3. CASE ~Unpolled(s)
  BY <1>1, <1>3 DEF OnRequestSourceCaps, Unpolled, Leaves, Sends, SinkOK
<1>4. CASE Unpolled(s) /\ s.sourceCapsRetryCount >= N
  <2> DEFINE u == IF IsTransmitting(s) THEN s ELSE Send(s, HardReset)
  <2>1. u \in Sink
    BY <1>1, <1>2 DEF Send, Sink
  <2>2. /\ u.sending \in {s.sending, HardReset} /\ u.capsTasks = s.capsTasks
        /\ Leaves(s, u)
    BY <1>1, <2>1 DEF Send, Sink, Leaves, SinkOK
  <2>3. t = [u EXCEPT !.sourceCapsRetryCount = 0, !.capsTasks = @ + 1]
    BY <1>4 DEF OnRequestSourceCaps, Unpolled
  <2> HIDE DEF u
  <2>4. t \in Sink
    <3>1. u.capsTasks + 1 \in Nat /\ 0 \in 0 .. N
      BY <1>1, <2>2
    <3>2. [u EXCEPT !.sourceCapsRetryCount = 0, !.capsTasks = u.capsTasks + 1] \in Sink
      BY <2>1, <3>1, Zenon DEF Sink
    <3>3. QED
      BY <2>3, <3>2
  <2>5. QED
    BY <1>1, <1>4, <2>1, <2>2, <2>3, <2>4 DEF Leaves, Sends, SinkOK, Sink
<1>5. CASE Unpolled(s) /\ ~(s.sourceCapsRetryCount >= N) /\ IsTransmitting(s)
  <2>1. t = [s EXCEPT !.capsTasks = @ + 1]
    BY <1>5 DEF OnRequestSourceCaps, Unpolled
  <2>2. t \in Sink
    <3>1. s.capsTasks + 1 \in Nat
      BY <1>1
    <3>2. [s EXCEPT !.capsTasks = s.capsTasks + 1] \in Sink
      BY <1>1, <3>1, Zenon DEF Sink
    <3>3. QED
      BY <2>1, <3>2
  <2>3. QED
    BY <1>1, <1>5, <2>1, <2>2 DEF Leaves, Sends, SinkOK, Sink
<1>6. CASE Unpolled(s) /\ ~(s.sourceCapsRetryCount >= N) /\ ~IsTransmitting(s)
  <2>1. t = [[s EXCEPT !.sending = GetSourceCap]
               EXCEPT !.sourceCapsRetryCount = @ + 1, !.capsTasks = @ + 1]
    BY <1>6 DEF OnRequestSourceCaps, Unpolled, Send
  <2>2. s.sourceCapsRetryCount + 1 \in 0 .. N
    BY <1>1, <1>6
  <2>3. t \in Sink
    <3> DEFINE u == [s EXCEPT !.sending = GetSourceCap]
    <3>1. /\ u \in Sink /\ u.capsTasks = s.capsTasks
          /\ u.sourceCapsRetryCount = s.sourceCapsRetryCount
      BY <1>1, <1>2 DEF Sink
    <3>2. u.capsTasks + 1 \in Nat /\ u.sourceCapsRetryCount + 1 \in 0 .. N
      BY <1>1, <2>2, <3>1
    <3> HIDE DEF u
    <3>3. [u EXCEPT !.sourceCapsRetryCount = u.sourceCapsRetryCount + 1,
                    !.capsTasks = u.capsTasks + 1] \in Sink
      BY <3>1, <3>2, Zenon DEF Sink
    <3>4. QED
      BY <2>1, <3>3 DEF u
  <2>4. QED
    BY <1>1, <1>6, <2>1, <2>3 DEF Leaves, Sends, SinkOK, Sink
<1>7. QED
  BY <1>3, <1>4, <1>5, <1>6

(* cancelTask runs the other task if it is due: a poll that is run while   *)
(* the capabilities are unknown schedules itself again.                    *)
LEMMA CancelPpsLemma ==
  ASSUME NEW s, SinkOK(s), NEW due \in BOOLEAN
  PROVE  /\ Leaves(s, CancelPpsTask(s, due)) /\ Sends(s, CancelPpsTask(s, due))
         /\ CancelPpsTask(s, due).capsTasks <= s.capsTasks
         /\ Unpolled(s) => CancelPpsTask(s, due).capsTasks = s.capsTasks
<1> DEFINE t == [s EXCEPT !.ppsTasks = Dec(s.ppsTasks)]
           u == [t EXCEPT !.capsTasks = Dec(t.capsTasks)]
<1>1. s \in Sink /\ s.ppsTasks \in Nat /\ s.capsTasks \in Nat
  BY DEF SinkOK, Sink
<1>2. \A n \in Nat : Dec(n) \in Nat /\ (n > 0 => Dec(n) = n - 1)
  BY DEF Dec
<1>3. /\ t \in Sink /\ t.capsTasks = s.capsTasks /\ Leaves(s, t)
      /\ t.sending = s.sending /\ Capabilities(t) = Capabilities(s)
  BY <1>1, <1>2 DEF Sink, Leaves, SinkOK, Capabilities
<1>4. CancelPpsTask(s, due) = IF due /\ t.capsTasks > 0 THEN OnRequestSourceCaps(u) ELSE t
  BY DEF CancelPpsTask
<1> HIDE DEF t
<1>5. CASE ~(due /\ t.capsTasks > 0)
  BY <1>1, <1>3, <1>4, <1>5 DEF Sends
<1>6. CASE due /\ t.capsTasks > 0
  <2>1. /\ u \in Sink /\ u.capsTasks = s.capsTasks - 1 /\ Leaves(t, u)
        /\ u.sending = s.sending /\ Capabilities(u) = Capabilities(s)
    BY <1>1, <1>2, <1>3, <1>6 DEF Sink, Leaves, SinkOK, Capabilities
  <2>2. Unpolled(u) = Unpolled(s)
    BY <1>3, <2>1 DEF Unpolled, IsConnected, Leaves
  <2> HIDE DEF u
  <2>3. /\ Leaves(u, OnRequestSourceCaps(u)) /\ Sends(u, OnRequestSourceCaps(u))
        /\ OnRequestSourceCaps(u).capsTasks = IF Unpolled(u) THEN u.capsTasks + 1 ELSE u.capsTasks
    BY <2>1, PollLemma DEF Leaves
  <2>4. Leaves(s, OnRequestSourceCaps(u)) /\ Sends(s, OnRequestSourceCaps(u))
    BY <1>3, <2>1, <2>3 DEF Leaves, Sends
  <2>5. QED
    BY <1>1, <1>4, <1>6, <2>1, <2>2, <2>3, <2>4
<1>7. QED
  BY <1>5, <1>6

(* Cancelling the poll takes one task away; a repetition that is due may   *)
(* run in it.                                                              *)
LEMMA CancelCapsLemma ==
  ASSUME NEW s, SinkOK(s), NEW due \in BOOLEAN
  PROVE  /\ Leaves(s, CancelCapsTask(s, due)) /\ Sends(s, CancelCapsTask(s, due))
         /\ CancelCapsTask(s, due).capsTasks = Dec(s.capsTasks)
<1> DEFINE t == [s EXCEPT !.capsTasks = Dec(s.capsTasks)]
           u == [t EXCEPT !.ppsTasks = Dec(t.ppsTasks)]
<1>1. s \in Sink /\ s.ppsTasks \in Nat /\ s.capsTasks \in Nat
  BY DEF SinkOK, Sink
<1>2. \A n \in Nat : Dec(n) \in Nat
  BY DEF Dec
<1>3. /\ t \in Sink /\ t.capsTasks = Dec(s.capsTasks) /\ Leaves(s, t) /\ t.ppsTasks \in Nat
      /\ t.sending = s.sending /\ Capabilities(t) = Capabilities(s)
  BY <1>1, <1>2 DEF Sink, Leaves, SinkOK, Capabilities
<1>4. CancelCapsTask(s, due) = IF due /\ t.ppsTasks > 0 THEN OnRerequestPps(u) ELSE t
  BY DEF CancelCapsTask
<1> HIDE DEF t
<1>5. CASE ~(due /\ t.ppsTasks > 0)
  BY <1>3, <1>4, <1>5 DEF Sends
<1>6. CASE due /\ t.ppsTasks > 0
  <2>1. /\ u \in Sink /\ u.capsTasks = t.capsTasks /\ Leaves(t, u)
        /\ u.sending = s.sending /\ Capabilities(u) = Capabilities(s)
    BY <1>2, <1>3 DEF Sink, Leaves, SinkOK, Capabilities
  <2> HIDE DEF u
  <2>2. /\ Leaves(u, OnRerequestPps(u)) /\ Sends(u, OnRerequestPps(u))
        /\ OnRerequestPps(u).capsTasks = u.capsTasks
    BY <2>1, RerequestLemma DEF Leaves
  <2>3. Leaves(s, OnRerequestPps(u)) /\ Sends(s, OnRerequestPps(u))
    BY <1>3, <2>1, <2>2 DEF Leaves, Sends
  <2>4. QED
    BY <1>3, <1>4, <1>6, <2>1, <2>2, <2>3
<1>7. QED
  BY <1>5, <1>6

(* Nothing is requested of unknown capabilities. *)
LEMMA UnknownLemma ==
  ASSUME NEW s, SinkOK(s), s.numSourceCapabilities = 0, NEW supply \in Supply
  PROVE  PowerRequestObject(Capabilities(s), supply).object = NoObject
<1>1. /\ Capabilities(s) \in Seq(Capability) /\ Len(Capabilities(s)) = 0
      /\ Len(Capabilities(s)) <= 7
  BY CapabilitiesLemma
<1>2. /\ Found(Capabilities(s), supply) \in 0 .. 0
      /\ Found(Capabilities(s), supply) = 0
            => PowerRequestObject(Capabilities(s), supply) = [NoRequest EXCEPT !.supply = supply]
  BY <1>1, RequestLemma
<1>3. QED
  BY <1>2 DEF NoRequest

(* reset: of at most one poll none is left, and one is scheduled if a      *)
(* source is attached; the application will be told.                       *)
LEMMA ResetLemma ==
  ASSUME NEW s, SinkOK(s), s.capsTasks <= 1, NEW connected \in BOOLEAN, NEW due \in BOOLEAN
  PROVE  LET t == ResetSink(s, connected, due)
         IN  /\ SinkOK(t) /\ t.ccPin = s.ccPin /\ t.confirming = s.confirming
             /\ t.numSourceCapabilities = 0
             /\ t.capsTasks = IF connected \/ s.ccPin THEN 1 ELSE 0
             /\ t.flagVoltageChanged
             /\ t.sending \in {s.sending, GetSourceCap, HardReset, Request(NoObject)}
<1> DEFINE a == IF BusPowered \/ connected THEN Default ELSE Off
           t == [s EXCEPT !.active = a, !.requested = Default,
                          !.numSourceCapabilities = 0,
                          !.flagSourceCapChanged = TRUE, !.flagVoltageChanged = TRUE,
                          !.flagPowerRejected = FALSE, !.capabilitiesChanged = FALSE,
                          !.sourceCapsRetryCount = 0]
           v == CancelPpsTask(t, due)
           u == CancelCapsTask(v, due)
           w == IF connected \/ s.ccPin THEN [u EXCEPT !.capsTasks = u.capsTasks + 1] ELSE u
<1>1. s \in Sink /\ s.capsTasks \in Nat
  BY DEF SinkOK, Sink
<1>2. a \in Supply /\ Default \in Supply /\ 0 \in 0 .. 7
      /\ 0 \in 0 .. MaxSourceCapsRetriesBeforeHardReset
  BY SinkBounds DEF Default, Off, Supply
<1> HIDE DEF a
<1>3. t \in Sink
  BY <1>1, <1>2, Zenon DEF Sink
<1>4. /\ t.numSourceCapabilities = 0 /\ t.capsTasks = s.capsTasks /\ t.ccPin = s.ccPin
      /\ t.flagVoltageChanged = TRUE /\ t.sending = s.sending /\ t.confirming = s.confirming
  BY <1>1 DEF Sink
<1>5. SinkOK(t)
  <2>1. Len(t.sourceCapabilities) \in Nat
    BY <1>3, LenProperties DEF Sink
  <2>2. QED
    BY <1>3, <1>4, <2>1 DEF SinkOK
<1>6. ResetSink(s, connected, due) = w
  BY DEF ResetSink, a
<1> HIDE DEF t
<1>7. Leaves(t, v) /\ Sends(t, v) /\ v.capsTasks <= t.capsTasks
  BY <1>5, CancelPpsLemma
<1> HIDE DEF v
<1>8. v.capsTasks \in {0, 1} /\ SinkOK(v)
  BY <1>1, <1>4, <1>7 DEF Leaves, SinkOK, Sink
<1>9. Leaves(v, u) /\ Sends(v, u) /\ u.capsTasks = 0
  BY <1>8, CancelCapsLemma DEF Dec
<1> HIDE DEF u
<1>10. /\ u \in Sink /\ Leaves(t, u) /\ SinkOK(u)
  BY <1>7, <1>9 DEF Leaves, SinkOK
<1>11. u.sending \in {s.sending, GetSourceCap, HardReset, Request(NoObject)}
  <2>1. \A x : SinkOK(x) /\ x.numSourceCapabilities = 0 =>
          \A supply \in Supply : PowerRequestObject(Capabilities(x), supply).object = NoObject
    BY UnknownLemma
  <2>2. v.numSourceCapabilities = 0
    BY <1>4, <1>7 DEF Leaves
  <2>3. v.sending \in {t.sending, GetSourceCap, HardReset, Request(NoObject)}
    BY <1>4, <1>5, <1>7, <2>1 DEF Sends
  <2>4. u.sending \in {v.sending, GetSourceCap, HardReset, Request(NoObject)}
    BY <1>8, <1>9, <2>1, <2>2 DEF Sends
  <2>5. QED
    BY <1>4, <2>3, <2>4
<1>12. w \in Sink
  <2>1. u.capsTasks + 1 \in Nat
    BY <1>9
  <2>2. [u EXCEPT !.capsTasks = u.capsTasks + 1] \in Sink
    BY <1>10, <2>1, Zenon DEF Sink
  <2>3. QED
    BY <1>10, <2>2
<1>13. /\ w.capsTasks = IF connected \/ s.ccPin THEN 1 ELSE 0
       /\ w.numSourceCapabilities = u.numSourceCapabilities /\ w.ccPin = u.ccPin
       /\ w.sourceCapabilities = u.sourceCapabilities
       /\ w.flagVoltageChanged = u.flagVoltageChanged /\ w.sending = u.sending
       /\ w.confirming = u.confirming
  BY <1>9, <1>10 DEF Sink
<1> HIDE DEF w
<1>14. QED
  BY <1>4, <1>6, <1>10, <1>11, <1>12, <1>13 DEF Leaves, SinkOK

(* The source is known as soon as a message of it has been parsed. *)
LEMMA ParsedLemma ==
  ASSUME NEW s, SinkOK(s), NEW offers \in Offers
  PROVE  LET t == Parsed(s, offers)
         IN  /\ SinkOK(t) /\ t.ccPin = s.ccPin /\ t.confirming = s.confirming
             /\ t.capsTasks = s.capsTasks /\ t.sending = s.sending
             /\ t.active = s.active /\ t.flagVoltageChanged = s.flagVoltageChanged
             /\ IsConnected(t)
             /\ Capabilities(t) = ParseMessage(offers)
<1> DEFINE p == ParseMessage(offers)
           all == s.sourceCapabilities
           rest == SubSeq(all, Len(p) + 1, Len(all))
           t == Parsed(s, offers)
<1>1. /\ offers \in Seq(CapabilityObject) /\ Len(offers) \in 1 .. 7
      /\ offers[1] = Vsafe5V
  BY SupplyAssumption, Zenon
<1>2. 1 \in Kept(offers)
  BY <1>1 DEF Kept, Vsafe5V
<1>3. p \in Seq(Capability) /\ Len(p) \in 0 .. 7 /\ Len(p) > 0
  <2>1. Len(offers) <= 7
    <3>1. \A n \in 1 .. 7 : n <= 7
      OBVIOUS
    <3>2. QED
      BY <1>1, <3>1, Zenon
  <2>2. /\ p \in Seq(Capability) /\ Len(p) \in 0 .. 7
        /\ Kept(offers) # {} => Len(p) > 0
    BY <1>1, <2>1, ParseLemma
  <2>3. QED
    BY <1>2, <2>2
<1>4. s \in Sink /\ all \in Seq(Capability) /\ Len(all) \in Nat
  BY LenProperties DEF SinkOK, Sink
<1> HIDE DEF p, all
<1>5. rest \in Seq(Capability) /\ Len(rest) \in Nat
  <2>1. \A i \in Len(p) + 1 .. Len(all) : all[i] \in Capability
    BY <1>3, <1>4, ElementOfSeq
  <2>2. Len(p) + 1 \in Int /\ Len(all) \in Int
    BY <1>3, <1>4
  <2>3. rest \in Seq(Capability)
    BY <2>1, <2>2, SubSeqProperties
  <2>4. QED
    BY <2>3, LenProperties
<1> HIDE DEF rest
<1>6. /\ p \o rest \in Seq(Capability)
      /\ Len(p \o rest) = Len(p) + Len(rest)
      /\ \A i \in 1 .. Len(p) : (p \o rest)[i] = p[i]
  <2>1. /\ p \o rest \in Seq(Capability)
        /\ Len(p \o rest) = Len(p) + Len(rest)
        /\ \A i \in 1 .. Len(p) + Len(rest) :
              (p \o rest)[i] = IF i <= Len(p) THEN p[i] ELSE rest[i - Len(p)]
    BY <1>3, <1>5, ConcatProperties
  <2>2. QED
    BY <1>3, <1>5, <2>1
<1>7. t = [s EXCEPT !.numSourceCapabilities = Len(p), !.sourceCapabilities = p \o rest]
  BY DEF Parsed, p, rest, all
<1>8. t \in Sink
  <2>1. [s EXCEPT !.numSourceCapabilities = Len(p), !.sourceCapabilities = p \o rest] \in Sink
    BY <1>3, <1>4, <1>6, Zenon DEF Sink
  <2>2. QED
    BY <1>7, <2>1
<1>9. /\ t.numSourceCapabilities = Len(p) /\ t.sourceCapabilities = p \o rest
      /\ t.ccPin = s.ccPin /\ t.capsTasks = s.capsTasks /\ t.sending = s.sending
      /\ t.active = s.active /\ t.flagVoltageChanged = s.flagVoltageChanged
      /\ t.confirming = s.confirming
  BY <1>4, <1>7 DEF Sink
<1> HIDE DEF t
<1>10. SinkOK(t) /\ IsConnected(t)
  <2>1. Len(p) <= Len(p \o rest)
    BY <1>3, <1>5, <1>6
  <2>2. QED
    BY <1>3, <1>8, <1>9, <2>1 DEF SinkOK, IsConnected
<1>11. Capabilities(t) = p
  <2>1. /\ Capabilities(t) \in Seq(Capability) /\ Len(Capabilities(t)) = Len(p)
        /\ \A i \in 1 .. Len(p) : Capabilities(t)[i] = p[i]
    BY <1>6, <1>9, <1>10, CapabilitiesLemma
  <2>2. QED
    BY <1>3, <2>1, SeqEqual
<1>12. QED
  BY <1>9, <1>10, <1>11 DEF t, p

(* What requestPower does once the request is made. *)
LEMMA RequestPowerLemma ==
  ASSUME NEW s, SinkOK(s), NEW r \in PowerRequest, NEW due \in BOOLEAN
  PROVE  LET t == RequestPowerCore(s, r, due)
         IN  /\ Leaves(s, t)
             /\ t.capsTasks <= s.capsTasks
             /\ Unpolled(s) => t.capsTasks = s.capsTasks
             /\ t.sending = Request(r.object) \/ Sends(s, t)
<1> DEFINE u == [s EXCEPT !.sending = Request(r.object)]
           v == CancelPpsTask(u, due)
           i == PpsIndexOf(s, r)
           t == RequestPowerCore(s, r, due)
<1>1. s \in Sink /\ r.index \in 0 .. 7 /\ r.object \in RequestObject /\ r.supply \in Supply
  BY DEF SinkOK, PowerRequest
<1>2. /\ u \in Sink /\ Leaves(s, u) /\ u.capsTasks = s.capsTasks
      /\ u.sending = Request(r.object) /\ Capabilities(u) = Capabilities(s)
      /\ Unpolled(u) = Unpolled(s)
  <2>1. Request(r.object) \in Message
    BY <1>1, MessageLemma
  <2>2. u \in Sink
    BY <1>1, <2>1 DEF Sink
  <2>3. QED
    BY <1>1, <2>2 DEF Leaves, SinkOK, Sink, Capabilities, Unpolled, IsConnected
<1>3. t = [v EXCEPT !.ppsIndex = i, !.requested = r.supply]
  BY DEF RequestPowerCore, Send
<1> HIDE DEF u
<1>4. /\ Leaves(u, v) /\ Sends(u, v) /\ v.capsTasks <= u.capsTasks
      /\ Unpolled(u) => v.capsTasks = u.capsTasks
  BY <1>2, CancelPpsLemma DEF Leaves
<1> HIDE DEF v
<1>5. i \in 0 .. 7
  BY <1>1 DEF PpsIndexOf
<1> HIDE DEF i
<1>6. v \in Sink
  BY <1>4 DEF Leaves, SinkOK
<1>7. t \in Sink
  BY <1>1, <1>3, <1>5, <1>6 DEF Sink
<1>8. Leaves(v, t) /\ t.capsTasks = v.capsTasks /\ t.sending = v.sending
  BY <1>3, <1>4, <1>6, <1>7 DEF Leaves, SinkOK, Sink
<1> HIDE DEF t
<1>9. QED
  BY <1>2, <1>4, <1>8 DEF Leaves, Sends, t

(* A request made of what a source offers. *)
MadeOf(offers, message) ==
  \E supply \in Supply :
     message = Request(PowerRequestObject(ParseMessage(offers), supply).object)

(* The handler of source capabilities ends the polling. *)
LEMMA OnSourceCapabilitiesLemma ==
  ASSUME NEW s, SinkOK(s), s.capsTasks <= 1, NEW offers \in Offers, NEW due \in BOOLEAN,
         OnSourceCapabilities(s, offers, due)
  PROVE  /\ SinkOK(sink') /\ sink'.ccPin = s.ccPin /\ sink'.confirming = s.confirming
         /\ sink'.active = s.active /\ sink'.flagVoltageChanged = s.flagVoltageChanged
         /\ sink'.capsTasks <= 1
         /\ IsConnected(sink)'
         /\ Capabilities(sink') = ParseMessage(offers)
         /\ sink'.sending \in {s.sending, GetSourceCap, HardReset} \/ MadeOf(offers, sink'.sending)
<1> DEFINE p == Parsed(s, offers)
           c == CancelCapsTask(p, due)
           t == [c EXCEPT !.capabilitiesChanged = TRUE]
           desired == PowerRequestObject(Capabilities(t), t.desired)
           fallback == PowerRequestObject(Capabilities(t), Fallback)
<1>1. /\ SinkOK(p) /\ p.ccPin = s.ccPin /\ p.confirming = s.confirming
      /\ p.capsTasks = s.capsTasks /\ p.sending = s.sending
      /\ p.active = s.active /\ p.flagVoltageChanged = s.flagVoltageChanged
      /\ IsConnected(p) /\ Capabilities(p) = ParseMessage(offers)
  BY ParsedLemma
<1>2. sink' = CASE CanRequest(t, desired) -> RequestPowerCore(t, desired, due)
                [] ~CanRequest(t, desired) /\ CanRequest(t, fallback) ->
                     RequestPowerCore(t, fallback, due)
                [] OTHER -> t
  BY DEF OnSourceCapabilities
<1> HIDE DEF p
<1>3. Leaves(p, c) /\ Sends(p, c) /\ c.capsTasks = Dec(p.capsTasks)
  BY <1>1, CancelCapsLemma
<1> HIDE DEF c
<1>4. /\ Leaves(c, t) /\ t.sending = c.sending /\ t.capsTasks = c.capsTasks /\ SinkOK(t)
  <2>1. c \in Sink
    BY <1>3 DEF Leaves, SinkOK
  <2>2. t \in Sink
    BY <2>1 DEF Sink
  <2>3. QED
    BY <1>3, <2>1, <2>2 DEF Leaves, SinkOK, Sink
<1> HIDE DEF t
<1>5. /\ Capabilities(t) = ParseMessage(offers) /\ IsConnected(t)
      /\ t.sending \in {s.sending, GetSourceCap, HardReset} \/ MadeOf(offers, t.sending)
  <2>1. t.sourceCapabilities = p.sourceCapabilities
        /\ t.numSourceCapabilities = p.numSourceCapabilities
    BY <1>3, <1>4 DEF Leaves
  <2>2. Capabilities(t) = ParseMessage(offers) /\ IsConnected(t)
    BY <1>1, <2>1 DEF Capabilities, IsConnected
  <2>3. QED
    BY <1>1, <1>3, <1>4, <2>2 DEF Sends, MadeOf
<1>6. t.capsTasks <= 1 /\ t.capsTasks \in Nat
  <2>1. p.capsTasks \in Nat /\ p.capsTasks <= 1
    BY <1>1 DEF SinkOK, Sink
  <2>2. QED
    BY <1>3, <1>4, <2>1 DEF Dec
<1>7. \A supply \in Supply :
        LET r == PowerRequestObject(Capabilities(t), supply)
            u == RequestPowerCore(t, r, due)
        IN  /\ Leaves(t, u) /\ u.capsTasks <= t.capsTasks
            /\ u.sending \in {t.sending, GetSourceCap, HardReset} \/ MadeOf(offers, u.sending)
  <2> TAKE supply \in Supply
  <2> DEFINE r == PowerRequestObject(Capabilities(t), supply)
             u == RequestPowerCore(t, r, due)
  <2>1. r \in PowerRequest
    BY <1>4, CapabilitiesLemma, RequestLemma
  <2>2. MadeOf(offers, Request(r.object))
    BY <1>5 DEF MadeOf
  <2> HIDE DEF r
  <2>3. /\ Leaves(t, u) /\ u.capsTasks <= t.capsTasks
        /\ u.sending = Request(r.object) \/ Sends(t, u)
    BY <1>4, <2>1, RequestPowerLemma
  <2> HIDE DEF u
  <2>4. u.sending \in {t.sending, GetSourceCap, HardReset} \/ MadeOf(offers, u.sending)
    BY <1>5, <2>2, <2>3 DEF Sends, MadeOf
  <2>5. QED
    BY <2>3, <2>4 DEF r, u
<1>8. t.desired \in Supply /\ Fallback \in Supply
  BY <1>4 DEF SinkOK, Sink, Fallback, Supply
<1>9. /\ Leaves(t, sink') /\ sink'.capsTasks <= 1
      /\ sink'.sending \in {t.sending, GetSourceCap, HardReset} \/ MadeOf(offers, sink'.sending)
  <2>1. CASE sink' = RequestPowerCore(t, desired, due)
    <3>1. /\ Leaves(t, sink') /\ sink'.capsTasks <= t.capsTasks
          /\ sink'.sending \in {t.sending, GetSourceCap, HardReset} \/ MadeOf(offers, sink'.sending)
      BY <1>7, <1>8, <2>1
    <3>2. QED
      BY <1>6, <3>1 DEF Leaves, SinkOK, Sink
  <2>2. CASE sink' = RequestPowerCore(t, fallback, due)
    <3>1. /\ Leaves(t, sink') /\ sink'.capsTasks <= t.capsTasks
          /\ sink'.sending \in {t.sending, GetSourceCap, HardReset} \/ MadeOf(offers, sink'.sending)
      BY <1>7, <1>8, <2>2
    <3>2. QED
      BY <1>6, <3>1 DEF Leaves, SinkOK, Sink
  <2>3. CASE sink' = t
    BY <1>4, <1>6, <2>3 DEF Leaves
  <2>4. QED
    BY <1>2, <2>1, <2>2, <2>3
<1>10. /\ SinkOK(sink') /\ sink'.ccPin = t.ccPin /\ sink'.confirming = t.confirming
       /\ sink'.active = t.active /\ sink'.flagVoltageChanged = t.flagVoltageChanged
       /\ IsConnected(sink)' /\ Capabilities(sink') = Capabilities(t)
  BY <1>5, <1>9 DEF Leaves, IsConnected, Capabilities
<1>11. /\ t.ccPin = s.ccPin /\ t.confirming = s.confirming
       /\ t.active = s.active /\ t.flagVoltageChanged = s.flagVoltageChanged
  BY <1>1, <1>3, <1>4 DEF Leaves
<1>12. QED
  BY <1>5, <1>9, <1>10, <1>11

(* PS_RDY makes the requested supply the active one. *)
LEMMA OnPsReadyLemma ==
  ASSUME NEW s, SinkOK(s)
  PROVE  LET t == OnPsReady(s)
         IN  /\ SinkOK(t) /\ t.ccPin = s.ccPin /\ t.confirming = s.confirming
             /\ t.numSourceCapabilities = s.numSourceCapabilities
             /\ t.sourceCapabilities = s.sourceCapabilities
             /\ t.capsTasks = s.capsTasks /\ t.sending = s.sending
             /\ t.flagVoltageChanged \/ t.active = s.active
             /\ s.flagVoltageChanged => t.flagVoltageChanged
<1> DEFINE n == IF s.ppsIndex > 0 THEN s.ppsTasks + 1 ELSE s.ppsTasks
           a == s.flagSourceCapChanged \/ s.capabilitiesChanged
           b == s.flagVoltageChanged \/ s.active # s.requested
<1>1. s \in Sink /\ s.ppsTasks \in Nat /\ s.requested \in Supply
  BY DEF SinkOK, Sink
<1>2. n \in Nat /\ a \in BOOLEAN /\ b \in BOOLEAN
  BY <1>1
<1>3. OnPsReady(s) = [s EXCEPT !.flagSourceCapChanged = a, !.capabilitiesChanged = FALSE,
                               !.flagVoltageChanged = b, !.active = s.requested, !.ppsTasks = n]
  BY DEF OnPsReady
<1> HIDE DEF n, a
<1>4. OnPsReady(s) \in Sink
  BY <1>1, <1>2, <1>3 DEF Sink
<1>5. QED
  BY <1>1, <1>3, <1>4 DEF SinkOK, Sink

----------------------------------------------------------------------------
(* The invariant, action by action. *)

LEMMA InvParts ==
  Inv <=> /\ SinkOK(sink) /\ Chain(sink)
          /\ source \in Source /\ main \in Main /\ app \in Supply /\ budget \in Budget
          /\ ConfirmsMessage /\ ApplicationKnows
BY DEF Inv, TypeOK, SinkOK, Chain, PollsOnce, PollingGoesOn, Unpolled

(* The invariant in parts, after a step. *)
LEMMA InvPartsNext ==
  Inv' <=> /\ SinkOK(sink') /\ Chain(sink')
           /\ source' \in Source /\ main' \in Main /\ app' \in Supply /\ budget' \in Budget
           /\ ConfirmsMessage' /\ ApplicationKnows'
BY DEF Inv, TypeOK, SinkOK, Chain, PollsOnce, PollingGoesOn, Unpolled, IsConnected

(* The bounds stay bounds. *)
LEMMA SpendLemma ==
  ASSUME budget \in Budget,
         NEW what \in {"requests", "losses", "resets", "offers", "rejects", "plugs"}, Spend(what)
  PROVE  budget' \in Budget
<1>1. budget[what] \in Nat /\ budget[what] - 1 \in Nat
  BY DEF Budget, Spend
<1>2. QED
  BY <1>1 DEF Budget, Spend

(* Interrupts that leave the source, the main loop and the application     *)
(* alone need only keep the part about `sink`.                             *)
LEMMA SinkStepLemma ==
  ASSUME Inv, SinkOK(sink'), Chain(sink'), Told(sink, sink'),
         source' \in Source, budget' \in Budget, main' = main, app' = app, ConfirmsMessage'
  PROVE  Inv'
<1>1. ApplicationKnows'
  BY DEF Inv, ApplicationKnows, Told
<1>2. QED
  BY <1>1, InvParts, InvPartsNext

(* The invariant holds at the beginning. *)
LEMMA InitLemma ==
  Init => Inv
<1> SUFFICES ASSUME Init PROVE Inv
  OBVIOUS
<1>1. /\ Default \in Supply /\ Fallback \in Supply /\ Off \in Supply
  BY DEF Default, Fallback, Off, Supply
<1>2. << >> \in Seq(Capability) /\ << >> \in Seq(Message) /\ Len(<< >>) = 0
  BY EmptySeq
<1>3. Nothing \in Message
  BY MessageLemma
<1>4. SinkOK(sink)
  <2>1. 0 \in Nat /\ 0 \in 0 .. 7 /\ 0 \in 0 .. MaxSourceCapsRetriesBeforeHardReset
    BY SinkBounds
  <2>2. (IF BusPowered THEN Default ELSE Off) \in Supply
    BY <1>1
  <2>3. sink \in Sink
    BY <1>1, <1>2, <1>3, <2>1, <2>2, Zenon DEF Init, Sink
  <2>4. sink.numSourceCapabilities = 0 /\ sink.sourceCapabilities = << >>
    BY DEF Init
  <2>5. QED
    BY <1>2, <2>3, <2>4 DEF SinkOK
<1>5. source \in Source
  BY <1>1, <1>2, <1>3 DEF Init, Source
<1>6. main \in Main /\ app \in Supply
  <2>1. NoRequest \in PowerRequest
    BY DEF NoRequest, NoObject, PowerRequest, Supply, RequestObject
  <2>2. QED
    BY <1>1, <2>1 DEF Init, Idle, Main
<1>7. budget \in Budget
  BY SinkBounds DEF Init, Budget
<1>8. Chain(sink) /\ ConfirmsMessage /\ ApplicationKnows
  BY DEF Init, Chain, Unpolled, ConfirmsMessage, ApplicationKnows
<1>9. QED
  BY <1>4, <1>5, <1>6, <1>7, <1>8, InvParts

(* The task that repeats a PPS request keeps it. *)
LEMMA PpsTaskLemma ==
  Inv /\ PpsTask => Inv'
<1> SUFFICES ASSUME Inv, PpsTask PROVE Inv'
  OBVIOUS
<1> DEFINE t == [sink EXCEPT !.ppsTasks = sink.ppsTasks - 1]
<1>1. /\ sink \in Sink /\ sink.ppsTasks \in Nat /\ sink.ppsTasks > 0
      /\ SinkOK(sink) /\ Chain(sink)
  BY InvParts DEF SinkOK, Sink, PpsTask
<1>2. SinkOK(t) /\ Leaves(sink, t) /\ t.capsTasks = sink.capsTasks
  <2>1. sink.ppsTasks - 1 \in Nat
    BY <1>1
  <2>2. t \in Sink
    BY <1>1, <2>1, Zenon DEF Sink
  <2>3. QED
    BY <1>1, <2>2 DEF SinkOK, Sink, Leaves
<1>3. sink' = OnRerequestPps(t)
  BY DEF PpsTask
<1> HIDE DEF t
<1>4. Leaves(t, sink') /\ sink'.capsTasks = t.capsTasks
  BY <1>2, <1>3, RerequestLemma
<1>5. Chain(sink') /\ Told(sink, sink') /\ SinkOK(sink')
  BY <1>1, <1>2, <1>4 DEF Chain, Unpolled, IsConnected, Told, Leaves
<1>6. ConfirmsMessage'
  BY <1>2, <1>4 DEF Inv, ConfirmsMessage, PpsTask, Leaves
<1>7. QED
  BY <1>5, <1>6, InvParts, SinkStepLemma DEF PpsTask

(* The task that polls schedules itself again, or resets the source. *)
LEMMA CapsTaskLemma ==
  Inv /\ CapsTask => Inv'
<1> SUFFICES ASSUME Inv, CapsTask PROVE Inv'
  OBVIOUS
<1> DEFINE t == [sink EXCEPT !.capsTasks = sink.capsTasks - 1]
<1>1. /\ sink \in Sink /\ sink.capsTasks \in Nat /\ sink.capsTasks > 0
      /\ SinkOK(sink) /\ Chain(sink)
  BY InvParts DEF SinkOK, Sink, CapsTask
<1>2. SinkOK(t) /\ Leaves(sink, t) /\ t.capsTasks = 0
  BY <1>1 DEF SinkOK, Sink, Leaves, Chain
<1>3. sink' = OnRequestSourceCaps(t)
  BY DEF CapsTask
<1> HIDE DEF t
<1>4. Leaves(t, sink') /\ sink'.capsTasks = IF Unpolled(t) THEN t.capsTasks + 1 ELSE t.capsTasks
  BY <1>2, <1>3, PollLemma
<1>5. Chain(sink') /\ Told(sink, sink') /\ SinkOK(sink')
  BY <1>1, <1>2, <1>4 DEF Chain, Unpolled, IsConnected, Told, Leaves
<1>6. ConfirmsMessage'
  BY <1>2, <1>4 DEF Inv, ConfirmsMessage, CapsTask, Leaves
<1>7. QED
  BY <1>5, <1>6, InvParts, SinkStepLemma DEF CapsTask

(* The parts of the source, also in a new session. *)
LEMMA SourceLemma ==
  ASSUME NEW src \in Source
  PROVE  /\ src.attached \in BOOLEAN /\ src.offers \in Offers
         /\ src.inbox \in Message /\ src.outbox \in Seq(Message)
         /\ NewSession(src) \in Source
         /\ NewSession(src).outbox = << >> /\ NewSession(src).inbox = Nothing
         /\ NewSession(src).offers = src.offers /\ NewSession(src).attached = src.attached
         /\ Offered(src) \in Source
         /\ Offered(src).outbox = <<SourceCapabilities(src.offers)>>
         /\ Offered(src).inbox = Nothing
         /\ Offered(src).offers = src.offers /\ Offered(src).attached = src.attached
<1> DEFINE contract == [supply |-> Default, pps |-> FALSE]
           new == NewSession(src)
<1>1. /\ src.attached \in BOOLEAN /\ src.offers \in Offers
      /\ src.inbox \in Message /\ src.outbox \in Seq(Message)
  BY DEF Source
<1>2. contract \in [supply : Supply, pps : BOOLEAN]
  BY DEF Default, Supply
<1>3. Nothing \in Message /\ << >> \in Seq(Message)
      /\ <<SourceCapabilities(src.offers)>> \in Seq(Message)
  <2>1. SourceCapabilities(src.offers) \in Message
    BY <1>1, MessageLemma
  <2>2. QED
    BY <2>1, MessageLemma, EmptySeq
<1>4. new = [src EXCEPT !.contract = contract, !.inbox = Nothing, !.outbox = << >>]
  BY DEF NewSession
<1> HIDE DEF contract
<1>5. /\ new \in Source /\ new.outbox = << >> /\ new.inbox = Nothing
      /\ new.offers = src.offers /\ new.attached = src.attached
  BY <1>2, <1>3, <1>4 DEF Source
<1>6. Offered(src) = [new EXCEPT !.outbox = <<SourceCapabilities(src.offers)>>]
  BY DEF Offered
<1> HIDE DEF new
<1>7. /\ Offered(src) \in Source
      /\ Offered(src).outbox = <<SourceCapabilities(src.offers)>>
      /\ Offered(src).inbox = Nothing
      /\ Offered(src).offers = src.offers /\ Offered(src).attached = src.attached
  BY <1>3, <1>5, <1>6 DEF Source
<1>8. QED
  BY <1>1, <1>5, <1>7 DEF new

(* An attach schedules the first poll, after a reset has cancelled those   *)
(* before.                                                                 *)
LEMMA AttachLemma ==
  Inv /\ Attach => Inv'
<1> SUFFICES ASSUME Inv, Attach PROVE Inv'
  OBVIOUS
<1> DEFINE s == [sink EXCEPT !.ccPin = TRUE]
<1>1. sink \in Sink /\ SinkOK(sink) /\ Chain(sink) /\ source \in Source
  BY InvParts DEF SinkOK
<1>2. SinkOK(s) /\ s.capsTasks <= 1 /\ s.ccPin /\ s.confirming = sink.confirming
  BY <1>1 DEF SinkOK, Sink, Chain
<1>3. PICK due \in BOOLEAN : sink' = ResetSink(s, TRUE, due)
  BY DEF Attach
<1> HIDE DEF s
<1>4. /\ SinkOK(sink') /\ sink'.confirming = s.confirming
      /\ sink'.capsTasks = 1 /\ sink'.flagVoltageChanged
  <2> DEFINE connected == TRUE
  <2>1. connected \in BOOLEAN /\ sink' = ResetSink(s, connected, due)
    BY <1>3
  <2> HIDE DEF connected
  <2>2. /\ SinkOK(sink') /\ sink'.confirming = s.confirming
        /\ sink'.capsTasks = IF connected \/ s.ccPin THEN 1 ELSE 0
        /\ sink'.flagVoltageChanged
    BY <1>2, <2>1, ResetLemma
  <2>3. QED
    BY <1>2, <2>2
<1>5. source' \in Source /\ source'.outbox = source.outbox
  BY <1>1 DEF Attach, Source
<1>6. budget' \in Budget
  BY InvParts, SpendLemma DEF Attach
<1>7. ConfirmsMessage'
  BY <1>2, <1>4, <1>5 DEF Inv, ConfirmsMessage
<1>8. Chain(sink') /\ Told(sink, sink')
  BY <1>4 DEF Chain, Told
<1>9. QED
  BY <1>4, <1>5, <1>6, <1>7, <1>8, SinkStepLemma DEF Attach

(* A detach cancels the poll; nobody is to be asked. *)
LEMMA DetachLemma ==
  Inv /\ Detach => Inv'
<1> SUFFICES ASSUME Inv, Detach PROVE Inv'
  OBVIOUS
<1>1. sink \in Sink /\ SinkOK(sink) /\ Chain(sink) /\ source \in Source
  BY InvParts DEF SinkOK
<1>2. PICK due \in BOOLEAN, left \in {Nothing, Stuck} :
        sink' = ResetSink([sink EXCEPT !.ccPin = FALSE, !.confirming = FALSE, !.sending = left],
                          FALSE, due)
  BY DEF Detach
<1> DEFINE s == [sink EXCEPT !.ccPin = FALSE, !.confirming = FALSE, !.sending = left]
<1>3. SinkOK(s) /\ s.capsTasks <= 1 /\ s.ccPin = FALSE /\ s.confirming = FALSE
  <2>1. left \in Message
    BY MessageLemma
  <2>2. s \in Sink
    BY <1>1, <2>1 DEF Sink
  <2>3. QED
    BY <1>1, <2>2 DEF SinkOK, Sink, Chain
<1> HIDE DEF s
<1>4. /\ SinkOK(sink') /\ sink'.confirming = FALSE /\ sink'.ccPin = FALSE
      /\ sink'.capsTasks = 0 /\ sink'.flagVoltageChanged
  BY <1>2, <1>3, ResetLemma DEF s
<1>5. source' \in Source
  <2>1. NewSession(source) \in Source
    BY <1>1, SourceLemma
  <2>2. QED
    BY <2>1 DEF Detach, Source
<1>6. budget' \in Budget
  BY InvParts, SpendLemma DEF Detach
<1>7. ConfirmsMessage'
  BY <1>4 DEF ConfirmsMessage
<1>8. Chain(sink') /\ Told(sink, sink')
  BY <1>4 DEF Chain, Told, Unpolled
<1>9. QED
  BY <1>4, <1>5, <1>6, <1>7, <1>8, SinkStepLemma DEF Detach

(* A message that arrives is confirmed first. *)
LEMMA MessageArrivesLemma ==
  Inv /\ MessageArrives => Inv'
<1> SUFFICES ASSUME Inv, MessageArrives PROVE Inv'
  OBVIOUS
<1>1. sink \in Sink /\ SinkOK(sink) /\ Chain(sink) /\ source \in Source
  BY InvParts DEF SinkOK
<1>2. sink' = [sink EXCEPT !.confirming = TRUE, !.sending = Nothing]
  BY DEF MessageArrives
<1>3. sink' \in Sink
  BY <1>1, <1>2, MessageLemma DEF Sink
<1>4. SinkOK(sink') /\ Chain(sink') /\ Told(sink, sink')
  BY <1>1, <1>2, <1>3 DEF SinkOK, Sink, Chain, Unpolled, IsConnected, Told
<1>5. budget' \in Budget
  BY InvParts, SpendLemma DEF MessageArrives
<1>6. ConfirmsMessage'
  BY DEF MessageArrives, ConfirmsMessage
<1>7. QED
  BY <1>1, <1>4, <1>5, <1>6, SinkStepLemma DEF MessageArrives

(* The event handler gets the first message of the source. *)
LEMMA MessageConfirmedLemma ==
  Inv /\ MessageConfirmed => Inv'
<1> SUFFICES ASSUME Inv, MessageConfirmed PROVE Inv'
  OBVIOUS
<1> DEFINE s == [sink EXCEPT !.confirming = FALSE]
           m == Head(source.outbox)
<1>1. sink \in Sink /\ SinkOK(sink) /\ Chain(sink) /\ source \in Source
  BY InvParts DEF SinkOK
<1>2. source.outbox \in Seq(Message) /\ source.outbox # << >>
  BY <1>1 DEF Inv, ConfirmsMessage, MessageConfirmed, Source
<1>3. m \in Message /\ Tail(source.outbox) \in Seq(Message)
  BY <1>2, HeadTailProperties
<1>4. /\ SinkOK(s) /\ Leaves(s, s) /\ s.capsTasks = sink.capsTasks /\ s.confirming = FALSE
      /\ s.ccPin = sink.ccPin /\ s.numSourceCapabilities = sink.numSourceCapabilities
      /\ s.active = sink.active /\ s.flagVoltageChanged = sink.flagVoltageChanged
      /\ s.capsTasks <= 1
  BY <1>1 DEF SinkOK, Sink, Leaves, Chain
<1>5. PICK due \in BOOLEAN : OnMessageReceived(s, m, due)
  BY DEF MessageConfirmed
<1> HIDE DEF s, m
<1>6. SinkOK(sink') /\ sink'.confirming = FALSE /\ Chain(sink') /\ Told(s, sink')
  <2>1. CASE m.type = "sourceCapabilities" /\ OnSourceCapabilities(s, m.value, due)
    <3>1. m.value \in Offers
      BY <1>3, <2>1, ContentLemma
    <3>2. /\ SinkOK(sink') /\ sink'.confirming = s.confirming /\ sink'.capsTasks <= 1
          /\ IsConnected(sink)'
          /\ sink'.active = s.active /\ sink'.flagVoltageChanged = s.flagVoltageChanged
      BY <1>4, <2>1, <3>1, OnSourceCapabilitiesLemma
    <3>3. QED
      BY <1>4, <3>2 DEF Chain, Unpolled, IsConnected, Told
  <2>2. CASE sink' = OnPsReady(s)
    <3>1. /\ SinkOK(sink') /\ sink'.confirming = s.confirming /\ sink'.ccPin = s.ccPin
          /\ sink'.numSourceCapabilities = s.numSourceCapabilities
          /\ sink'.capsTasks = s.capsTasks
          /\ sink'.flagVoltageChanged \/ sink'.active = s.active
          /\ s.flagVoltageChanged => sink'.flagVoltageChanged
      BY <1>4, <2>2, OnPsReadyLemma
    <3>2. QED
      BY <1>1, <1>4, <3>1 DEF Chain, Unpolled, IsConnected, Told
  <2>3. CASE sink' = [s EXCEPT !.flagPowerRejected = TRUE]
    <3>1. s \in Sink
      BY <1>4 DEF SinkOK
    <3>2. /\ SinkOK(sink') /\ sink'.confirming = s.confirming /\ sink'.ccPin = s.ccPin
          /\ sink'.numSourceCapabilities = s.numSourceCapabilities
          /\ sink'.capsTasks = s.capsTasks /\ sink'.active = s.active
          /\ sink'.flagVoltageChanged = s.flagVoltageChanged
      BY <1>4, <2>3, <3>1 DEF SinkOK, Sink
    <3>3. QED
      BY <1>1, <1>4, <3>2 DEF Chain, Unpolled, IsConnected, Told
  <2>4. QED
    BY <1>5, <2>1, <2>2, <2>3 DEF OnMessageReceived
<1>7. source' \in Source
  BY <1>1, <1>3 DEF MessageConfirmed, Source
<1>8. ConfirmsMessage' /\ Told(sink, sink')
  BY <1>4, <1>6 DEF ConfirmsMessage, Told
<1>9. QED
  BY <1>6, <1>7, <1>8, InvParts, SinkStepLemma DEF MessageConfirmed

(* onReset calls the event handler twice, when nothing is transmitted.     *)
LEMMA OnResetLemma ==
  ASSUME NEW s, SinkOK(s), s.capsTasks <= 1, NEW due \in BOOLEAN
  PROVE  LET t == OnReset(s, due)
         IN  /\ SinkOK(t) /\ Chain(t) /\ t.ccPin = s.ccPin /\ t.confirming = FALSE
             /\ t.numSourceCapabilities = 0 /\ t.flagVoltageChanged
             /\ t.sending \in {Nothing, GetSourceCap, HardReset, Request(NoObject)}
<1> DEFINE a == [s EXCEPT !.sending = Nothing, !.confirming = FALSE]
           b == ResetSink(a, FALSE, due)
           c == ResetSink(b, FALSE, due)
<1>1. SinkOK(a) /\ a.capsTasks <= 1 /\ a.confirming = FALSE /\ a.ccPin = s.ccPin
      /\ a.sending = Nothing
  BY MessageLemma DEF SinkOK, Sink
<1> HIDE DEF a
<1>2. /\ SinkOK(b) /\ b.ccPin = a.ccPin /\ b.confirming = a.confirming
      /\ b.capsTasks = (IF FALSE \/ a.ccPin THEN 1 ELSE 0)
      /\ b.sending \in {a.sending, GetSourceCap, HardReset, Request(NoObject)}
  BY <1>1, ResetLemma
<1> HIDE DEF b
<1>3. b.capsTasks <= 1
  BY <1>2
<1>4. /\ SinkOK(c) /\ c.ccPin = b.ccPin /\ c.confirming = b.confirming
      /\ c.numSourceCapabilities = 0
      /\ c.capsTasks = (IF FALSE \/ b.ccPin THEN 1 ELSE 0)
      /\ c.flagVoltageChanged
      /\ c.sending \in {b.sending, GetSourceCap, HardReset, Request(NoObject)}
  <2>1. SinkOK(b) /\ b.capsTasks <= 1 /\ FALSE \in BOOLEAN /\ due \in BOOLEAN
    BY <1>2, <1>3
  <2>2. QED
    BY <2>1, ResetLemma, Zenon
<1>5. OnReset(s, due) = c
  BY DEF OnReset, a, b
<1> HIDE DEF c
<1>6. Chain(c)
  BY <1>4 DEF Chain, Unpolled
<1>7. QED
  BY <1>1, <1>2, <1>4, <1>5, <1>6

(* A reset, of either side, cancels the poll and schedules another. *)
LEMMA ResetsLemma ==
  Inv /\ (SourceResets \/ HardResetSent) => Inv'
<1> SUFFICES ASSUME Inv, SourceResets \/ HardResetSent PROVE Inv'
  OBVIOUS
<1>1. SinkOK(sink) /\ Chain(sink) /\ source \in Source
  BY InvParts
<1>2. PICK due \in BOOLEAN : sink' = OnReset(sink, due)
  BY DEF SourceResets, HardResetSent
<1>3. SinkOK(sink') /\ Chain(sink') /\ sink'.confirming = FALSE /\ sink'.flagVoltageChanged
  BY <1>1, <1>2, OnResetLemma DEF Chain
<1>4. source' \in Source
  BY <1>1, SourceLemma DEF SourceResets, HardResetSent
<1>5. budget' \in Budget
  BY InvParts, SpendLemma DEF SourceResets, HardResetSent
<1>6. ConfirmsMessage' /\ Told(sink, sink')
  BY <1>3 DEF ConfirmsMessage, Told
<1>7. QED
  BY <1>3, <1>4, <1>5, <1>6, SinkStepLemma DEF SourceResets, HardResetSent

(* The link empties the transmitter, or takes a message that is not being  *)
(* confirmed.                                                              *)
LEMMA LinkLemma ==
  Inv /\ (LinkDelivers \/ LinkLoses \/ SourceGivesUp) => Inv'
<1> SUFFICES ASSUME Inv, LinkDelivers \/ LinkLoses \/ SourceGivesUp PROVE Inv'
  OBVIOUS
<1>1. SinkOK(sink) /\ Chain(sink) /\ source \in Source /\ sink \in Sink
  BY InvParts DEF SinkOK
<1>2. CASE LinkDelivers \/ LinkLoses
  <2>1. sink' = [sink EXCEPT !.sending = Nothing]
    BY <1>2 DEF LinkDelivers, LinkLoses
  <2>2. SinkOK(sink') /\ Chain(sink') /\ Told(sink, sink') /\ sink'.confirming = sink.confirming
    BY <1>1, <2>1, MessageLemma DEF SinkOK, Sink, Chain, Unpolled, IsConnected, Told
  <2>3. source' \in Source /\ source'.outbox = source.outbox
    <3>1. sink.sending \in Message
      BY <1>1 DEF Sink
    <3>2. QED
      BY <1>1, <1>2, <3>1 DEF LinkDelivers, LinkLoses, Source
  <2>4. budget' \in Budget
    BY <1>2, InvParts, SpendLemma DEF LinkDelivers, LinkLoses
  <2>5. ConfirmsMessage'
    BY <2>2, <2>3 DEF Inv, ConfirmsMessage
  <2>6. QED
    BY <1>2, <2>2, <2>3, <2>4, <2>5, SinkStepLemma DEF LinkDelivers, LinkLoses
<1>3. CASE SourceGivesUp
  <2>1. source' \in Source
    <3>1. source.outbox \in Seq(Message) /\ source.outbox # << >>
      BY <1>1, <1>3 DEF Source, SourceGivesUp
    <3>2. Tail(source.outbox) \in Seq(Message)
      BY <3>1, HeadTailProperties
    <3>3. QED
      BY <1>1, <1>3, <3>2 DEF SourceGivesUp, Source
  <2>2. budget' \in Budget
    BY <1>3, InvParts, SpendLemma DEF SourceGivesUp
  <2>3. ConfirmsMessage' /\ sink' = sink /\ Told(sink, sink)
    BY <1>3 DEF SourceGivesUp, ConfirmsMessage, Told
  <2>4. QED
    BY <1>1, <1>3, <2>1, <2>2, <2>3, SinkStepLemma DEF SourceGivesUp
<1>4. QED
  BY <1>2, <1>3

(* The source speaks only when it has nothing left to say, so that it      *)
(* leaves alone what is being confirmed.                                   *)
LEMMA SourceStepLemma ==
  Inv /\ (SourceReplies \/ SourceOffers) => Inv'
<1> SUFFICES ASSUME Inv, SourceReplies \/ SourceOffers PROVE Inv'
  OBVIOUS
<1>1. /\ SinkOK(sink) /\ Chain(sink) /\ source \in Source
      /\ source.offers \in Offers /\ source.inbox \in Message
  BY InvParts, SourceLemma
<1>2. source.outbox = << >> /\ sink' = sink /\ main' = main /\ app' = app
  BY DEF SourceReplies, SourceAnswers, SourceAccepts, SourceRejects, SourceOffers
<1>3. /\ Nothing \in Message /\ << >> \in Seq(Message)
      /\ <<PsReady>> \in Seq(Message) /\ <<Reject>> \in Seq(Message)
      /\ \A offers \in Offers : <<SourceCapabilities(offers)>> \in Seq(Message)
  BY MessageLemma, EmptySeq
<1>4. source' \in Source
  <2>1. CASE SourceAnswers
    <3>1. (IF Answers THEN <<SourceCapabilities(source.offers)>> ELSE source.outbox) \in Seq(Message)
      BY <1>1, <1>2, <1>3
    <3>2. QED
      BY <1>1, <1>3, <2>1, <3>1 DEF SourceAnswers, Source
  <2>2. CASE SourceRejects
    BY <1>1, <1>3, <2>2 DEF SourceRejects, Source
  <2>3. CASE SourceAccepts
    <3> DEFINE object == source.inbox.value[1]
    <3>1. object \in RequestObject
      BY <1>1, <2>3, ContentLemma DEF SourceAccepts
    <3>2. object.objPos \in DOMAIN source.offers
      BY <2>3 DEF SourceAccepts, CanSupply
    <3>3. source.offers[object.objPos] \in CapabilityObject
      BY <1>1, <3>2, SupplyAssumption, ElementOfSeq, LenProperties
    <3>4. source.offers[object.objPos].min \in Nat
      BY <3>3, ObjectLemma
    <3>5. object.current \in Nat /\ object.voltage \in Nat
      BY <3>1 DEF RequestObject
    <3> HIDE DEF object
    <3>6. Supplied(object) \in [supply : Supply, pps : BOOLEAN]
      BY <3>4, <3>5 DEF Supplied, Supply
    <3>7. source' = [source EXCEPT !.inbox = Nothing, !.contract = Supplied(object),
                                   !.outbox = <<PsReady>>]
      BY <2>3 DEF SourceAccepts, object
    <3>8. QED
      BY <1>1, <1>3, <3>6, <3>7 DEF Source
  <2>4. CASE SourceOffers
    <3>1. PICK offers \in Offers :
            source' = [source EXCEPT !.offers = offers, !.outbox = <<SourceCapabilities(offers)>>]
      BY <2>4 DEF SourceOffers
    <3>2. QED
      BY <1>1, <1>3, <3>1 DEF Source
  <2>5. QED
    BY <2>1, <2>2, <2>3, <2>4 DEF SourceReplies
<1>5. budget' \in Budget
  BY InvParts, SpendLemma DEF SourceReplies, SourceAnswers, SourceAccepts, SourceRejects, SourceOffers
<1>6. ConfirmsMessage' /\ Told(sink, sink)
  BY <1>2 DEF Inv, ConfirmsMessage, Told
<1>7. QED
  BY <1>1, <1>2, <1>4, <1>5, <1>6, SinkStepLemma

(* A step of the main loop up to and in requestPower. *)
LEMMA RequestsLemma ==
  Inv /\ (RequestPower \/ RequestRefused \/ RequestBuilt \/ RequestSent) => Inv'
<1> SUFFICES ASSUME Inv, RequestPower \/ RequestRefused \/ RequestBuilt \/ RequestSent
             PROVE  Inv'
  OBVIOUS
<1>1. /\ SinkOK(sink) /\ sink \in Sink /\ Chain(sink) /\ source \in Source /\ main \in Main
      /\ app \in Supply /\ budget \in Budget /\ ConfirmsMessage /\ ApplicationKnows
  BY InvParts DEF SinkOK
<1>2. NoRequest \in PowerRequest /\ Fallback \in Supply /\ Idle \in Main
  BY DEF NoRequest, NoObject, PowerRequest, Supply, RequestObject, Fallback, Idle, Main
<1>3. source' = source /\ app' = app /\ main.at # "voltageEvent"
  BY DEF RequestPower, RequestRefused, RequestBuilt, RequestSent, At
<1>4. CASE RequestPower
  <2>1. PICK wish \in Wishes \union UNION {Preferred(list) : list \in Preferences} :
          /\ main' = [Idle EXCEPT !.at = "build", !.wish = wish]
          /\ sink' = [sink EXCEPT !.desired = wish]
    BY <1>4 DEF RequestPower
  <2>2. wish \in Supply
    <3>1. ASSUME NEW list \in Preferences, wish \in Preferred(list)
          PROVE  wish \in Supply
      <4> DEFINE able == {i \in DOMAIN list : CanProvideVoltage(sink, list[i])}
      <4>1. list \in Seq(Nat) /\ DOMAIN list = 1 .. Len(list) /\ Len(list) \in Nat
        BY SupplyAssumption, LenProperties
      <4>2. able # {} /\ wish = [voltage |-> list[Min(able)], current |-> 0]
        BY <3>1 DEF Preferred
      <4>3. able \subseteq 1 .. Len(list) /\ able \subseteq Nat
        BY <4>1
      <4> HIDE DEF able
      <4>4. Min(able) \in 1 .. Len(list)
        BY <4>2, <4>3, MinLemma
      <4>5. list[Min(able)] \in Nat
        BY <4>1, <4>4, ElementOfSeq
      <4>6. QED
        BY <4>2, <4>5 DEF Supply
    <3>2. QED
      BY <2>1, <3>1, SupplyAssumption
  <2>3. main' \in Main
    BY <1>2, <2>1, <2>2 DEF Main
  <2>4. SinkOK(sink') /\ Chain(sink') /\ Told(sink, sink') /\ sink'.confirming = sink.confirming
    BY <1>1, <2>1, <2>2 DEF SinkOK, Sink, Chain, Unpolled, IsConnected, Told
  <2>5. budget' \in Budget
    BY <1>1, <1>4, SpendLemma DEF RequestPower
  <2>6. ConfirmsMessage' /\ ApplicationKnows'
    BY <1>1, <1>3, <2>4 DEF ConfirmsMessage, ApplicationKnows, Told
  <2>7. QED
    BY <1>1, <1>3, <2>3, <2>4, <2>5, <2>6, InvPartsNext
<1>5. CASE RequestRefused \/ RequestBuilt
  <2>1. sink' = sink /\ budget' = budget
    BY <1>5 DEF RequestRefused, RequestBuilt
  <2>2. main' \in Main
    <3>1. Wanted \in PowerRequest
      <4>1. main.wish \in Supply
        BY <1>1 DEF Main
      <4>2. QED
        BY <1>1, <4>1, CapabilitiesLemma, RequestLemma DEF Wanted
    <3>2. QED
      BY <1>1, <1>2, <1>5, <3>1 DEF RequestRefused, RequestBuilt, Main
  <2>3. QED
    BY <1>1, <1>3, <2>1, <2>2, InvPartsNext
       DEF ConfirmsMessage, ApplicationKnows
<1>6. CASE RequestSent
  <2>1. budget' = budget /\ main' \in Main
    BY <1>1, <1>6 DEF RequestSent, At, Main
  <2>2. sink' = sink \/ sink' = [sink EXCEPT !.sending = Request(main.request.object)]
    BY <1>6 DEF RequestSent, Send
  <2>3. Request(main.request.object) \in Message
    <3>1. main.request.object \in RequestObject
      BY <1>1 DEF Main, PowerRequest
    <3>2. QED
      BY <3>1, MessageLemma
  <2>4. SinkOK(sink') /\ Chain(sink') /\ Told(sink, sink') /\ sink'.confirming = sink.confirming
    BY <1>1, <2>2, <2>3 DEF SinkOK, Sink, Chain, Unpolled, IsConnected, Told
  <2>5. ConfirmsMessage' /\ ApplicationKnows'
    BY <1>1, <1>3, <2>4 DEF ConfirmsMessage, ApplicationKnows, Told
  <2>6. QED
    BY <1>1, <1>3, <2>1, <2>4, <2>5, InvPartsNext
<1>7. QED
  BY <1>4, <1>5, <1>6

(* The stores after a request poll nobody and change nothing that is       *)
(* active.                                                                 *)
LEMMA AfterRequestLemma ==
  Inv /\ (PpsTaskCancelled \/ PpsIndexSet \/ RequestedSet \/ RequestAtOnce) => Inv'
<1> SUFFICES ASSUME Inv, PpsTaskCancelled \/ PpsIndexSet \/ RequestedSet \/ RequestAtOnce
             PROVE  Inv'
  OBVIOUS
<1>1. /\ SinkOK(sink) /\ sink \in Sink /\ Chain(sink) /\ source \in Source /\ main \in Main
      /\ app \in Supply /\ budget \in Budget /\ ConfirmsMessage /\ ApplicationKnows
  BY InvParts DEF SinkOK
<1>2. /\ source' = source /\ app' = app /\ budget' = budget /\ main.at # "voltageEvent"
  BY DEF PpsTaskCancelled, PpsIndexSet, RequestedSet, RequestAtOnce, At
<1>3. main' \in Main
  <2>1. Idle \in Main
    BY DEF NoRequest, NoObject, PowerRequest, Supply, RequestObject, Fallback, Idle, Main
  <2>2. QED
    BY <1>1, <2>1 DEF PpsTaskCancelled, PpsIndexSet, RequestedSet, RequestAtOnce, At, Main
<1>4. main.request \in PowerRequest /\ main.request.index \in 0 .. 7
      /\ main.request.supply \in Supply /\ main.wish \in Supply
  BY <1>1 DEF Main, PowerRequest
<1>5. Leaves(sink, sink') /\ Chain(sink')
  <2>1. CASE PpsTaskCancelled
    <3>1. /\ Leaves(sink, sink') /\ sink'.capsTasks <= sink.capsTasks
          /\ Unpolled(sink) => sink'.capsTasks = sink.capsTasks
      BY <1>1, <2>1, CancelPpsLemma DEF PpsTaskCancelled
    <3>2. QED
      BY <1>1, <3>1 DEF Chain, Leaves, SinkOK, Sink, Unpolled, IsConnected
  <2>2. CASE PpsIndexSet
    <3>1. PpsIndexOf(sink, main.request) \in 0 .. 7
      BY <1>4 DEF PpsIndexOf
    <3>2. sink' = [sink EXCEPT !.ppsIndex = PpsIndexOf(sink, main.request)]
      BY <2>2 DEF PpsIndexSet
    <3>3. QED
      BY <1>1, <3>1, <3>2 DEF Leaves, SinkOK, Sink, Chain, Unpolled, IsConnected
  <2>3. CASE RequestedSet
    <3>1. sink' = [sink EXCEPT !.requested = main.request.supply]
      BY <2>3 DEF RequestedSet
    <3>2. QED
      BY <1>1, <1>4, <3>1 DEF Leaves, SinkOK, Sink, Chain, Unpolled, IsConnected
  <2>4. CASE RequestAtOnce
    <3>1. Wanted \in PowerRequest
      BY <1>1, <1>4, CapabilitiesLemma, RequestLemma DEF Wanted
    <3>2. PICK due \in BOOLEAN : sink' = RequestPowerCore(sink, Wanted, due)
      BY <2>4 DEF RequestAtOnce
    <3>3. /\ Leaves(sink, sink') /\ sink'.capsTasks <= sink.capsTasks
          /\ Unpolled(sink) => sink'.capsTasks = sink.capsTasks
      BY <1>1, <3>1, <3>2, RequestPowerLemma
    <3>4. QED
      BY <1>1, <3>3 DEF Chain, Leaves, SinkOK, Sink, Unpolled, IsConnected
  <2>5. QED
    BY <2>1, <2>2, <2>3, <2>4
<1>6. ConfirmsMessage' /\ ApplicationKnows'
  BY <1>1, <1>2, <1>5 DEF ConfirmsMessage, ApplicationKnows, Leaves
<1>7. QED
  BY <1>1, <1>2, <1>3, <1>5, <1>6, InvPartsNext DEF Leaves

(* Loop() clears the flag before it tells the application, which reads the *)
(* active voltage only then.                                               *)
LEMMA LoopLemma ==
  Inv /\ (LoopBegins \/ SourceCapsEvent \/ VoltageTest \/ VoltageEvent
          \/ RejectTest \/ RejectEvent) => Inv'
<1> SUFFICES ASSUME Inv, LoopBegins \/ SourceCapsEvent \/ VoltageTest \/ VoltageEvent
                         \/ RejectTest \/ RejectEvent
             PROVE  Inv'
  OBVIOUS
<1>1. /\ SinkOK(sink) /\ sink \in Sink /\ Chain(sink) /\ source \in Source /\ main \in Main
      /\ app \in Supply /\ budget \in Budget /\ ConfirmsMessage /\ ApplicationKnows
  BY InvParts DEF SinkOK
<1>2. source' = source /\ budget' = budget /\ main' \in Main
  BY <1>1 DEF LoopBegins, SourceCapsEvent, VoltageTest, VoltageEvent, RejectTest, RejectEvent,
              At, Main
<1>3. /\ SinkOK(sink') /\ Chain(sink') /\ sink'.confirming = sink.confirming
      /\ sink'.active = sink.active
      /\ sink'.flagVoltageChanged = IF VoltageTest THEN FALSE ELSE sink.flagVoltageChanged
  <2>1. CASE VoltageTest
    BY <1>1, <2>1 DEF VoltageTest, SinkOK, Sink, Chain, Unpolled, IsConnected
  <2>2. CASE ~VoltageTest
    <3>1. \/ sink' = sink
          \/ sink' = [sink EXCEPT !.flagSourceCapChanged = FALSE]
          \/ sink' = [sink EXCEPT !.flagPowerRejected = FALSE]
      BY <2>2 DEF LoopBegins, SourceCapsEvent, VoltageEvent, RejectTest, RejectEvent
    <3>2. QED
      BY <1>1, <2>2, <3>1 DEF SinkOK, Sink, Chain, Unpolled, IsConnected
  <2>3. QED
    BY <2>1, <2>2
<1>4. app' \in Supply /\ ApplicationKnows'
  <2>1. CASE VoltageTest
    BY <1>1, <1>3, <2>1 DEF VoltageTest, At, ApplicationKnows, Main
  <2>2. CASE VoltageEvent
    BY <1>1, <1>3, <2>2 DEF VoltageEvent, At, ApplicationKnows, Sink
  <2>3. CASE ~VoltageTest /\ ~VoltageEvent
    <3>1. app' = app /\ main.at # "voltageEvent"
      BY <2>3 DEF LoopBegins, SourceCapsEvent, RejectTest, RejectEvent, At
    <3>2. QED
      BY <1>1, <1>3, <2>3, <3>1 DEF ApplicationKnows
  <2>4. QED
    BY <2>1, <2>2, <2>3
<1>5. ConfirmsMessage'
  BY <1>1, <1>2, <1>3 DEF ConfirmsMessage
<1>6. QED
  BY <1>1, <1>2, <1>3, <1>4, <1>5, InvPartsNext

----------------------------------------------------------------------------
(* Every step keeps the invariant. *)
LEMMA StepLemma ==
  Inv /\ [Next]_vars => Inv'
<1>1. Inv /\ Next => Inv'
  BY PpsTaskLemma, CapsTaskLemma, AttachLemma, DetachLemma, MessageArrivesLemma,
     MessageConfirmedLemma, ResetsLemma, LinkLemma, SourceStepLemma, RequestsLemma,
     AfterRequestLemma, LoopLemma
     DEF Next, MainLoop, LinkLayer
<1>2. Inv /\ UNCHANGED vars => Inv'
  BY DEF vars, Inv, TypeOK, ConfirmsMessage, PollsOnce, PollingGoesOn, ApplicationKnows, IsConnected
<1>3. QED
  BY <1>1, <1>2

(* So it always holds. *)
LEMMA InvLemma ==
  Spec => []Inv
<1>1. QED
  BY InitLemma, StepLemma, PTL DEF Spec

(* The types of PDSink, its source, the main loop and the application. *)
THEOREM SinkTypeCorrect ==
  Spec => []TypeOK
<1>1. Inv => TypeOK
  BY DEF Inv
<1>2. QED
  BY <1>1, InvLemma, PTL

(* The capabilities of an attached source are asked for until they are     *)
(* known, whatever is lost, reset, cut short or interrupted (PDSink.cpp,   *)
(* requestSourceCapsCallback and reset).                                   *)
THEOREM PollingNeverStops ==
  Spec => []PollingGoesOn
<1>1. Inv => PollingGoesOn
  BY DEF Inv
<1>2. QED
  BY <1>1, InvLemma, PTL

(* There is never a second chain of polls, which would fill the scheduler. *)
THEOREM OneChainOfPolls ==
  Spec => []PollsOnce
<1>1. Inv => PollsOnce
  BY DEF Inv
<1>2. QED
  BY <1>1, InvLemma, PTL

(* No change of the active voltage is lost between the interrupts that set *)
(* the flag and Loop(), which clears it.                                   *)
THEOREM ApplicationIsTold ==
  Spec => []ApplicationKnows
<1>1. Inv => ApplicationKnows
  BY DEF Inv
<1>2. QED
  BY <1>1, InvLemma, PTL

----------------------------------------------------------------------------
(* What is requested.  The source does not change its offers unasked, and  *)
(* requestPower is not interrupted: otherwise a request made of the old    *)
(* offers may be sent when the new ones hold.                              *)

(* An object that names one of the offers and stays within it, or none.    *)
Fit(offers, object) ==
  \/ object = NoObject
  \/ object.objPos \in DOMAIN offers /\ Within(object, offers[object.objPos])

Fits(message) ==
  message.type = "request" =>
     \/ message.value[1] = NoObject
     \/ source.attached /\ Fit(source.offers, message.value[1])

(* So far the source has not changed its offers while attached; nor has a  *)
(* message been lost or cut short, or a request turned down that could be  *)
(* supplied.                                                               *)
AsOffered == budget["offers"] = MaxOffers

Undisturbed ==
  AsOffered /\ budget["losses"] = MaxLosses /\ budget["rejects"] = MaxRejects

(* What has happened stays so: the bounds are spent and never restored.    *)
WithinBounds ==
  budget["offers"] <= MaxOffers /\ budget["losses"] <= MaxLosses /\ budget["rejects"] <= MaxRejects

LEMMA BoundsStep ==
  ASSUME Inv, WithinBounds, [Next]_vars
  PROVE  WithinBounds' /\ (AsOffered' => AsOffered) /\ (Undisturbed' => Undisturbed)
<1>1. \/ UNCHANGED budget
      \/ \E what \in {"requests", "losses", "resets", "offers", "rejects", "plugs"} : Spend(what)
  <2>1. CASE MainLoop \/ RequestPower \/ PpsTask \/ CapsTask
    BY <2>1
       DEF MainLoop, RequestRefused, RequestBuilt, RequestSent, PpsTaskCancelled, PpsIndexSet,
           RequestedSet, RequestAtOnce, LoopBegins, SourceCapsEvent, VoltageTest, VoltageEvent,
           RejectTest, RejectEvent, RequestPower, PpsTask, CapsTask
  <2>2. CASE Attach \/ Detach \/ LinkLayer \/ LinkLoses \/ SourceGivesUp
    BY <2>2
       DEF Attach, Detach, LinkLayer, MessageArrives, MessageConfirmed, HardResetSent,
           LinkDelivers, LinkLoses, SourceGivesUp
  <2>3. CASE SourceReplies \/ SourceResets \/ SourceOffers
    BY <2>3
       DEF SourceReplies, SourceAnswers, SourceAccepts, SourceRejects, SourceResets, SourceOffers
  <2> QED BY <2>1, <2>2, <2>3 DEF Next, vars
<1>2. /\ budget \in Budget
      /\ \A what \in {"requests", "losses", "resets", "offers", "rejects", "plugs"} :
           budget[what] \in Nat /\ budget'[what] \in {budget[what], budget[what] - 1}
  BY <1>1, InvParts DEF Budget, Spend
<1> QED BY <1>2, SinkBounds DEF WithinBounds, AsOffered, Undisturbed

LEMMA BoundsLemma ==
  Spec => []WithinBounds
<1>1. Init => WithinBounds
  BY SinkBounds DEF Init, WithinBounds
<1>2. Inv /\ WithinBounds /\ [Next]_vars => WithinBounds'
  BY BoundsStep
<1> QED BY <1>1, <1>2, InvLemma, PTL DEF Spec

(* The inductive invariant: while the sink knows capabilities, they are    *)
(* those the attached source offers.                                       *)
OffersKnown ==
  /\ main.at # "send" /\ budget["offers"] = MaxOffers
  /\ ~source.attached => /\ source.outbox = << >> /\ source.inbox = Nothing
                         /\ ~IsConnected(sink)
  /\ IsConnected(sink) => Capabilities(sink) = ParseMessage(source.offers)
  /\ \A i \in DOMAIN source.outbox :
        source.outbox[i].type = "sourceCapabilities" => source.outbox[i].value = source.offers
  /\ Fits(sink.sending) /\ Fits(source.inbox)

(* An object made of the parsed offers names one of them and stays within  *)
(* it.                                                                     *)
LEMMA MadeOfLemma ==
  ASSUME NEW offers \in Offers, NEW supply \in Supply
  PROVE  Fit(offers, PowerRequestObject(ParseMessage(offers), supply).object)
<1> DEFINE p == ParseMessage(offers)
           r == PowerRequestObject(p, supply)
           f == Found(p, supply)
<1>1. offers \in Seq(CapabilityObject) /\ Len(offers) \in 1 .. 7
  BY SupplyAssumption, Zenon
<1>2. Len(offers) <= 7
  <2>1. \A n \in 1 .. 7 : n <= 7
    OBVIOUS
  <2>2. QED
    BY <1>1, <2>1, Zenon
<1>3. /\ p \in Seq(Capability) /\ Len(p) \in 0 .. 7
      /\ \A n \in 1 .. Len(p) : \E i \in Kept(offers) : p[n] = CapabilityOf(offers[i], i)
  BY <1>1, <1>2, ParseLemma
<1>4. Len(p) <= 7
  BY <1>3
<1> HIDE DEF p
<1>5. /\ f \in 0 .. Len(p)
      /\ f = 0 => r = [NoRequest EXCEPT !.supply = supply]
      /\ f # 0 => r = PowerRequestObjectForCapability(f, p[f], Asked(p[f], supply))
  BY <1>3, <1>4, RequestLemma
<1>6. f # 0 => InRange(p[f], supply.voltage) /\ p[f].supplyType \in {"fixed", "pps"}
  BY <1>3, FoundLemma
<1> HIDE DEF r, f
<1>7. CASE f = 0
  BY <1>5, <1>7 DEF NoRequest, Fit, r, p
<1>8. CASE f # 0
  <2>1. f \in 1 .. Len(p)
    BY <1>3, <1>5, <1>8
  <2>2. PICK i \in Kept(offers) : p[f] = CapabilityOf(offers[i], i)
    BY <1>3, <2>1
  <2>3. /\ DOMAIN offers = 1 .. Len(offers) /\ i \in 1 .. 7 /\ i \in DOMAIN offers
        /\ offers[i] \in CapabilityObject
    <3>1. DOMAIN offers = 1 .. Len(offers) /\ Len(offers) \in Nat
      BY <1>1, LenProperties
    <3>2. i \in 1 .. Len(offers)
      BY <2>2, <3>1 DEF Kept
    <3>3. QED
      BY <1>1, <1>2, <3>1, <3>2, ElementOfSeq
  <2>4. offers[i].type \in {"fixed", "pps"}
    BY <1>6, <1>8, <2>2 DEF CapabilityOf
  <2>5. p[f] \in Capability
    BY <1>3, <2>1, ElementOfSeq
  <2>6. /\ Asked(p[f], supply) \in Supply
        /\ InRange(p[f], Asked(p[f], supply).voltage)
    BY <1>6, <1>8, <2>5, AskedLemma
  <2> DEFINE asked == Asked(p[f], supply)
             q == PowerRequestObjectForCapability(f, CapabilityOf(offers[i], i), asked)
  <2> HIDE DEF asked
  <2>7. q.object = NoObject \/ (q.object.objPos = i /\ Within(q.object, offers[i]))
    BY <2>2, <2>3, <2>4, <2>6, WithinLemma DEF asked
  <2>8. r = q
    BY <1>5, <1>8, <2>2 DEF asked
  <2>9. QED
    BY <2>3, <2>7, <2>8 DEF Fit, r, p
<1>9. QED
  BY <1>7, <1>8

(* What the sink sends fits the offers it knows. *)
LEMMA SendsLemma ==
  ASSUME NEW s, SinkOK(s), NEW t, Sends(s, t), source \in Source,
         IsConnected(s) => source.attached /\ Capabilities(s) = ParseMessage(source.offers),
         Fits(s.sending)
  PROVE  Fits(t.sending)
<1>1. CASE t.sending = s.sending
  BY <1>1
<1>2. CASE t.sending \in {GetSourceCap, HardReset}
  BY <1>2 DEF Fits, GetSourceCap, HardReset
<1>3. CASE \E supply \in Supply :
             t.sending = Request(PowerRequestObject(Capabilities(s), supply).object)
  <2>1. PICK supply \in Supply :
          t.sending = Request(PowerRequestObject(Capabilities(s), supply).object)
    BY <1>3
  <2> DEFINE object == PowerRequestObject(Capabilities(s), supply).object
  <2>2. t.sending.value[1] = object
    BY <2>1 DEF Request
  <2>3. CASE IsConnected(s)
    <3>1. Fit(source.offers, object)
      BY <2>3, MadeOfLemma, SourceLemma
    <3>2. QED
      BY <2>2, <2>3, <3>1 DEF Fits
  <2>4. CASE ~IsConnected(s)
    <3>1. s.numSourceCapabilities = 0
      BY <2>4 DEF IsConnected, SinkOK, Sink
    <3>2. object = NoObject
      BY <3>1, UnknownLemma
    <3>3. QED
      BY <2>2, <3>2 DEF Fits
  <2>5. QED
    BY <2>3, <2>4
<1>4. QED
  BY <1>1, <1>2, <1>3 DEF Sends

(* A source that does not offer anew, never does. *)
LEMMA BudgetLemma ==
  ASSUME budget \in Budget, budget["offers"] = MaxOffers,
         \/ UNCHANGED budget
         \/ \E what \in {"requests", "losses", "resets", "rejects", "plugs"} : Spend(what)
  PROVE  budget'["offers"] = MaxOffers
BY DEF Spend, Budget

(* A step that leaves the source alone, and of the sink what it knows.     *)
LEMMA SameOffersLemma ==
  ASSUME OffersKnown, UNCHANGED source, main'.at # "send", budget'["offers"] = MaxOffers,
         sink'.numSourceCapabilities = sink.numSourceCapabilities,
         sink'.sourceCapabilities = sink.sourceCapabilities,
         Fits(sink'.sending)
  PROVE  OffersKnown'
BY DEF OffersKnown, IsConnected, Capabilities, Fits

(* The tasks request only what the capabilities known allow. *)
LEMMA TasksOfferLemma ==
  ASSUME Inv, OffersKnown, PpsTask \/ CapsTask
  PROVE  OffersKnown'
<1>1. SinkOK(sink) /\ sink \in Sink /\ source \in Source
  BY InvParts DEF SinkOK
<1>2. PICK t : /\ SinkOK(t) /\ t.sending = sink.sending
               /\ t.numSourceCapabilities = sink.numSourceCapabilities
               /\ t.sourceCapabilities = sink.sourceCapabilities
               /\ sink' = OnRerequestPps(t) \/ sink' = OnRequestSourceCaps(t)
  <2>1. CASE PpsTask
    <3> DEFINE t == [sink EXCEPT !.ppsTasks = sink.ppsTasks - 1]
    <3>1. sink.ppsTasks - 1 \in Nat
      BY <1>1, <2>1 DEF PpsTask, Sink
    <3>2. t \in Sink
      BY <1>1, <3>1, Zenon DEF Sink
    <3>3. /\ SinkOK(t) /\ t.sending = sink.sending
          /\ t.numSourceCapabilities = sink.numSourceCapabilities
          /\ t.sourceCapabilities = sink.sourceCapabilities
      BY <1>1, <3>2 DEF SinkOK, Sink
    <3>4. sink' = OnRerequestPps(t)
      BY <2>1 DEF PpsTask
    <3> HIDE DEF t
    <3>5. QED
      BY <3>3, <3>4
  <2>2. CASE CapsTask
    <3> DEFINE t == [sink EXCEPT !.capsTasks = sink.capsTasks - 1]
    <3>1. sink.capsTasks - 1 \in Nat
      BY <1>1, <2>2 DEF CapsTask, Sink
    <3>2. t \in Sink
      BY <1>1, <3>1, Zenon DEF Sink
    <3>3. /\ SinkOK(t) /\ t.sending = sink.sending
          /\ t.numSourceCapabilities = sink.numSourceCapabilities
          /\ t.sourceCapabilities = sink.sourceCapabilities
      BY <1>1, <3>2 DEF SinkOK, Sink
    <3>4. sink' = OnRequestSourceCaps(t)
      BY <2>2 DEF CapsTask
    <3> HIDE DEF t
    <3>5. QED
      BY <3>3, <3>4
  <2>3. QED
    BY <2>1, <2>2
<1>3. Leaves(t, sink') /\ Sends(t, sink')
  BY <1>2, RerequestLemma, PollLemma
<1>4. /\ IsConnected(t) => source.attached /\ Capabilities(t) = ParseMessage(source.offers)
      /\ Fits(t.sending)
  BY <1>2 DEF OffersKnown, IsConnected, Capabilities
<1>5. Fits(sink'.sending)
  BY <1>1, <1>2, <1>3, <1>4, SendsLemma
<1>6. QED
  BY <1>2, <1>3, <1>5, SameOffersLemma DEF Leaves, PpsTask, CapsTask, OffersKnown

(* With the partner the capabilities are forgotten. *)
LEMMA PlugsOfferLemma ==
  ASSUME Inv, OffersKnown, Attach \/ Detach
  PROVE  OffersKnown'
<1>1. SinkOK(sink) /\ sink \in Sink /\ Chain(sink) /\ source \in Source /\ budget \in Budget
  BY InvParts DEF SinkOK
<1>2. main' = main /\ budget'["offers"] = MaxOffers
  BY <1>1, BudgetLemma DEF Attach, Detach, OffersKnown
<1>3. /\ sink'.numSourceCapabilities = 0
      /\ \/ sink'.sending \in {Nothing, Stuck, GetSourceCap, HardReset, Request(NoObject)}
         \/ Attach /\ sink'.sending = sink.sending
  <2>1. CASE Attach
    <3> DEFINE s == [sink EXCEPT !.ccPin = TRUE]
               connected == TRUE
    <3>1. SinkOK(s) /\ s.capsTasks <= 1 /\ s.sending = sink.sending
      BY <1>1 DEF SinkOK, Sink, Chain
    <3>2. connected \in BOOLEAN /\ \E due \in BOOLEAN : sink' = ResetSink(s, connected, due)
      BY <2>1 DEF Attach
    <3> HIDE DEF s, connected
    <3>3. /\ sink'.numSourceCapabilities = 0
          /\ sink'.sending \in {s.sending, GetSourceCap, HardReset, Request(NoObject)}
      BY <3>1, <3>2, ResetLemma
    <3>4. QED
      BY <2>1, <3>1, <3>3
  <2>2. CASE Detach
    <3>1. PICK due \in BOOLEAN, left \in {Nothing, Stuck} :
            sink' = ResetSink([sink EXCEPT !.ccPin = FALSE, !.confirming = FALSE, !.sending = left],
                              FALSE, due)
      BY <2>2 DEF Detach
    <3> DEFINE s == [sink EXCEPT !.ccPin = FALSE, !.confirming = FALSE, !.sending = left]
    <3>2. SinkOK(s) /\ s.capsTasks <= 1 /\ s.sending = left
      <4>1. left \in Message
        BY MessageLemma
      <4>2. s \in Sink
        BY <1>1, <4>1 DEF Sink
      <4>3. QED
        BY <1>1, <4>2 DEF SinkOK, Sink, Chain
    <3> HIDE DEF s
    <3>3. /\ sink'.numSourceCapabilities = 0
          /\ sink'.sending \in {s.sending, GetSourceCap, HardReset, Request(NoObject)}
      BY <3>1, <3>2, ResetLemma DEF s
    <3>4. QED
      BY <3>2, <3>3
  <2>3. QED
    BY <2>1, <2>2
<1>5. source'.outbox = << >> /\ source'.inbox = Nothing
  <2>1. CASE Attach
    <3>1. source'.outbox = source.outbox /\ source'.inbox = source.inbox /\ ~source.attached
      BY <1>1, <2>1 DEF Attach, Source
    <3>2. QED
      BY <3>1 DEF OffersKnown
  <2>2. CASE Detach
    <3>1. NewSession(source).outbox = << >> /\ NewSession(source).inbox = Nothing
          /\ NewSession(source) \in Source
      BY <1>1, SourceLemma
    <3>2. source' = [NewSession(source) EXCEPT !.attached = FALSE]
      BY <2>2 DEF Detach
    <3>3. QED
      BY <3>1, <3>2 DEF Source
  <2>3. QED
    BY <2>1, <2>2
<1>6. Fits(sink.sending)'
  <2>1. CASE sink'.sending \in {Nothing, Stuck, GetSourceCap, HardReset}
    BY <2>1 DEF Fits, Nothing, Stuck, GetSourceCap, HardReset
  <2>2. CASE sink'.sending = Request(NoObject)
    BY <2>2 DEF Fits, Request
  <2>3. CASE Attach /\ sink'.sending = sink.sending
    BY <2>3 DEF Attach, OffersKnown, Fits
  <2>4. QED
    BY <1>3, <2>1, <2>2, <2>3
<1>7. QED
  BY <1>2, <1>3, <1>5, <1>6 DEF OffersKnown, IsConnected, Fits, Nothing

(* What is left in a queue was in it. *)
LEMMA TailLemma ==
  ASSUME NEW boxes \in Seq(Message), boxes # << >>
  PROVE  /\ Head(boxes) = boxes[1] /\ 1 \in DOMAIN boxes
         /\ \A i \in DOMAIN Tail(boxes) : \E j \in DOMAIN boxes : Tail(boxes)[i] = boxes[j]
<1>1. /\ Tail(boxes) \in Seq(Message) /\ Len(Tail(boxes)) = Len(boxes) - 1
      /\ \A i \in 1 .. Len(Tail(boxes)) : Tail(boxes)[i] = boxes[i + 1]
  BY HeadTailProperties
<1>2. DOMAIN boxes = 1 .. Len(boxes) /\ Len(boxes) \in Nat
      /\ DOMAIN Tail(boxes) = 1 .. Len(Tail(boxes))
  BY <1>1, LenProperties
<1>3. Len(boxes) > 0
  BY EmptySeq
<1>4. QED
  BY <1>1, <1>2, <1>3

(* The capabilities handled are those of the attached source. *)
LEMMA ConfirmedOfferLemma ==
  ASSUME Inv, OffersKnown, MessageConfirmed
  PROVE  OffersKnown'
<1> DEFINE s == [sink EXCEPT !.confirming = FALSE]
           m == Head(source.outbox)
<1>1. SinkOK(sink) /\ sink \in Sink /\ Chain(sink) /\ source \in Source
  BY InvParts DEF SinkOK
<1>2. source.outbox \in Seq(Message) /\ source.outbox # << >>
  BY <1>1 DEF Inv, ConfirmsMessage, MessageConfirmed, Source
<1>3. /\ m \in Message
      /\ m = source.outbox[1] /\ 1 \in DOMAIN source.outbox
      /\ \A i \in DOMAIN Tail(source.outbox) :
            \E j \in DOMAIN source.outbox : Tail(source.outbox)[i] = source.outbox[j]
  BY <1>2, HeadTailProperties, TailLemma
<1>4. /\ SinkOK(s) /\ s.capsTasks <= 1 /\ s.sending = sink.sending
      /\ s.numSourceCapabilities = sink.numSourceCapabilities
      /\ s.sourceCapabilities = sink.sourceCapabilities
  BY <1>1 DEF SinkOK, Sink, Chain
<1>5. PICK due \in BOOLEAN : OnMessageReceived(s, m, due)
  BY DEF MessageConfirmed
<1> HIDE DEF s, m
<1>6. /\ source' = [source EXCEPT !.outbox = Tail(source.outbox)]
      /\ main' = main /\ budget' = budget /\ source.attached
  BY <1>2 DEF MessageConfirmed, OffersKnown
<1>7. /\ IsConnected(sink)' => Capabilities(sink') = ParseMessage(source.offers)
      /\ Fits(sink'.sending)
  <2>1. CASE m.type = "sourceCapabilities" /\ OnSourceCapabilities(s, m.value, due)
    <3>1. m.value = source.offers /\ source.offers \in Offers
      BY <1>1, <1>3, <2>1, SourceLemma DEF OffersKnown
    <3>2. /\ Capabilities(sink') = ParseMessage(source.offers)
          /\ \/ sink'.sending \in {s.sending, GetSourceCap, HardReset}
             \/ MadeOf(source.offers, sink'.sending)
      BY <1>4, <2>1, <3>1, OnSourceCapabilitiesLemma
    <3>3. CASE sink'.sending \in {s.sending, GetSourceCap, HardReset}
      BY <1>4, <3>2, <3>3 DEF OffersKnown, Fits, GetSourceCap, HardReset
    <3>4. CASE MadeOf(source.offers, sink'.sending)
      <4>1. PICK supply \in Supply :
              sink'.sending = Request(PowerRequestObject(ParseMessage(source.offers), supply).object)
        BY <3>4 DEF MadeOf
      <4> DEFINE object == PowerRequestObject(ParseMessage(source.offers), supply).object
      <4>2. Fit(source.offers, object)
        BY <3>1, MadeOfLemma
      <4>3. sink'.sending.value[1] = object
        BY <4>1 DEF Request
      <4>4. QED
        BY <1>6, <3>2, <4>2, <4>3 DEF Fits
    <3>5. QED
      BY <3>2, <3>3, <3>4
  <2>2. CASE sink' = OnPsReady(s) \/ sink' = [s EXCEPT !.flagPowerRejected = TRUE]
    <3>1. /\ sink'.numSourceCapabilities = s.numSourceCapabilities
          /\ sink'.sourceCapabilities = s.sourceCapabilities
          /\ sink'.sending = s.sending
      <4>1. s \in Sink
        BY <1>4 DEF SinkOK
      <4>2. QED
        BY <1>4, <2>2, <4>1, OnPsReadyLemma DEF Sink
    <3>2. QED
      BY <1>4, <3>1 DEF OffersKnown, IsConnected, Capabilities
  <2>3. QED
    BY <1>5, <2>1, <2>2 DEF OnMessageReceived
<1>8. /\ source'.offers = source.offers /\ source'.attached = source.attached
      /\ source'.inbox = source.inbox /\ source'.outbox = Tail(source.outbox)
  BY <1>1, <1>6 DEF Source
<1>9. Fits(sink.sending)' /\ Fits(source.inbox)'
  BY <1>7, <1>8 DEF OffersKnown, Fits
<1>10. \A i \in DOMAIN source'.outbox :
         source'.outbox[i].type = "sourceCapabilities" => source'.outbox[i].value = source'.offers
  BY <1>3, <1>8 DEF OffersKnown
<1>11. QED
  BY <1>6, <1>7, <1>8, <1>9, <1>10 DEF OffersKnown

(* A reset forgets them. *)
LEMMA ResetsOfferLemma ==
  ASSUME Inv, OffersKnown, SourceResets \/ HardResetSent
  PROVE  OffersKnown'
<1>1. SinkOK(sink) /\ Chain(sink) /\ source \in Source /\ budget \in Budget
  BY InvParts
<1>2. main' = main /\ budget'["offers"] = MaxOffers
  BY <1>1, BudgetLemma DEF SourceResets, HardResetSent, OffersKnown
<1>3. PICK due \in BOOLEAN : sink' = OnReset(sink, due)
  BY DEF SourceResets, HardResetSent
<1>4. /\ sink'.numSourceCapabilities = 0
      /\ sink'.sending \in {Nothing, GetSourceCap, HardReset, Request(NoObject)}
  BY <1>1, <1>3, OnResetLemma DEF Chain
<1>5. Fits(sink.sending)'
  BY <1>4 DEF Fits, Nothing, GetSourceCap, HardReset, Request
<1>6. CASE source.attached /\ source' = Offered(source)
  <2>1. /\ source'.attached /\ source'.inbox = Nothing
        /\ source'.outbox = <<SourceCapabilities(source'.offers)>>
    BY <1>1, <1>6, SourceLemma
  <2>2. \A i \in DOMAIN source'.outbox : source'.outbox[i].value = source'.offers
    BY <2>1 DEF SourceCapabilities
  <2>3. QED
    BY <1>2, <1>4, <1>5, <2>1, <2>2 DEF OffersKnown, IsConnected, Fits, Nothing
<1>7. CASE source' = source
  BY <1>2, <1>4, <1>5, <1>7 DEF OffersKnown, IsConnected, Fits
<1>8. QED
  BY <1>6, <1>7 DEF SourceResets, HardResetSent

(* The link delivers or loses, but changes no request. *)
LEMMA LinkOfferLemma ==
  ASSUME Inv, OffersKnown, MessageArrives \/ LinkDelivers \/ LinkLoses \/ SourceGivesUp
  PROVE  OffersKnown'
<1>1. SinkOK(sink) /\ sink \in Sink /\ source \in Source /\ budget \in Budget
  BY InvParts DEF SinkOK
<1>2. main' = main /\ budget'["offers"] = MaxOffers
  BY <1>1, BudgetLemma DEF MessageArrives, LinkDelivers, LinkLoses, SourceGivesUp, OffersKnown
<1>3. Fits(Nothing)
  BY DEF Fits, Nothing
<1>4. CASE MessageArrives \/ LinkLoses
  <2>1. /\ source' = source /\ sink'.sending = Nothing
        /\ sink'.numSourceCapabilities = sink.numSourceCapabilities
        /\ sink'.sourceCapabilities = sink.sourceCapabilities
    BY <1>1, <1>4 DEF MessageArrives, LinkLoses, Sink
  <2>2. QED
    BY <1>2, <1>3, <2>1, SameOffersLemma DEF OffersKnown
<1>5. CASE LinkDelivers
  <2>1. /\ sink'.sending = Nothing
        /\ sink'.numSourceCapabilities = sink.numSourceCapabilities
        /\ sink'.sourceCapabilities = sink.sourceCapabilities
    BY <1>1, <1>5 DEF LinkDelivers, Sink
  <2>2. /\ source'.offers = source.offers /\ source'.attached = source.attached
        /\ source'.outbox = source.outbox /\ source'.inbox = sink.sending /\ source.attached
    BY <1>1, <1>5 DEF LinkDelivers, Source
  <2>3. Fits(sink.sending)' /\ Fits(source.inbox)'
    BY <1>3, <2>1, <2>2 DEF OffersKnown, Fits
  <2>4. QED
    BY <1>2, <2>1, <2>2, <2>3 DEF OffersKnown, IsConnected, Capabilities
<1>6. CASE SourceGivesUp
  <2>1. source.outbox \in Seq(Message) /\ source.outbox # << >>
    BY <1>1, <1>6 DEF Source, SourceGivesUp
  <2>2. \A i \in DOMAIN Tail(source.outbox) :
          \E j \in DOMAIN source.outbox : Tail(source.outbox)[i] = source.outbox[j]
    BY <2>1, TailLemma
  <2>3. /\ sink' = sink /\ source'.offers = source.offers /\ source'.attached = source.attached
        /\ source'.inbox = source.inbox /\ source'.outbox = Tail(source.outbox)
    BY <1>1, <1>6 DEF SourceGivesUp, Source
  <2>4. source.attached
    BY <2>1 DEF OffersKnown
  <2>5. Fits(sink.sending)' /\ Fits(source.inbox)'
    BY <2>3 DEF OffersKnown, Fits
  <2>6. \A i \in DOMAIN source'.outbox :
          source'.outbox[i].type = "sourceCapabilities" => source'.outbox[i].value = source'.offers
    BY <2>2, <2>3 DEF OffersKnown
  <2>7. QED
    BY <1>2, <2>3, <2>4, <2>5, <2>6 DEF OffersKnown, IsConnected
<1>7. QED
  BY <1>4, <1>5, <1>6

(* The answers of a source name its own offers. *)
LEMMA RepliesOfferLemma ==
  ASSUME Inv, OffersKnown, SourceReplies
  PROVE  OffersKnown'
<1>1. source \in Source
  BY InvParts
<1>2. /\ sink' = sink /\ main' = main /\ budget'["offers"] = MaxOffers /\ source.attached
  <2>1. budget \in Budget
    BY InvParts
  <2>2. source.inbox # Nothing
    BY DEF SourceReplies, SourceAnswers, SourceAccepts, SourceRejects, GetSourceCap, Nothing
  <2>3. QED
    BY <2>1, <2>2, BudgetLemma
       DEF SourceReplies, SourceAnswers, SourceAccepts, SourceRejects, OffersKnown
<1>3. /\ source'.offers = source.offers /\ source'.attached = source.attached
      /\ source'.inbox = Nothing
      /\ source'.outbox \in {<< >>, <<SourceCapabilities(source.offers)>>, <<PsReady>>, <<Reject>>}
  BY <1>1 DEF SourceReplies, SourceAnswers, SourceAccepts, SourceRejects, Source
<1>4. \A i \in DOMAIN source'.outbox :
        source'.outbox[i].type = "sourceCapabilities" => source'.outbox[i].value = source'.offers
  BY <1>3 DEF SourceCapabilities, PsReady, Reject
<1>5. Fits(sink.sending)' /\ Fits(source.inbox)'
  BY <1>2, <1>3 DEF OffersKnown, Fits, Nothing
<1>6. QED
  BY <1>2, <1>3, <1>4, <1>5 DEF OffersKnown, IsConnected

(* A call of requestPower is made of the capabilities known. *)
LEMMA MainLoopOfferLemma ==
  ASSUME Inv, OffersKnown, ~Preemptible, MainLoop \/ RequestPower
  PROVE  OffersKnown'
<1>1. SinkOK(sink) /\ sink \in Sink /\ source \in Source /\ budget \in Budget /\ main \in Main
  BY InvParts DEF SinkOK
<1>2. source' = source /\ budget'["offers"] = MaxOffers
  BY <1>1, BudgetLemma
     DEF MainLoop, RequestRefused, RequestBuilt, RequestSent, PpsTaskCancelled, PpsIndexSet,
         RequestedSet, RequestAtOnce, LoopBegins, SourceCapsEvent, VoltageTest, VoltageEvent,
         RejectTest, RejectEvent, RequestPower, OffersKnown
<1>3. main'.at # "send"
  <2>1. Idle.at # "send" /\ [Idle EXCEPT !.at = "build"].at # "send"
    BY DEF Idle
  <2>2. CASE RequestPower
    BY <2>2 DEF RequestPower, Idle
  <2>3. CASE MainLoop
    BY <1>1, <2>1, <2>3
       DEF MainLoop, RequestRefused, RequestBuilt, RequestSent, PpsTaskCancelled, PpsIndexSet,
           RequestedSet, RequestAtOnce, LoopBegins, SourceCapsEvent, VoltageTest, VoltageEvent,
           RejectTest, RejectEvent, At, OffersKnown, Main
  <2>4. QED
    BY <2>2, <2>3
<1>4. /\ sink'.numSourceCapabilities = sink.numSourceCapabilities
      /\ sink'.sourceCapabilities = sink.sourceCapabilities
      /\ Sends(sink, sink')
  <2>1. CASE PpsTaskCancelled
    BY <1>1, <2>1, CancelPpsLemma DEF PpsTaskCancelled, Leaves
  <2>2. CASE RequestAtOnce
    <3>1. main.wish \in Supply
      BY <1>1 DEF Main
    <3>2. Wanted \in PowerRequest
      BY <1>1, <3>1, CapabilitiesLemma, RequestLemma DEF Wanted
    <3>3. PICK due \in BOOLEAN : sink' = RequestPowerCore(sink, Wanted, due)
      BY <2>2 DEF RequestAtOnce
    <3>4. Leaves(sink, sink') /\ (sink'.sending = Request(Wanted.object) \/ Sends(sink, sink'))
      BY <1>1, <3>2, <3>3, RequestPowerLemma
    <3>5. QED
      BY <3>1, <3>4 DEF Leaves, Sends, Wanted
  <2>3. CASE PpsIndexSet
    BY <1>1, <2>3 DEF PpsIndexSet, Sink, Sends
  <2>4. CASE RequestedSet
    BY <1>1, <2>4 DEF RequestedSet, Sink, Sends
  <2>5. CASE RequestPower
    BY <1>1, <2>5 DEF RequestPower, Sink, Sends
  <2>6. CASE RequestSent
    BY <2>6 DEF RequestSent, At, OffersKnown
  <2>7. CASE LoopBegins \/ VoltageTest \/ RejectTest
    BY <1>1, <2>7 DEF LoopBegins, VoltageTest, RejectTest, Sink, Sends
  <2>8. CASE RequestRefused \/ RequestBuilt \/ SourceCapsEvent \/ VoltageEvent \/ RejectEvent
    BY <2>8 DEF RequestRefused, RequestBuilt, SourceCapsEvent, VoltageEvent, RejectEvent, Sends
  <2>9. QED
    BY <2>1, <2>2, <2>3, <2>4, <2>5, <2>6, <2>7, <2>8 DEF MainLoop
<1>5. Fits(sink'.sending)
  BY <1>1, <1>4, SendsLemma DEF OffersKnown
<1>6. QED
  BY <1>2, <1>3, <1>4, <1>5, SameOffersLemma

(* Every step keeps what is known equal to what is offered. *)
LEMMA OffersStepLemma ==
  ASSUME ~Preemptible, Inv, OffersKnown, [Next]_vars, AsOffered'
  PROVE  OffersKnown'
<1>1. CASE SourceOffers
  BY <1>1, InvParts DEF SourceOffers, Spend, Budget, OffersKnown, AsOffered
<1>2. CASE Next /\ ~SourceOffers
  BY <1>2, TasksOfferLemma, PlugsOfferLemma, ConfirmedOfferLemma, ResetsOfferLemma,
     LinkOfferLemma, RepliesOfferLemma, MainLoopOfferLemma
     DEF Next, LinkLayer
<1>3. CASE UNCHANGED vars
  BY <1>3 DEF vars, OffersKnown, IsConnected, Fits
<1>4. QED
  BY <1>1, <1>2, <1>3

(* Every request that names an object of the source's list names one of    *)
(* its own offers and stays within it, whatever is wished for, lost, reset *)
(* or attached meanwhile (PDSourceCapability.cpp, parseMessage and         *)
(* powerRequestObject), as long as the source has not changed its offers   *)
(* while attached and requestPower is not interrupted.  Only the           *)
(* repetition of onRerequestPPS may name none (PDSink.cpp:256-258).        *)
THEOREM OnlyOffersAreRequested ==
  ASSUME ~Preemptible
  PROVE  Spec => [](AsOffered => RequestsAreOffered)
<1>1. Init => OffersKnown
  <2> SUFFICES ASSUME Init PROVE OffersKnown
    OBVIOUS
  <2>1. main.at # "send" /\ budget["offers"] = MaxOffers
    BY DEF Init, Idle
  <2>2. source.outbox = << >> /\ source.inbox = Nothing /\ ~IsConnected(sink)
        /\ sink.sending = Nothing
    BY DEF Init, IsConnected
  <2>3. QED
    BY <2>1, <2>2 DEF OffersKnown, Fits, Nothing
<1>2. Inv /\ WithinBounds /\ (AsOffered => OffersKnown) /\ [Next]_vars
        => (AsOffered => OffersKnown)'
  <2> SUFFICES ASSUME Inv, AsOffered => OffersKnown, [Next]_vars, WithinBounds, AsOffered'
               PROVE  OffersKnown'
    OBVIOUS
  <2> QED BY BoundsStep, OffersStepLemma DEF AsOffered
<1>3. Inv /\ OffersKnown => RequestsAreOffered
  <2> SUFFICES ASSUME Inv, OffersKnown,
                      NEW i \in DOMAIN source.inbox.value,
                      source.inbox.type = "request", source.inbox.value[i] # NoObject
               PROVE  CanSupply(source.inbox.value[i])
    BY DEF RequestsAreOffered
  <2>1. source.inbox.value \in [1 .. 1 -> RequestObject]
    BY InvParts, SourceLemma, ContentLemma
  <2>2. i = 1
    BY <2>1
  <2>3. Fit(source.offers, source.inbox.value[1])
    BY <2>2 DEF OffersKnown, Fits
  <2>4. QED
    BY <2>2, <2>3 DEF Fit, Within, CanSupply
<1>4. QED
  BY <1>1, <1>2, <1>3, InvLemma, BoundsLemma, PTL DEF Spec

----------------------------------------------------------------------------
(* What is supplied, as long as nothing has been lost or rejected and the  *)
(* source has kept its offers, if each request of the application that can *)
(* be made can be made again, of what it has been rounded to.              *)

(* What the application may wish for. *)
Asking ==
  Wishes \union UNION {{[voltage |-> list[i], current |-> 0] : i \in DOMAIN list} : list \in Preferences}

(* A PPS voltage may be rounded to that of a fixed supply, which is found  *)
(* first and may not have the current (PDSourceCapability.cpp:56): then    *)
(* the request is not repeated, and the source takes the supply away.      *)
Repeatable ==
  \A offers \in Offers, wish \in Asking :
    LET request == PowerRequestObject(ParseMessage(offers), wish)
    IN  request.object # NoObject
          => PowerRequestObject(ParseMessage(offers), request.supply).object # NoObject

(* A supply for which a request is sent again, and asks for the same. *)
Repeats(offers, supply) ==
  LET request == PowerRequestObject(ParseMessage(offers), supply)
  IN  request.object # NoObject /\ request.supply = supply

(* The object is one the source supplies, it supplies by it what the sink  *)
(* has noted down, and the sink knows whether to repeat it.                *)
Serves(offers, object, supply, ppsIndex) ==
  /\ object.objPos \in DOMAIN offers
  /\ LET pdo == offers[object.objPos]
     IN  /\ Within(object, pdo)
         /\ pdo.type = "fixed" =>
              supply = [voltage |-> pdo.min * 50, current |-> object.current]
         /\ pdo.type # "fixed" =>
              supply = [voltage |-> object.voltage, current |-> object.current] /\ ppsIndex > 0

(* The offers of a source, as they are parsed. *)
LEMMA OffersLemma ==
  ASSUME NEW offers \in Offers
  PROVE  LET p == ParseMessage(offers)
         IN  /\ offers \in Seq(CapabilityObject) /\ Len(offers) \in 1 .. 7
             /\ p \in Seq(Capability) /\ Len(p) \in 1 .. 7 /\ Len(p) >= 1 /\ Len(p) <= 7
             /\ \A n \in 1 .. Len(p) : \E i \in Kept(offers) : p[n] = CapabilityOf(offers[i], i)
             /\ \A i \in Kept(offers) : i \in 1 .. 7 /\ i \in DOMAIN offers
                                        /\ offers[i] \in CapabilityObject
             /\ p[1] = CapabilityOf(Vsafe5V, 1)
<1> DEFINE p == ParseMessage(offers)
           K == Kept(offers)
           place == PlaceOf(offers, 1)
<1>1. offers \in Seq(CapabilityObject) /\ Len(offers) \in 1 .. 7 /\ offers[1] = Vsafe5V
  BY SupplyAssumption, Zenon
<1>2. DOMAIN offers = 1 .. Len(offers) /\ Len(offers) \in Nat /\ Len(offers) <= 7
  <2>1. \A n \in 1 .. 7 : n <= 7
    OBVIOUS
  <2>2. Len(offers) <= 7
    BY <1>1, <2>1, Zenon
  <2> QED BY <1>1, <2>2, LenProperties
<1>3. 1 \in K
  BY <1>1, <1>2 DEF Kept, Vsafe5V
<1>4. /\ p \in Seq(Capability) /\ Len(p) = Cardinality(K) /\ Len(p) \in 0 .. 7 /\ Len(p) > 0
      /\ \A n \in 1 .. Len(p) : \E i \in K : p[n] = CapabilityOf(offers[i], i)
  BY <1>1, <1>2, <1>3, ParseLemma
<1>5. ASSUME NEW i \in K PROVE i \in 1 .. 7 /\ i \in DOMAIN offers /\ offers[i] \in CapabilityObject
  <2>1. i \in 1 .. Len(offers)
    BY <1>2 DEF Kept
  <2> QED BY <1>1, <1>2, <2>1, ElementOfSeq
<1>6. 1 \in 1 .. Cardinality(K)
  BY <1>4
<1>7. place \in K /\ KeptUpTo(offers, place) = 1
  BY <1>1, <1>6, PlaceLemma
<1>8. place = 1
  <2> SUFFICES ASSUME place # 1 PROVE FALSE
    OBVIOUS
  <2> DEFINE S == {j \in K : j <= place}
  <2>1. {1, place} \subseteq S
    BY <1>3, <1>5, <1>7
  <2>2. IsFiniteSet(S)
    BY <1>1, CountLemma, FS_Subset
  <2>3. Cardinality({1, place}) = 2
    <3>1. IsFiniteSet({1}) /\ Cardinality({1}) = 1 /\ {1, place} = {1} \union {place} /\ place \notin {1}
      BY FS_Singleton
    <3>2. Cardinality({1} \union {place}) = Cardinality({1}) + 1
      BY <3>1, FS_AddElement
    <3> QED BY <3>1, <3>2
  <2>4. Cardinality({1, place}) <= Cardinality(S)
    BY <2>1, <2>2, FS_Subset
  <2> QED BY <1>7, <2>3, <2>4 DEF KeptUpTo
<1>9. p[1] = CapabilityOf(Vsafe5V, 1)
  <2>1. p[1] = CapabilityOf(offers[place], place)
    BY <1>6 DEF ParseMessage
  <2> QED BY <1>1, <1>8, <2>1
<1> QED BY <1>1, <1>4, <1>5, <1>9

(* Every source supplies 5 V, again and again, at 900 mA and at the most   *)
(* it has: what the sink falls back on.                                    *)
LEMMA FiveVolts ==
  ASSUME NEW offers \in Offers
  PROVE  /\ Repeats(offers, Default)
         /\ LET request == PowerRequestObject(ParseMessage(offers), Fallback)
            IN  request.object # NoObject /\ Repeats(offers, request.supply)
<1> DEFINE p == ParseMessage(offers)
           c == CapabilityOf(Vsafe5V, 1)
           first == p[1]
<1>1. p \in Seq(Capability) /\ Len(p) \in 1 .. 7 /\ Len(p) <= 7 /\ first = c
  BY OffersLemma
<1>2. c = [supplyType |-> "fixed", objPos |-> 1, maxCurrent |-> 3000,
           maxVoltage |-> 5000, minVoltage |-> 5000]
  BY DEF CapabilityOf, Vsafe5V
<1> DEFINE Five(current) == [voltage |-> 5000, current |-> current]
           Request5V(current) ==
             [index |-> 1, supply |-> Five(current),
              object |-> [objPos |-> 1, voltage |-> 0, current |-> current]]
<1>3. \A current \in Nat : Found(p, Five(current)) = 1
  <2> TAKE current \in Nat
  <2> DEFINE supply == Five(current)
  <2>1. supply \in Supply /\ supply.voltage = 5000
    BY DEF Supply
  <2> HIDE DEF supply, p
  <2>2. 1 \in 1 .. Len(p) /\ p[1].supplyType = "fixed" /\ InRange(p[1], supply.voltage)
    BY <1>1, <1>2, <2>1 DEF InRange
  <2>3. Found(p, supply) \in 1 .. 1
    BY <1>1, <2>1, <2>2, FixedFound
  <2> QED BY <2>3 DEF supply
<1>4. ASSUME NEW current \in 25 .. 3000, Rounded(current, 10, 1023) = current
      PROVE  PowerRequestObject(p, Five(current)) = Request5V(current)
  <2> DEFINE supply == Five(current)
  <2>1. supply \in Supply /\ supply.current = current /\ current # 0 /\ current \in Nat
    BY DEF Supply
  <2>2. Found(p, supply) = 1
    BY <1>3, <2>1
  <2> HIDE DEF p, supply
  <2>3. PowerRequestObject(p, supply)
          = PowerRequestObjectForCapability(1, p[1], Asked(p[1], supply))
    BY <1>1, <2>1, <2>2, RequestLemma
  <2>4. Asked(p[1], supply) = supply
    BY <2>1 DEF Asked
  <2>5. PowerRequestObject(p, supply) = FixedRequest(1, c, supply)
    <3>1. supply.current \in 25 .. c.maxCurrent /\ c.supplyType = "fixed"
      BY <1>2, <2>1
    <3> HIDE DEF c
    <3> QED BY <1>1, <2>3, <2>4, <3>1 DEF PowerRequestObjectForCapability
  <2>6. FixedRequest(1, c, supply) = Request5V(current)
    BY <1>2, <1>4, <2>1 DEF FixedRequest, supply
  <2> QED BY <2>5, <2>6 DEF supply
<1>5. Rounded(900, 10, 1023) = 900 /\ Rounded(3000, 10, 1023) = 3000
  <2> DEFINE limit == 1023
             unit == 10
  <2>1. limit \in Nat /\ unit \in {10, 20, 50}
    OBVIOUS
  <2>2. 900 \in Multiples(unit, limit) /\ 3000 \in Multiples(unit, limit)
    <3>1. 90 \in 0 .. limit /\ 300 \in 0 .. limit /\ 900 = 90 * unit /\ 3000 = 300 * unit
      OBVIOUS
    <3> HIDE DEF limit, unit
    <3> QED BY <3>1 DEF Multiples
  <2> HIDE DEF limit, unit
  <2>3. \A held \in Multiples(unit, limit) : Rounded(held, unit, limit) = held
    BY <2>1, UnitsLemma
  <2>4. Rounded(900, unit, limit) = 900 /\ Rounded(3000, unit, limit) = 3000
    BY <2>2, <2>3
  <2> QED BY <2>4 DEF limit, unit
<1>6. /\ PowerRequestObject(p, Five(900)) = Request5V(900)
      /\ PowerRequestObject(p, Five(3000)) = Request5V(3000)
  <2>1. 900 \in 25 .. 3000 /\ 3000 \in 25 .. 3000
    OBVIOUS
  <2> HIDE DEF Request5V, Five
  <2> QED BY <1>4, <1>5, <2>1
<1>7. PowerRequestObject(p, Fallback) = Request5V(3000)
  <2> DEFINE most == Five(3000)
  <2>1. Fallback \in Supply /\ most \in Supply
    BY DEF Fallback, Supply
  <2>2. Found(p, Fallback) = 1 /\ Found(p, most) = 1
    <3>1. Fallback = Five(0)
      BY DEF Fallback
    <3> QED BY <1>3, <3>1
  <2>3. Asked(p[1], Fallback) = most /\ Asked(p[1], most) = most
    BY <1>1, <1>2 DEF Asked, Fallback
  <2> HIDE DEF p, most
  <2>4. PowerRequestObject(p, Fallback) = PowerRequestObjectForCapability(1, p[1], most)
    BY <1>1, <2>1, <2>2, <2>3, RequestLemma
  <2>5. PowerRequestObject(p, most) = PowerRequestObjectForCapability(1, p[1], most)
    BY <1>1, <2>1, <2>2, <2>3, RequestLemma
  <2>6. PowerRequestObject(p, most) = Request5V(3000)
    BY <1>6 DEF most
  <2> QED BY <2>4, <2>5, <2>6
<1>8. Request5V(900).object # NoObject /\ Request5V(3000).object # NoObject
      /\ Request5V(900).supply = Five(900) /\ Request5V(3000).supply = Five(3000)
  BY DEF NoObject
<1>9. Default = Five(900)
  BY DEF Default
<1> HIDE DEF Five, Request5V
<1> QED BY <1>6, <1>7, <1>8, <1>9 DEF Repeats

(* A request made of the offers is served by them. *)
LEMMA ServesLemma ==
  ASSUME NEW offers \in Offers, NEW supply \in Supply,
         PowerRequestObject(ParseMessage(offers), supply).object # NoObject
  PROVE  LET r == PowerRequestObject(ParseMessage(offers), supply)
         IN  /\ r.index \in 1 .. 7 /\ r.index \in 1 .. Len(ParseMessage(offers))
             /\ \A k : (ParseMessage(offers)[r.index].supplyType = "pps" => k > 0)
                         => Serves(offers, r.object, r.supply, k)
<1> DEFINE p == ParseMessage(offers)
           r == PowerRequestObject(p, supply)
           c == p[r.index]
           asked == Asked(c, supply)
<1>1. /\ p \in Seq(Capability) /\ Len(p) \in 1 .. 7 /\ Len(p) <= 7
      /\ \A n \in 1 .. Len(p) : \E i \in Kept(offers) : p[n] = CapabilityOf(offers[i], i)
      /\ \A i \in Kept(offers) : i \in 1 .. 7 /\ i \in DOMAIN offers
                                 /\ offers[i] \in CapabilityObject
  BY OffersLemma
<1>2. /\ r.index \in 1 .. Len(p) /\ c \in Capability /\ c.supplyType \in {"fixed", "pps"}
      /\ InRange(c, supply.voltage)
      /\ asked \in Supply /\ asked.voltage = supply.voltage
      /\ asked.current \in 25 .. c.maxCurrent
      /\ r = IF c.supplyType = "fixed" THEN FixedRequest(r.index, c, asked)
             ELSE ProgrammableRequest(r.index, c, asked)
  <2>1. r.object # NoObject
    OBVIOUS
  <2> HIDE DEF p
  <2> QED BY <1>1, <2>1, MadeLemma
<1>3. PICK i \in Kept(offers) : c = CapabilityOf(offers[i], i)
  BY <1>1, <1>2
<1>4. i \in 1 .. 7 /\ i \in DOMAIN offers /\ offers[i] \in CapabilityObject
  BY <1>1
<1> DEFINE pdo == offers[i]
<1>5. /\ c.objPos = i /\ c.supplyType = pdo.type
      /\ pdo.type = "fixed" => c.minVoltage = pdo.min * 50 /\ c.maxVoltage = pdo.min * 50
  BY <1>3 DEF CapabilityOf
<1>6. Fit(offers, r.object)
  BY MadeOfLemma
<1> HIDE DEF r, p, c, asked
<1>7. /\ r.object.objPos = i
      /\ pdo.type = "fixed" => r.supply = [voltage |-> asked.voltage, current |-> r.object.current]
      /\ pdo.type = "pps" => r.supply = [voltage |-> r.object.voltage, current |-> r.object.current]
  <2>1. asked = [voltage |-> asked.voltage, current |-> asked.current]
    BY <1>2 DEF Supply
  <2>2. CASE pdo.type = "fixed"
    <3>1. r = FixedRequest(r.index, c, asked)
      BY <1>2, <1>5, <2>2
    <3> QED BY <1>5, <2>1, <2>2, <3>1 DEF FixedRequest
  <2>3. CASE pdo.type = "pps"
    <3>1. r = ProgrammableRequest(r.index, c, asked)
      BY <1>2, <1>5, <2>3
    <3> QED BY <1>5, <2>3, <3>1 DEF ProgrammableRequest
  <2> QED BY <1>2, <1>5, <2>2, <2>3
<1>8. Within(r.object, pdo)
  <2>1. r.object # NoObject
    BY DEF r, p
  <2> QED BY <1>6, <1>7, <2>1 DEF Fit
<1>9. pdo.type = "fixed" => asked.voltage = pdo.min * 50
  <2> SUFFICES ASSUME pdo.type = "fixed" PROVE asked.voltage = pdo.min * 50
    OBVIOUS
  <2>1. pdo.min \in Nat
    BY <1>4, ObjectLemma
  <2>2. supply.voltage \in pdo.min * 50 .. pdo.min * 50
    BY <1>2, <1>5 DEF InRange
  <2>3. supply.voltage \in Nat
    BY DEF Supply
  <2> QED BY <1>2, <2>1, <2>2, <2>3
<1>10. ASSUME NEW k, c.supplyType = "pps" => k > 0 PROVE Serves(offers, r.object, r.supply, k)
  <2>1. pdo.type \in {"fixed", "pps"} /\ (pdo.type # "fixed" => pdo.type = "pps" /\ k > 0)
    BY <1>2, <1>5, <1>10
  <2> QED BY <1>4, <1>7, <1>8, <1>9, <2>1 DEF Serves
<1>11. r.index \in 1 .. 7
  BY <1>1, <1>2
<1> QED BY <1>2, <1>10, <1>11 DEF r, p, c

(* The repetition of a request leaves what was requested as it was. *)
Firm(s) == PowerRequestObject(Capabilities(s), s.requested).supply = s.requested

(* What the tasks leave alone besides. *)
Tame(s, t) ==
  /\ t.requested = s.requested /\ t.desired = s.desired
  /\ s.confirming => t.sending = s.sending

(* The repetition of a request. *)
LEMMA TameRerequest ==
  ASSUME NEW s, SinkOK(s), Firm(s)
  PROVE  LET r == PowerRequestObject(Capabilities(s), s.requested)
             t == OnRerequestPps(s)
         IN  /\ Tame(s, t) /\ t.ppsIndex = r.index
             /\ IsTransmitting(s) => t.sending = s.sending /\ t.ppsTasks = s.ppsTasks + 1
             /\ ~IsTransmitting(s) => t.sending = Request(r.object)
<1> DEFINE r == PowerRequestObject(Capabilities(s), s.requested)
           t == [s EXCEPT !.ppsIndex = r.index, !.requested = r.supply]
<1>1. s \in Sink /\ r.supply = s.requested
  BY DEF SinkOK, Firm
<1>2. OnRerequestPps(s) = IF IsTransmitting(s) THEN [t EXCEPT !.ppsTasks = @ + 1]
                          ELSE [t EXCEPT !.sending = Request(r.object)]
  BY DEF OnRerequestPps, Send
<1>3. IsTransmitting(s) \/ ~s.confirming
  BY DEF IsTransmitting
<1> DEFINE again == OnRerequestPps(s)
<1> HIDE DEF r, again
<1>4. /\ again.requested = s.requested /\ again.desired = s.desired /\ again.ppsIndex = r.index
      /\ IsTransmitting(s) => again.sending = s.sending /\ again.ppsTasks = s.ppsTasks + 1
      /\ ~IsTransmitting(s) => again.sending = Request(r.object)
  <2>1. CASE IsTransmitting(s)
    BY <1>1, <1>2, <2>1 DEF Sink, again
  <2>2. CASE ~IsTransmitting(s)
    BY <1>1, <1>2, <2>2 DEF Sink, again
  <2> QED BY <2>1, <2>2
<1> QED BY <1>3, <1>4 DEF Tame, r, again

(* The poll, which known capabilities end. *)
LEMMA TamePoll ==
  ASSUME NEW s, SinkOK(s)
  PROVE  /\ Tame(s, OnRequestSourceCaps(s))
         /\ IsConnected(s) => OnRequestSourceCaps(s) = s
<1>1. s \in Sink
  BY DEF SinkOK
<1>2. CASE ~s.ccPin \/ IsConnected(s)
  <2>1. OnRequestSourceCaps(s) = s
    BY <1>2 DEF OnRequestSourceCaps
  <2> QED BY <2>1 DEF Tame
<1>3. CASE s.ccPin /\ ~IsConnected(s)
            /\ s.sourceCapsRetryCount >= MaxSourceCapsRetriesBeforeHardReset
  <2> DEFINE t == IF IsTransmitting(s) THEN s ELSE Send(s, HardReset)
  <2>1. OnRequestSourceCaps(s) = [t EXCEPT !.sourceCapsRetryCount = 0, !.capsTasks = @ + 1]
    BY <1>3 DEF OnRequestSourceCaps
  <2>2. /\ DOMAIN t = DOMAIN s /\ t.requested = s.requested /\ t.desired = s.desired
        /\ s.confirming => t.sending = s.sending
        /\ t = [t EXCEPT !.sending = t.sending]
    BY <1>1 DEF Send, IsTransmitting, Sink
  <2> HIDE DEF t
  <2> QED BY <1>1, <1>3, <2>1, <2>2 DEF Tame, Sink
<1>4. CASE s.ccPin /\ ~IsConnected(s)
            /\ ~(s.sourceCapsRetryCount >= MaxSourceCapsRetriesBeforeHardReset)
  <2>1. OnRequestSourceCaps(s) =
          IF IsTransmitting(s)
          THEN [s EXCEPT !.capsTasks = @ + 1]
          ELSE [Send(s, GetSourceCap)
                 EXCEPT !.sourceCapsRetryCount = @ + 1, !.capsTasks = @ + 1]
    BY <1>4 DEF OnRequestSourceCaps
  <2>2. CASE IsTransmitting(s)
    BY <1>1, <1>4, <2>1, <2>2 DEF Tame, Sink
  <2>3. CASE ~IsTransmitting(s)
    BY <1>1, <1>4, <2>1, <2>3 DEF Tame, Sink, Send, IsTransmitting
  <2> QED BY <2>2, <2>3
<1> QED BY <1>2, <1>3, <1>4

(* Cancelling the repetition, which may run the poll. *)
LEMMA TameCancelPps ==
  ASSUME NEW s, SinkOK(s), NEW due \in BOOLEAN
  PROVE  LET t == CancelPpsTask(s, due)
         IN  /\ Tame(s, t)
             /\ IsConnected(s) => t.sending = s.sending /\ t.ppsIndex = s.ppsIndex
<1> DEFINE t == [s EXCEPT !.ppsTasks = Dec(s.ppsTasks)]
           u == [t EXCEPT !.capsTasks = Dec(t.capsTasks)]
<1>1. s \in Sink /\ s.ppsTasks \in Nat /\ s.capsTasks \in Nat
  BY DEF SinkOK, Sink
<1>2. \A n \in Nat : Dec(n) \in Nat
  BY DEF Dec
<1>3. CancelPpsTask(s, due) = IF due /\ t.capsTasks > 0 THEN OnRequestSourceCaps(u) ELSE t
  BY DEF CancelPpsTask
<1>4. /\ t \in Sink /\ t.capsTasks \in Nat /\ Tame(s, t)
      /\ t.sending = s.sending /\ t.ppsIndex = s.ppsIndex
      /\ t.numSourceCapabilities = s.numSourceCapabilities
      /\ t.sourceCapabilities = s.sourceCapabilities /\ t.confirming = s.confirming
  BY <1>1, <1>2 DEF Sink, Tame
<1> HIDE DEF t
<1>5. /\ u \in Sink /\ Tame(t, u) /\ u.sending = t.sending /\ u.ppsIndex = t.ppsIndex
      /\ u.numSourceCapabilities = t.numSourceCapabilities
      /\ u.sourceCapabilities = t.sourceCapabilities
      /\ u.confirming = t.confirming
  BY <1>2, <1>4 DEF Sink, Tame
<1> HIDE DEF u
<1>6. SinkOK(u) /\ (IsConnected(s) => IsConnected(u))
  BY <1>4, <1>5 DEF SinkOK, IsConnected
<1>7. /\ Tame(u, OnRequestSourceCaps(u))
      /\ IsConnected(s) => OnRequestSourceCaps(u) = u
  BY <1>6, TamePoll
<1>8. CASE due /\ t.capsTasks > 0
  <2>1. CancelPpsTask(s, due) = OnRequestSourceCaps(u)
    BY <1>3, <1>8
  <2> QED BY <1>4, <1>5, <1>7, <2>1 DEF Tame
<1>9. CASE ~(due /\ t.capsTasks > 0)
  BY <1>3, <1>4, <1>9
<1> QED BY <1>8, <1>9

(* Cancelling the poll, which may run the repetition. *)
LEMMA TameCancelCaps ==
  ASSUME NEW s, SinkOK(s), Firm(s), NEW due \in BOOLEAN
  PROVE  LET r == PowerRequestObject(Capabilities(s), s.requested)
             t == CancelCapsTask(s, due)
         IN  /\ Tame(s, t)
             /\ ~IsTransmitting(s) =>
                  t.sending = s.sending \/ (t.sending = Request(r.object) /\ t.ppsIndex = r.index)
<1> DEFINE t == [s EXCEPT !.capsTasks = Dec(s.capsTasks)]
           u == [t EXCEPT !.ppsTasks = Dec(t.ppsTasks)]
           r == PowerRequestObject(Capabilities(s), s.requested)
<1>1. s \in Sink /\ s.ppsTasks \in Nat /\ s.capsTasks \in Nat
  BY DEF SinkOK, Sink
<1>2. \A n \in Nat : Dec(n) \in Nat
  BY DEF Dec
<1>3. CancelCapsTask(s, due) = IF due /\ t.ppsTasks > 0 THEN OnRerequestPps(u) ELSE t
  BY DEF CancelCapsTask
<1>4. /\ t \in Sink /\ t.ppsTasks \in Nat /\ Tame(s, t)
      /\ t.sending = s.sending
      /\ t.numSourceCapabilities = s.numSourceCapabilities
      /\ t.sourceCapabilities = s.sourceCapabilities /\ t.confirming = s.confirming
  BY <1>1, <1>2 DEF Sink, Tame
<1> HIDE DEF t
<1>5. /\ u \in Sink /\ Tame(t, u) /\ u.sending = t.sending
      /\ u.numSourceCapabilities = t.numSourceCapabilities
      /\ u.sourceCapabilities = t.sourceCapabilities
      /\ u.confirming = t.confirming
  BY <1>2, <1>4 DEF Sink, Tame
<1> HIDE DEF u, r
<1>6. /\ SinkOK(u) /\ (IsTransmitting(u) <=> IsTransmitting(s))
      /\ PowerRequestObject(Capabilities(u), u.requested) = r
  BY <1>4, <1>5 DEF SinkOK, IsTransmitting, Capabilities, Tame, r
<1>7. Firm(u)
  BY <1>4, <1>5, <1>6 DEF Firm, Tame, r
<1>8. /\ Tame(u, OnRerequestPps(u)) /\ OnRerequestPps(u).ppsIndex = r.index
      /\ ~IsTransmitting(s) => OnRerequestPps(u).sending = Request(r.object)
  BY <1>6, <1>7, TameRerequest
<1>9. CASE due /\ t.ppsTasks > 0
  <2>1. CancelCapsTask(s, due) = OnRerequestPps(u)
    BY <1>3, <1>9
  <2> QED BY <1>4, <1>5, <1>8, <2>1 DEF Tame, r
<1>10. CASE ~(due /\ t.ppsTasks > 0)
  BY <1>3, <1>4, <1>10
<1> QED BY <1>9, <1>10

(* What is requested of unknown capabilities stays as it is. *)
LEMMA FirmUnknown ==
  ASSUME NEW s, SinkOK(s), s.numSourceCapabilities = 0
  PROVE  Firm(s)
<1>1. /\ Capabilities(s) \in Seq(Capability) /\ Len(Capabilities(s)) = 0
      /\ Len(Capabilities(s)) <= 7
  BY CapabilitiesLemma
<1>2. s.requested \in Supply
  BY DEF SinkOK, Sink
<1>3. PowerRequestObject(Capabilities(s), s.requested) = [NoRequest EXCEPT !.supply = s.requested]
  <2> DEFINE requested == s.requested
  <2>1. requested \in Supply
    BY <1>2
  <2> HIDE DEF requested
  <2>2. /\ Found(Capabilities(s), requested) \in 0 .. 0
        /\ Found(Capabilities(s), requested) = 0
              => PowerRequestObject(Capabilities(s), requested)
                   = [NoRequest EXCEPT !.supply = requested]
    BY <1>1, <2>1, RequestLemma
  <2> QED BY <2>2 DEF requested
<1> QED BY <1>3 DEF Firm, NoRequest

(* After a reset the supply is what it is without a contract. *)
LEMMA TameReset ==
  ASSUME NEW s, SinkOK(s), NEW connected \in BOOLEAN, NEW due \in BOOLEAN
  PROVE  LET t == ResetSink(s, connected, due)
         IN  /\ t.requested = Default /\ t.desired = s.desired
             /\ s.confirming => t.sending = s.sending
<1> DEFINE a == IF BusPowered \/ connected THEN Default ELSE Off
           t == [s EXCEPT !.active = a, !.requested = Default,
                          !.numSourceCapabilities = 0,
                          !.flagSourceCapChanged = TRUE, !.flagVoltageChanged = TRUE,
                          !.flagPowerRejected = FALSE, !.capabilitiesChanged = FALSE,
                          !.sourceCapsRetryCount = 0]
           v == CancelPpsTask(t, due)
           u == CancelCapsTask(v, due)
           w == IF connected \/ s.ccPin THEN [u EXCEPT !.capsTasks = u.capsTasks + 1] ELSE u
<1>1. s \in Sink
  BY DEF SinkOK
<1>2. a \in Supply /\ Default \in Supply /\ 0 \in 0 .. 7
      /\ 0 \in 0 .. MaxSourceCapsRetriesBeforeHardReset
  BY SinkBounds DEF Default, Off, Supply
<1> HIDE DEF a
<1>3. t \in Sink
  BY <1>1, <1>2, Zenon DEF Sink
<1>4. /\ t.numSourceCapabilities = 0 /\ t.sending = s.sending /\ t.confirming = s.confirming
      /\ t.requested = Default /\ t.desired = s.desired
  BY <1>1 DEF Sink
<1>5. ResetSink(s, connected, due) = w
  BY DEF ResetSink, a
<1> HIDE DEF t
<1>6. SinkOK(t)
  <2>1. Len(t.sourceCapabilities) \in Nat
    BY <1>3, LenProperties DEF Sink
  <2> QED BY <1>3, <1>4, <2>1 DEF SinkOK
<1>7. Leaves(t, v) /\ Tame(t, v)
  BY <1>6, CancelPpsLemma, TameCancelPps
<1> HIDE DEF v
<1>8. SinkOK(v) /\ v.numSourceCapabilities = 0 /\ Firm(v)
  BY <1>4, <1>7, FirmUnknown DEF Leaves
<1>9. Leaves(v, u) /\ Tame(v, u)
  BY <1>8, CancelCapsLemma, TameCancelCaps
<1> HIDE DEF u
<1>10. u \in Sink
  BY <1>9 DEF Leaves, SinkOK
<1>11. w.requested = u.requested /\ w.desired = u.desired /\ w.sending = u.sending
  BY <1>10 DEF Sink
<1> HIDE DEF w
<1> QED BY <1>4, <1>5, <1>7, <1>9, <1>11 DEF Tame, Leaves

(* The request being sent is one the source serves. *)
Pending(offers, s) ==
  s.sending.type = "request" /\ Serves(offers, s.sending.value[1], s.requested, s.ppsIndex)

(* What requestPower sends, the source serves. *)
LEMMA PowerCoreServes ==
  ASSUME NEW s, SinkOK(s), IsConnected(s), NEW offers \in Offers,
         Capabilities(s) = ParseMessage(offers), NEW supply \in Supply,
         PowerRequestObject(ParseMessage(offers), supply).object # NoObject,
         NEW due \in BOOLEAN
  PROVE  LET r == PowerRequestObject(ParseMessage(offers), supply)
             t == RequestPowerCore(s, r, due)
         IN  Pending(offers, t) /\ t.requested = r.supply /\ t.desired = s.desired
<1> DEFINE p == ParseMessage(offers)
           r == PowerRequestObject(p, supply)
           u == [s EXCEPT !.sending = Request(r.object)]
           v == CancelPpsTask(u, due)
           i == PpsIndexOf(s, r)
           t == RequestPowerCore(s, r, due)
<1>1. /\ r.index \in 1 .. 7 /\ r.index \in 1 .. Len(p)
      /\ \A k : (p[r.index].supplyType = "pps" => k > 0) => Serves(offers, r.object, r.supply, k)
  BY ServesLemma
<1>2. p \in Seq(Capability) /\ Len(p) <= 7
  BY OffersLemma
<1>3. r \in PowerRequest
  <2> HIDE DEF p
  <2> QED BY <1>2, RequestLemma
<1> HIDE DEF r
<1>4. s \in Sink /\ r.object \in RequestObject /\ r.supply \in Supply
  BY <1>3 DEF SinkOK, PowerRequest
<1>5. /\ u \in Sink /\ SinkOK(u) /\ IsConnected(u)
      /\ u.sending = Request(r.object) /\ u.desired = s.desired
  <2>1. Request(r.object) \in Message
    BY <1>4, MessageLemma
  <2> QED BY <1>4, <2>1 DEF SinkOK, Sink, IsConnected
<1>6. t = [v EXCEPT !.ppsIndex = i, !.requested = r.supply]
  BY DEF RequestPowerCore, Send
<1> HIDE DEF u
<1>7. v \in Sink /\ v.sending = Request(r.object) /\ v.desired = s.desired
  <2>1. SinkOK(v) /\ Tame(u, v) /\ v.sending = u.sending
    BY <1>5, CancelPpsLemma, TameCancelPps DEF Leaves
  <2> QED BY <1>5, <2>1 DEF Tame, SinkOK
<1>8. p[r.index].supplyType = "pps" => i > 0
  <2>1. Len(Capabilities(s)) = s.numSourceCapabilities
        /\ \A k \in 1 .. s.numSourceCapabilities : Capabilities(s)[k] = s.sourceCapabilities[k]
    BY CapabilitiesLemma
  <2>2. s.sourceCapabilities[r.index] = p[r.index]
    BY <1>1, <2>1
  <2>3. r.index > 0
    BY <1>1
  <2> QED BY <2>2, <2>3 DEF PpsIndexOf
<1> HIDE DEF v, i
<1>9. /\ t.ppsIndex = i /\ t.requested = r.supply
      /\ t.sending = Request(r.object) /\ t.desired = s.desired
  BY <1>6, <1>7 DEF Sink
<1>10. Serves(offers, r.object, r.supply, i)
  BY <1>1, <1>8, Zenon
<1> HIDE DEF t
<1>11. Pending(offers, t)
  BY <1>9, <1>10 DEF Pending, Request
<1> QED BY <1>9, <1>11 DEF t, r

(* A repetition that is sent, the source serves. *)
LEMMA RepetitionServes ==
  ASSUME NEW offers \in Offers, NEW s, NEW t, s.requested \in Supply,
         Repeats(offers, s.requested), Tame(s, t),
         LET r == PowerRequestObject(ParseMessage(offers), s.requested)
         IN  t.sending = Request(r.object) /\ t.ppsIndex = r.index
  PROVE  Pending(offers, t)
<1> DEFINE r == PowerRequestObject(ParseMessage(offers), s.requested)
<1>1. r.object # NoObject /\ r.supply = s.requested
  BY DEF Repeats
<1>2. r.index \in 1 .. 7 /\ \A k : k > 0 => Serves(offers, r.object, r.supply, k)
  BY <1>1, ServesLemma
<1> HIDE DEF r
<1>3. Serves(offers, r.object, t.requested, t.ppsIndex)
  <2>1. r.index > 0 /\ t.ppsIndex = r.index /\ t.requested = r.supply
    BY <1>1, <1>2 DEF Tame, r
  <2> QED BY <1>2, <2>1
<1>4. t.sending = Request(r.object)
  BY DEF r
<1> QED BY <1>3, <1>4 DEF Pending, Request

(* What the application wishes for is noted down so that it can be         *)
(* repeated.                                                               *)
LEMMA WishesRepeat ==
  ASSUME Repeatable, NEW offers \in Offers, NEW wish \in Supply, wish \in Asking \union {Fallback},
         PowerRequestObject(ParseMessage(offers), wish).object # NoObject
  PROVE  Repeats(offers, PowerRequestObject(ParseMessage(offers), wish).supply)
<1> DEFINE p == ParseMessage(offers)
           requested == PowerRequestObject(p, wish).supply
<1>1. CASE wish = Fallback
  BY <1>1, FiveVolts
<1>2. CASE wish \in Asking
  <2>1. PowerRequestObject(p, requested).object # NoObject
    BY <1>2 DEF Repeatable
  <2>2. p \in Seq(Capability) /\ Len(p) <= 7
    BY OffersLemma
  <2>3. PowerRequestObject(p, wish).object # NoObject
    OBVIOUS
  <2> HIDE DEF p
  <2>4. PowerRequestObject(p, requested).supply = requested
    BY <2>1, <2>2, <2>3, RepeatLemma
  <2> QED BY <2>1, <2>4 DEF Repeats, p
<1> QED BY <1>1, <1>2

(* When the capabilities have been received, something is requested of     *)
(* them: what was wished for, at least 5 V, or again what had been.        *)
LEMMA CapabilitiesAnswered ==
  ASSUME Repeatable, NEW s, SinkOK(s), ~s.confirming, s.sending = Nothing, s.capsTasks <= 1,
         NEW offers \in Offers, NEW due \in BOOLEAN, OnSourceCapabilities(s, offers, due),
         s.desired \in Asking \union {Fallback}, Repeats(offers, s.requested)
  PROVE  /\ sink'.desired = s.desired
         /\ Pending(offers, sink') /\ Repeats(offers, sink'.requested)
<1> DEFINE p == Parsed(s, offers)
           c == CancelCapsTask(p, due)
           t == [c EXCEPT !.capabilitiesChanged = TRUE]
           desired == PowerRequestObject(Capabilities(t), t.desired)
           fallback == PowerRequestObject(Capabilities(t), Fallback)
<1>1. /\ SinkOK(p) /\ p.confirming = s.confirming /\ p.sending = s.sending
      /\ IsConnected(p) /\ Capabilities(p) = ParseMessage(offers)
  BY ParsedLemma
<1>2. sink' = CASE CanRequest(t, desired) -> RequestPowerCore(t, desired, due)
                [] ~CanRequest(t, desired) /\ CanRequest(t, fallback) ->
                     RequestPowerCore(t, fallback, due)
                [] OTHER -> t
  BY DEF OnSourceCapabilities
<1>3. p.requested = s.requested /\ p.desired = s.desired
  BY DEF Parsed, SinkOK, Sink
<1> HIDE DEF p
<1>4. Firm(p) /\ ~IsTransmitting(p)
  BY <1>1, <1>3 DEF Firm, Repeats, IsTransmitting
<1> DEFINE again == PowerRequestObject(ParseMessage(offers), s.requested)
<1>5. /\ Leaves(p, c) /\ Tame(p, c)
      /\ \/ c.sending = Nothing
         \/ c.sending = Request(again.object) /\ c.ppsIndex = again.index
  BY <1>1, <1>3, <1>4, CancelCapsLemma, TameCancelCaps
<1> HIDE DEF c
<1>6. /\ t \in Sink /\ Leaves(c, t) /\ t.sending = c.sending /\ t.ppsIndex = c.ppsIndex
      /\ Tame(c, t)
  <2>1. c \in Sink /\ SinkOK(c)
    BY <1>5 DEF Leaves, SinkOK
  <2>2. t \in Sink
    BY <2>1 DEF Sink
  <2> QED BY <2>1, <2>2 DEF Leaves, SinkOK, Sink, Tame
<1> HIDE DEF t
<1>7. /\ SinkOK(t) /\ IsConnected(t) /\ Capabilities(t) = ParseMessage(offers)
      /\ t.confirming = s.confirming /\ t.requested = s.requested /\ t.desired = s.desired
  BY <1>1, <1>3, <1>5, <1>6 DEF Leaves, Tame, IsConnected, Capabilities
<1>8. t.requested \in Supply /\ t.desired \in Supply /\ Fallback \in Supply
  BY <1>6 DEF Sink, Fallback, Supply
<1>9. CASE t.sending = Nothing
  <2>1. ~IsTransmitting(t)
    BY <1>7, <1>9 DEF IsTransmitting
  <2>2. fallback.object # NoObject
    BY <1>7, FiveVolts
  <2>3. PICK wish \in Supply :
          /\ wish \in Asking \union {Fallback}
          /\ PowerRequestObject(ParseMessage(offers), wish).object # NoObject
          /\ sink' = RequestPowerCore(t, PowerRequestObject(ParseMessage(offers), wish), due)
    <3>1. CASE desired.object # NoObject
      <4>1. sink' = RequestPowerCore(t, desired, due)
        BY <1>2, <2>1, <3>1 DEF CanRequest
      <4> QED BY <1>7, <1>8, <3>1, <4>1
    <3>2. CASE desired.object = NoObject
      <4>1. sink' = RequestPowerCore(t, fallback, due)
        BY <1>2, <2>1, <2>2, <3>2 DEF CanRequest
      <4> QED BY <1>7, <1>8, <2>2, <4>1
    <3> QED BY <3>1, <3>2
  <2> DEFINE r == PowerRequestObject(ParseMessage(offers), wish)
  <2>4. Pending(offers, sink') /\ sink'.requested = r.supply /\ sink'.desired = t.desired
    BY <1>7, <2>3, PowerCoreServes
  <2>5. Repeats(offers, r.supply)
    BY <2>3, WishesRepeat
  <2> QED BY <1>7, <2>4, <2>5
<1>10. CASE t.sending = Request(again.object) /\ t.ppsIndex = again.index
  <2>1. IsTransmitting(t)
    BY <1>10 DEF IsTransmitting, Request, Nothing, HardReset
  <2>2. sink' = t
    BY <1>2, <2>1 DEF CanRequest
  <2>3. Tame(s, t)
    BY <1>7 DEF Tame
  <2>4. Pending(offers, t)
    BY <1>7, <1>8, <1>10, <2>3, RepetitionServes
  <2> QED BY <1>7, <2>2, <2>4
<1> QED BY <1>5, <1>6, <1>9, <1>10

(* What the source has yet to say. *)
Says(src, type) == \E i \in DOMAIN src.outbox : src.outbox[i].type = type

(* Where the supply is settled: in the request on its way, else in the one *)
(* the source has, else in what it will be told.  If none is under way,    *)
(* the sink acts by the contract, unless capabilities are to be answered.  *)
Settled(s, src) ==
  IF s.sending.type = "request"
  THEN Serves(src.offers, s.sending.value[1], s.requested, s.ppsIndex)
  ELSE IF src.inbox.type = "request"
  THEN Serves(src.offers, src.inbox.value[1], s.requested, s.ppsIndex)
  ELSE IF Says(src, "psReady")
  THEN s.requested = src.contract.supply /\ (src.contract.pps => s.ppsIndex > 0)
  ELSE \/ Says(src, "sourceCapabilities")
       \/ s.active = src.contract.supply /\ (src.contract.pps => s.ppsTasks > 0)

(* What was requested can be repeated: of a source that is known, as long  *)
(* as it is, and of the next one, which is asked for 5 V.                  *)
AgreedOn(s, src) ==
  IF IsConnected(s)
  THEN Repeats(src.offers, s.requested) /\ Settled(s, src)
  ELSE s.requested = Default

(* The inductive invariant, on top of Inv and OffersKnown. *)
ContractInv ==
  /\ budget["losses"] = MaxLosses /\ budget["rejects"] = MaxRejects
  /\ main.at \notin {"send", "cancel", "pps", "requested"}
  /\ sink.desired \in Asking \union {Fallback}
  /\ main.at = "build" => main.wish \in Asking
  /\ Len(source.outbox) <= 1
  /\ sink.confirming => sink.sending = Nothing
  /\ AgreedOn(sink, source)

(* A step by which nothing is lost or rejected, nor anything else offered. *)
LEMMA UndisturbedLemma ==
  ASSUME budget \in Budget, AsOffered, budget["losses"] = MaxLosses,
         budget["rejects"] = MaxRejects, Undisturbed'
  PROVE  ~Spend("losses") /\ ~Spend("rejects") /\ ~Spend("offers")
BY SinkBounds DEF AsOffered, Undisturbed, Spend, Budget

(* A step of which the main loop is no part. *)
LEMMA ContractKept ==
  ASSUME Inv, ContractInv, main' = main, Undisturbed',
         sink'.desired = sink.desired, Len(source'.outbox) <= 1,
         sink'.confirming => sink'.sending = Nothing, AgreedOn(sink', source')
  PROVE  ContractInv'
<1>1. budget'["losses"] = MaxLosses /\ budget'["rejects"] = MaxRejects
  BY DEF Undisturbed
<1> QED BY <1>1 DEF ContractInv, AgreedOn, Settled, Says, IsConnected

(* What is settled stays so if the sink keeps to what it has requested.    *)
LEMMA SettledKept ==
  ASSUME NEW src, NEW s, NEW t, Settled(s, src),
         t.requested = s.requested, t.sending = s.sending, t.active = s.active,
         t.ppsIndex = s.ppsIndex \/ t.ppsIndex > 0, t.ppsTasks = s.ppsTasks
  PROVE  Settled(t, src)
BY DEF Settled, Serves

(* The repetition asks for what was requested, also later if it must wait. *)
LEMMA PpsTaskSettles ==
  ASSUME Inv, OffersKnown, ContractInv, PpsTask, Undisturbed'
  PROVE  ContractInv'
<1> DEFINE t == [sink EXCEPT !.ppsTasks = sink.ppsTasks - 1]
           offers == source.offers
<1>1. /\ SinkOK(sink) /\ sink \in Sink /\ sink.ppsTasks \in Nat /\ sink.ppsTasks > 0
      /\ source \in Source /\ offers \in Offers /\ sink.requested \in Supply
  BY InvParts DEF SinkOK, Sink, Source, PpsTask
<1>2. /\ SinkOK(t) /\ t.ppsTasks = sink.ppsTasks - 1 /\ t.sending = sink.sending
      /\ t.requested = sink.requested /\ t.desired = sink.desired /\ t.active = sink.active
      /\ t.confirming = sink.confirming /\ Capabilities(t) = Capabilities(sink)
      /\ t.numSourceCapabilities = sink.numSourceCapabilities
  <2>1. sink.ppsTasks - 1 \in Nat
    BY <1>1
  <2>2. t \in Sink
    BY <1>1, <2>1, Zenon DEF Sink
  <2> QED BY <1>1, <2>2 DEF SinkOK, Sink, Capabilities
<1>3. sink' = OnRerequestPps(t) /\ source' = source /\ main' = main /\ budget' = budget
  BY DEF PpsTask
<1> HIDE DEF t
<1> DEFINE r == PowerRequestObject(Capabilities(t), t.requested)
<1>4. Firm(t)
  <2>1. CASE IsConnected(sink)
    BY <1>2, <2>1 DEF ContractInv, AgreedOn, Repeats, OffersKnown, Firm
  <2>2. CASE ~IsConnected(sink)
    <3>1. t.numSourceCapabilities = 0
      BY <1>1, <1>2, <2>2 DEF IsConnected, Sink
    <3> QED BY <1>2, <3>1, FirmUnknown
  <2> QED BY <2>1, <2>2
<1>5. /\ Tame(t, sink') /\ sink'.ppsIndex = r.index
      /\ IsTransmitting(t) => sink'.sending = t.sending /\ sink'.ppsTasks = t.ppsTasks + 1
      /\ ~IsTransmitting(t) => sink'.sending = Request(r.object)
  BY <1>2, <1>3, <1>4, TameRerequest
<1>6. Leaves(t, sink')
  BY <1>2, <1>3, RerequestLemma
<1>7. /\ sink'.desired = sink.desired /\ Len(source'.outbox) <= 1
      /\ sink'.confirming => sink'.sending = Nothing
  BY <1>2, <1>3, <1>5, <1>6 DEF Tame, Leaves, ContractInv
<1>8. AgreedOn(sink', source')
  <2>1. CASE IsConnected(sink)
    <3>1. /\ IsConnected(sink') /\ Repeats(offers, sink'.requested) /\ Repeats(offers, t.requested)
          /\ Settled(sink, source)
      BY <1>2, <1>5, <1>6, <2>1 DEF ContractInv, AgreedOn, IsConnected, Leaves, Tame
    <3>2. r = PowerRequestObject(ParseMessage(offers), t.requested)
      BY <1>2, <2>1 DEF OffersKnown
    <3>3. CASE IsTransmitting(t)
      <4>1. r.index > 0
        <5>1. r.object # NoObject
          BY <3>1, <3>2 DEF Repeats
        <5>2. r.index \in 1 .. 7
          BY <1>1, <1>2, <3>2, <5>1, ServesLemma
        <5> HIDE DEF r
        <5> QED BY <5>2
      <4>2. Settled(sink', source)
        <5>1. /\ sink'.requested = sink.requested /\ sink'.sending = sink.sending
              /\ sink'.active = sink.active /\ sink'.ppsIndex > 0
              /\ sink'.ppsTasks = sink.ppsTasks
          BY <1>1, <1>2, <1>5, <1>6, <3>3, <4>1 DEF Tame, Leaves
        <5> QED BY <3>1, <5>1, SettledKept
      <4> QED BY <1>3, <3>1, <4>2 DEF AgreedOn
    <3>4. CASE ~IsTransmitting(t)
      <4>1. Pending(offers, sink')
        BY <1>1, <1>2, <1>5, <3>1, <3>2, <3>4, RepetitionServes
      <4> QED BY <1>3, <3>1, <4>1 DEF AgreedOn, Settled, Pending
    <3> QED BY <3>3, <3>4
  <2>2. CASE ~IsConnected(sink)
    BY <1>2, <1>5, <1>6, <2>2 DEF ContractInv, AgreedOn, IsConnected, Leaves, Tame
  <2> QED BY <2>1, <2>2
<1> QED BY <1>3, <1>7, <1>8, ContractKept

(* The poll stops once the capabilities are known. *)
LEMMA CapsTaskSettles ==
  ASSUME Inv, OffersKnown, ContractInv, CapsTask, Undisturbed'
  PROVE  ContractInv'
<1> DEFINE t == [sink EXCEPT !.capsTasks = sink.capsTasks - 1]
<1>1. /\ SinkOK(sink) /\ sink \in Sink /\ sink.capsTasks \in Nat /\ sink.capsTasks > 0
  BY InvParts DEF SinkOK, Sink, CapsTask
<1>2. /\ SinkOK(t) /\ t.sending = sink.sending
      /\ t.requested = sink.requested /\ t.desired = sink.desired /\ t.active = sink.active
      /\ t.confirming = sink.confirming /\ t.ppsTasks = sink.ppsTasks
      /\ t.ppsIndex = sink.ppsIndex
      /\ t.numSourceCapabilities = sink.numSourceCapabilities
  <2>1. sink.capsTasks - 1 \in Nat
    BY <1>1
  <2>2. t \in Sink
    BY <1>1, <2>1, Zenon DEF Sink
  <2> QED BY <1>1, <2>2 DEF SinkOK, Sink
<1>3. sink' = OnRequestSourceCaps(t) /\ source' = source /\ main' = main /\ budget' = budget
  BY DEF CapsTask
<1> HIDE DEF t
<1>4. Tame(t, sink') /\ (IsConnected(t) => sink' = t)
  BY <1>2, <1>3, TamePoll
<1>5. Leaves(t, sink')
  BY <1>2, <1>3, PollLemma
<1>6. /\ sink'.desired = sink.desired /\ Len(source'.outbox) <= 1
      /\ sink'.confirming => sink'.sending = Nothing
  BY <1>2, <1>3, <1>4, <1>5 DEF Tame, Leaves, ContractInv
<1>7. AgreedOn(sink', source')
  <2>1. CASE IsConnected(sink)
    <3>1. sink' = t /\ Repeats(source.offers, sink.requested) /\ Settled(sink, source)
      BY <1>2, <1>4, <2>1 DEF ContractInv, AgreedOn, IsConnected
    <3>2. Settled(t, source)
      BY <1>2, <3>1, SettledKept
    <3> QED BY <1>2, <1>3, <2>1, <3>1, <3>2 DEF AgreedOn, IsConnected
  <2>2. CASE ~IsConnected(sink)
    BY <1>2, <1>4, <1>5, <2>2 DEF ContractInv, AgreedOn, IsConnected, Leaves, Tame
  <2> QED BY <2>1, <2>2
<1> QED BY <1>3, <1>6, <1>7, ContractKept

(* After a reset of the sink nothing is agreed on but 5 V. *)
LEMMA ResetSettles ==
  ASSUME NEW s, SinkOK(s), s.capsTasks <= 1, NEW due \in BOOLEAN, NEW connected \in BOOLEAN,
         NEW src, s.confirming => s.sending = Nothing
  PROVE  LET t == ResetSink(s, connected, due)
         IN  /\ AgreedOn(t, src) /\ t.desired = s.desired
             /\ t.confirming => t.sending = Nothing
<1> DEFINE t == ResetSink(s, connected, due)
<1>1. /\ t.numSourceCapabilities = 0 /\ t.confirming = s.confirming
  BY ResetLemma
<1>2. /\ t.requested = Default /\ t.desired = s.desired
      /\ s.confirming => t.sending = s.sending
  BY TameReset
<1> HIDE DEF t
<1>3. AgreedOn(t, src) /\ t.desired = s.desired /\ (t.confirming => t.sending = Nothing)
  BY <1>1, <1>2 DEF AgreedOn, IsConnected
<1> QED BY <1>3 DEF t

(* An attach and a detach. *)
LEMMA PlugsSettle ==
  ASSUME Inv, OffersKnown, ContractInv, Attach \/ Detach, Undisturbed'
  PROVE  ContractInv'
<1>1. SinkOK(sink) /\ sink \in Sink /\ Chain(sink) /\ source \in Source /\ budget \in Budget
  BY InvParts DEF SinkOK
<1>2. main' = main /\ Spend("plugs")
  BY DEF Attach, Detach
<1>3. /\ AgreedOn(sink', source') /\ sink'.desired = sink.desired
      /\ sink'.confirming => sink'.sending = Nothing
  <2>1. CASE Attach
    <3> DEFINE s == [sink EXCEPT !.ccPin = TRUE]
               connected == TRUE
    <3>1. /\ SinkOK(s) /\ s.capsTasks <= 1 /\ s.desired = sink.desired
          /\ s.confirming => s.sending = Nothing
      BY <1>1 DEF SinkOK, Sink, Chain, ContractInv
    <3>2. connected \in BOOLEAN /\ \E due \in BOOLEAN : sink' = ResetSink(s, connected, due)
      BY <2>1 DEF Attach
    <3> HIDE DEF s, connected
    <3> QED BY <3>1, <3>2, ResetSettles
  <2>2. CASE Detach
    <3>1. PICK due \in BOOLEAN, left \in {Nothing, Stuck} :
            sink' = ResetSink([sink EXCEPT !.ccPin = FALSE, !.confirming = FALSE, !.sending = left],
                              FALSE, due)
      BY <2>2 DEF Detach
    <3> DEFINE s == [sink EXCEPT !.ccPin = FALSE, !.confirming = FALSE, !.sending = left]
    <3>2. SinkOK(s) /\ s.capsTasks <= 1 /\ s.desired = sink.desired /\ ~s.confirming
      <4>1. left \in Message
        BY MessageLemma
      <4>2. s \in Sink
        BY <1>1, <4>1 DEF Sink
      <4> QED BY <1>1, <4>2 DEF SinkOK, Sink, Chain
    <3>3. sink' = ResetSink(s, FALSE, due) /\ FALSE \in BOOLEAN
      BY <3>1
    <3> HIDE DEF s
    <3> QED BY <3>2, <3>3, ResetSettles
  <2> QED BY <2>1, <2>2
<1>4. Len(source'.outbox) <= 1
  <2>1. CASE Attach
    BY <1>1, <2>1 DEF Attach, Source, ContractInv
  <2>2. CASE Detach
    <3>1. NewSession(source).outbox = << >> /\ NewSession(source) \in Source
      BY <1>1, SourceLemma
    <3>2. source' = [NewSession(source) EXCEPT !.attached = FALSE]
      BY <2>2 DEF Detach
    <3>3. source'.outbox = << >>
      BY <3>1, <3>2 DEF Source
    <3> QED BY <3>3
  <2> QED BY <2>1, <2>2
<1> QED BY <1>2, <1>3, <1>4, ContractKept

(* A reset of either side, after which the source offers anew. *)
LEMMA ResetsSettle ==
  ASSUME Inv, OffersKnown, ContractInv, SourceResets \/ HardResetSent, Undisturbed'
  PROVE  ContractInv'
<1>1. SinkOK(sink) /\ sink \in Sink /\ Chain(sink) /\ source \in Source /\ budget \in Budget
  BY InvParts DEF SinkOK
<1>2. main' = main /\ (UNCHANGED budget \/ Spend("resets"))
  BY DEF SourceResets, HardResetSent
<1>3. PICK due \in BOOLEAN : sink' = OnReset(sink, due)
  BY DEF SourceResets, HardResetSent
<1> DEFINE a == [sink EXCEPT !.sending = Nothing, !.confirming = FALSE]
           b == ResetSink(a, FALSE, due)
<1>4. SinkOK(a) /\ a.capsTasks <= 1 /\ ~a.confirming /\ a.desired = sink.desired
  BY <1>1, MessageLemma DEF SinkOK, Sink, Chain
<1>5. sink' = ResetSink(b, FALSE, due)
  BY <1>3 DEF OnReset
<1> HIDE DEF a
<1>6. SinkOK(b) /\ b.capsTasks <= 1 /\ ~b.confirming
  <2>1. FALSE \in BOOLEAN
    OBVIOUS
  <2>2. SinkOK(b) /\ b.confirming = a.confirming
        /\ b.capsTasks = (IF FALSE \/ a.ccPin THEN 1 ELSE 0)
    BY <1>4, <2>1, ResetLemma, Zenon
  <2> HIDE DEF b
  <2>3. b.capsTasks <= 1
    BY <2>2
  <2> QED BY <1>4, <2>2, <2>3
<1>7. b.desired = a.desired
  BY <1>4, ResetSettles
<1> HIDE DEF b
<1>8. /\ AgreedOn(sink', source') /\ sink'.desired = sink.desired
      /\ sink'.confirming => sink'.sending = Nothing
  <2>1. SinkOK(b) /\ b.capsTasks <= 1 /\ FALSE \in BOOLEAN /\ (b.confirming => b.sending = Nothing)
    BY <1>6
  <2>2. /\ AgreedOn(ResetSink(b, FALSE, due), source')
        /\ ResetSink(b, FALSE, due).desired = b.desired
        /\ ResetSink(b, FALSE, due).confirming => ResetSink(b, FALSE, due).sending = Nothing
    BY <2>1, ResetSettles
  <2> QED BY <1>4, <1>5, <1>7, <2>2
<1>9. Len(source'.outbox) <= 1
  <2>1. CASE source' = Offered(source)
    <3>1. source'.outbox = <<SourceCapabilities(source.offers)>>
      BY <1>1, <2>1, SourceLemma
    <3> QED BY <3>1
  <2>2. CASE source' = source
    BY <2>2 DEF ContractInv
  <2> QED BY <2>1, <2>2 DEF SourceResets, HardResetSent
<1> QED BY <1>2, <1>8, <1>9, ContractKept

(* A message on its way settles nothing, but no request may be lost. *)
LEMMA LinkSettles ==
  ASSUME Inv, OffersKnown, ContractInv,
         MessageArrives \/ LinkDelivers \/ LinkLoses \/ SourceGivesUp, Undisturbed'
  PROVE  ContractInv'
<1>1. SinkOK(sink) /\ sink \in Sink /\ source \in Source /\ budget["losses"] = MaxLosses
  BY InvParts DEF SinkOK, ContractInv
<1>2. ~Spend("losses") /\ main' = main /\ budget' = budget
  <2>1. ~Spend("losses")
    BY <1>1, InvParts, UndisturbedLemma DEF ContractInv, OffersKnown, AsOffered
  <2> QED BY <2>1 DEF MessageArrives, LinkDelivers, LinkLoses, SourceGivesUp
<1>3. CASE MessageArrives
  <2>1. sink.sending \in {Nothing, GetSourceCap, Stuck}
    BY <1>2, <1>3 DEF MessageArrives
  <2>2. /\ source' = source /\ sink'.sending = Nothing /\ sink'.desired = sink.desired
        /\ sink'.numSourceCapabilities = sink.numSourceCapabilities
        /\ sink'.requested = sink.requested /\ sink'.ppsIndex = sink.ppsIndex
        /\ sink'.active = sink.active /\ sink'.ppsTasks = sink.ppsTasks
    BY <1>1, <1>3 DEF MessageArrives, Sink
  <2>3. sink.sending.type # "request" /\ sink'.sending.type # "request"
    BY <2>1, <2>2 DEF Nothing, GetSourceCap, Stuck
  <2>4. AgreedOn(sink', source')
    BY <2>2, <2>3 DEF ContractInv, AgreedOn, IsConnected, Settled
  <2> QED BY <1>2, <2>2, <2>4, ContractKept DEF ContractInv
<1>4. CASE LinkLoses
  <2>1. ~source.attached
    BY <1>2, <1>4 DEF LinkLoses
  <2>2. /\ source' = source /\ sink'.sending = Nothing /\ sink'.desired = sink.desired
        /\ sink'.numSourceCapabilities = sink.numSourceCapabilities
        /\ sink'.requested = sink.requested
    BY <1>1, <1>4 DEF LinkLoses, Sink
  <2>3. AgreedOn(sink', source')
    BY <2>1, <2>2 DEF ContractInv, OffersKnown, AgreedOn, IsConnected
  <2> QED BY <1>2, <2>2, <2>3, ContractKept DEF ContractInv
<1>5. CASE LinkDelivers
  <2>1. /\ sink'.sending = Nothing /\ sink'.desired = sink.desired
        /\ sink'.numSourceCapabilities = sink.numSourceCapabilities
        /\ sink'.requested = sink.requested /\ sink'.ppsIndex = sink.ppsIndex
        /\ sink'.active = sink.active /\ sink'.ppsTasks = sink.ppsTasks
    BY <1>1, <1>5 DEF LinkDelivers, Sink
  <2>2. /\ source'.inbox = sink.sending /\ source.inbox = Nothing
        /\ source'.offers = source.offers /\ source'.outbox = source.outbox
        /\ source'.contract = source.contract
    BY <1>1, <1>5 DEF LinkDelivers, Source
  <2>3. Nothing.type # "request"
    BY DEF Nothing
  <2>4. AgreedOn(sink', source')
    BY <2>1, <2>2, <2>3 DEF ContractInv, AgreedOn, IsConnected, Settled, Says
  <2> QED BY <1>2, <2>1, <2>2, <2>4, ContractKept DEF ContractInv
<1>6. CASE SourceGivesUp
  BY <1>2, <1>6 DEF SourceGivesUp
<1> QED BY <1>3, <1>4, <1>5, <1>6

(* A message of the source: capabilities are answered by a request, and    *)
(* PS_RDY says what the request has led to.                                *)
LEMMA ConfirmedSettles ==
  ASSUME Repeatable, Inv, OffersKnown, ContractInv, MessageConfirmed, Undisturbed'
  PROVE  ContractInv'
<1> DEFINE s == [sink EXCEPT !.confirming = FALSE]
           m == Head(source.outbox)
           offers == source.offers
<1>1. /\ SinkOK(sink) /\ sink \in Sink /\ Chain(sink) /\ source \in Source
      /\ offers \in Offers /\ sink.confirming /\ sink.sending = Nothing
  BY InvParts DEF SinkOK, Source, MessageConfirmed, ContractInv
<1>2. source.outbox \in Seq(Message) /\ source.outbox # << >> /\ Len(source.outbox) <= 1
  BY <1>1 DEF Inv, ConfirmsMessage, Source, ContractInv
<1>3. /\ m \in Message /\ m = source.outbox[1] /\ 1 \in DOMAIN source.outbox
      /\ \A i \in DOMAIN source.outbox : i = 1
      /\ Tail(source.outbox) = << >>
  <2>1. /\ m = source.outbox[1] /\ m \in Message
        /\ Tail(source.outbox) \in Seq(Message) /\ Len(Tail(source.outbox)) = Len(source.outbox) - 1
    BY <1>2, HeadTailProperties
  <2>2. /\ DOMAIN source.outbox = 1 .. Len(source.outbox) /\ Len(source.outbox) \in Nat
        /\ Len(source.outbox) # 0
    BY <1>2, LenProperties, EmptySeq
  <2>3. Len(source.outbox) = 1
    <3>1. \A n \in Nat : n # 0 /\ n <= 1 => n = 1
      OBVIOUS
    <3> QED BY <1>2, <2>2, <3>1, Zenon
  <2>4. Len(Tail(source.outbox)) = 0
    BY <2>1, <2>3
  <2>5. Tail(source.outbox) = << >>
    BY <2>1, <2>4, EmptySeq
  <2> QED BY <2>1, <2>2, <2>3, <2>5
<1>4. /\ s \in Sink /\ SinkOK(s) /\ ~s.confirming /\ s.sending = Nothing
      /\ s.capsTasks <= 1 /\ s.desired = sink.desired /\ s.requested = sink.requested
      /\ s.active = sink.active /\ s.ppsIndex = sink.ppsIndex /\ s.ppsTasks = sink.ppsTasks
      /\ s.ppsTasks \in Nat /\ s.numSourceCapabilities = sink.numSourceCapabilities
  BY <1>1 DEF SinkOK, Sink, Chain
<1>5. PICK due \in BOOLEAN : OnMessageReceived(s, m, due)
  BY DEF MessageConfirmed
<1> HIDE DEF s, m
<1>6. /\ main' = main /\ budget' = budget
      /\ source'.outbox = << >> /\ source'.inbox = source.inbox
      /\ source'.offers = offers /\ source'.contract = source.contract
  <2>1. source' = [source EXCEPT !.outbox = Tail(source.outbox)]
    BY DEF MessageConfirmed
  <2> QED BY <1>1, <1>3, <2>1 DEF MessageConfirmed, Source
<1>7. \A type : ~Says(source', type)
  BY <1>6 DEF Says
<1>8. \A type : Says(source, type) <=> m.type = type
  BY <1>3 DEF Says
<1>9. Nothing.type # "request"
  BY DEF Nothing
<1>10. CASE m.type = "sourceCapabilities" /\ OnSourceCapabilities(s, m.value, due)
  <2>1. m.value = offers
    BY <1>3, <1>10 DEF OffersKnown
  <2>2. Repeats(offers, s.requested)
    BY <1>1, <1>4, FiveVolts DEF ContractInv, AgreedOn
  <2>3. /\ sink'.desired = s.desired
        /\ Pending(offers, sink') /\ Repeats(offers, sink'.requested)
    BY <1>1, <1>4, <1>10, <2>1, <2>2, CapabilitiesAnswered DEF ContractInv
  <2>4. ~sink'.confirming
    BY <1>1, <1>4, <1>10, <2>1, OnSourceCapabilitiesLemma
  <2>5. AgreedOn(sink', source')
    <3>1. IsConnected(sink)'
      BY <1>1, <1>4, <1>10, <2>1, OnSourceCapabilitiesLemma
    <3> QED BY <1>6, <2>3, <3>1 DEF AgreedOn, Settled, Pending, IsConnected
  <2>6. sink'.desired = sink.desired /\ Len(source'.outbox) <= 1
    BY <1>4, <1>6, <2>3, EmptySeq
  <2> QED BY <1>6, <2>4, <2>5, <2>6, ContractKept
<1>11. CASE m.type = "psReady" /\ sink' = OnPsReady(s)
  <2>1. /\ sink'.confirming = s.confirming /\ sink'.sending = s.sending
        /\ sink'.numSourceCapabilities = s.numSourceCapabilities
    BY <1>4, <1>11, OnPsReadyLemma
  <2>2. /\ sink'.active = s.requested /\ sink'.requested = s.requested
        /\ sink'.ppsIndex = s.ppsIndex /\ sink'.desired = s.desired
        /\ sink'.ppsTasks = IF s.ppsIndex > 0 THEN s.ppsTasks + 1 ELSE s.ppsTasks
    BY <1>4, <1>11 DEF OnPsReady, Sink
  <2>3. s.ppsIndex > 0 => sink'.ppsTasks > 0
    BY <1>4, <2>2
  <2>4. Says(source, "psReady")
    BY <1>8, <1>11
  <2>5. AgreedOn(sink', source')
    BY <1>1, <1>4, <1>6, <1>7, <1>9, <2>1, <2>2, <2>3, <2>4
       DEF ContractInv, AgreedOn, IsConnected, Settled
  <2>6. sink'.desired = sink.desired /\ Len(source'.outbox) <= 1
    BY <1>4, <1>6, <2>2, EmptySeq
  <2> QED BY <1>4, <1>6, <2>1, <2>5, <2>6, ContractKept
<1>12. CASE m.type = "reject" /\ sink' = [s EXCEPT !.flagPowerRejected = TRUE]
  <2>1. /\ sink'.confirming = s.confirming /\ sink'.sending = s.sending
        /\ sink'.numSourceCapabilities = s.numSourceCapabilities
        /\ sink'.active = s.active /\ sink'.requested = s.requested
        /\ sink'.ppsIndex = s.ppsIndex /\ sink'.desired = s.desired
        /\ sink'.ppsTasks = s.ppsTasks
    BY <1>4, <1>12 DEF Sink
  <2>2. ~Says(source, "psReady") /\ ~Says(source, "sourceCapabilities")
    BY <1>8, <1>12
  <2>3. AgreedOn(sink', source')
    BY <1>1, <1>4, <1>6, <1>7, <1>9, <2>1, <2>2
       DEF ContractInv, AgreedOn, IsConnected, Settled
  <2>4. sink'.desired = sink.desired /\ Len(source'.outbox) <= 1
    BY <1>4, <1>6, <2>1, EmptySeq
  <2> QED BY <1>4, <1>6, <2>1, <2>3, <2>4, ContractKept
<1> QED BY <1>5, <1>10, <1>11, <1>12 DEF OnMessageReceived

(* The source accepts what it can supply; only what is no longer wanted    *)
(* can be an object it cannot.                                             *)
LEMMA RepliesSettle ==
  ASSUME Inv, OffersKnown, ContractInv, SourceReplies, Undisturbed'
  PROVE  ContractInv'
<1>1. SinkOK(sink) /\ source \in Source /\ budget["rejects"] = MaxRejects
  BY InvParts DEF ContractInv
<1>2. /\ sink' = sink /\ main' = main /\ budget' = budget /\ source.outbox = << >>
      /\ ~Spend("rejects")
  <2>1. ~Spend("rejects")
    BY <1>1, InvParts, UndisturbedLemma DEF ContractInv, OffersKnown, AsOffered
  <2> QED BY <2>1 DEF SourceReplies, SourceAnswers, SourceAccepts, SourceRejects
<1>3. \A type : ~Says(source, type)
  BY <1>2 DEF Says
<1>4. Nothing.type # "request"
  BY DEF Nothing
<1>5. CASE SourceAnswers
  <2> DEFINE answer == IF Answers THEN <<SourceCapabilities(source.offers)>> ELSE source.outbox
  <2>1. /\ source'.inbox = Nothing /\ source'.outbox = answer
        /\ source'.offers = source.offers /\ source'.contract = source.contract
        /\ source.inbox.type # "request"
    BY <1>1, <1>5 DEF SourceAnswers, Source, GetSourceCap
  <2>2. ~Says(source', "psReady") /\ Len(source'.outbox) <= 1
    <3>1. CASE Answers
      BY <2>1, <3>1 DEF Says, SourceCapabilities
    <3>2. CASE ~Answers
      BY <1>2, <2>1, <3>2, EmptySeq DEF Says
    <3> QED BY <3>1, <3>2
  <2>3. AgreedOn(sink', source')
    BY <1>2, <1>3, <1>4, <2>1, <2>2 DEF ContractInv, AgreedOn, IsConnected, Settled
  <2> QED BY <1>2, <2>2, <2>3, ContractKept DEF ContractInv
<1>6. CASE SourceAccepts
  <2> DEFINE object == source.inbox.value[1]
             contract == Supplied(object)
  <2>1. /\ source'.inbox = Nothing /\ source'.outbox = <<PsReady>>
        /\ source'.offers = source.offers /\ source'.contract = contract
        /\ source.inbox.type = "request"
    BY <1>1, <1>6 DEF SourceAccepts, Source
  <2>2. Says(source', "psReady") /\ Len(source'.outbox) <= 1
    BY <2>1 DEF Says, PsReady
  <2>3. ASSUME NEW requested, NEW k, Serves(source.offers, object, requested, k)
        PROVE  requested = contract.supply /\ (contract.pps => k > 0)
    BY <2>3 DEF Serves, Supplied
  <2> HIDE DEF contract
  <2>4. AgreedOn(sink', source')
    BY <1>2, <1>4, <2>1, <2>2, <2>3 DEF ContractInv, AgreedOn, IsConnected, Settled
  <2> QED BY <1>2, <2>2, <2>4, ContractKept DEF ContractInv
<1>7. CASE SourceRejects
  <2> DEFINE object == source.inbox.value[1]
  <2>1. /\ source'.inbox = Nothing /\ source'.outbox = <<Reject>>
        /\ source'.offers = source.offers /\ source'.contract = source.contract
        /\ source.inbox.type = "request" /\ ~CanSupply(object)
    BY <1>1, <1>2, <1>7 DEF SourceRejects, Source
  <2>2. Len(source'.outbox) <= 1
    BY <2>1
  <2>3. \A requested, k : ~Serves(source.offers, object, requested, k)
    BY <2>1 DEF Serves, Within, CanSupply
  <2>4. AgreedOn(sink', source')
    BY <1>2, <2>1, <2>3 DEF ContractInv, AgreedOn, IsConnected, Settled
  <2> QED BY <1>2, <2>2, <2>4, ContractKept DEF ContractInv
<1> QED BY <1>5, <1>6, <1>7 DEF SourceReplies

(* requestPower notes down a wish, and requests what it can. *)
LEMMA WishSettles ==
  ASSUME Inv, OffersKnown, ContractInv, RequestPower, Undisturbed'
  PROVE  ContractInv'
<1>1. sink \in Sink /\ source' = source /\ budget' \in Budget
  BY InvParts, SpendLemma DEF SinkOK, RequestPower
<1>2. budget'["losses"] = MaxLosses /\ budget'["rejects"] = MaxRejects
  BY DEF Undisturbed
<1>3. PICK wish \in Wishes \union UNION {Preferred(list) : list \in Preferences} :
        /\ main' = [Idle EXCEPT !.at = "build", !.wish = wish]
        /\ sink' = [sink EXCEPT !.desired = wish]
  BY DEF RequestPower
<1>4. wish \in Asking
  <2>1. CASE wish \in Wishes
    BY <2>1 DEF Asking
  <2>2. CASE wish \notin Wishes
    <3>1. PICK list \in Preferences : wish \in Preferred(list)
      BY <1>3, <2>2
    <3> DEFINE able == {i \in DOMAIN list : CanProvideVoltage(sink, list[i])}
    <3>2. able # {} /\ wish = [voltage |-> list[Min(able)], current |-> 0]
      BY <3>1 DEF Preferred
    <3>3. able \subseteq DOMAIN list /\ able \subseteq Nat
      <4>1. list \in Seq(Nat)
        BY SupplyAssumption
      <4>2. DOMAIN list = 1 .. Len(list) /\ Len(list) \in Nat
        BY <4>1, LenProperties
      <4> QED BY <4>2
    <3> HIDE DEF able
    <3>4. Min(able) \in DOMAIN list
      BY <3>2, <3>3, MinLemma
    <3> QED BY <3>2, <3>4 DEF Asking
  <2> QED BY <2>1, <2>2
<1>5. /\ main'.at = "build" /\ main'.wish = wish /\ sink'.desired = wish
      /\ sink'.sending = sink.sending /\ sink'.confirming = sink.confirming
      /\ sink'.numSourceCapabilities = sink.numSourceCapabilities
      /\ sink'.active = sink.active /\ sink'.requested = sink.requested
      /\ sink'.ppsIndex = sink.ppsIndex /\ sink'.ppsTasks = sink.ppsTasks
  BY <1>1, <1>3 DEF Idle, Sink
<1>6. AgreedOn(sink', source')
  BY <1>1, <1>5, SettledKept DEF ContractInv, AgreedOn, IsConnected
<1>7. AgreedOn(sink, source)'
  BY <1>6 DEF AgreedOn, IsConnected, Settled, Says
<1> QED BY <1>1, <1>2, <1>4, <1>5, <1>7 DEF ContractInv

(* The request is one that the source will serve. *)
LEMMA RequestSettles ==
  ASSUME Repeatable, Inv, OffersKnown, ContractInv, RequestAtOnce, Undisturbed'
  PROVE  ContractInv'
<1> DEFINE offers == source.offers
           r == PowerRequestObject(ParseMessage(offers), main.wish)
<1>1. /\ SinkOK(sink) /\ sink \in Sink /\ source \in Source /\ offers \in Offers
      /\ main.wish \in Supply /\ main.wish \in Asking
  BY InvParts DEF SinkOK, Source, Main, RequestAtOnce, ContractInv
<1>2. PICK due \in BOOLEAN : sink' = RequestPowerCore(sink, Wanted, due)
  BY DEF RequestAtOnce
<1>3. Wanted.object # NoObject /\ ~IsTransmitting(sink)
  BY DEF RequestAtOnce, CanRequest
<1>4. IsConnected(sink)
  <2> SUFFICES ASSUME ~IsConnected(sink) PROVE FALSE
    OBVIOUS
  <2>1. sink.numSourceCapabilities = 0
    BY <1>1 DEF IsConnected, Sink
  <2> QED BY <1>1, <1>3, <2>1, UnknownLemma DEF Wanted
<1>5. Capabilities(sink) = ParseMessage(offers) /\ Wanted = r
  BY <1>4 DEF OffersKnown, Wanted
<1>6. r.object # NoObject
  BY <1>3, <1>5
<1>7. Pending(offers, sink') /\ sink'.requested = r.supply /\ sink'.desired = sink.desired
  BY <1>1, <1>2, <1>4, <1>5, <1>6, PowerCoreServes
<1>8. Repeats(offers, r.supply)
  BY <1>1, <1>6, WishesRepeat
<1>9. Leaves(sink, sink')
  <2>1. Wanted \in PowerRequest
    BY <1>1, CapabilitiesLemma, RequestLemma DEF Wanted
  <2> QED BY <1>1, <1>2, <2>1, RequestPowerLemma
<1>10. ~sink'.confirming /\ IsConnected(sink')
  BY <1>3, <1>4, <1>9 DEF IsTransmitting, Leaves, IsConnected
<1> HIDE DEF r
<1>11. main'.at = "idle" /\ source' = source /\ budget' = budget
  BY DEF RequestAtOnce, Idle
<1>12. AgreedOn(sink', source')
  BY <1>7, <1>8, <1>10, <1>11 DEF AgreedOn, Settled, Pending
<1>13. AgreedOn(sink, source)'
  BY <1>12 DEF AgreedOn, IsConnected, Settled, Says
<1> QED BY <1>7, <1>10, <1>11, <1>13 DEF ContractInv

(* The rest of the main loop. *)
LEMMA MainLoopSettles ==
  ASSUME ~Preemptible, Inv, OffersKnown, ContractInv, MainLoop, ~RequestAtOnce, Undisturbed'
  PROVE  ContractInv'
<1>1. sink \in Sink /\ main \in Main
  BY InvParts DEF SinkOK
<1>2. ~RequestBuilt /\ ~RequestSent /\ ~PpsTaskCancelled /\ ~PpsIndexSet /\ ~RequestedSet
  BY DEF RequestBuilt, RequestSent, PpsTaskCancelled, PpsIndexSet, RequestedSet, At, ContractInv
<1>3. /\ source' = source /\ budget' = budget
      /\ main'.at \notin {"build", "send", "cancel", "pps", "requested"}
  BY <1>1, <1>2
     DEF MainLoop, RequestRefused, LoopBegins, SourceCapsEvent, VoltageTest, VoltageEvent,
         RejectTest, RejectEvent, At, Idle, Main
<1>4. /\ sink'.desired = sink.desired
      /\ sink'.sending = sink.sending /\ sink'.confirming = sink.confirming
      /\ sink'.numSourceCapabilities = sink.numSourceCapabilities
      /\ sink'.active = sink.active /\ sink'.requested = sink.requested
      /\ sink'.ppsIndex = sink.ppsIndex /\ sink'.ppsTasks = sink.ppsTasks
  BY <1>1, <1>2
     DEF MainLoop, RequestRefused, LoopBegins, SourceCapsEvent, VoltageTest, VoltageEvent,
         RejectTest, RejectEvent, Sink
<1>5. AgreedOn(sink', source')
  BY <1>3, <1>4, SettledKept DEF ContractInv, AgreedOn, IsConnected
<1>6. AgreedOn(sink, source)'
  BY <1>5 DEF AgreedOn, IsConnected, Settled, Says
<1> QED BY <1>3, <1>4, <1>6 DEF ContractInv

(* Every step keeps the supply settled. *)
LEMMA ContractStepLemma ==
  ASSUME ~Preemptible, Repeatable, Inv, OffersKnown, ContractInv, [Next]_vars, Undisturbed'
  PROVE  ContractInv'
<1>2. CASE SourceOffers
  BY <1>2, InvParts, UndisturbedLemma DEF SourceOffers, ContractInv, OffersKnown, AsOffered
<1>3. CASE Next /\ ~SourceOffers
  BY <1>3, PpsTaskSettles, CapsTaskSettles, PlugsSettle, ConfirmedSettles, ResetsSettle,
     LinkSettles, RepliesSettle, WishSettles, RequestSettles, MainLoopSettles
     DEF Next, LinkLayer
<1>4. CASE UNCHANGED vars
  BY <1>4 DEF vars, ContractInv, AgreedOn, IsConnected, Settled, Says
<1> QED BY <1>2, <1>3, <1>4

(* The invariant follows from the specification. *)
LEMMA ContractLemma ==
  ASSUME ~Preemptible, Repeatable
  PROVE  Spec => [](Undisturbed => ContractInv)
<1>1. Init => OffersKnown /\ ContractInv
  <2> SUFFICES ASSUME Init PROVE OffersKnown /\ ContractInv
    OBVIOUS
  <2>1. /\ main.at = "idle" /\ budget["offers"] = MaxOffers
        /\ budget["losses"] = MaxLosses /\ budget["rejects"] = MaxRejects
    BY DEF Init, Idle
  <2>2. /\ source.outbox = << >> /\ source.inbox = Nothing /\ ~IsConnected(sink)
        /\ sink.sending = Nothing /\ sink.desired = Fallback /\ sink.requested = Default
    BY DEF Init, IsConnected
  <2>3. OffersKnown
    BY <2>1, <2>2 DEF OffersKnown, Fits, Nothing
  <2>4. Len(source.outbox) <= 1
    BY <2>2, EmptySeq
  <2>5. ContractInv
    BY <2>1, <2>2, <2>4 DEF ContractInv, AgreedOn
  <2> QED BY <2>3, <2>5
<1>2. Inv /\ WithinBounds /\ (Undisturbed => OffersKnown /\ ContractInv) /\ [Next]_vars
        => (Undisturbed => OffersKnown /\ ContractInv)'
  <2> SUFFICES ASSUME Inv, WithinBounds, Undisturbed => OffersKnown /\ ContractInv, [Next]_vars,
                      Undisturbed'
               PROVE  OffersKnown' /\ ContractInv'
    OBVIOUS
  <2>1. OffersKnown /\ ContractInv /\ AsOffered'
    BY BoundsStep DEF Undisturbed
  <2> QED BY <2>1, OffersStepLemma, ContractStepLemma
<1> QED BY <1>1, <1>2, InvLemma, BoundsLemma, PTL DEF Spec

(* When nothing is under way, the active voltage and current are what the  *)
(* source supplies (PDSink.cpp, handleEvent and requestPowerCore), however *)
(* often the source resets or is replaced and whatever is wished for: what *)
(* the sink takes for the contract when PS_RDY arrives is what it asked    *)
(* for last, and that is what the source was asked for last.  So it is     *)
(* until a message is lost, a request turned down or an offer changed: of  *)
(* what follows nothing is said.                                           *)
THEOREM ActiveIsTheContract ==
  ASSUME ~Preemptible, Repeatable
  PROVE  Spec => [](Undisturbed => ActiveIsContract)
<1>1. ContractInv => ActiveIsContract
  <2> SUFFICES ASSUME ContractInv, Quiet PROVE sink.active = source.contract.supply
    BY DEF ActiveIsContract
  <2>1. \A type : ~Says(source, type)
    BY DEF Quiet, Says
  <2> QED BY <2>1 DEF Quiet, ContractInv, AgreedOn, Settled, Nothing
<1> QED BY <1>1, ContractLemma, PTL

(* When nothing is under way and the supply is a programmable one, a task  *)
(* is scheduled that requests it again (PDSink.cpp:244): it is scheduled   *)
(* with each PS_RDY, and whatever cancels it sends a request.  Resets,     *)
(* other sources, the application and its timing never end the repetition; *)
(* a lost message, a request turned down or a changed offer may.           *)
THEOREM OnlyDisturbancesEndPps ==
  ASSUME ~Preemptible, Repeatable
  PROVE  Spec => [](Undisturbed => PpsKeptAlive)
<1>1. ContractInv => PpsKeptAlive
  <2> SUFFICES ASSUME ContractInv, Quiet, source.contract.pps PROVE sink.ppsTasks > 0
    BY DEF PpsKeptAlive
  <2>1. \A type : ~Says(source, type)
    BY DEF Quiet, Says
  <2> QED BY <2>1 DEF Quiet, ContractInv, AgreedOn, Settled, Nothing
<1> QED BY <1>1, ContractLemma, PTL
=============================================================================
