-------------------------- MODULE PDController_proof --------------------------
(***************************************************************************)
(* Proofs about PDController, for every retry count, range of message IDs  *)
(* and bound.                                                              *)
(*                                                                         *)
(* 1. With late interrupts and a main loop that sends too: the types       *)
(*    (LinkTypeCorrect), and that a busy controller never waits for        *)
(*    something that will not happen unless the partner is detached        *)
(*    (BusyHasWakeup).  Whatever makes the controller busy requests a      *)
(*    transmission (`Woken`), and every operator on `link` either leaves   *)
(*    the transmitter alone or requests the transmission of a message      *)
(*    (`Steps`).  A transmission that is requested ends in txSent or       *)
(*    txDisc unless it is a hard reset's, during which the controller is   *)
(*    not busy.                                                            *)
(*                                                                         *)
(* 2. With interrupts that are served at once (`Prompt`, on top of 1):     *)
(*    TimerIsForWaiting, and with invariants of their own on top of        *)
(*    Prompt DeliveryIsInOrder (`InOrder`), NewMessagesAreNew (`Fresh`)    *)
(*    and ConfirmedIsDelivered (`Answered`).                               *)
(***************************************************************************)
EXTENDS PDController, TLAPS

GoodSlot(s) == s.txMessage.kind \in {"msg", "goodCrc"}

(* What an operator of the controller may do to the transmitter. *)
Steps(s, t) ==
  /\ t \in Link
  /\ GoodSlot(t)
  /\ t.ccPin = s.ccPin
  /\ \/ t.tx = s.tx /\ t.out = s.out
     \/ t.tx = "requested" /\ t.out.kind # "hardReset"

(* If it is busy afterwards, then because it has requested a transmission. *)
Woken(t) == IsTransmitting(t) => t.tx = "requested" /\ t.out.kind # "hardReset"

Sendable(m) == m \in Packet /\ m.kind \in {"msg", "goodCrc"}

----------------------------------------------------------------------------
(* Lemmas about the operators on `link`. *)

(* sendMessage requests a transmission. *)
LEMMA SendMessageLemma ==
  ASSUME NEW s \in Link, GoodSlot(s)
  PROVE  /\ Steps(s, SendMessage(s))
         /\ Woken(SendMessage(s))
<1> DEFINE id == IF s.txMessage.kind = "goodCrc" THEN s.lastRxMessageId ELSE s.txMessageId
           t  == [s EXCEPT !.txMessage.id = id]
<1>1. id \in NoId .. IdMod - 1
  BY LinkAssumption DEF Link, NoId
<1>2. t.txMessage \in Packet /\ t.txMessage.kind = s.txMessage.kind
  BY <1>1 DEF Link, Packet
<1>3. t \in Link /\ t.ccPin = s.ccPin
  BY <1>2 DEF Link
<1>4. SendMessage(s) = [t EXCEPT !.tx = "requested", !.out = t.txMessage]
  BY DEF SendMessage, TransmitMessage
<1>5. SendMessage(s) \in Link
  BY <1>2, <1>3, <1>4 DEF Link
<1>6. /\ SendMessage(s).tx = "requested"
      /\ SendMessage(s).out = t.txMessage
      /\ SendMessage(s).txMessage = t.txMessage
      /\ SendMessage(s).ccPin = s.ccPin
  BY <1>3, <1>4 DEF Link
<1>7. QED
  BY <1>2, <1>5, <1>6 DEF Steps, Woken, GoodSlot

(* sendControlMessage and sendDataMessage do, unless the controller is busy. *)
LEMMA SendLemma ==
  ASSUME NEW s \in Link, GoodSlot(s), NEW m, Sendable(m)
  PROVE  /\ Steps(s, Send(s, m))
         /\ Woken(s) => Woken(Send(s, m))
         /\ ~IsTransmitting(s) => Woken(Send(s, m))
<1>1. CASE IsTransmitting(s)
  BY <1>1 DEF Send, Steps
<1>2. CASE ~IsTransmitting(s)
  <2> DEFINE t == [s EXCEPT !.txMessage = m, !.txRetryCount = NRetryCount + 1]
  <2>1. /\ t \in Link
        /\ t.txMessage = m /\ t.ccPin = s.ccPin /\ t.tx = s.tx /\ t.out = s.out
    <3>1. NRetryCount + 1 \in Int /\ m \in Packet
      BY LinkAssumption DEF Sendable
    <3>2. t \in Link
      BY <3>1, Zenon DEF Link
    <3>3. QED
      BY <3>2 DEF Link
  <2>2. GoodSlot(t)
    BY <2>1 DEF GoodSlot, Sendable
  <2>3. Steps(t, SendMessage(t)) /\ Woken(SendMessage(t))
    BY <2>1, <2>2, SendMessageLemma
  <2>4. Send(s, m) = SendMessage(t)
    BY <1>2 DEF Send
  <2>5. QED
    BY <2>1, <2>3, <2>4 DEF Steps
<1>3. QED
  BY <1>1, <1>2

(* prepareNextTxMessage ends the transmission and leaves the line alone. *)
LEMMA PrepareLemma ==
  ASSUME NEW s \in Link, NEW stale \in StaleSlots
  PROVE  /\ Steps(s, PrepareNextTxMessage(s, stale))
         /\ PrepareNextTxMessage(s, stale).txRetryCount = 0
<1> DEFINE t == PrepareNextTxMessage(s, stale)
<1>1. stale \in Packet /\ stale.kind \in {"msg", "goodCrc"}
  BY LinkAssumption DEF StaleSlots, Signal, Packet, NoId, None
<1>2. (s.txMessageId + 1) % IdMod \in 0 .. IdMod - 1
  BY LinkAssumption DEF Link
<1>3. t \in Link
  <2>1. 0 \in Int /\ s.txMessageId \in 0 .. IdMod - 1
    BY DEF Link
  <2>2. QED
    BY <1>1, <1>2, <2>1, Zenon DEF PrepareNextTxMessage, Link
<1>4. /\ t.tx = s.tx /\ t.out = s.out /\ t.ccPin = s.ccPin
      /\ t.txMessage = stale /\ t.txRetryCount = 0
  BY DEF PrepareNextTxMessage, Link
<1>5. QED
  BY <1>1, <1>3, <1>4 DEF Steps, GoodSlot

(* cancelTask touches the timer only. *)
LEMMA CancelTimerLemma ==
  ASSUME NEW s \in Link
  PROVE  /\ CancelTimer(s) \in Link
         /\ CancelTimer(s).tx = s.tx /\ CancelTimer(s).out = s.out
         /\ CancelTimer(s).ccPin = s.ccPin /\ CancelTimer(s).txMessage = s.txMessage
         /\ CancelTimer(s).txRetryCount = s.txRetryCount
<1> DEFINE n == IF s.timers > 0 THEN s.timers - 1 ELSE 0
<1>1. n \in Nat
  BY DEF Link
<1>2. CancelTimer(s) = [s EXCEPT !.timers = n]
  BY DEF CancelTimer, Link
<1> HIDE DEF n
<1>3. [s EXCEPT !.timers = n] \in Link
  BY <1>1 DEF Link
<1>4. QED
  BY <1>2, <1>3 DEF Link

(* Giving a message up ends the transmission. *)
LEMMA GiveUpLemma ==
  ASSUME NEW s \in Link, NEW stale \in StaleSlots
  PROVE  /\ Steps(s, GiveUp(s, stale))
         /\ GiveUp(s, stale).txRetryCount = 0
BY PrepareLemma DEF GiveUp, Steps

(* What an event handler sends is a transmission like any other. *)
LEMMA ReplyLemma ==
  ASSUME NEW s \in Link, GoodSlot(s), NEW reply,
         reply = NoPacket \/ Sendable(reply), ~IsTransmitting(s)
  PROVE  /\ Steps(s, Reply(s, reply))
         /\ Woken(Reply(s, reply))
BY SendLemma DEF Reply, Steps, Woken

(* reset leaves the controller idle, or sending what the handler replied. *)
LEMMA ResetLemma ==
  ASSUME NEW s \in Link, GoodSlot(s), NEW reply, reply = NoPacket \/ Sendable(reply)
  PROVE  /\ Steps(s, Reset(s, reply))
         /\ Woken(Reset(s, reply))
<1> DEFINE t == [s EXCEPT !.lastRxMessageId = NoId, !.txMessageId = 0,
                          !.txRetryCount = 0, !.lastMessage = None, !.lastHeard = None]
<1>1. t \in Link
  <2>1. /\ 0 \in 0 .. IdMod - 1 /\ NoId \in NoId .. IdMod - 1
        /\ 0 \in Int /\ None \in Nat /\ None \in Int
    BY LinkAssumption DEF NoId, None
  <2>2. QED
    BY <2>1, Zenon DEF Link
<1>2. /\ t.tx = s.tx /\ t.out = s.out /\ t.ccPin = s.ccPin
      /\ t.txMessage = s.txMessage /\ t.txRetryCount = 0
  BY DEF Link
<1> HIDE DEF t
<1>3. /\ CancelTimer(t) \in Link /\ GoodSlot(CancelTimer(t)) /\ ~IsTransmitting(CancelTimer(t))
      /\ CancelTimer(t).tx = s.tx /\ CancelTimer(t).out = s.out
      /\ CancelTimer(t).ccPin = s.ccPin
  BY <1>1, <1>2, CancelTimerLemma DEF GoodSlot, IsTransmitting
<1>4. Reset(s, reply) = Reply(CancelTimer(t), reply)
  BY DEF Reset, t
<1>5. QED
  BY <1>3, <1>4, ReplyLemma DEF Steps

(* onMessageTransmitted ends the transmission or schedules the timer. *)
LEMMA TransmittedLemma ==
  ASSUME NEW s \in Link, GoodSlot(s), NEW successful \in BOOLEAN, NEW stale \in StaleSlots,
         NEW reply, reply = NoPacket \/ Sendable(reply)
  PROVE  LET t == OnMessageTransmitted(s, successful, stale, reply)
         IN  /\ Steps(s, t)
             /\ Woken(t) \/ (t.timers > 0 /\ t.txRetryCount = s.txRetryCount)
<1> DEFINE t == OnMessageTransmitted(s, successful, stale, reply)
<1>1. CASE ~successful
  BY <1>1, GiveUpLemma DEF OnMessageTransmitted, Woken, IsTransmitting
<1>2. CASE successful /\ s.txMessage.kind # "goodCrc"
  <2>1. t = [s EXCEPT !.timers = @ + 1]
    BY <1>2 DEF OnMessageTransmitted
  <2> HIDE DEF t
  <2>2. t \in Link
    <3>1. s.timers + 1 \in Nat
      BY DEF Link
    <3>2. QED
      BY <2>1, <3>1, Zenon DEF Link
  <2> HIDE DEF t
  <2>3. /\ t.timers > 0 /\ t.txRetryCount = s.txRetryCount
        /\ t.tx = s.tx /\ t.out = s.out /\ t.ccPin = s.ccPin /\ t.txMessage = s.txMessage
    BY <2>1 DEF Link
  <2>4. QED
    BY <2>2, <2>3 DEF Steps, GoodSlot, t
<1>3. CASE successful /\ s.txMessage.kind = "goodCrc"
  <2> DEFINE u == PrepareNextTxMessage(s, stale)
             v == [u EXCEPT !.delivered = Append(@, u.lastMessage)]
             w == Reply(v, reply)
  <2>1. Steps(s, u) /\ ~IsTransmitting(u) /\ Woken(u)
    BY PrepareLemma DEF IsTransmitting, Woken
  <2>2. CASE u.lastMessage = None
    BY <1>3, <2>1, <2>2 DEF OnMessageTransmitted
  <2>3. CASE u.lastMessage # None
    <3> HIDE DEF u
    <3>1. /\ v \in Link /\ v.tx = u.tx /\ v.out = u.out /\ v.ccPin = u.ccPin
          /\ v.txMessage = u.txMessage /\ v.txRetryCount = u.txRetryCount
      <4>1. u \in Link
        BY <2>1 DEF Steps
      <4>2. Append(u.delivered, u.lastMessage) \in Seq(Nat)
        BY <4>1 DEF Link
      <4>3. v \in Link
        BY <4>1, <4>2, Zenon DEF Link
      <4>4. QED
        BY <4>1, <4>3 DEF Link
    <3>2. GoodSlot(v) /\ ~IsTransmitting(v)
      BY <2>1, <3>1 DEF Steps, GoodSlot, IsTransmitting
    <3>3. Steps(v, w) /\ Woken(w)
      BY <3>1, <3>2, ReplyLemma
    <3>4. t = [w EXCEPT !.lastMessage = None]
      BY <1>3, <2>3 DEF OnMessageTransmitted, u
    <3> HIDE DEF t, w
    <3>5. /\ t \in Link /\ t.tx = w.tx /\ t.out = w.out /\ t.ccPin = w.ccPin
          /\ t.txMessage = w.txMessage /\ t.txRetryCount = w.txRetryCount
      <4>1. w \in Link /\ None \in Nat
        BY <3>3 DEF Steps, None
      <4>2. t \in Link
        BY <3>4, <4>1, Zenon DEF Link
      <4>3. QED
        BY <3>4, <4>1, <4>2 DEF Link
    <3> USE DEF t
    <3>6. QED
      BY <2>1, <3>1, <3>3, <3>5 DEF Steps, GoodSlot, Woken, IsTransmitting
  <2>4. QED
    BY <2>2, <2>3
<1>4. QED
  BY <1>1, <1>2, <1>3

(* onNoGoodCrcReceived sends again or gives up. *)
LEMMA NoGoodCrcLemma ==
  ASSUME NEW s \in Link, GoodSlot(s), NEW stale \in StaleSlots
  PROVE  /\ Steps(s, OnNoGoodCrcReceived(s, stale))
         /\ Woken(OnNoGoodCrcReceived(s, stale))
<1> DEFINE t == [CancelTimer(s) EXCEPT !.txRetryCount = @ - 1]
<1>1. /\ t \in Link /\ t.tx = s.tx /\ t.out = s.out /\ t.ccPin = s.ccPin
      /\ t.txMessage = s.txMessage
  <2> DEFINE c == CancelTimer(s)
  <2>1. /\ c \in Link /\ c.tx = s.tx /\ c.out = s.out /\ c.ccPin = s.ccPin
        /\ c.txMessage = s.txMessage
    BY CancelTimerLemma
  <2> HIDE DEF c
  <2>2. c.txRetryCount - 1 \in Int
    BY <2>1 DEF Link
  <2>3. [c EXCEPT !.txRetryCount = @ - 1] \in Link
    BY <2>1, <2>2, Zenon DEF Link
  <2>4. QED
    BY <2>1, <2>3 DEF Link, c
<1>2. GoodSlot(t)
  BY <1>1 DEF GoodSlot
<1>3. Steps(t, SendMessage(t)) /\ Woken(SendMessage(t))
  BY <1>1, <1>2, SendMessageLemma
<1>4. Steps(t, GiveUp(t, stale)) /\ Woken(GiveUp(t, stale))
  BY <1>1, GiveUpLemma DEF Woken, IsTransmitting
<1>5. QED
  BY <1>1, <1>3, <1>4 DEF OnNoGoodCrcReceived, Steps

(* A message is remembered, or taken for a repetition; nothing else        *)
(* changes.                                                                *)
Remembers(s, t, packet) ==
  /\ t \in Link /\ t.tx = s.tx /\ t.out = s.out /\ t.ccPin = s.ccPin
  /\ t.txMessage = s.txMessage /\ t.txRetryCount = s.txRetryCount
  /\ t.timers = s.timers /\ t.delivered = s.delivered /\ t.txMessageId = s.txMessageId
  /\ t.lastRxMessageId = packet.id /\ t.lastHeard = packet.seq
  /\ packet.id # s.lastRxMessageId => t.lastMessage = packet.seq /\ t.mistaken = s.mistaken
  /\ packet.id = s.lastRxMessageId =>
       /\ t.lastMessage = s.lastMessage
       /\ t.mistaken = IF Deceived(s, packet) THEN s.mistaken \union {packet.seq} ELSE s.mistaken

LEMMA RememberFields ==
  ASSUME NEW s \in Link, NEW packet \in Packet
  PROVE  Remembers(s, Remember(s, packet), packet)
<1> DEFINE t == Remember(s, packet)
           m == IF Deceived(s, packet) THEN s.mistaken \union {packet.seq} ELSE s.mistaken
           n == packet.seq
           id == packet.id
<1>1. n \in Nat /\ n \in Int /\ id \in NoId .. IdMod - 1
  BY DEF Packet
<1>2. CASE packet.id # s.lastRxMessageId
  <2>1. t = [s EXCEPT !.lastMessage = n, !.lastRxMessageId = id, !.lastHeard = n]
    BY <1>2 DEF Remember
  <2> HIDE DEF t, n, id
  <2>2. t \in Link
    BY <1>1, <2>1, Zenon DEF Link
  <2>3. /\ t.tx = s.tx /\ t.out = s.out /\ t.ccPin = s.ccPin
        /\ t.txMessage = s.txMessage /\ t.txRetryCount = s.txRetryCount
        /\ t.timers = s.timers /\ t.delivered = s.delivered /\ t.txMessageId = s.txMessageId
        /\ t.lastRxMessageId = id /\ t.lastHeard = n /\ t.lastMessage = n
        /\ t.mistaken = s.mistaken
    BY <2>1 DEF Link
  <2>4. QED
    BY <1>2, <2>2, <2>3 DEF Remembers, t, n, id
<1>3. CASE packet.id = s.lastRxMessageId
  <2>1. m \in SUBSET Nat
    BY <1>1 DEF Link
  <2>2. t = [s EXCEPT !.lastHeard = n, !.mistaken = m]
    BY <1>3 DEF Remember
  <2> HIDE DEF t, n, m, id
  <2>3. t \in Link
    BY <1>1, <2>1, <2>2, Zenon DEF Link
  <2>4. /\ t.tx = s.tx /\ t.out = s.out /\ t.ccPin = s.ccPin
        /\ t.txMessage = s.txMessage /\ t.txRetryCount = s.txRetryCount
        /\ t.timers = s.timers /\ t.delivered = s.delivered /\ t.txMessageId = s.txMessageId
        /\ t.lastRxMessageId = s.lastRxMessageId /\ t.lastHeard = n
        /\ t.lastMessage = s.lastMessage /\ t.mistaken = m
    BY <2>2 DEF Link
  <2>5. QED
    BY <1>3, <2>3, <2>4 DEF Remembers, t, n, m
<1>4. QED
  BY <1>2, <1>3

(* onMessageReceived ends the transmission, and may send a GoodCRC. *)
LEMMA ReceivedLemma ==
  ASSUME NEW s \in Link, GoodSlot(s), NEW packet \in Packet, NEW stale \in StaleSlots
  PROVE  /\ Steps(s, OnMessageReceived(s, packet, stale))
         /\ Woken(OnMessageReceived(s, packet, stale))
<1> DEFINE p == PrepareNextTxMessage(CancelTimer(s), stale)
           t == IF IsTransmitting(s) THEN EndTransmission(s, stale) ELSE s
           u == Remember(t, packet)
<1>1. Steps(s, t) /\ ~IsTransmitting(t)
  <2>1. Steps(CancelTimer(s), p) /\ p.txRetryCount = 0
    BY CancelTimerLemma, PrepareLemma
  <2> DEFINE q == [p EXCEPT !.lastMessage = None]
  <2>2. /\ q \in Link /\ q.tx = p.tx /\ q.out = p.out /\ q.ccPin = p.ccPin
        /\ q.txMessage = p.txMessage /\ q.txRetryCount = 0
    BY <2>1 DEF Steps, Link, None
  <2>3. Steps(s, q) /\ ~IsTransmitting(q)
    BY <2>1, <2>2, CancelTimerLemma DEF Steps, GoodSlot, IsTransmitting
  <2>4. Steps(s, s)
    BY DEF Steps
  <2>5. EndTransmission(s, stale) = q
    BY DEF EndTransmission
  <2>6. QED
    BY <2>3, <2>4, <2>5
<1>2. Steps(s, u) /\ ~IsTransmitting(u)
  <2> HIDE DEF t, u
  <2>1. t \in Link
    BY <1>1 DEF Steps
  <2>2. Remembers(t, u, packet)
    BY <2>1, RememberFields DEF u
  <2>3. QED
    BY <1>1, <2>2 DEF Remembers, Steps, GoodSlot, IsTransmitting
<1>3. Sendable(Signal("goodCrc"))
  BY LinkAssumption DEF Sendable, Signal, Packet, NoId, None
<1> HIDE DEF t
<1>4. Steps(u, Send(u, Signal("goodCrc"))) /\ Woken(Send(u, Signal("goodCrc")))
  BY <1>2, <1>3, SendLemma DEF Steps
<1>5. OnMessageReceived(s, packet, stale) = IF packet.kind = "msg" THEN Send(u, Signal("goodCrc")) ELSE t
  BY DEF OnMessageReceived, t
<1>6. Woken(t)
  BY <1>1 DEF Woken
<1> HIDE DEF u
<1>7. QED
  BY <1>1, <1>2, <1>4, <1>5, <1>6 DEF Steps

----------------------------------------------------------------------------
(* The inductive invariant. *)

(* During a hard reset of ours the controller is not busy.                 *)
ResetIsIdle ==
  link.tx # "idle" /\ link.out.kind = "hardReset" => ~IsTransmitting(link)

SendingIsOnWire ==
  link.tx = "sending" => wire.from = "us" /\ wire.packet = link.out

(* With one attach event, there is no detach.                              *)
StaysAttached ==
  /\ budget.plugs <= 1
  /\ plugged => budget.plugs = 0
  /\ link.ccPin => plugged

Attached == MaxPlugs <= 1 => StaysAttached
Wakeup == MaxPlugs <= 1 => TransmissionHasWakeup

IInv ==
  /\ TypeOK
  /\ GoodSlot(link)
  /\ ResetIsIdle
  /\ SendingIsOnWire
  /\ Attached
  /\ Wakeup

(* The bounds stay bounds, and only a plug event counts against MaxPlugs. *)
LEMMA SpendLemma ==
  ASSUME TypeOK,
         NEW what \in {"messages", "sends", "losses", "cable", "resets", "plugs"}, Spend(what)
  PROVE  /\ budget' \in Budget
         /\ what = "plugs" => budget'.plugs = budget.plugs - 1 /\ budget.plugs > 0
         /\ what # "plugs" => budget'.plugs = budget.plugs
<1>1. budget \in Budget
  BY DEF TypeOK
<1>2. budget[what] > 0 /\ budget' = [budget EXCEPT ![what] = @ - 1]
  BY Zenon DEF Spend
<1>3. CASE what = "messages"
  BY <1>1, <1>2, <1>3 DEF Budget
<1>4. CASE what = "sends"
  <2>1. budget.sends - 1 \in 0 .. MaxSends
    BY <1>1, <1>2, <1>4, LinkAssumption DEF Budget
  <2>2. budget' = [budget EXCEPT !.sends = budget.sends - 1]
    BY <1>2, <1>4
  <2>3. budget' \in Budget
    BY <1>1, <2>1, <2>2, Zenon DEF Budget
  <2>4. budget'.plugs = budget.plugs
    BY <1>1, <2>2 DEF Budget
  <2>5. QED
    BY <1>4, <2>3, <2>4
<1>5. CASE what = "losses"
  BY <1>1, <1>2, <1>5 DEF Budget
<1>6. CASE what = "cable"
  BY <1>1, <1>2, <1>6 DEF Budget
<1>7. CASE what = "resets"
  BY <1>1, <1>2, <1>7 DEF Budget
<1>8. CASE what = "plugs"
  BY <1>1, <1>2, <1>8 DEF Budget
<1>9. QED
  BY <1>3, <1>4, <1>5, <1>6, <1>7, <1>8

(* What the client may send is a message. *)
LEMMA RepliesLemma ==
  ASSUME TypeOK, NEW reply \in Replies
  PROVE  /\ reply = NoPacket \/ Sendable(reply)
         /\ SpendReply(reply) => budget' \in Budget /\ budget'.plugs = budget.plugs
<1>1. budget \in Budget
  BY DEF TypeOK
<1>2. CASE reply = NoPacket
  BY <1>1, <1>2 DEF SpendReply
<1>3. CASE reply = NewMessage /\ budget.sends > 0
  <2>1. budget.sends \in 0 .. MaxSends
    BY <1>1 DEF Budget
  <2>2. Sendable(NewMessage)
    BY <2>1, LinkAssumption DEF NewMessage, Sendable, Packet, NoId
  <2>3. [budget EXCEPT !.sends = @ - 1] \in Budget
        /\ [budget EXCEPT !.sends = @ - 1].plugs = budget.plugs
    BY <1>1, <1>3, LinkAssumption DEF Budget
  <2>4. QED
    BY <1>1, <1>3, <2>2, <2>3 DEF SpendReply
<1>4. QED
  BY <1>2, <1>3 DEF Replies

(* A step of the software that leaves the line alone and accounts for what *)
(* it waits for.                                                           *)
LEMMA SoftwareLemma ==
  ASSUME IInv, Steps(link, link'),
         Woken(link') \/ (link'.timers > 0 /\ link'.txRetryCount = link.txRetryCount),
         flags' \subseteq Flags, status' \subseteq Flags,
         UNCHANGED <<rx, wire, plugged, partner>>,
         thread' \in {"idle", "checked", "filled", "done"},
         budget' \in Budget, budget'.plugs = budget.plugs
  PROVE  IInv'
<1>1. TypeOK'
  BY DEF IInv, TypeOK, Steps
<1>2. GoodSlot(link)'
  BY DEF Steps, GoodSlot
<1>3. ResetIsIdle'
  BY DEF IInv, ResetIsIdle, Steps, Woken, IsTransmitting
<1>4. SendingIsOnWire'
  BY DEF IInv, SendingIsOnWire, Steps
<1>5. Attached'
  BY DEF IInv, Attached, StaysAttached, Steps
<1>6. Wakeup'
  BY DEF Wakeup, TransmissionHasWakeup, Woken, IsTransmitting
<1>7. QED
  BY <1>1, <1>2, <1>3, <1>4, <1>5, <1>6 DEF IInv

(* A step that does not touch the controller, adds flags or removes some   *)
(* that no transmission ends with, and keeps the partner attached.         *)
LEMMA OutsideLemma ==
  ASSUME IInv, link' = link,
         flags' \subseteq Flags, status' \subseteq Flags,
         {"txSent", "txDisc"} \intersect flags \subseteq flags',
         rx' \in Packet, plugged' \in BOOLEAN,
         partner' \in Partner, wire' \in [from : {"nobody", "us", "partner"}, packet : Packet],
         wire.from = "us" => wire' = wire,
         thread' \in {"idle", "checked", "filled", "done"},
         budget' \in Budget,
         MaxPlugs <= 1 => /\ plugged => plugged'
                          /\ budget'.plugs <= budget.plugs
                          /\ plugged' => budget'.plugs = 0
  PROVE  IInv'
<1>1. TypeOK'
  BY DEF IInv, TypeOK
<1>2. GoodSlot(link)' /\ ResetIsIdle'
  BY DEF IInv, GoodSlot, ResetIsIdle, IsTransmitting
<1>3. SendingIsOnWire'
  BY DEF IInv, SendingIsOnWire
<1>4. Attached'
  BY DEF IInv, Attached, StaysAttached, TypeOK, Budget
<1>5. Wakeup'
  BY DEF IInv, Wakeup, TransmissionHasWakeup, IsTransmitting
<1>6. QED
  BY <1>1, <1>2, <1>3, <1>4, <1>5 DEF IInv

----------------------------------------------------------------------------
(* One lemma for each group of actions. *)

(* The initial state satisfies the invariant. *)
LEMMA InitLemma ==
  ASSUME Init
  PROVE  IInv
<1>1. Signal("msg") \in Packet /\ NoPacket \in Packet
  BY LinkAssumption DEF Signal, NoPacket, Packet, NoId, None
<1>2. link \in Link
  <2>1. 0 \in 0 .. IdMod - 1 /\ NoId \in NoId .. IdMod - 1 /\ None \in Nat /\ << >> \in Seq(Nat)
    BY LinkAssumption DEF NoId, None
  <2>2. QED
    BY <1>1, <2>1 DEF Init, Link
<1>3. partner \in Partner
  BY LinkAssumption DEF Init, Partner, NoId, None
<1>4. budget \in Budget /\ budget.plugs = MaxPlugs
  BY LinkAssumption DEF Init, Budget
<1>5. TypeOK
  BY <1>1, <1>2, <1>3, <1>4 DEF Init, TypeOK
<1>6. QED
  BY <1>4, <1>5 DEF Init, IInv, GoodSlot, Signal, ResetIsIdle, SendingIsOnWire, Attached, StaysAttached,
                    Wakeup, TransmissionHasWakeup, IsTransmitting

(* handleInterrupt, one flag at a time. *)
LEMMA IsrLemma ==
  ASSUME IInv,
         IsrEnter \/ HandleTypeC \/ HandleReset \/ HandleResetDiscarded
           \/ HandleRx \/ HandleSent \/ HandleDiscarded
  PROVE  IInv'
<1> USE DEF IInv
<1>1. /\ link \in Link /\ flags \subseteq Flags /\ status \subseteq Flags /\ rx \in Packet
      /\ budget \in Budget /\ thread \in {"idle", "checked", "filled", "done"}
      /\ plugged \in BOOLEAN
  BY DEF TypeOK
<1>2. CASE IsrEnter
  <2>1. /\ link' = link /\ flags' = flags /\ status' = flags /\ rx' = rx /\ wire' = wire
        /\ plugged' = plugged /\ partner' = partner /\ thread' = thread /\ budget' = budget
    BY <1>2 DEF IsrEnter
  <2>2. QED
    BY <1>1, <2>1, OutsideLemma DEF TypeOK, Attached, StaysAttached, Budget
<1>3. CASE HandleTypeC
  <2>1. PICK cut \in BOOLEAN :
          link' = [link EXCEPT !.ccPin = plugged, !.lastHeard = Foreign,
                               !.tx = IF link.ccPin /\ ~plugged /\ cut THEN "idle" ELSE @]
    BY <1>3 DEF HandleTypeC
  <2>2. /\ link' \in Link /\ link'.ccPin = plugged
        /\ \/ link'.tx = link.tx
           \/ link'.tx = "idle" /\ link.ccPin /\ ~plugged
        /\ link'.out = link.out /\ link'.timers = link.timers
        /\ link'.txMessage = link.txMessage /\ link'.txRetryCount = link.txRetryCount
    <3>1. CASE link.ccPin /\ ~plugged /\ cut
      <4>1. link' = [link EXCEPT !.ccPin = plugged, !.lastHeard = Foreign, !.tx = "idle"]
        BY <2>1, <3>1
      <4>2. Foreign \in Int
        BY DEF Foreign
      <4>3. QED
        BY <1>1, <3>1, <4>1, <4>2 DEF Link
    <3>2. CASE ~(link.ccPin /\ ~plugged /\ cut)
      <4>1. link' = [link EXCEPT !.ccPin = plugged, !.lastHeard = Foreign, !.tx = link.tx]
        BY <2>1, <3>2
      <4>2. Foreign \in Int
        BY DEF Foreign
      <4>3. QED
        BY <1>1, <4>1, <4>2 DEF Link
    <3>3. QED
      BY <3>1, <3>2
  <2>3. MaxPlugs <= 1 => link'.tx = link.tx
    BY <2>2 DEF Attached, StaysAttached
  <2>4. /\ flags' = flags \ {"typeC"} /\ status' \subseteq Flags
        /\ UNCHANGED <<rx, wire, plugged, partner, thread, budget>>
    BY <1>1, <1>3 DEF HandleTypeC, Handles, Clears
  <2>5. TypeOK'
    BY <2>2, <2>4 DEF TypeOK
  <2>6. GoodSlot(link)' /\ ResetIsIdle' /\ SendingIsOnWire' /\ Attached'
    BY <2>2, <2>4 DEF GoodSlot, ResetIsIdle, IsTransmitting, SendingIsOnWire, Attached, StaysAttached
  <2>7. Wakeup'
    BY <2>2, <2>3, <2>4 DEF Wakeup, TransmissionHasWakeup, IsTransmitting
  <2>8. QED
    BY <2>5, <2>6, <2>7
<1>4. CASE HandleReset
  <2>1. PICK reply \in Replies : link' = Reset(link, reply) /\ SpendReply(reply)
    BY <1>4 DEF HandleReset
  <2>2. /\ flags' \subseteq Flags /\ status' \subseteq Flags
        /\ UNCHANGED <<rx, wire, plugged, partner, thread>>
    BY <1>1, <1>4 DEF HandleReset, Handles, Clears
  <2>3. /\ reply = NoPacket \/ Sendable(reply)
        /\ budget' \in Budget /\ budget'.plugs = budget.plugs
    BY <2>1, RepliesLemma
  <2>4. Steps(link, link') /\ Woken(link')
    BY <1>1, <2>1, <2>3, ResetLemma
  <2>5. QED
    BY <1>1, <2>2, <2>3, <2>4, SoftwareLemma
<1>5. CASE HandleResetDiscarded
  <2>1. /\ link' = link /\ flags' = flags \ {"hrstDisc"} /\ status' \subseteq Flags
        /\ rx' = rx /\ wire' = wire /\ plugged' = plugged /\ partner' = partner
        /\ thread' = thread /\ budget' = budget
    BY <1>1, <1>5 DEF HandleResetDiscarded, Handles, Clears
  <2>2. QED
    BY <1>1, <2>1, OutsideLemma DEF TypeOK, Attached, StaysAttached, Budget
<1>6. CASE HandleRx
  <2>1. /\ flags' = flags \ {"rxMsgEnd"} /\ status' \subseteq Flags
        /\ rx' = rx /\ wire' = wire /\ plugged' = plugged /\ partner' = partner
        /\ thread' = thread /\ budget' = budget
    BY <1>1, <1>6 DEF HandleRx, Handles, Clears
  <2>2. CASE rx.kind = "garbled"
    <3>1. link' = link
      BY <1>6, <2>2 DEF HandleRx
    <3>2. QED
      BY <1>1, <2>1, <3>1, OutsideLemma DEF TypeOK, Attached, StaysAttached, Budget
  <2>3. CASE rx.kind # "garbled"
    <3>1. PICK stale \in StaleSlots : link' = OnMessageReceived(link, rx, stale)
      BY <1>6, <2>3 DEF HandleRx
    <3>2. Steps(link, link') /\ Woken(link')
      BY <1>1, <3>1, ReceivedLemma
    <3>3. QED
      BY <1>1, <2>1, <3>2, SoftwareLemma
  <2>4. QED
    BY <2>2, <2>3
<1>7. CASE HandleSent
  <2>1. PICK stale \in StaleSlots, reply \in Replies :
          link' = OnMessageTransmitted(link, TRUE, stale, reply) /\ SpendReply(reply)
    BY <1>7 DEF HandleSent
  <2>2. /\ flags' \subseteq Flags /\ status' \subseteq Flags
        /\ UNCHANGED <<rx, wire, plugged, partner, thread>>
    BY <1>1, <1>7 DEF HandleSent, Handles, Clears
  <2>3. /\ reply = NoPacket \/ Sendable(reply)
        /\ budget' \in Budget /\ budget'.plugs = budget.plugs
    BY <2>1, RepliesLemma
  <2>4. /\ Steps(link, link')
        /\ Woken(link') \/ (link'.timers > 0 /\ link'.txRetryCount = link.txRetryCount)
    BY <1>1, <2>1, <2>3, TransmittedLemma
  <2>5. QED
    BY <1>1, <2>2, <2>3, <2>4, SoftwareLemma
<1>8. CASE HandleDiscarded
  <2>1. PICK stale \in StaleSlots : link' = OnMessageTransmitted(link, FALSE, stale, NoPacket)
    BY <1>8 DEF HandleDiscarded
  <2>2. /\ flags' \subseteq Flags /\ status' \subseteq Flags
        /\ UNCHANGED <<rx, wire, plugged, partner, thread>> /\ budget' = budget
    BY <1>1, <1>8 DEF HandleDiscarded, Handles, Clears
  <2>3. /\ Steps(link, link')
        /\ Woken(link') \/ (link'.timers > 0 /\ link'.txRetryCount = link.txRetryCount)
    BY <1>1, <2>1, TransmittedLemma
  <2>4. QED
    BY <1>1, <2>2, <2>3, SoftwareLemma
<1>9. QED
  BY <1>2, <1>3, <1>4, <1>5, <1>6, <1>7, <1>8

(* The scheduler's task and the client's calls, from tasks or the main loop. *)
LEMMA CallsLemma ==
  ASSUME IInv, TimerExpires \/ Client
  PROVE  IInv'
<1> USE DEF IInv
<1>1. /\ link \in Link /\ flags \subseteq Flags /\ status \subseteq Flags
      /\ budget \in Budget /\ thread \in {"idle", "checked", "filled", "done"}
  BY DEF TypeOK
<1>2. CASE TimerExpires
  <2>1. PICK stale \in StaleSlots : link' = OnNoGoodCrcReceived(CancelTimer(link), stale)
    BY <1>2 DEF TimerExpires
  <2>2. /\ CancelTimer(link) \in Link /\ GoodSlot(CancelTimer(link))
        /\ CancelTimer(link).tx = link.tx /\ CancelTimer(link).out = link.out
        /\ CancelTimer(link).ccPin = link.ccPin
    BY <1>1, CancelTimerLemma DEF GoodSlot
  <2>3. Steps(link, link') /\ Woken(link')
    BY <2>1, <2>2, NoGoodCrcLemma DEF Steps
  <2>4. UNCHANGED <<flags, status, rx, wire, plugged, partner, thread, budget>>
    BY <1>2 DEF TimerExpires
  <2>5. QED
    BY <1>1, <2>3, <2>4, SoftwareLemma
<1>3. CASE ClientSends
  <2>1. /\ link' = Send(link, NewMessage) /\ ~IsTransmitting(link)
        /\ budget.sends > 0 /\ Spend("sends")
        /\ UNCHANGED <<flags, status, rx, wire, plugged, partner, thread>>
    BY <1>3 DEF ClientSends, Spend
  <2>2. Sendable(NewMessage)
    BY <1>1, <2>1, LinkAssumption DEF Budget, NewMessage, Sendable, Packet, NoId
  <2>3. Steps(link, link') /\ Woken(link')
    BY <1>1, <2>1, <2>2, SendLemma
  <2>4. budget' \in Budget /\ budget'.plugs = budget.plugs
    BY <2>1, SpendLemma
  <2>5. QED
    BY <1>1, <2>1, <2>3, <2>4, SoftwareLemma
<1>4. CASE ClientSendsHardReset
  <2>1. /\ link' = [link EXCEPT !.tx = "requested", !.out = Signal("hardReset")]
        /\ ~IsTransmitting(link) /\ Spend("resets")
        /\ UNCHANGED <<flags, status, rx, wire, plugged, partner, thread>>
    BY <1>4 DEF ClientSendsHardReset, SendHardReset
  <2>2. Signal("hardReset") \in Packet
    BY LinkAssumption DEF Signal, Packet, NoId, None
  <2>3. /\ link' \in Link /\ link'.tx = "requested" /\ link'.ccPin = link.ccPin
        /\ link'.txMessage = link.txMessage /\ link'.txRetryCount = link.txRetryCount
    BY <1>1, <2>1, <2>2 DEF Link
  <2>4. budget' \in Budget /\ budget'.plugs = budget.plugs
    BY <2>1, SpendLemma
  <2>5. TypeOK'
    BY <2>1, <2>3, <2>4 DEF TypeOK
  <2>6. GoodSlot(link)' /\ ResetIsIdle' /\ SendingIsOnWire' /\ Attached'
    BY <2>1, <2>3, <2>4 DEF GoodSlot, ResetIsIdle, IsTransmitting, SendingIsOnWire, Attached, StaysAttached
  <2>7. Wakeup'
    BY <2>3 DEF Wakeup, TransmissionHasWakeup
  <2>8. QED
    BY <2>5, <2>6, <2>7
<1>5. CASE ThreadChecks
  <2>1. /\ link' = link /\ flags' = flags /\ status' = status /\ rx' = rx /\ wire' = wire
        /\ plugged' = plugged /\ partner' = partner /\ thread' = "checked" /\ budget' = budget
    BY <1>5 DEF ThreadChecks
  <2>2. QED
    BY <1>1, <2>1, OutsideLemma DEF TypeOK, Attached, StaysAttached, Budget
<1>6. CASE ThreadFills
  <2> DEFINE m == [kind |-> "msg", id |-> 0, seq |-> MaxSends + 1]
  <2>1. /\ link' = [link EXCEPT !.txMessage = m] /\ thread' = "filled"
        /\ UNCHANGED <<flags, status, rx, wire, plugged, partner, budget>>
    BY <1>6 DEF ThreadFills
  <2>2. m \in Packet
    BY LinkAssumption DEF Packet, NoId
  <2>3. /\ link' \in Link /\ link'.txMessage = m
        /\ link'.tx = link.tx /\ link'.out = link.out /\ link'.ccPin = link.ccPin
        /\ link'.timers = link.timers /\ link'.txRetryCount = link.txRetryCount
    BY <1>1, <2>1, <2>2 DEF Link
  <2>4. TypeOK'
    BY <2>1, <2>3 DEF TypeOK
  <2>5. GoodSlot(link)' /\ ResetIsIdle' /\ SendingIsOnWire' /\ Attached'
    BY <2>1, <2>3 DEF GoodSlot, ResetIsIdle, IsTransmitting, SendingIsOnWire, Attached, StaysAttached
  <2>6. Wakeup'
    BY <2>1, <2>3 DEF Wakeup, TransmissionHasWakeup, IsTransmitting
  <2>7. QED
    BY <2>4, <2>5, <2>6
<1>7. CASE ThreadTransmits
  <2> DEFINE t == [link EXCEPT !.txRetryCount = NRetryCount + 1]
  <2>1. link' = SendMessage(t) /\ thread' = "done"
        /\ UNCHANGED <<flags, status, rx, wire, plugged, partner, budget>>
    BY <1>7 DEF ThreadTransmits
  <2>2. t \in Link
    <3>1. NRetryCount + 1 \in Int
      BY LinkAssumption
    <3>2. QED
      BY <1>1, <3>1, Zenon DEF Link
  <2>3. t.tx = link.tx /\ t.out = link.out /\ t.ccPin = link.ccPin /\ GoodSlot(t)
    BY <1>1 DEF Link, GoodSlot
  <2>4. Steps(link, link') /\ Woken(link')
    BY <2>1, <2>2, <2>3, SendMessageLemma DEF Steps
  <2>5. QED
    BY <1>1, <2>1, <2>4, SoftwareLemma
<1>8. QED
  BY <1>2, <1>3, <1>4, <1>5, <1>6, <1>7 DEF Client

Line == [from : {"nobody", "us", "partner"}, packet : Packet]

(* What the partner makes of a packet. *)
LEMMA HearsLemma ==
  ASSUME NEW p \in Partner, NEW packet \in Packet
  PROVE  PartnerHears(p, packet) \in Partner /\ NewPartnerSession(p) \in Partner
<1>1. /\ packet.id \in NoId .. IdMod - 1 /\ packet.seq \in Nat
      /\ (p.id + 1) % IdMod \in 0 .. IdMod - 1
      /\ 0 \in 0 .. IdMod - 1 /\ NoId \in NoId .. IdMod - 1 /\ 0 \in Nat
  BY LinkAssumption DEF Packet, Partner, NoId
<1>2. NewPartnerSession(p) \in Partner
  BY <1>1, Zenon DEF NewPartnerSession, Partner
<1>3. CASE packet.kind = "msg"
  <2>1. PartnerHears(p, packet) =
          [p EXCEPT !.due = packet.id, !.lastId = packet.id, !.lastSeq = packet.seq,
                    !.confused = @ \/ Confusing(p, packet)]
    BY <1>3 DEF PartnerHears
  <2>2. (p.confused \/ Confusing(p, packet)) \in BOOLEAN
    OBVIOUS
  <2>3. PartnerHears(p, packet) \in Partner
    BY <1>1, <2>1, <2>2, Zenon DEF Partner
  <2>4. QED
    BY <1>2, <2>3
<1>4. CASE packet.kind = "goodCrc" /\ p.waiting /\ packet.id = p.id
  <2>1. PartnerHears(p, packet) =
          [p EXCEPT !.waiting = FALSE, !.id = (@ + 1) % IdMod, !.acked = p.seq]
    BY <1>4 DEF PartnerHears
  <2>2. p.seq \in Nat
    BY DEF Partner
  <2>3. PartnerHears(p, packet) \in Partner
    BY <1>1, <2>1, <2>2, Zenon DEF Partner
  <2>4. QED
    BY <1>2, <2>3
<1>5. CASE packet.kind = "hardReset"
  BY <1>2, <1>5 DEF PartnerHears
<1>6. CASE /\ packet.kind # "msg" /\ packet.kind # "hardReset"
           /\ ~(packet.kind = "goodCrc" /\ p.waiting /\ packet.id = p.id)
  BY <1>2, <1>6 DEF PartnerHears
<1>7. QED
  BY <1>3, <1>4, <1>5, <1>6

(* The transmitter makes progress: it starts, discards or finishes.        *)
LEMMA HardwareLemma ==
  ASSUME IInv, Hardware
  PROVE  IInv'
<1> USE DEF IInv
<1>1. /\ link \in Link /\ flags \subseteq Flags /\ status \subseteq Flags /\ rx \in Packet
      /\ budget \in Budget /\ thread \in {"idle", "checked", "filled", "done"}
      /\ plugged \in BOOLEAN /\ partner \in Partner /\ wire \in Line
  BY DEF TypeOK, Line
<1>2. EmptyLine \in Line
  BY LinkAssumption DEF EmptyLine, Line, NoPacket, Packet, NoId, None
<1>3. CASE HwStarts
  <2>1. /\ link.tx = "requested"
        /\ link' = [link EXCEPT !.tx = "sending"]
        /\ wire' = [from |-> "us", packet |-> link.out]
        /\ UNCHANGED <<flags, status, rx, plugged, partner, thread, budget>>
    BY <1>3 DEF HwStarts, SoftwareUnchanged
  <2>2. /\ link' \in Link /\ link'.tx = "sending" /\ link'.out = link.out
        /\ link'.ccPin = link.ccPin /\ link'.timers = link.timers
        /\ link'.txMessage = link.txMessage /\ link'.txRetryCount = link.txRetryCount
    BY <1>1, <2>1 DEF Link
  <2>3. link.out \in Packet
    BY <1>1 DEF Link
  <2>4. TypeOK'
    BY <2>1, <2>2, <2>3 DEF TypeOK
  <2>5. GoodSlot(link)' /\ ResetIsIdle' /\ SendingIsOnWire' /\ Attached'
    BY <2>1, <2>2 DEF GoodSlot, ResetIsIdle, IsTransmitting, SendingIsOnWire, Attached, StaysAttached
  <2>6. Wakeup'
    BY <2>2 DEF Wakeup, TransmissionHasWakeup
  <2>7. QED
    BY <2>4, <2>5, <2>6
<1>4. CASE HwDiscards
  <2> DEFINE flag == IF link.out.kind = "hardReset" THEN "hrstDisc" ELSE "txDisc"
  <2>1. /\ link.tx = "requested"
        /\ link' = [link EXCEPT !.tx = "idle"]
        /\ flags' = flags \union {flag}
        /\ UNCHANGED <<status, rx, wire, plugged, partner, thread, budget>>
    BY <1>4 DEF HwDiscards, Raise, SoftwareUnchanged
  <2>2. /\ link' \in Link /\ link'.tx = "idle" /\ link'.out = link.out
        /\ link'.ccPin = link.ccPin /\ link'.timers = link.timers
        /\ link'.txMessage = link.txMessage /\ link'.txRetryCount = link.txRetryCount
    BY <1>1, <2>1 DEF Link
  <2>3. TypeOK'
    BY <1>1, <2>1, <2>2 DEF TypeOK, Flags
  <2>4. GoodSlot(link)' /\ ResetIsIdle' /\ SendingIsOnWire' /\ Attached'
    BY <2>1, <2>2 DEF GoodSlot, ResetIsIdle, IsTransmitting, SendingIsOnWire, Attached, StaysAttached
  <2>5. Wakeup'
    <3>1. CASE link.out.kind = "hardReset"
      BY <2>1, <2>2, <3>1 DEF ResetIsIdle, IsTransmitting, Wakeup, TransmissionHasWakeup
    <3>2. CASE link.out.kind # "hardReset"
      BY <2>1, <3>2 DEF Wakeup, TransmissionHasWakeup
    <3>3. QED
      BY <3>1, <3>2
  <2>6. QED
    BY <2>3, <2>4, <2>5
<1>5. CASE OurPacketEnds
  <2>1. /\ wire' = EmptyLine
        /\ UNCHANGED <<rx, plugged, status, thread>>
        /\ partner' = PartnerHears(partner, wire.packet) \/ partner' = partner
        /\ budget' = budget \/ Spend("losses")
    BY <1>5 DEF OurPacketEnds, SoftwareUnchanged
  <2>2. partner' \in Partner
    BY <1>1, <2>1, HearsLemma DEF Line
  <2>3. budget' \in Budget /\ budget'.plugs = budget.plugs
    BY <1>1, <2>1, SpendLemma
  <2>4. CASE link.tx # "sending"
    <3>1. flags' = flags /\ link' = link
      BY <1>5, <2>4 DEF OurPacketEnds
    <3>2. TypeOK'
      BY <1>2, <2>1, <2>2, <2>3, <3>1 DEF TypeOK, Line
    <3>3. GoodSlot(link)' /\ ResetIsIdle' /\ SendingIsOnWire' /\ Attached'
      BY <2>1, <2>3, <2>4, <3>1
         DEF GoodSlot, ResetIsIdle, IsTransmitting, SendingIsOnWire, Attached, StaysAttached
    <3>4. Wakeup'
      BY <3>1 DEF Wakeup, TransmissionHasWakeup, IsTransmitting
    <3>5. QED
      BY <3>2, <3>3, <3>4
  <2>5. CASE link.tx = "sending"
    <3>1. wire.packet = link.out
      BY <2>5 DEF SendingIsOnWire
    <3>2. /\ link' = [link EXCEPT !.tx = "idle"]
          /\ flags' = flags \union {IF wire.packet.kind = "hardReset" THEN "hrstSent" ELSE "txSent"}
      BY <1>5, <2>5 DEF OurPacketEnds, Raise
    <3>3. /\ link' \in Link /\ link'.tx = "idle" /\ link'.out = link.out
          /\ link'.ccPin = link.ccPin /\ link'.timers = link.timers
          /\ link'.txMessage = link.txMessage /\ link'.txRetryCount = link.txRetryCount
      BY <1>1, <3>2 DEF Link
    <3>4. TypeOK'
      <4>1. flags' \subseteq Flags
        BY <1>1, <3>2 DEF Flags
      <4>2. QED
        BY <1>2, <2>1, <2>2, <2>3, <3>3, <4>1 DEF TypeOK, Line
    <3>5. GoodSlot(link)' /\ ResetIsIdle' /\ SendingIsOnWire' /\ Attached'
      BY <2>1, <2>3, <3>3 DEF GoodSlot, ResetIsIdle, SendingIsOnWire, Attached, StaysAttached
    <3>6. Wakeup'
      <4>1. CASE link.out.kind = "hardReset"
        BY <2>5, <3>3, <4>1 DEF ResetIsIdle, IsTransmitting, Wakeup, TransmissionHasWakeup
      <4>2. CASE link.out.kind # "hardReset"
        BY <3>1, <3>2, <4>2 DEF Wakeup, TransmissionHasWakeup
      <4>3. QED
        BY <4>1, <4>2
    <3>7. QED
      BY <3>4, <3>5, <3>6
  <2>6. QED
    BY <2>4, <2>5
<1>6. CASE PartnerPacketEnds
  <2>1. /\ wire.from = "partner" /\ wire' = EmptyLine
        /\ link' = link /\ plugged' = plugged /\ partner' = partner
        /\ status' = status /\ thread' = thread
        /\ flags' = flags \/ flags' = flags \union {"rxHrst"} \/ flags' = flags \union {"rxMsgEnd"}
        /\ rx' = rx \/ rx' = wire.packet \/ rx' = Signal("garbled")
        /\ budget' = budget \/ Spend("losses")
    BY <1>6 DEF PartnerPacketEnds, Raise, SoftwareUnchanged
  <2>2. budget' \in Budget /\ budget'.plugs = budget.plugs
    BY <1>1, <2>1, SpendLemma
  <2>3. rx' \in Packet
    BY <1>1, <2>1, LinkAssumption DEF Line, Signal, Packet, NoId, None
  <2>4. flags' \subseteq Flags /\ {"txSent", "txDisc"} \intersect flags \subseteq flags'
    BY <1>1, <2>1 DEF Flags
  <2>5. QED
    BY <1>1, <1>2, <2>1, <2>2, <2>3, <2>4, OutsideLemma DEF Line, Attached, StaysAttached, Budget
<1>7. QED
  BY <1>3, <1>4, <1>5, <1>6 DEF Hardware

(* The partner speaks, or is attached.                                     *)
LEMMA EnvironmentLemma ==
  ASSUME IInv, Environment
  PROVE  IInv'
<1> USE DEF IInv
<1>1. /\ flags \subseteq Flags /\ status \subseteq Flags /\ rx \in Packet
      /\ budget \in Budget /\ thread \in {"idle", "checked", "filled", "done"}
      /\ plugged \in BOOLEAN /\ partner \in Partner /\ wire \in Line
  BY DEF TypeOK, Line
<1>2. ASSUME NEW packet \in Packet, PartnerSpeaks(packet),
             partner' \in Partner, budget' \in Budget, budget'.plugs = budget.plugs
      PROVE  IInv'
  <2>1. /\ wire.from = "nobody" /\ wire' = [from |-> "partner", packet |-> packet]
        /\ link' = link /\ flags' = flags /\ rx' = rx /\ plugged' = plugged
        /\ status' = status /\ thread' = thread
    BY <1>2 DEF PartnerSpeaks, LineFree, SoftwareUnchanged
  <2>2. wire' \in Line
    BY <2>1 DEF Line
  <2>3. QED
    BY <1>1, <1>2, <2>1, <2>2, OutsideLemma DEF Line, Attached, StaysAttached, Budget
<1>3. /\ partner.id \in NoId .. IdMod - 1 /\ partner.due \in NoId .. IdMod - 1
      /\ partner.seq \in Nat /\ partner.seq + 1 \in Nat /\ partner.tries \in Nat
      /\ (partner.id + 1) % IdMod \in 0 .. IdMod - 1 /\ NoId \in NoId .. IdMod - 1
  BY <1>1, LinkAssumption DEF Partner, NoId
<1>4. CASE PartnerSends
  <2>1. partner' = [partner EXCEPT !.seq = @ + 1, !.waiting = TRUE, !.tries = NRetryCount]
    BY <1>4 DEF PartnerSends
  <2>2. partner' \in Partner
    BY <1>1, <1>3, <2>1, LinkAssumption, Zenon DEF Partner
  <2>3. [kind |-> "msg", id |-> partner.id, seq |-> partner.seq + 1] \in Packet
    BY <1>3 DEF Packet
  <2>4. QED
    BY <1>2, <1>4, <2>2, <2>3, SpendLemma DEF PartnerSends
<1>5. CASE PartnerRetries
  <2>1. partner' = [partner EXCEPT !.tries = @ - 1] /\ partner.tries - 1 \in Nat /\ budget' = budget
    BY <1>3, <1>5 DEF PartnerRetries
  <2>2. partner' \in Partner
    BY <1>1, <2>1, Zenon DEF Partner
  <2>3. [kind |-> "msg", id |-> partner.id, seq |-> partner.seq] \in Packet
    BY <1>3 DEF Packet
  <2>4. QED
    BY <1>1, <1>2, <1>5, <2>1, <2>2, <2>3 DEF PartnerRetries
<1>6. CASE PartnerGivesUp
  <2>1. /\ link' = link /\ flags' = flags /\ rx' = rx /\ wire' = wire /\ plugged' = plugged
        /\ status' = status /\ thread' = thread /\ budget' = budget
        /\ partner' = [partner EXCEPT !.waiting = FALSE, !.id = (@ + 1) % IdMod]
    BY <1>6 DEF PartnerGivesUp, SoftwareUnchanged
  <2>2. partner' \in Partner
    BY <1>1, <1>3, <2>1, Zenon DEF Partner
  <2>3. QED
    BY <1>1, <2>1, <2>2, OutsideLemma DEF Line, Attached, StaysAttached, Budget
<1>7. CASE PartnerAcks
  <2>1. partner' = [partner EXCEPT !.due = NoId] /\ budget' = budget
    BY <1>7 DEF PartnerAcks
  <2>2. partner' \in Partner
    BY <1>1, <1>3, <2>1, Zenon DEF Partner
  <2>3. [kind |-> "goodCrc", id |-> partner.due, seq |-> None] \in Packet
    BY <1>3 DEF Packet, None
  <2>4. QED
    BY <1>1, <1>2, <1>7, <2>1, <2>2, <2>3 DEF PartnerAcks
<1>8. CASE PartnerResets
  <2>1. partner' \in Partner
    BY <1>1, <1>8, HearsLemma DEF PartnerResets, Line
  <2>2. Signal("hardReset") \in Packet
    BY LinkAssumption DEF Signal, Packet, NoId, None
  <2>3. QED
    BY <1>2, <1>8, <2>1, <2>2, SpendLemma DEF PartnerResets
<1>9. CASE PartnerTalksToCable
  <2>1. Signal("cable") \in Packet
    BY LinkAssumption DEF Signal, Packet, NoId, None
  <2>2. QED
    BY <1>1, <1>2, <1>9, <2>1, SpendLemma DEF PartnerTalksToCable
<1>10. CASE Plug
  <2>1. /\ Spend("plugs") /\ plugged' = ~plugged
        /\ partner' = NewPartnerSession(partner)
        /\ wire' = IF wire.from = "partner" THEN EmptyLine ELSE wire
        /\ flags' = flags \union {"typeC"}
        /\ link' = link /\ rx' = rx /\ status' = status /\ thread' = thread
    BY <1>10 DEF Plug, Raise, SoftwareUnchanged
  <2>2. /\ budget' \in Budget /\ budget.plugs > 0 /\ budget'.plugs = budget.plugs - 1
    BY <2>1, SpendLemma
  <2>3. MaxPlugs <= 1 => ~plugged /\ plugged' /\ budget'.plugs = 0
    <3> SUFFICES ASSUME MaxPlugs <= 1 PROVE ~plugged /\ plugged' /\ budget'.plugs = 0
      OBVIOUS
    <3>1. budget.plugs \in Nat
      BY <1>1 DEF Budget
    <3>2. budget.plugs = 1
      BY <2>2, <3>1 DEF Attached, StaysAttached
    <3>3. ~plugged
      BY <3>2 DEF Attached, StaysAttached
    <3>4. plugged'
      BY <2>1, <3>3
    <3>5. budget'.plugs = 0
      BY <2>2, <3>2
    <3>6. QED
      BY <3>3, <3>4, <3>5
  <2>4. partner' \in Partner
    BY <1>1, <2>1, HearsLemma DEF Line
  <2>5. EmptyLine \in Line
    BY LinkAssumption DEF EmptyLine, Line, NoPacket, Packet, NoId, None
  <2>6. wire' \in Line
    BY <1>1, <2>1, <2>5
  <2>7. flags' \subseteq Flags /\ {"txSent", "txDisc"} \intersect flags \subseteq flags'
    BY <1>1, <2>1 DEF Flags
  <2>8. wire.from = "us" => wire' = wire
    BY <2>1
  <2>9. budget'.plugs <= budget.plugs
    BY <1>1, <2>2 DEF Budget
  <2>10. plugged' \in BOOLEAN /\ status' \subseteq Flags /\ rx' \in Packet
           /\ thread' \in {"idle", "checked", "filled", "done"}
    BY <1>1, <2>1
  <2>11. QED
    BY <2>1, <2>2, <2>3, <2>4, <2>6, <2>7, <2>8, <2>9, <2>10, OutsideLemma DEF Line
<1>11. QED
  BY <1>4, <1>5, <1>6, <1>7, <1>8, <1>9, <1>10 DEF Environment

----------------------------------------------------------------------------
(* The invariant is inductive. *)
LEMMA StepLemma ==
  ASSUME IInv, [Next]_vars
  PROVE  IInv'
<1>1. CASE Software
  BY <1>1, IsrLemma, CallsLemma DEF Software
<1>2. CASE Client
  BY <1>2, CallsLemma
<1>3. CASE Hardware
  BY <1>3, HardwareLemma
<1>4. CASE Environment
  BY <1>4, EnvironmentLemma
<1>5. CASE UNCHANGED vars
  <2>1. /\ link' = link /\ flags' = flags /\ status' = status /\ rx' = rx /\ wire' = wire
        /\ plugged' = plugged /\ partner' = partner /\ thread' = thread /\ budget' = budget
    BY <1>5 DEF vars
  <2>2. QED
    BY <2>1, OutsideLemma DEF IInv, TypeOK, Attached, StaysAttached, Budget
<1>6. QED
  BY <1>1, <1>2, <1>3, <1>4, <1>5 DEF Next

(* A busy link layer (PDController.h:133, isTransmitting) is never left    *)
(* waiting for nothing while its partner stays attached: a transmission, a *)
(* transmit interrupt or the GoodCRC timer is under way, for every retry   *)
(* count, every loss and reset, however late the interrupts are served and *)
(* wherever they preempt the main loop.                                    *)
THEOREM BusyHasWakeup ==
  ASSUME MaxPlugs <= 1
  PROVE  Spec => []TransmissionHasWakeup
<1>1. Init => IInv
  BY InitLemma
<1>2. IInv /\ [Next]_vars => IInv'
  BY StepLemma
<1>3. IInv => TransmissionHasWakeup
  BY DEF IInv, Wakeup
<1>4. QED
  BY <1>1, <1>2, <1>3, PTL DEF Spec

(* The types of the link layer's state, also when a detach comes in the    *)
(* middle of anything.                                                     *)
THEOREM LinkTypeCorrect ==
  Spec => []TypeOK
<1>1. Init => IInv
  BY InitLemma
<1>2. IInv /\ [Next]_vars => IInv'
  BY StepLemma
<1>3. IInv => TypeOK
  BY DEF IInv
<1>4. QED
  BY <1>1, <1>2, <1>3, PTL DEF Spec

----------------------------------------------------------------------------
(***************************************************************************)
(* The remaining properties need interrupts that are served before         *)
(* anything else happens.  First, what the operators on `link` do to each  *)
(* field.                                                                  *)
(***************************************************************************)

Keeps(s, t) ==
  /\ t \in Link /\ GoodSlot(t)
  /\ t.lastHeard = s.lastHeard /\ t.mistaken = s.mistaken
  /\ t.lastRxMessageId = s.lastRxMessageId /\ t.lastMessage = s.lastMessage
  /\ t.timers = s.timers /\ t.ccPin = s.ccPin /\ t.delivered = s.delivered

(* A transmission has been requested, of message m. *)
Started(t) == t.tx = "requested" /\ IsTransmitting(t) /\ t.out = t.txMessage

Sent(s, t, m) ==
  /\ Keeps(s, t) /\ Started(t)
  /\ t.txMessageId = s.txMessageId
  /\ t.txMessage.kind = m.kind /\ t.txMessage.seq = m.seq
  /\ t.txMessage.id = IF m.kind = "goodCrc" THEN s.lastRxMessageId ELSE s.txMessageId

(* A transmission has ended. *)
NextId(s) == IF s.txMessage.kind = "goodCrc" THEN s.txMessageId ELSE (s.txMessageId + 1) % IdMod

Ended(s, t) ==
  /\ Keeps(s, t) /\ ~IsTransmitting(t) /\ t.tx = s.tx /\ t.out = s.out
  /\ t.txMessageId = NextId(s) /\ t.txMessage.seq = None

(* sendMessage starts the transmission of what is in the slot. *)
LEMMA SendMessageFields ==
  ASSUME NEW s \in Link, GoodSlot(s), IsTransmitting(s)
  PROVE  Sent(s, SendMessage(s), s.txMessage)
<1> DEFINE id == IF s.txMessage.kind = "goodCrc" THEN s.lastRxMessageId ELSE s.txMessageId
           t  == [s EXCEPT !.txMessage.id = id]
<1>1. id \in NoId .. IdMod - 1
  BY LinkAssumption DEF Link, NoId
<1>2. /\ t.txMessage \in Packet /\ t.txMessage.kind = s.txMessage.kind
      /\ t.txMessage.seq = s.txMessage.seq /\ t.txMessage.id = id
  BY <1>1 DEF Link, Packet
<1>3. /\ t \in Link /\ t.ccPin = s.ccPin /\ t.txRetryCount = s.txRetryCount
      /\ t.lastHeard = s.lastHeard /\ t.mistaken = s.mistaken
      /\ t.lastRxMessageId = s.lastRxMessageId /\ t.lastMessage = s.lastMessage
      /\ t.timers = s.timers /\ t.delivered = s.delivered /\ t.txMessageId = s.txMessageId
  BY <1>2 DEF Link
<1>4. SendMessage(s) = [t EXCEPT !.tx = "requested", !.out = t.txMessage]
  BY DEF SendMessage, TransmitMessage
<1> HIDE DEF t
<1> DEFINE u == SendMessage(s)
<1>5. /\ u \in Link /\ u.tx = "requested" /\ u.out = t.txMessage /\ u.txMessage = t.txMessage
      /\ u.ccPin = t.ccPin /\ u.txRetryCount = t.txRetryCount
      /\ u.lastHeard = t.lastHeard /\ u.mistaken = t.mistaken
      /\ u.lastRxMessageId = t.lastRxMessageId /\ u.lastMessage = t.lastMessage
      /\ u.timers = t.timers /\ u.delivered = t.delivered /\ u.txMessageId = t.txMessageId
  BY <1>2, <1>3, <1>4 DEF Link
<1> HIDE DEF u
<1>6. Keeps(s, u) /\ Started(u)
  BY <1>2, <1>3, <1>5 DEF Keeps, Started, GoodSlot, IsTransmitting
<1>7. Sent(s, u, s.txMessage)
  BY <1>2, <1>3, <1>5, <1>6 DEF Sent
<1>8. QED
  BY <1>7 DEF u

(* Sending fills the slot with the message, numbers it and starts. *)
LEMMA SendFields ==
  ASSUME NEW s \in Link, ~IsTransmitting(s), NEW m, Sendable(m)
  PROVE  Sent(s, Send(s, m), m)
<1> DEFINE t == [s EXCEPT !.txMessage = m, !.txRetryCount = NRetryCount + 1]
<1>1. NRetryCount + 1 \in Int /\ NRetryCount + 1 > 0 /\ m \in Packet
  BY LinkAssumption DEF Sendable
<1>2. t \in Link
  BY <1>1, Zenon DEF Link
<1>3. /\ t.txMessage = m /\ t.txRetryCount = NRetryCount + 1 /\ t.ccPin = s.ccPin
      /\ t.lastHeard = s.lastHeard /\ t.mistaken = s.mistaken
      /\ t.lastRxMessageId = s.lastRxMessageId /\ t.lastMessage = s.lastMessage
      /\ t.timers = s.timers /\ t.delivered = s.delivered /\ t.txMessageId = s.txMessageId
  BY <1>2 DEF Link
<1>4. Send(s, m) = SendMessage(t)
  BY DEF Send
<1> HIDE DEF t
<1>5. GoodSlot(t) /\ IsTransmitting(t)
  BY <1>1, <1>3 DEF GoodSlot, Sendable, IsTransmitting
<1>6. Sent(t, SendMessage(t), m)
  BY <1>2, <1>3, <1>5, SendMessageFields
<1>7. QED
  BY <1>3, <1>4, <1>6 DEF Sent, Keeps

(* The end of a transmission: the next message gets the next ID, and a     *)
(* GoodCRC uses none.                                                      *)
LEMMA PrepareFields ==
  ASSUME NEW s \in Link, NEW stale \in StaleSlots
  PROVE  Ended(s, PrepareNextTxMessage(s, stale))
<1> DEFINE t == PrepareNextTxMessage(s, stale)
<1>1. t \in Link /\ GoodSlot(t) /\ t.txRetryCount = 0 /\ t.tx = s.tx /\ t.out = s.out
      /\ t.ccPin = s.ccPin
  BY PrepareLemma DEF Steps, PrepareNextTxMessage, Link
<1>2. /\ t.lastHeard = s.lastHeard /\ t.mistaken = s.mistaken
      /\ t.lastRxMessageId = s.lastRxMessageId /\ t.lastMessage = s.lastMessage
      /\ t.timers = s.timers /\ t.delivered = s.delivered /\ t.txMessage = stale
  BY DEF PrepareNextTxMessage, Link
<1>3. t.txMessageId = NextId(s)
  BY DEF PrepareNextTxMessage, NextId, Link
<1>4. stale.seq = None
  BY DEF StaleSlots, Signal
<1> HIDE DEF t
<1>5. Ended(s, t)
  BY <1>1, <1>2, <1>3, <1>4 DEF Ended, Keeps, IsTransmitting
<1>6. QED
  BY <1>5 DEF t

(* With one timer at most, cancelling it leaves none. *)
LEMMA CancelFields ==
  ASSUME NEW s \in Link, s.timers <= 1
  PROVE  /\ CancelTimer(s) \in Link /\ CancelTimer(s).timers = 0
         /\ CancelTimer(s).tx = s.tx /\ CancelTimer(s).out = s.out
         /\ CancelTimer(s).ccPin = s.ccPin /\ CancelTimer(s).txMessage = s.txMessage
         /\ CancelTimer(s).txRetryCount = s.txRetryCount
         /\ CancelTimer(s).lastHeard = s.lastHeard /\ CancelTimer(s).mistaken = s.mistaken
         /\ CancelTimer(s).lastRxMessageId = s.lastRxMessageId
         /\ CancelTimer(s).lastMessage = s.lastMessage
         /\ CancelTimer(s).delivered = s.delivered
         /\ CancelTimer(s).txMessageId = s.txMessageId
<1> DEFINE n == IF s.timers > 0 THEN s.timers - 1 ELSE 0
<1>1. n = 0
  BY DEF Link
<1>2. CancelTimer(s) = [s EXCEPT !.timers = n]
  BY DEF CancelTimer, Link
<1> HIDE DEF n
<1>3. CancelTimer(s) = [s EXCEPT !.timers = 0]
  BY <1>1, <1>2
<1>4. [s EXCEPT !.timers = 0] \in Link
  BY DEF Link
<1>5. QED
  BY <1>3, <1>4 DEF Link

(* The end of the transmission, if there was one. *)
Interrupted(s) == IF IsTransmitting(s) THEN None ELSE s.lastMessage

(* onMessageReceived answers a message, after it has ended what was sent.  *)
LEMMA ReceivedFields ==
  ASSUME NEW s \in Link, GoodSlot(s), s.timers <= 1, s.timers > 0 => IsTransmitting(s),
         NEW packet \in Packet, NEW stale \in StaleSlots
  PROVE  LET t == OnMessageReceived(s, packet, stale)
         IN  /\ t \in Link /\ GoodSlot(t) /\ t.timers = 0
             /\ t.ccPin = s.ccPin /\ t.delivered = s.delivered
             /\ t.txMessageId = IF IsTransmitting(s) THEN NextId(s) ELSE s.txMessageId
             /\ t.txMessage.seq \in {None, s.txMessage.seq}
             /\ packet.kind # "msg" =>
                  /\ ~IsTransmitting(t) /\ t.tx = s.tx /\ t.out = s.out
                  /\ t.lastHeard = s.lastHeard /\ t.mistaken = s.mistaken
                  /\ t.lastRxMessageId = s.lastRxMessageId /\ t.lastMessage = Interrupted(s)
             /\ packet.kind = "msg" =>
                  /\ Started(t) /\ t.txMessage.kind = "goodCrc" /\ t.txMessage.id = packet.id
                  /\ t.lastRxMessageId = packet.id
                  /\ t.lastMessage = IF packet.id # s.lastRxMessageId THEN packet.seq
                                     ELSE Interrupted(s)
                  /\ t.lastHeard = packet.seq
                  /\ t.mistaken = IF packet.id = s.lastRxMessageId /\ Deceived(s, packet)
                                  THEN s.mistaken \union {packet.seq} ELSE s.mistaken
<1> DEFINE c == CancelTimer(s)
           p == PrepareNextTxMessage(c, stale)
           b == IF IsTransmitting(s) THEN EndTransmission(s, stale) ELSE s
           r == Remember(b, packet)
           t == OnMessageReceived(s, packet, stale)
<1>1. /\ b \in Link /\ GoodSlot(b) /\ ~IsTransmitting(b) /\ b.timers = 0
      /\ b.ccPin = s.ccPin /\ b.delivered = s.delivered /\ b.tx = s.tx /\ b.out = s.out
      /\ b.txMessageId = IF IsTransmitting(s) THEN NextId(s) ELSE s.txMessageId
      /\ b.txMessage.seq \in {None, s.txMessage.seq}
      /\ b.lastHeard = s.lastHeard /\ b.mistaken = s.mistaken
      /\ b.lastRxMessageId = s.lastRxMessageId /\ b.lastMessage = Interrupted(s)
  <2>1. CASE ~IsTransmitting(s)
    <3>1. s.timers = 0
      BY <2>1 DEF Link
    <3>2. QED
      BY <2>1, <3>1 DEF Interrupted
  <2>2. CASE IsTransmitting(s)
    <3>1. /\ c \in Link /\ c.timers = 0 /\ c.tx = s.tx /\ c.out = s.out /\ c.ccPin = s.ccPin
          /\ c.lastHeard = s.lastHeard /\ c.mistaken = s.mistaken
          /\ c.txMessage = s.txMessage /\ c.lastRxMessageId = s.lastRxMessageId
          /\ c.delivered = s.delivered /\ c.txMessageId = s.txMessageId
      BY CancelFields
    <3>2. Ended(c, p)
      BY <3>1, PrepareFields
    <3>3. NextId(c) = NextId(s)
      BY <3>1 DEF NextId
    <3>4. b = [p EXCEPT !.lastMessage = None]
      BY <2>2 DEF EndTransmission
    <3> HIDE DEF p, b, c
    <3>5. /\ p \in Link /\ GoodSlot(p) /\ ~IsTransmitting(p) /\ p.timers = 0
          /\ p.ccPin = s.ccPin /\ p.delivered = s.delivered /\ p.tx = s.tx /\ p.out = s.out
          /\ p.txMessageId = NextId(s) /\ p.txMessage.seq = None
          /\ p.lastHeard = s.lastHeard /\ p.mistaken = s.mistaken
          /\ p.lastRxMessageId = s.lastRxMessageId
      BY <3>1, <3>2, <3>3 DEF Ended, Keeps
    <3>6. /\ b \in Link /\ b.txMessage = p.txMessage /\ b.txRetryCount = p.txRetryCount
          /\ b.timers = p.timers /\ b.ccPin = p.ccPin /\ b.delivered = p.delivered
          /\ b.tx = p.tx /\ b.out = p.out /\ b.txMessageId = p.txMessageId
          /\ b.lastHeard = p.lastHeard /\ b.mistaken = p.mistaken
          /\ b.lastRxMessageId = p.lastRxMessageId /\ b.lastMessage = None
      BY <3>4, <3>5 DEF Link, None
    <3>7. QED
      BY <2>2, <3>5, <3>6 DEF GoodSlot, IsTransmitting, Interrupted
  <2>3. QED
    BY <2>1, <2>2
<1> HIDE DEF b
<1>2. CASE packet.kind # "msg"
  <2>1. t = b
    BY <1>2 DEF OnMessageReceived, b
  <2> HIDE DEF t
  <2>2. QED
    BY <1>1, <1>2, <2>1 DEF t
<1>3. CASE packet.kind = "msg"
  <2>1. /\ r \in Link /\ GoodSlot(r) /\ ~IsTransmitting(r) /\ r.timers = 0
        /\ r.ccPin = s.ccPin /\ r.delivered = s.delivered
        /\ r.txMessageId = b.txMessageId /\ r.lastRxMessageId = packet.id
        /\ r.lastMessage = IF packet.id # s.lastRxMessageId THEN packet.seq ELSE Interrupted(s)
        /\ r.lastHeard = packet.seq
        /\ r.mistaken = IF packet.id = s.lastRxMessageId /\ Deceived(s, packet)
                        THEN s.mistaken \union {packet.seq} ELSE s.mistaken
    <3>1. Remembers(b, r, packet)
      BY <1>1, RememberFields
    <3>2. Deceived(b, packet) <=> Deceived(s, packet)
      BY <1>1 DEF Deceived
    <3> HIDE DEF r
    <3>3. QED
      BY <1>1, <3>1, <3>2 DEF Remembers, GoodSlot, IsTransmitting
  <2>2. Sendable(Signal("goodCrc"))
    BY LinkAssumption DEF Sendable, Signal, Packet, NoId, None
  <2>3. Signal("goodCrc").kind = "goodCrc" /\ Signal("goodCrc").seq = None
    BY DEF Signal
  <2>4. t = Send(r, Signal("goodCrc"))
    BY <1>3 DEF OnMessageReceived, b
  <2> HIDE DEF r, t
  <2>5. Sent(r, t, Signal("goodCrc"))
    BY <2>1, <2>2, <2>4, SendFields
  <2>6. /\ t \in Link /\ GoodSlot(t) /\ t.timers = 0 /\ t.ccPin = s.ccPin
        /\ t.delivered = s.delivered /\ t.txMessageId = b.txMessageId
        /\ t.txMessage.seq = None
        /\ Started(t) /\ t.txMessage.kind = "goodCrc" /\ t.txMessage.id = packet.id
        /\ t.lastRxMessageId = packet.id /\ t.lastMessage = r.lastMessage
        /\ t.lastHeard = r.lastHeard /\ t.mistaken = r.mistaken
    BY <2>1, <2>3, <2>5 DEF Sent, Keeps
  <2>7. QED
    BY <1>1, <1>3, <2>1, <2>6 DEF t
<1>4. QED
  BY <1>2, <1>3

(* What the event handler sends in reaction to an event, or nothing.       *)
Replied(s, t, reply) ==
  \/ reply = NoPacket /\ t = s
  \/ reply # NoPacket /\ Sent(s, t, reply)

(* A handler answers with a message of its own, or with none. *)
LEMMA ReplyFields ==
  ASSUME NEW s \in Link, ~IsTransmitting(s), NEW reply, reply = NoPacket \/ Sendable(reply)
  PROVE  Replied(s, Reply(s, reply), reply)
BY SendFields DEF Reply, Replied

(* onReset forgets the message IDs. *)
LEMMA ResetFields ==
  ASSUME NEW s \in Link, GoodSlot(s), s.timers <= 1,
         NEW reply, reply = NoPacket \/ (Sendable(reply) /\ reply.kind = "msg")
  PROVE  LET t == Reset(s, reply)
         IN  /\ t \in Link /\ GoodSlot(t) /\ t.timers = 0
             /\ t.ccPin = s.ccPin /\ t.delivered = s.delivered
             /\ t.lastRxMessageId = NoId /\ t.lastMessage = None /\ t.txMessageId = 0
             /\ t.lastHeard = None /\ t.mistaken = s.mistaken
             /\ reply = NoPacket =>
                  ~IsTransmitting(t) /\ t.tx = s.tx /\ t.out = s.out /\ t.txMessage = s.txMessage
             /\ reply # NoPacket =>
                  /\ Started(t) /\ t.txMessage.kind = "msg" /\ t.txMessage.seq = reply.seq
                  /\ t.txMessage.id = 0
<1> DEFINE r == [s EXCEPT !.lastRxMessageId = NoId, !.txMessageId = 0,
                          !.txRetryCount = 0, !.lastMessage = None, !.lastHeard = None]
           c == CancelTimer(r)
           t == Reset(s, reply)
<1>1. r \in Link
  <2>1. /\ 0 \in 0 .. IdMod - 1 /\ NoId \in NoId .. IdMod - 1
        /\ 0 \in Int /\ None \in Nat /\ None \in Int
    BY LinkAssumption DEF NoId, None
  <2>2. QED
    BY <2>1, Zenon DEF Link
<1>2. /\ r.tx = s.tx /\ r.out = s.out /\ r.ccPin = s.ccPin /\ r.delivered = s.delivered
      /\ r.txMessage = s.txMessage /\ r.txRetryCount = 0 /\ r.timers = s.timers
      /\ r.lastRxMessageId = NoId /\ r.lastMessage = None /\ r.txMessageId = 0
      /\ r.lastHeard = None /\ r.mistaken = s.mistaken
  BY DEF Link
<1>3. t = Reply(c, reply)
  BY DEF Reset
<1> HIDE DEF r, t
<1>4. /\ c \in Link /\ GoodSlot(c) /\ ~IsTransmitting(c) /\ c.timers = 0
      /\ c.tx = s.tx /\ c.out = s.out /\ c.ccPin = s.ccPin /\ c.delivered = s.delivered
      /\ c.txMessage = s.txMessage
      /\ c.lastRxMessageId = NoId /\ c.lastMessage = None /\ c.txMessageId = 0
      /\ c.lastHeard = None /\ c.mistaken = s.mistaken
  BY <1>1, <1>2, CancelFields DEF GoodSlot, IsTransmitting
<1> HIDE DEF c
<1>5. Replied(c, t, reply)
  BY <1>3, <1>4, ReplyFields
<1>6. QED
  BY <1>4, <1>5 DEF Replied, Sent, Keeps, t

(* onMessageTransmitted: given up, waiting for the GoodCRC, or delivered. *)
LEMMA FailedFields ==
  ASSUME NEW s \in Link, NEW stale \in StaleSlots, NEW reply
  PROVE  Ended(s, OnMessageTransmitted(s, FALSE, stale, reply))
BY PrepareFields DEF OnMessageTransmitted, GiveUp

Transmitted(s, stale, reply) == OnMessageTransmitted(s, TRUE, stale, reply)

(* A message of ours is out: now a GoodCRC is waited for, with one more    *)
(* timer.                                                                  *)
LEMMA WaitsFields ==
  ASSUME NEW s \in Link, GoodSlot(s), s.txMessage.kind = "msg",
         NEW stale \in StaleSlots, NEW reply
  PROVE  LET t == Transmitted(s, stale, reply)
         IN  /\ t \in Link /\ GoodSlot(t) /\ t.timers = s.timers + 1
             /\ t.ccPin = s.ccPin /\ t.delivered = s.delivered /\ t.tx = s.tx /\ t.out = s.out
             /\ t.txMessage = s.txMessage /\ t.txMessageId = s.txMessageId
             /\ t.txRetryCount = s.txRetryCount
             /\ t.lastHeard = s.lastHeard /\ t.mistaken = s.mistaken
             /\ t.lastRxMessageId = s.lastRxMessageId /\ t.lastMessage = s.lastMessage
<1> DEFINE t == Transmitted(s, stale, reply)
           n == s.timers + 1
<1>1. n \in Nat
  BY DEF Link
<1>2. t = [s EXCEPT !.timers = n]
  BY DEF Transmitted, OnMessageTransmitted, Link
<1> HIDE DEF n, t
<1>3. t \in Link
  BY <1>1, <1>2, Zenon DEF Link
<1>4. /\ t.timers = n
      /\ t.ccPin = s.ccPin /\ t.delivered = s.delivered /\ t.tx = s.tx /\ t.out = s.out
      /\ t.txMessage = s.txMessage /\ t.txMessageId = s.txMessageId
      /\ t.txRetryCount = s.txRetryCount
      /\ t.lastHeard = s.lastHeard /\ t.mistaken = s.mistaken
      /\ t.lastRxMessageId = s.lastRxMessageId /\ t.lastMessage = s.lastMessage
  BY <1>2 DEF Link
<1>5. QED
  BY <1>3, <1>4 DEF GoodSlot, n, t

(* A GoodCRC of ours is out: the message that it confirms is delivered,    *)
(* once.                                                                   *)
LEMMA DeliversFields ==
  ASSUME NEW s \in Link, GoodSlot(s), s.txMessage.kind = "goodCrc",
         NEW stale \in StaleSlots,
         NEW reply, reply = NoPacket \/ (Sendable(reply) /\ reply.kind = "msg")
  PROVE  LET t == Transmitted(s, stale, reply)
         IN  /\ t \in Link /\ GoodSlot(t) /\ t.timers = s.timers /\ t.ccPin = s.ccPin
             /\ t.lastHeard = s.lastHeard /\ t.mistaken = s.mistaken
             /\ t.lastRxMessageId = s.lastRxMessageId /\ t.txMessageId = s.txMessageId
             /\ t.lastMessage = None
             /\ t.delivered = IF s.lastMessage = None THEN s.delivered
                              ELSE Append(s.delivered, s.lastMessage)
             /\ \/ ~IsTransmitting(t) /\ t.tx = s.tx /\ t.out = s.out /\ t.txMessage.seq = None
                \/ /\ reply # NoPacket
                   /\ Started(t) /\ t.txMessage.kind = "msg" /\ t.txMessage.seq = reply.seq
                   /\ t.txMessage.id = s.txMessageId
<1> DEFINE t == Transmitted(s, stale, reply)
           u == PrepareNextTxMessage(s, stale)
           v == [u EXCEPT !.delivered = Append(@, u.lastMessage)]
           w == Reply(v, reply)
<1>1. Ended(s, u) /\ u.txMessageId = s.txMessageId
  BY PrepareFields DEF Ended, NextId
<1>2. u \in Link
  BY <1>1 DEF Ended, Keeps
<1>3. CASE u.lastMessage = None
  <2>1. t = u
    BY <1>3 DEF Transmitted, OnMessageTransmitted
  <2> HIDE DEF t, u
  <2>2. QED
    BY <1>1, <1>3, <2>1 DEF Ended, Keeps, t
<1>4. CASE u.lastMessage # None
  <2>1. t = [w EXCEPT !.lastMessage = None]
    BY <1>4 DEF Transmitted, OnMessageTransmitted
  <2> HIDE DEF t, u
  <2>2. Append(u.delivered, u.lastMessage) \in Seq(Nat)
    BY <1>2 DEF Link
  <2>3. v \in Link
    BY <1>2, <2>2, Zenon DEF Link
  <2>4. /\ v.delivered = Append(u.delivered, u.lastMessage)
        /\ v.tx = u.tx /\ v.out = u.out /\ v.ccPin = u.ccPin /\ v.timers = u.timers
        /\ v.txMessage = u.txMessage /\ v.txRetryCount = u.txRetryCount
        /\ v.lastHeard = u.lastHeard /\ v.mistaken = u.mistaken
        /\ v.txMessageId = u.txMessageId /\ v.lastRxMessageId = u.lastRxMessageId
        /\ v.lastMessage = u.lastMessage
    BY <1>2 DEF Link
  <2> HIDE DEF v
  <2>5. GoodSlot(v) /\ ~IsTransmitting(v)
    BY <1>1, <2>4 DEF Ended, Keeps, GoodSlot, IsTransmitting
  <2>6. Replied(v, w, reply)
    BY <2>3, <2>5, ReplyFields
  <2> HIDE DEF w
  <2>7. w \in Link /\ GoodSlot(w)
    BY <2>3, <2>5, <2>6 DEF Replied, Sent, Keeps
  <2>8. t \in Link
    BY <2>1, <2>7, Zenon DEF Link, None
  <2>9. /\ t.lastMessage = None /\ t.delivered = w.delivered
        /\ t.tx = w.tx /\ t.out = w.out /\ t.ccPin = w.ccPin /\ t.timers = w.timers
        /\ t.txMessage = w.txMessage /\ t.txRetryCount = w.txRetryCount
        /\ t.lastHeard = w.lastHeard /\ t.mistaken = w.mistaken
        /\ t.txMessageId = w.txMessageId /\ t.lastRxMessageId = w.lastRxMessageId
    BY <2>1, <2>7 DEF Link
  <2>10. /\ v.ccPin = s.ccPin /\ v.timers = s.timers /\ v.tx = s.tx /\ v.out = s.out
         /\ v.txMessage.seq = None /\ v.txMessageId = s.txMessageId
         /\ v.lastHeard = s.lastHeard /\ v.mistaken = s.mistaken
         /\ v.lastRxMessageId = s.lastRxMessageId /\ s.lastMessage # None
         /\ v.delivered = Append(s.delivered, s.lastMessage)
    BY <1>1, <1>4, <2>4 DEF Ended, Keeps
  <2>11. CASE reply = NoPacket
    <3>1. w = v
      BY <2>6, <2>11 DEF Replied
    <3>2. QED
      BY <2>5, <2>7, <2>8, <2>9, <2>10, <3>1 DEF GoodSlot, IsTransmitting, t
  <2>12. CASE reply # NoPacket
    <3>1. Sent(v, w, reply)
      BY <2>6, <2>12 DEF Replied
    <3>2. /\ w.delivered = v.delivered /\ w.ccPin = v.ccPin /\ w.timers = v.timers
          /\ w.lastHeard = v.lastHeard /\ w.mistaken = v.mistaken
          /\ w.txMessageId = v.txMessageId /\ w.lastRxMessageId = v.lastRxMessageId
          /\ Started(w) /\ w.txMessage.kind = "msg" /\ w.txMessage.seq = reply.seq
          /\ w.txMessage.id = v.txMessageId
      BY <2>12, <3>1 DEF Sent, Keeps, NoPacket
    <3>3. GoodSlot(t) /\ Started(t)
      BY <2>7, <2>9, <3>2 DEF GoodSlot, Started, IsTransmitting
    <3>4. QED
      BY <2>8, <2>9, <2>10, <2>12, <3>2, <3>3 DEF t
  <2>13. QED
    BY <2>11, <2>12
<1>5. QED
  BY <1>3, <1>4

(* onNoGoodCrcReceived sends the message again or gives it up.            *)
LEMMA NoGoodCrcFields ==
  ASSUME NEW s \in Link, GoodSlot(s), s.timers = 0, s.txMessage.kind = "msg",
         NEW stale \in StaleSlots
  PROVE  LET t == OnNoGoodCrcReceived(s, stale)
         IN  Ended(s, t) \/ Sent(s, t, s.txMessage)
<1> DEFINE c == CancelTimer(s)
           u == [c EXCEPT !.txRetryCount = @ - 1]
           t == OnNoGoodCrcReceived(s, stale)
<1>1. /\ c \in Link /\ c.timers = 0 /\ c.tx = s.tx /\ c.out = s.out
      /\ c.ccPin = s.ccPin /\ c.txMessage = s.txMessage /\ c.txRetryCount = s.txRetryCount
      /\ c.lastHeard = s.lastHeard /\ c.mistaken = s.mistaken
      /\ c.lastRxMessageId = s.lastRxMessageId /\ c.lastMessage = s.lastMessage
      /\ c.delivered = s.delivered /\ c.txMessageId = s.txMessageId
  BY CancelFields
<1>2. t = IF u.txRetryCount > 0 /\ u.txMessage.kind # "goodCrc"
          THEN SendMessage(u) ELSE GiveUp(u, stale)
  BY DEF OnNoGoodCrcReceived
<1> HIDE DEF c, t
<1>3. u \in Link
  <2>1. c.txRetryCount - 1 \in Int
    BY <1>1 DEF Link
  <2>2. QED
    BY <1>1, <2>1, Zenon DEF Link
<1>4. /\ u.timers = 0 /\ u.tx = s.tx /\ u.out = s.out
      /\ u.ccPin = s.ccPin /\ u.txMessage = s.txMessage
      /\ u.lastHeard = s.lastHeard /\ u.mistaken = s.mistaken
      /\ u.lastRxMessageId = s.lastRxMessageId /\ u.lastMessage = s.lastMessage
      /\ u.delivered = s.delivered /\ u.txMessageId = s.txMessageId
  BY <1>1 DEF Link
<1> HIDE DEF u
<1>5. CASE u.txRetryCount > 0
  <2>1. GoodSlot(u) /\ IsTransmitting(u)
    BY <1>4, <1>5 DEF GoodSlot, IsTransmitting
  <2>2. Sent(u, SendMessage(u), u.txMessage)
    BY <1>3, <2>1, SendMessageFields
  <2>3. t = SendMessage(u)
    BY <1>2, <1>4, <1>5
  <2>4. Sent(s, t, s.txMessage)
    BY <1>4, <2>2, <2>3 DEF Sent, Keeps
  <2>5. QED
    BY <2>4 DEF t
<1>6. CASE ~(u.txRetryCount > 0)
  <2>1. t = PrepareNextTxMessage(u, stale)
    BY <1>2, <1>6 DEF GiveUp
  <2>2. Ended(u, t)
    BY <1>3, <2>1, PrepareFields
  <2>3. NextId(u) = NextId(s)
    BY <1>4 DEF NextId
  <2>4. Ended(s, t)
    BY <1>4, <2>2, <2>3 DEF Ended, Keeps
  <2>5. QED
    BY <2>4 DEF t
<1>7. QED
  BY <1>5, <1>6

----------------------------------------------------------------------------
(***************************************************************************)
(* The invariant of a link layer whose interrupts are prompt and whose     *)
(* main loop does not send.  A detach may come at any time.                *)
(***************************************************************************)

TxFlags == {"txSent", "txDisc"}
ResetFlags == {"hrstSent", "hrstDisc"}

(* Besides the cable's, one flag at a time is set; those of a transmission *)
(* that a detach has overtaken wait, masked, for the next attach.          *)
Served ==
  /\ status \subseteq flags
  /\ "typeC" \notin flags => (link.ccPin <=> plugged)
  /\ link.ccPin /\ "typeC" \in flags => flags = {"typeC"}
  /\ ~link.ccPin => flags \subseteq {"typeC", "txSent", "hrstSent"}
  /\ wire.from = "partner" => plugged /\ flags \subseteq {"txDisc", "hrstDisc"}
  /\ link.tx # "idle" => flags \subseteq {"typeC"}
  /\ \A f, g \in flags \ {"typeC"} : f = g

(* The transmitter sends the message that the controller is busy with, or  *)
(* a hard reset while it is idle; its flags and the timer follow.          *)
Outgoing ==
  /\ link.tx # "idle" => \/ link.out.kind = "hardReset" /\ ~IsTransmitting(link)
                         \/ link.out = link.txMessage /\ IsTransmitting(link)
  /\ TxFlags \intersect flags # {} => IsTransmitting(link) /\ link.timers = 0
  /\ ResetFlags \intersect flags # {} => ~IsTransmitting(link)
  /\ TimerMeansWaiting

Prompt == IInv /\ thread = "done" /\ Served /\ Outgoing

(* What a handler leaves behind: an idle controller, one that has          *)
(* requested a transmission, or one that waits for a GoodCRC.              *)
Settled(t) ==
  \/ ~IsTransmitting(t) /\ t.tx = "idle" /\ t.timers = 0
  \/ Started(t) /\ t.timers = 0
  \/ IsTransmitting(t) /\ t.tx = "idle" /\ t.timers = 1 /\ t.txMessage.kind = "msg"

(* The flags when a handler runs, and when nothing is pending. *)
LEMMA HandledLemma ==
  ASSUME Prompt, NEW f \in Flags \ {"typeC"}, Handles(f), Clears(f)
  PROVE  /\ f \in flags /\ flags' = flags \ {f} /\ flags' \subseteq {"typeC"}
         /\ flags \subseteq {"typeC", f}
         /\ status' \subseteq flags'
         /\ link.tx = "idle"
         /\ rx' = rx /\ wire' = wire /\ plugged' = plugged /\ partner' = partner
         /\ thread' = thread
<1>1. /\ f \in status /\ status' = status \ {f} /\ flags' = flags \ {f}
      /\ rx' = rx /\ wire' = wire /\ plugged' = plugged /\ partner' = partner
      /\ thread' = thread
  BY DEF Handles, Clears
<1>2. /\ status \subseteq flags /\ \A g, h \in flags \ {"typeC"} : g = h
      /\ link.tx # "idle" => flags \subseteq {"typeC"}
  BY DEF Prompt, Served
<1>3. f \in flags /\ f # "typeC"
  BY <1>1, <1>2
<1>4. flags \subseteq {"typeC", f}
  BY <1>2, <1>3
<1>5. QED
  BY <1>1, <1>2, <1>3, <1>4

(* When no enabled interrupt is pending no flag is set, but for a          *)
(* transmitter without a partner.                                          *)
LEMMA QuietLemma ==
  ASSUME ~LateIsr, Prompt, Enabled = {}
  PROVE  /\ "typeC" \notin flags
         /\ link.ccPin <=> plugged
         /\ plugged => flags = {} /\ status = {}
         /\ ~plugged => flags \subseteq {"txSent", "hrstSent"}
<1>1. link.ccPin \in BOOLEAN /\ plugged \in BOOLEAN
  BY DEF Prompt, IInv, TypeOK, Link
<1>2. "typeC" \notin flags
  <2>1. flags \intersect {"typeC"} = {} \/ flags = {}
    BY Zenon DEF Enabled
  <2>2. QED
    BY <2>1
<1>3. link.ccPin <=> plugged
  BY <1>2, Zenon DEF Prompt, Served
<1>4. status \subseteq flags /\ (~link.ccPin => flags \subseteq {"typeC", "txSent", "hrstSent"})
  BY Zenon DEF Prompt, Served
<1>5. ASSUME plugged PROVE flags = {}
  BY <1>3, <1>5, Zenon DEF Enabled
<1>6. ASSUME ~plugged PROVE flags \subseteq {"txSent", "hrstSent"}
  <2>1. flags \subseteq {"typeC", "txSent", "hrstSent"}
    BY <1>3, <1>4, <1>6, Zenon
  <2>2. QED
    BY <1>2, <2>1
<1>7. plugged => flags = {} /\ status = {}
  <2> SUFFICES ASSUME plugged PROVE flags = {} /\ status = {}
    BY Zenon
  <2>1. flags = {}
    BY <1>5
  <2>2. QED
    BY <1>4, <2>1
<1>8. QED
  BY <1>2, <1>3, <1>6, <1>7, Zenon

(* The software has settled.                                               *)
LEMMA SettledLemma ==
  ASSUME Prompt, NEW f \in Flags \ {"typeC"}, Handles(f), Clears(f),
         link'.ccPin = link.ccPin, Settled(link')
  PROVE  thread' = "done" /\ Served' /\ Outgoing'
<1>1. /\ f \in flags /\ flags' = flags \ {f} /\ flags' \subseteq {"typeC"}
      /\ flags \subseteq {"typeC", f} /\ status' \subseteq flags' /\ f # "typeC"
      /\ wire' = wire /\ plugged' = plugged /\ thread' = thread
  BY HandledLemma
<1>2. thread' = "done"
  BY <1>1 DEF Prompt
<1>3. "typeC" \notin flags' => "typeC" \notin flags
  BY <1>1
<1>4. Served'
  <2>1. "typeC" \notin flags' => (link'.ccPin <=> plugged')
    BY <1>1, <1>3, Zenon DEF Prompt, Served
  <2>2. link'.ccPin /\ "typeC" \in flags' => flags' = {"typeC"}
    BY <1>1
  <2>3. ~link'.ccPin => flags' \subseteq {"typeC", "txSent", "hrstSent"}
    BY <1>1
  <2>4. wire'.from = "partner" => plugged' /\ flags' \subseteq {"txDisc", "hrstDisc"}
    <3>1. wire.from = "partner" => plugged /\ flags \subseteq {"txDisc", "hrstDisc"}
      BY Zenon DEF Prompt, Served
    <3>2. flags' \subseteq flags
      BY <1>1
    <3>3. QED
      BY <1>1, <3>1, <3>2
  <2>5. \A g, h \in flags' \ {"typeC"} : g = h
    BY <1>1
  <2>6. QED
    BY <1>1, <2>1, <2>2, <2>3, <2>4, <2>5 DEF Served
<1>5. TxFlags \intersect flags' = {} /\ ResetFlags \intersect flags' = {}
  BY <1>1 DEF TxFlags, ResetFlags
<1>6. Outgoing'
  BY <1>5 DEF Outgoing, Settled, Started, TimerMeansWaiting, IsTransmitting
<1>7. QED
  BY <1>2, <1>4, <1>6

----------------------------------------------------------------------------
(* What each step of the software does to `link`, field by field. *)

(* A message of the client is on its way, if there was one left.           *)
SendsNext ==
  /\ budget.sends > 0 /\ budget' = [budget EXCEPT !.sends = @ - 1]
  /\ link'.txMessage.kind = "msg" /\ link'.txMessage.seq = NewMessage.seq
  /\ link'.txMessage.id = link'.txMessageId
  /\ Started(link')

(* What an event handler may answer, and how its messages are numbered. *)
LEMMA ChoiceLemma ==
  ASSUME TypeOK, NEW reply \in Replies
  PROVE  /\ reply = NoPacket \/ (Sendable(reply) /\ reply.kind = "msg")
         /\ reply # NoPacket => reply = NewMessage /\ budget.sends > 0
         /\ NewMessage.seq \in Nat /\ NewMessage.seq = MaxSends - budget.sends + 1
         /\ NewMessage.seq > None
         /\ reply = NoPacket /\ SpendReply(reply) => budget' = budget
         /\ reply # NoPacket /\ SpendReply(reply) =>
              IF link'.txMessage.seq = NewMessage.seq
              THEN budget' = [budget EXCEPT !.sends = @ - 1] ELSE budget' = budget
<1>1. budget.sends \in 0 .. MaxSends
  BY DEF TypeOK, Budget
<1>2. /\ NewMessage.seq \in Nat /\ NewMessage.seq = MaxSends - budget.sends + 1
      /\ NewMessage.seq > None
  BY <1>1, LinkAssumption DEF NewMessage, None
<1>3. reply = NoPacket \/ (reply = NewMessage /\ budget.sends > 0)
  BY DEF Replies
<1>4. Sendable(NewMessage) /\ NewMessage.kind = "msg"
  BY <1>1, LinkAssumption DEF NewMessage, Sendable, Packet, NoId
<1>5. NewMessage # NoPacket
  BY DEF NewMessage, NoPacket
<1>6. QED
  BY <1>2, <1>3, <1>4, <1>5 DEF SpendReply

(* A hard reset received: IDs start again, no timer and no kept message is *)
(* left.                                                                   *)
LEMMA ResetEffect ==
  ASSUME Prompt, HandleReset
  PROVE  /\ link' \in Link /\ link'.timers = 0 /\ link'.ccPin = link.ccPin
         /\ link'.delivered = link.delivered /\ link'.lastRxMessageId = NoId
         /\ link'.lastMessage = None /\ link'.txMessageId = 0
         /\ link'.lastHeard = None /\ link'.mistaken = link.mistaken
         /\ \/ /\ ~IsTransmitting(link') /\ link'.tx = link.tx /\ link'.out = link.out
               /\ link'.txMessage = link.txMessage /\ budget' = budget
            \/ SendsNext
<1>1. link \in Link /\ GoodSlot(link) /\ TypeOK /\ link.timers <= 1
  BY DEF Prompt, IInv, TypeOK, Outgoing, TimerMeansWaiting, Link
<1>2. PICK reply \in Replies : link' = Reset(link, reply) /\ SpendReply(reply)
  BY DEF HandleReset
<1>3. /\ reply = NoPacket \/ (Sendable(reply) /\ reply.kind = "msg")
      /\ reply # NoPacket => reply = NewMessage /\ budget.sends > 0
  BY <1>1, ChoiceLemma
<1>4. /\ link' \in Link /\ link'.timers = 0 /\ link'.ccPin = link.ccPin
      /\ link'.delivered = link.delivered /\ link'.lastRxMessageId = NoId
      /\ link'.lastMessage = None /\ link'.txMessageId = 0
      /\ link'.lastHeard = None /\ link'.mistaken = link.mistaken
      /\ reply = NoPacket =>
           /\ ~IsTransmitting(link') /\ link'.tx = link.tx /\ link'.out = link.out
           /\ link'.txMessage = link.txMessage
      /\ reply # NoPacket =>
           /\ Started(link') /\ link'.txMessage.kind = "msg" /\ link'.txMessage.seq = reply.seq
           /\ link'.txMessage.id = 0
  BY <1>1, <1>2, <1>3, ResetFields
<1>5. CASE reply = NoPacket
  <2>1. budget' = budget
    BY <1>1, <1>2, <1>5, ChoiceLemma
  <2>2. QED
    BY <1>4, <1>5, <2>1
<1>6. CASE reply # NoPacket
  <2>1. link'.txMessage.seq = NewMessage.seq
    BY <1>3, <1>4, <1>6
  <2>2. budget' = [budget EXCEPT !.sends = @ - 1]
    BY <1>1, <1>2, <1>6, <2>1, ChoiceLemma
  <2>3. SendsNext
    BY <1>3, <1>4, <1>6, <2>1, <2>2 DEF SendsNext
  <2>4. QED
    BY <1>4, <2>3
<1>7. QED
  BY <1>5, <1>6

(* A packet received: garbled, one that ends our transmission, a           *)
(* repetition or a new one.                                                *)
LEMMA ReceiveEffect ==
  ASSUME Prompt, HandleRx
  PROVE  \/ rx.kind = "garbled" /\ link' = link
         \/ /\ link' \in Link /\ link'.timers = 0 /\ link'.ccPin = link.ccPin
            /\ link'.delivered = link.delivered
            /\ link'.txMessageId = IF IsTransmitting(link) THEN NextId(link) ELSE link.txMessageId
            /\ link'.txMessage.seq \in {None, link.txMessage.seq}
            /\ \/ /\ rx.kind # "msg"
                  /\ ~IsTransmitting(link') /\ link'.tx = link.tx /\ link'.out = link.out
                  /\ link'.lastHeard = link.lastHeard /\ link'.mistaken = link.mistaken
                  /\ link'.lastRxMessageId = link.lastRxMessageId
                  /\ link'.lastMessage = Interrupted(link)
               \/ /\ rx.kind = "msg"
                  /\ Started(link') /\ link'.txMessage.kind = "goodCrc"
                  /\ link'.txMessage.id = rx.id /\ link'.lastRxMessageId = rx.id
                  /\ link'.lastMessage = IF rx.id # link.lastRxMessageId THEN rx.seq
                                         ELSE Interrupted(link)
                  /\ link'.lastHeard = rx.seq
                  /\ link'.mistaken = IF rx.id = link.lastRxMessageId /\ Deceived(link, rx)
                                      THEN link.mistaken \union {rx.seq} ELSE link.mistaken
<1>1. /\ link \in Link /\ GoodSlot(link) /\ rx \in Packet /\ link.timers <= 1
      /\ link.timers > 0 => IsTransmitting(link)
  BY DEF Prompt, IInv, TypeOK, Outgoing, TimerMeansWaiting, Link
<1>2. CASE rx.kind = "garbled"
  BY <1>2 DEF HandleRx
<1>3. CASE rx.kind # "garbled"
  <2>1. PICK stale \in StaleSlots : link' = OnMessageReceived(link, rx, stale)
    BY <1>3 DEF HandleRx
  <2>2. /\ link' \in Link /\ GoodSlot(link') /\ link'.timers = 0
        /\ link'.ccPin = link.ccPin /\ link'.delivered = link.delivered
        /\ link'.txMessageId = IF IsTransmitting(link) THEN NextId(link) ELSE link.txMessageId
        /\ link'.txMessage.seq \in {None, link.txMessage.seq}
        /\ rx.kind # "msg" =>
             /\ ~IsTransmitting(link') /\ link'.tx = link.tx /\ link'.out = link.out
             /\ link'.lastHeard = link.lastHeard /\ link'.mistaken = link.mistaken
             /\ link'.lastRxMessageId = link.lastRxMessageId
             /\ link'.lastMessage = Interrupted(link)
        /\ rx.kind = "msg" =>
             /\ Started(link') /\ link'.txMessage.kind = "goodCrc"
             /\ link'.txMessage.id = rx.id /\ link'.lastRxMessageId = rx.id
             /\ link'.lastMessage = IF rx.id # link.lastRxMessageId THEN rx.seq
                                    ELSE Interrupted(link)
             /\ link'.lastHeard = rx.seq
             /\ link'.mistaken = IF rx.id = link.lastRxMessageId /\ Deceived(link, rx)
                                 THEN link.mistaken \union {rx.seq} ELSE link.mistaken
    BY <1>1, <2>1, ReceivedFields
  <2>3. QED
    BY <2>2
<1>4. QED
  BY <1>2, <1>3

(* A packet sent: ours, which is to be confirmed, or a GoodCRC. *)
LEMMA SentEffect ==
  ASSUME Prompt, HandleSent
  PROVE  /\ link' \in Link /\ link'.ccPin = link.ccPin
         /\ link'.lastHeard = link.lastHeard /\ link'.mistaken = link.mistaken
         /\ link'.lastRxMessageId = link.lastRxMessageId
         /\ link'.txMessageId = link.txMessageId
         /\ \/ /\ link.txMessage.kind = "msg" /\ link'.txMessage = link.txMessage
               /\ link'.timers = 1 /\ link'.tx = link.tx /\ link'.out = link.out
               /\ link'.txRetryCount = link.txRetryCount
               /\ link'.delivered = link.delivered /\ link'.lastMessage = link.lastMessage
               /\ link.txMessage.seq # NewMessage.seq => budget' = budget
            \/ /\ link.txMessage.kind = "goodCrc" /\ link'.timers = 0
               /\ link'.lastMessage = None
               /\ link'.delivered = IF link.lastMessage = None THEN link.delivered
                                    ELSE Append(link.delivered, link.lastMessage)
               /\ \/ /\ ~IsTransmitting(link') /\ link'.tx = link.tx /\ link'.out = link.out
                     /\ link'.txMessage.seq = None /\ budget' = budget
                  \/ SendsNext
<1>1. link \in Link /\ GoodSlot(link) /\ TypeOK
  BY DEF Prompt, IInv, TypeOK
<1>2. link.timers = 0
  <2>1. "txSent" \in flags
    BY DEF HandleSent, Handles, Prompt, Served
  <2>2. QED
    BY <2>1 DEF Prompt, Outgoing, TxFlags
<1>3. PICK stale \in StaleSlots, reply \in Replies :
        link' = Transmitted(link, stale, reply) /\ SpendReply(reply)
  BY DEF HandleSent, Transmitted
<1>4. /\ reply = NoPacket \/ (Sendable(reply) /\ reply.kind = "msg")
      /\ reply # NoPacket => reply = NewMessage /\ budget.sends > 0
      /\ NewMessage.seq > None
  BY <1>1, ChoiceLemma
<1>5. CASE link.txMessage.kind = "msg"
  <2>1. /\ link' \in Link /\ link'.ccPin = link.ccPin
        /\ link'.lastHeard = link.lastHeard /\ link'.mistaken = link.mistaken
        /\ link'.lastRxMessageId = link.lastRxMessageId
        /\ link'.txMessageId = link.txMessageId
        /\ link'.txMessage = link.txMessage
        /\ link'.timers = 1 /\ link'.tx = link.tx /\ link'.out = link.out
        /\ link'.txRetryCount = link.txRetryCount
        /\ link'.delivered = link.delivered /\ link'.lastMessage = link.lastMessage
    BY <1>1, <1>2, <1>3, <1>5, WaitsFields
  <2>2. link.txMessage.seq # NewMessage.seq => budget' = budget
    BY <1>1, <1>3, <2>1, ChoiceLemma
  <2>3. QED
    BY <1>5, <2>1, <2>2
<1>6. CASE link.txMessage.kind = "goodCrc"
  <2>1. /\ link' \in Link /\ link'.ccPin = link.ccPin /\ link'.timers = 0
        /\ link'.lastHeard = link.lastHeard /\ link'.mistaken = link.mistaken
        /\ link'.lastRxMessageId = link.lastRxMessageId
        /\ link'.txMessageId = link.txMessageId
        /\ link'.lastMessage = None
        /\ link'.delivered = IF link.lastMessage = None THEN link.delivered
                             ELSE Append(link.delivered, link.lastMessage)
        /\ \/ /\ ~IsTransmitting(link') /\ link'.tx = link.tx /\ link'.out = link.out
              /\ link'.txMessage.seq = None
           \/ /\ reply # NoPacket
              /\ Started(link') /\ link'.txMessage.kind = "msg" /\ link'.txMessage.seq = reply.seq
              /\ link'.txMessage.id = link.txMessageId
    BY <1>1, <1>2, <1>3, <1>4, <1>6, DeliversFields
  <2>2. CASE ~IsTransmitting(link') /\ link'.tx = link.tx /\ link'.out = link.out
             /\ link'.txMessage.seq = None
    <3>1. link'.txMessage.seq # NewMessage.seq
      BY <1>4, <2>2 DEF None
    <3>2. budget' = budget
      BY <1>1, <1>3, <3>1, ChoiceLemma
    <3>3. QED
      BY <1>6, <2>1, <2>2, <3>2
  <2>3. CASE /\ reply # NoPacket
             /\ Started(link') /\ link'.txMessage.kind = "msg" /\ link'.txMessage.seq = reply.seq
             /\ link'.txMessage.id = link.txMessageId
    <3>1. link'.txMessage.seq = NewMessage.seq
      BY <1>4, <2>3
    <3>2. budget' = [budget EXCEPT !.sends = @ - 1]
      BY <1>1, <1>3, <2>3, <3>1, ChoiceLemma
    <3>3. SendsNext
      BY <1>4, <2>1, <2>3, <3>1, <3>2 DEF SendsNext
    <3>4. QED
      BY <1>6, <2>1, <3>3
  <2>4. QED
    BY <2>1, <2>2, <2>3
<1>7. QED
  BY <1>1, <1>5, <1>6 DEF GoodSlot

(* A transmission that was discarded is over, and no timer was running for *)
(* it.                                                                     *)
LEMMA DiscardEffect ==
  ASSUME Prompt, HandleDiscarded
  PROVE  Ended(link, link') /\ link.timers = 0
<1>1. link \in Link
  BY DEF Prompt, IInv, TypeOK
<1>2. PICK stale \in StaleSlots : link' = OnMessageTransmitted(link, FALSE, stale, NoPacket)
  BY DEF HandleDiscarded
<1>3. "txDisc" \in flags
  BY DEF HandleDiscarded, Handles, Prompt, Served
<1>4. link.timers = 0
  BY <1>3 DEF Prompt, Outgoing, TxFlags
<1>5. QED
  BY <1>1, <1>2, <1>4, FailedFields

(* The timer is only running while a message of ours waits for its GoodCRC. *)
LEMMA ExpireEffect ==
  ASSUME Prompt, TimerExpires
  PROVE  /\ IsTransmitting(link) /\ link.txMessage.kind = "msg" /\ link.tx = "idle"
         /\ link' \in Link /\ link'.timers = 0 /\ link'.ccPin = link.ccPin
         /\ link'.lastHeard = link.lastHeard /\ link'.mistaken = link.mistaken
         /\ link'.lastRxMessageId = link.lastRxMessageId /\ link'.lastMessage = link.lastMessage
         /\ link'.delivered = link.delivered
         /\ \/ /\ ~IsTransmitting(link') /\ link'.tx = link.tx /\ link'.out = link.out
               /\ link'.txMessageId = NextId(link) /\ link'.txMessage.seq = None
            \/ /\ Started(link') /\ link'.txMessage.kind = "msg"
               /\ link'.txMessageId = link.txMessageId
               /\ link'.txMessage.seq = link.txMessage.seq
               /\ link'.txMessage.id = link.txMessageId
<1> DEFINE c == CancelTimer(link)
<1>1. link \in Link /\ GoodSlot(link)
  BY DEF Prompt, IInv, TypeOK
<1>2. /\ link.timers = 1 /\ IsTransmitting(link) /\ link.txMessage.kind = "msg"
      /\ link.tx = "idle"
  BY DEF TimerExpires, Prompt, Outgoing, TimerMeansWaiting
<1>3. /\ c \in Link /\ c.timers = 0 /\ c.tx = link.tx /\ c.out = link.out
      /\ c.ccPin = link.ccPin /\ c.txMessage = link.txMessage
      /\ c.lastHeard = link.lastHeard /\ c.mistaken = link.mistaken
      /\ c.lastRxMessageId = link.lastRxMessageId /\ c.lastMessage = link.lastMessage
      /\ c.delivered = link.delivered /\ c.txMessageId = link.txMessageId
  BY <1>1, <1>2, CancelFields
<1>4. PICK stale \in StaleSlots : link' = OnNoGoodCrcReceived(c, stale)
  BY DEF TimerExpires
<1> HIDE DEF c
<1>5. GoodSlot(c) /\ NextId(c) = NextId(link)
  BY <1>1, <1>3 DEF GoodSlot, NextId
<1>6. Ended(c, link') \/ Sent(c, link', c.txMessage)
  BY <1>2, <1>3, <1>4, <1>5, NoGoodCrcFields
<1>7. QED
  BY <1>2, <1>3, <1>5, <1>6 DEF Ended, Sent, Keeps

(* A call of sendMessage is only made to an idle controller. *)
LEMMA ClientEffect ==
  ASSUME Prompt, ClientSends
  PROVE  /\ link' \in Link /\ link'.timers = link.timers /\ link'.ccPin = link.ccPin
         /\ link'.lastHeard = link.lastHeard /\ link'.mistaken = link.mistaken
         /\ link'.lastRxMessageId = link.lastRxMessageId /\ link'.lastMessage = link.lastMessage
         /\ link'.delivered = link.delivered /\ link'.txMessageId = link.txMessageId
         /\ ~IsTransmitting(link) /\ SendsNext
<1>1. link \in Link /\ TypeOK
  BY DEF Prompt, IInv, TypeOK
<1>2. ~IsTransmitting(link) /\ budget.sends > 0 /\ link' = Send(link, NewMessage)
      /\ budget' = [budget EXCEPT !.sends = @ - 1]
  BY DEF ClientSends, Spend
<1>3. NewMessage \in Replies
  BY <1>2 DEF Replies
<1>4. NewMessage # NoPacket /\ NewMessage.kind = "msg"
  BY DEF NewMessage, NoPacket
<1>5. Sendable(NewMessage)
  BY <1>1, <1>3, <1>4, ChoiceLemma
<1>6. Sent(link, link', NewMessage)
  BY <1>1, <1>2, <1>5, SendFields
<1>7. QED
  BY <1>2, <1>4, <1>6 DEF Sent, Keeps, SendsNext

(* So is a call of sendHardReset; the message slot stays as it was. *)
LEMMA HardResetEffect ==
  ASSUME Prompt, ClientSendsHardReset
  PROVE  /\ link' \in Link /\ link'.timers = link.timers /\ link'.ccPin = link.ccPin
         /\ link'.lastHeard = link.lastHeard /\ link'.mistaken = link.mistaken
         /\ link'.lastRxMessageId = link.lastRxMessageId /\ link'.lastMessage = link.lastMessage
         /\ link'.delivered = link.delivered /\ link'.txMessageId = link.txMessageId
         /\ link'.txMessage = link.txMessage /\ link'.txRetryCount = link.txRetryCount
         /\ ~IsTransmitting(link)
         /\ link'.tx = "requested" /\ link'.out.kind = "hardReset"
<1>1. link \in Link
  BY DEF Prompt, IInv, TypeOK
<1>2. link' = [link EXCEPT !.tx = "requested", !.out = Signal("hardReset")] /\ ~IsTransmitting(link)
  BY DEF ClientSendsHardReset, SendHardReset
<1>3. Signal("hardReset") \in Packet /\ Signal("hardReset").kind = "hardReset"
  BY LinkAssumption DEF Signal, Packet, NoId, None
<1>4. QED
  BY <1>1, <1>2, <1>3 DEF Link

----------------------------------------------------------------------------
(* The invariant of prompt interrupts is inductive. *)

LEMMA PromptSoftware ==
  ASSUME ~LateIsr, Prompt, Software
  PROVE  thread' = "done" /\ Served' /\ Outgoing'
<1>1. link \in Link /\ flags \subseteq Flags
  BY DEF Prompt, IInv, TypeOK
<1>2. CASE IsrEnter
  <2>1. /\ link' = link /\ flags' = flags /\ status' = flags /\ wire' = wire
        /\ plugged' = plugged /\ thread' = thread
    BY <1>2 DEF IsrEnter
  <2>2. Served'
    BY <2>1, Zenon DEF Prompt, Served
  <2>3. Outgoing'
    BY <2>1 DEF Prompt, Outgoing, TimerMeansWaiting, IsTransmitting
  <2>4. QED
    BY <2>1, <2>2, <2>3 DEF Prompt
<1>3. CASE HandleTypeC
  <2>1. PICK cut \in BOOLEAN :
          link' = [link EXCEPT !.ccPin = plugged, !.lastHeard = Foreign,
                               !.tx = IF link.ccPin /\ ~plugged /\ cut THEN "idle" ELSE @]
    BY <1>3 DEF HandleTypeC
  <2>2. /\ link'.ccPin = plugged /\ link'.tx \in {link.tx, "idle"}
        /\ link'.out = link.out /\ link'.timers = link.timers
        /\ link'.txMessage = link.txMessage /\ link'.txRetryCount = link.txRetryCount
    BY <1>1, <2>1 DEF Link
  <2>3. /\ "typeC" \in status /\ status' = status \ {"typeC"} /\ flags' = flags \ {"typeC"}
        /\ wire' = wire /\ plugged' = plugged /\ thread' = thread
    BY <1>3 DEF HandleTypeC, Handles, Clears
  <2>4. /\ "typeC" \in flags /\ status \subseteq flags
        /\ link.ccPin => flags = {"typeC"}
        /\ ~link.ccPin => flags \subseteq {"typeC", "txSent", "hrstSent"}
        /\ wire.from # "partner"
        /\ link.tx # "idle" => flags \subseteq {"typeC"}
        /\ \A f, g \in flags \ {"typeC"} : f = g
    BY <2>3 DEF Prompt, Served
  <2>5. flags' \subseteq {"txSent", "hrstSent"} /\ status' \subseteq flags'
    BY <2>3, <2>4
  <2>6. Served'
    <3>1. link'.ccPin <=> plugged'
      BY <2>2, <2>3, Zenon
    <3>2. "typeC" \notin flags' /\ \A f, g \in flags' \ {"typeC"} : f = g
      BY <2>3, <2>4
    <3>3. link'.tx # "idle" => flags' \subseteq {"typeC"}
      BY <2>2, <2>3, <2>4
    <3>4. wire'.from # "partner"
      BY <2>3, <2>4
    <3>5. QED
      BY <2>5, <3>1, <3>2, <3>3, <3>4 DEF Served
  <2>7. Outgoing'
    BY <2>2, <2>3 DEF Prompt, Outgoing, TimerMeansWaiting, IsTransmitting, TxFlags, ResetFlags
  <2>8. QED
    BY <2>3, <2>6, <2>7 DEF Prompt
<1>4. CASE HandleReset
  <2>1. PICK f \in {"rxHrst", "hrstSent"} : Handles(f) /\ Clears(f)
    BY <1>4 DEF HandleReset
  <2>2. f \in Flags \ {"typeC"}
    BY DEF Flags
  <2>3. link.tx = "idle"
    BY <2>1, <2>2, HandledLemma
  <2>4. link'.ccPin = link.ccPin /\ Settled(link')
    BY <1>4, <2>3, ResetEffect DEF Settled, SendsNext
  <2>5. QED
    BY <2>1, <2>2, <2>4, SettledLemma
<1>5. CASE HandleResetDiscarded
  <2>1. Handles("hrstDisc") /\ Clears("hrstDisc") /\ link' = link
    BY <1>5 DEF HandleResetDiscarded
  <2>2. "hrstDisc" \in Flags \ {"typeC"}
    BY DEF Flags
  <2>3. link.tx = "idle" /\ "hrstDisc" \in flags
    BY <2>1, <2>2, HandledLemma
  <2>4. ~IsTransmitting(link) /\ link.timers = 0
    BY <1>1, <2>3 DEF Prompt, Outgoing, ResetFlags, TimerMeansWaiting, Link
  <2>5. link'.ccPin = link.ccPin /\ Settled(link')
    BY <2>1, <2>3, <2>4 DEF Settled
  <2>6. QED
    BY <2>1, <2>2, <2>5, SettledLemma
<1>6. CASE HandleRx
  <2>1. Handles("rxMsgEnd") /\ Clears("rxMsgEnd")
    BY <1>6 DEF HandleRx
  <2>2. "rxMsgEnd" \in Flags \ {"typeC"}
    BY DEF Flags
  <2>3. link.tx = "idle" /\ flags \subseteq {"typeC", "rxMsgEnd"} /\ flags' \subseteq {"typeC"}
    BY <2>1, <2>2, HandledLemma
  <2>4. CASE link' = link
    <3>1. /\ flags' \subseteq {"typeC"} /\ status' \subseteq flags' /\ thread' = thread
          /\ wire' = wire /\ plugged' = plugged /\ flags' = flags \ {"rxMsgEnd"}
      BY <2>1, <2>2, HandledLemma
    <3>2. Served'
      <4>1. "typeC" \notin flags' => "typeC" \notin flags
        BY <3>1
      <4>2. "typeC" \notin flags' => (link'.ccPin <=> plugged')
        BY <2>4, <3>1, <4>1, Zenon DEF Prompt, Served
      <4>3. wire.from = "partner" => plugged /\ flags \subseteq {"txDisc", "hrstDisc"}
        BY Zenon DEF Prompt, Served
      <4>4. wire'.from = "partner" => plugged' /\ flags' \subseteq {"txDisc", "hrstDisc"}
        BY <3>1, <4>3
      <4>5. QED
        BY <3>1, <4>2, <4>4 DEF Served
    <3>3. Outgoing'
      BY <2>4, <3>1 DEF Prompt, Outgoing, TimerMeansWaiting, IsTransmitting, TxFlags, ResetFlags
    <3>4. QED
      BY <3>1, <3>2, <3>3 DEF Prompt
  <2>5. CASE link' # link
    <3>1. link'.ccPin = link.ccPin /\ Settled(link')
      BY <1>6, <2>3, <2>5, ReceiveEffect DEF Settled
    <3>2. QED
      BY <2>1, <2>2, <3>1, SettledLemma
  <2>6. QED
    BY <2>4, <2>5
<1>7. CASE HandleSent
  <2>1. Handles("txSent") /\ Clears("txSent")
    BY <1>7 DEF HandleSent
  <2>2. "txSent" \in Flags \ {"typeC"}
    BY DEF Flags
  <2>3. link.tx = "idle" /\ "txSent" \in flags
    BY <2>1, <2>2, HandledLemma
  <2>4. IsTransmitting(link)
    BY <2>3 DEF Prompt, Outgoing, TxFlags
  <2>5. link'.ccPin = link.ccPin /\ Settled(link')
    BY <1>7, <2>3, <2>4, SentEffect DEF Settled, SendsNext, IsTransmitting
  <2>6. QED
    BY <2>1, <2>2, <2>5, SettledLemma
<1>8. CASE HandleDiscarded
  <2>1. Handles("txDisc") /\ Clears("txDisc")
    BY <1>8 DEF HandleDiscarded
  <2>2. "txDisc" \in Flags \ {"typeC"}
    BY DEF Flags
  <2>3. link.tx = "idle"
    BY <2>1, <2>2, HandledLemma
  <2>4. link'.ccPin = link.ccPin /\ Settled(link')
    BY <1>8, <2>3, DiscardEffect DEF Settled, Ended, Keeps
  <2>5. QED
    BY <2>1, <2>2, <2>4, SettledLemma
<1>9. CASE TimerExpires
  <2>1. /\ flags' = flags /\ status' = status /\ wire' = wire /\ plugged' = plugged
        /\ thread' = thread /\ Enabled = {} /\ link.timers > 0
    BY <1>9 DEF TimerExpires, CpuFree
  <2>2. /\ IsTransmitting(link) /\ link'.timers = 0 /\ link'.ccPin = link.ccPin
        /\ link.tx = "idle"
        /\ (~IsTransmitting(link') /\ link'.tx = "idle") \/ Started(link')
    BY <1>9, ExpireEffect
  <2>3. flags = {}
    <3>1. flags = {} \/ flags \subseteq {"txSent", "hrstSent"}
      BY <2>1, QuietLemma
    <3>2. "txSent" \notin flags /\ "hrstSent" \notin flags
      BY <2>1, <2>2 DEF Prompt, Outgoing, TxFlags, ResetFlags
    <3>3. QED
      BY <3>1, <3>2
  <2>4. Served'
    <3>1. link'.ccPin <=> plugged'
      BY <2>1, <2>2, QuietLemma, Zenon
    <3>2. wire'.from = "partner" => plugged'
      BY <2>1 DEF Prompt, Served
    <3>3. status' \subseteq flags'
      BY <2>1 DEF Prompt, Served
    <3>4. QED
      BY <2>1, <2>3, <3>1, <3>2, <3>3 DEF Served
  <2>5. Outgoing'
    BY <2>1, <2>2, <2>3 DEF Outgoing, Started, TimerMeansWaiting, IsTransmitting, TxFlags, ResetFlags
  <2>6. QED
    BY <2>1, <2>4, <2>5 DEF Prompt
<1>10. QED
  BY <1>2, <1>3, <1>4, <1>5, <1>6, <1>7, <1>8, <1>9 DEF Software

(* What nobody else has touched keeps its form. *)
LEMMA UntouchedLemma ==
  ASSUME Prompt, link' = link, flags' = flags, status' = status, plugged' = plugged,
         thread' = thread,
         wire'.from = "partner" => wire.from = "partner" \/ (plugged /\ flags = {})
  PROVE  thread' = "done" /\ Served' /\ Outgoing'
<1>1. wire'.from = "partner" => plugged /\ flags \subseteq {"txDisc", "hrstDisc"}
  <2>1. wire.from = "partner" => plugged /\ flags \subseteq {"txDisc", "hrstDisc"}
    BY Zenon DEF Prompt, Served
  <2>2. QED
    BY <2>1
<1>2. Served'
  BY <1>1, Zenon DEF Prompt, Served
<1>3. Outgoing'
  BY DEF Prompt, Outgoing, TimerMeansWaiting, IsTransmitting
<1>4. QED
  BY <1>2, <1>3 DEF Prompt

(* A call leaves a transmission requested. *)
LEMMA PromptClient ==
  ASSUME ~LateIsr, Prompt, Client
  PROVE  thread' = "done" /\ Served' /\ Outgoing'
<1>1. ASSUME ClientSends \/ ClientSendsHardReset
      PROVE  thread' = "done" /\ Served' /\ Outgoing'
  <2>1. /\ flags' = flags /\ status' = status /\ wire' = wire /\ plugged' = plugged
        /\ thread' = thread /\ Enabled = {} /\ link.ccPin
    BY <1>1 DEF ClientSends, ClientSendsHardReset, CpuFree
  <2>2. flags = {} /\ plugged
    BY <2>1, QuietLemma, Zenon
  <2>3. link'.timers = link.timers /\ link'.ccPin = link.ccPin /\ ~IsTransmitting(link)
        /\ \/ Started(link')
           \/ /\ link'.txRetryCount = link.txRetryCount
              /\ link'.tx = "requested" /\ link'.out.kind = "hardReset"
    BY <1>1, ClientEffect, HardResetEffect DEF SendsNext
  <2>4. link.timers = 0
    BY <2>3 DEF Prompt, IInv, TypeOK, Link, Outgoing, TimerMeansWaiting
  <2>5. Served'
    <3>1. link'.ccPin <=> plugged'
      BY <2>1, <2>2, <2>3, Zenon
    <3>2. wire'.from = "partner" => plugged'
      BY <2>1, <2>2
    <3>3. status' \subseteq flags'
      BY <2>1 DEF Prompt, Served
    <3>4. QED
      BY <2>1, <2>2, <3>1, <3>2, <3>3 DEF Served
  <2>6. Outgoing'
    BY <2>1, <2>2, <2>3, <2>4 DEF Outgoing, Started, TimerMeansWaiting, IsTransmitting, TxFlags, ResetFlags
  <2>7. QED
    BY <2>1, <2>5, <2>6 DEF Prompt
<1>2. ~ThreadChecks /\ ~ThreadFills /\ ~ThreadTransmits
  BY DEF Prompt, ThreadChecks, ThreadFills, ThreadTransmits
<1>3. QED
  BY <1>1, <1>2 DEF Client

(* The hardware acts when no interrupt is pending, and sets one flag. *)
LEMMA PromptHardware ==
  ASSUME ~LateIsr, Prompt, Hardware
  PROVE  thread' = "done" /\ Served' /\ Outgoing'
<1>1. link \in Link /\ status' = status /\ thread' = thread /\ plugged' = plugged
  BY DEF Prompt, IInv, TypeOK, Hardware, HwStarts, HwDiscards, OurPacketEnds, PartnerPacketEnds,
         SoftwareUnchanged
<1>2. thread' = "done"
  BY <1>1 DEF Prompt
<1>3. CASE HwStarts
  <2>1. /\ link.tx = "requested" /\ link' = [link EXCEPT !.tx = "sending"]
        /\ wire'.from = "us" /\ flags' = flags
    BY <1>3 DEF HwStarts
  <2>2. /\ link'.tx = "sending" /\ link'.out = link.out /\ link'.ccPin = link.ccPin
        /\ link'.timers = link.timers
        /\ link'.txMessage = link.txMessage /\ link'.txRetryCount = link.txRetryCount
    BY <1>1, <2>1 DEF Link
  <2>3. Served'
    <3>1. link.tx # "idle" /\ wire'.from # "partner"
      BY <2>1
    <3>2. QED
      BY <1>1, <2>1, <2>2, <3>1, Zenon DEF Prompt, Served
  <2>4. Outgoing'
    <3>1. link.timers = 0
      BY <1>1, <2>1 DEF Prompt, Outgoing, TimerMeansWaiting, Link
    <3>2. QED
      BY <2>1, <2>2, <3>1 DEF Prompt, Outgoing, TimerMeansWaiting, IsTransmitting
  <2>5. QED
    BY <1>2, <2>3, <2>4
<1>4. CASE HwDiscards
  <2> DEFINE flag == IF link.out.kind = "hardReset" THEN "hrstDisc" ELSE "txDisc"
  <2>1. /\ link.tx = "requested" /\ link' = [link EXCEPT !.tx = "idle"]
        /\ wire.from = "partner" /\ wire' = wire /\ flags' = flags \union {flag}
    BY <1>4 DEF HwDiscards, Raise
  <2>2. /\ link'.tx = "idle" /\ link'.out = link.out /\ link'.ccPin = link.ccPin
        /\ link'.timers = link.timers
        /\ link'.txMessage = link.txMessage /\ link'.txRetryCount = link.txRetryCount
    BY <1>1, <2>1 DEF Link
  <2>3. /\ plugged /\ flags \subseteq {"txDisc", "hrstDisc"} /\ flags \subseteq {"typeC"}
        /\ status \subseteq flags
        /\ "typeC" \notin flags => (link.ccPin <=> plugged)
    BY <2>1 DEF Prompt, Served
  <2>4. flags = {} /\ flags' = {flag} /\ flag \in {"hrstDisc", "txDisc"} /\ status' = {}
    BY <1>1, <2>1, <2>3
  <2>5. link'.ccPin /\ plugged'
    BY <1>1, <2>2, <2>3, <2>4, Zenon
  <2>6. Served'
    BY <2>2, <2>4, <2>5 DEF Served
  <2>7. link.timers = 0
    BY <1>1, <2>1 DEF Prompt, Outgoing, TimerMeansWaiting, Link
  <2>8. Outgoing'
    <3>1. CASE link.out.kind = "hardReset"
      <4>1. ~IsTransmitting(link) /\ flags' = {"hrstDisc"}
        BY <2>1, <2>4, <3>1 DEF Prompt, IInv, ResetIsIdle
      <4>2. QED
        BY <2>2, <2>7, <4>1 DEF Outgoing, TimerMeansWaiting, IsTransmitting, TxFlags
    <3>2. CASE link.out.kind # "hardReset"
      <4>1. IsTransmitting(link) /\ flags' = {"txDisc"}
        BY <2>1, <2>4, <3>2 DEF Prompt, Outgoing
      <4>2. QED
        BY <2>2, <2>7, <4>1 DEF Outgoing, TimerMeansWaiting, IsTransmitting, ResetFlags
    <3>3. QED
      BY <3>1, <3>2
  <2>9. QED
    BY <1>2, <2>6, <2>8
<1>5. CASE OurPacketEnds
  <2>1. Enabled = {} /\ wire.from = "us" /\ wire' = EmptyLine /\ wire'.from = "nobody"
    BY <1>5 DEF OurPacketEnds, HardwareMayAct, EmptyLine
  <2>2. CASE link.tx # "sending"
    <3>1. flags' = flags /\ link' = link
      BY <1>5, <2>2 DEF OurPacketEnds
    <3>2. QED
      BY <1>1, <2>1, <3>1, UntouchedLemma
  <2>3. CASE link.tx = "sending"
    <3> DEFINE flag == IF wire.packet.kind = "hardReset" THEN "hrstSent" ELSE "txSent"
    <3>1. link' = [link EXCEPT !.tx = "idle"] /\ flags' = flags \union {flag}
          /\ wire.packet = link.out
      BY <1>5, <2>3 DEF OurPacketEnds, Raise, Prompt, IInv, SendingIsOnWire
    <3>2. /\ link'.tx = "idle" /\ link'.out = link.out /\ link'.ccPin = link.ccPin
          /\ link'.timers = link.timers
          /\ link'.txMessage = link.txMessage /\ link'.txRetryCount = link.txRetryCount
      BY <1>1, <3>1 DEF Link
    <3>3. "typeC" \notin flags /\ (link.ccPin <=> plugged)
      BY <2>1, QuietLemma, Zenon
    <3>4. flags = {} /\ status \subseteq flags
      BY <2>3, <3>3 DEF Prompt, Served
    <3>5. flags' = {flag} /\ flag \in {"hrstSent", "txSent"} /\ status' = {}
      BY <1>1, <3>1, <3>4
    <3>6. link'.ccPin <=> plugged'
      BY <1>1, <3>2, <3>3, Zenon
    <3>7. Served'
      BY <2>1, <3>2, <3>5, <3>6 DEF Served
    <3>8. link.timers = 0
      BY <1>1, <2>3 DEF Prompt, Outgoing, TimerMeansWaiting, Link
    <3>9. Outgoing'
      <4>1. CASE link.out.kind = "hardReset"
        <5>1. ~IsTransmitting(link) /\ flags' = {"hrstSent"}
          BY <2>3, <3>1, <3>5, <4>1 DEF Prompt, IInv, ResetIsIdle
        <5>2. QED
          BY <3>2, <3>8, <5>1 DEF Outgoing, TimerMeansWaiting, IsTransmitting, TxFlags
      <4>2. CASE link.out.kind # "hardReset"
        <5>1. IsTransmitting(link) /\ flags' = {"txSent"}
          BY <2>3, <3>1, <3>5, <4>2 DEF Prompt, Outgoing
        <5>2. QED
          BY <3>2, <3>8, <5>1 DEF Outgoing, TimerMeansWaiting, IsTransmitting, ResetFlags
      <4>3. QED
        BY <4>1, <4>2
    <3>10. QED
      BY <1>2, <3>7, <3>9
  <2>4. QED
    BY <2>2, <2>3
<1>6. CASE PartnerPacketEnds
  <2>1. /\ Enabled = {} /\ wire.from = "partner" /\ wire' = EmptyLine /\ wire'.from = "nobody"
        /\ link.tx # "requested" /\ link' = link
        /\ flags' = flags \/ flags' = flags \union {"rxHrst"} \/ flags' = flags \union {"rxMsgEnd"}
    BY <1>6 DEF PartnerPacketEnds, HardwareMayAct, EmptyLine, Raise
  <2>2. plugged /\ link.tx = "idle"
    BY <1>1, <2>1 DEF Prompt, IInv, SendingIsOnWire, Served, Link
  <2>3. flags = {} /\ status = {} /\ link.ccPin
    BY <2>1, <2>2, QuietLemma, Zenon
  <2>4. Served'
    BY <1>1, <2>1, <2>2, <2>3 DEF Served
  <2>5. Outgoing'
    BY <2>1, <2>2, <2>3 DEF Prompt, Outgoing, TimerMeansWaiting, IsTransmitting, TxFlags, ResetFlags
  <2>6. QED
    BY <1>2, <2>4, <2>5
<1>7. QED
  BY <1>3, <1>4, <1>5, <1>6 DEF Hardware

(* The partner and the plug set one flag too, or one besides typeC. *)
LEMMA PromptEnvironment ==
  ASSUME ~LateIsr, Prompt, Environment
  PROVE  thread' = "done" /\ Served' /\ Outgoing'
<1>1. ASSUME NEW packet, PartnerSpeaks(packet) PROVE thread' = "done" /\ Served' /\ Outgoing'
  <2>1. /\ link' = link /\ flags' = flags /\ status' = status /\ plugged' = plugged
        /\ thread' = thread /\ Enabled = {} /\ plugged
    BY <1>1 DEF PartnerSpeaks, HardwareMayAct, SoftwareUnchanged
  <2>2. flags = {}
    BY <2>1, QuietLemma
  <2>3. QED
    BY <2>1, <2>2, UntouchedLemma
<1>2. CASE PartnerGivesUp
  BY <1>2, UntouchedLemma DEF PartnerGivesUp, SoftwareUnchanged
<1>3. CASE Plug
  <2>1. /\ Enabled = {} /\ plugged' = ~plugged /\ flags' = flags \union {"typeC"} /\ status = {}
        /\ link' = link /\ status' = status /\ thread' = thread
        /\ wire' = IF wire.from = "partner" THEN EmptyLine ELSE wire
    BY <1>3 DEF Plug, HardwareMayAct, Raise, SoftwareUnchanged
  <2>2. /\ "typeC" \notin flags /\ (link.ccPin <=> plugged)
        /\ plugged => flags = {}
        /\ ~plugged => flags \subseteq {"txSent", "hrstSent"}
    BY <2>1, QuietLemma
  <2>3. wire'.from # "partner"
    BY <2>1 DEF EmptyLine
  <2>4. link.tx # "idle" => flags \subseteq {"typeC"}
    BY DEF Prompt, Served
  <2>5. Served'
    <3>1. status' \subseteq flags' /\ "typeC" \in flags'
      BY <2>1
    <3>2. link.ccPin => flags' = {"typeC"}
      BY <2>1, <2>2, Zenon
    <3>3. ~link.ccPin => flags' \subseteq {"typeC", "txSent", "hrstSent"}
      <4>1. ~link.ccPin => flags \subseteq {"txSent", "hrstSent"}
        BY <2>2, Zenon
      <4>2. QED
        BY <2>1, <4>1
    <3>4. link.tx # "idle" => flags' \subseteq {"typeC"}
      BY <2>1, <2>4
    <3>5. \A f, g \in flags' \ {"typeC"} : f = g
      BY <2>1 DEF Prompt, Served
    <3>6. QED
      BY <2>1, <2>3, <3>1, <3>2, <3>3, <3>4, <3>5, Zenon DEF Served
  <2>6. Outgoing'
    BY <2>1 DEF Prompt, Outgoing, TimerMeansWaiting, IsTransmitting, TxFlags, ResetFlags
  <2>7. QED
    BY <2>1, <2>5, <2>6 DEF Prompt
<1>4. QED
  BY <1>1, <1>2, <1>3
     DEF Environment, PartnerSends, PartnerRetries, PartnerAcks, PartnerResets, PartnerTalksToCable

(* No step lets a flag wait for another. *)
LEMMA PromptLemma ==
  ASSUME ~LateIsr, Prompt, [Next]_vars
  PROVE  Prompt'
<1>1. IInv'
  BY StepLemma DEF Prompt
<1>2. CASE UNCHANGED vars
  BY <1>1, <1>2, UntouchedLemma DEF vars, Prompt
<1>3. QED
  BY <1>1, <1>2, PromptSoftware, PromptClient, PromptHardware, PromptEnvironment DEF Next, Prompt

(* At the beginning nothing is pending. *)
LEMMA PromptInit ==
  ASSUME ~ThreadSends, Init
  PROVE  Prompt
<1>1. IInv
  BY InitLemma
<1>2. Served /\ thread = "done"
  BY DEF Init, Served
<1>3. Outgoing
  BY DEF Init, Outgoing, TimerMeansWaiting, TxFlags, ResetFlags
<1>4. QED
  BY <1>1, <1>2, <1>3 DEF Prompt

(* The GoodCRC timer runs only while the controller waits for a GoodCRC    *)
(* (PDController.cpp, onMessageTransmitted and onNoGoodCrcReceived): none  *)
(* is left over, none is doubled, whatever is lost, reset, attached or     *)
(* detached, for every retry count and number of messages.                 *)
THEOREM TimerIsForWaiting ==
  ASSUME ~LateIsr, ~ThreadSends
  PROVE  Spec => []TimerMeansWaiting
<1>1. Init => Prompt
  BY PromptInit
<1>2. Prompt /\ [Next]_vars => Prompt'
  BY PromptLemma
<1>3. Prompt => TimerMeansWaiting
  BY DEF Prompt, Outgoing
<1>4. QED
  BY <1>1, <1>2, <1>3, PTL DEF Spec

----------------------------------------------------------------------------
(***************************************************************************)
(* The order of delivery.  While the partner waits for a GoodCRC, and only *)
(* then, its message may come (again), and if it has been received before, *)
(* its ID is the one that the controller remembers: a reset of either side *)
(* ends the partner's waiting before it makes the controller forget.       *)
(***************************************************************************)

Resetting ==
  \/ wire.from = "partner" /\ wire.packet.kind = "hardReset"
  \/ {"rxHrst", "hrstSent"} \intersect flags # {}

Delivered(n) == \E i \in 1 .. Len(link.delivered) : link.delivered[i] = n
Received(n) == link.lastMessage = n \/ Delivered(n)

(* A message of the partner's that is on its way is the current one. *)
Current(packet) ==
  packet.kind = "msg" => partner.waiting /\ packet.seq = partner.seq /\ packet.id = partner.id

InOrder ==
  /\ DeliveredInOrder
  /\ \A i \in 1 .. Len(link.delivered) :
       /\ link.delivered[i] <= partner.seq
       /\ link.lastMessage # None => link.delivered[i] < link.lastMessage
  /\ link.lastMessage <= partner.seq
  /\ partner.waiting =>
       /\ plugged /\ partner.seq > 0 /\ ~Resetting
       /\ Received(partner.seq) => link.lastRxMessageId = partner.id
  /\ wire.from = "partner" => Current(wire.packet)
  /\ "rxMsgEnd" \in flags => Current(rx)

(* A step that delivers nothing and in which the partner does not send a   *)
(* new message.                                                            *)
LEMMA OrderKept ==
  ASSUME InOrder, TypeOK,
         link'.delivered = link.delivered, link'.lastMessage \in {link.lastMessage, None},
         partner'.seq = partner.seq,
         partner'.waiting => /\ partner.waiting /\ partner'.id = partner.id
                             /\ plugged' /\ ~Resetting'
                             /\ link'.lastRxMessageId = link.lastRxMessageId,
         wire'.from = "partner" => Current(wire.packet)',
         "rxMsgEnd" \in flags' => Current(rx)'
  PROVE  InOrder'
<1>1. /\ link.lastMessage \in Nat /\ partner.seq \in Nat
      /\ \A i \in 1 .. Len(link.delivered) : link.delivered[i] \in Nat
  <2>1. link.lastMessage \in Nat /\ partner.seq \in Nat /\ link.delivered \in Seq(Nat)
    BY DEF TypeOK, Link, Partner
  <2>2. QED
    BY <2>1
<1>2. DeliveredInOrder'
  BY DEF InOrder, DeliveredInOrder
<1>3. \A i \in 1 .. Len(link'.delivered) :
        /\ link'.delivered[i] <= partner'.seq
        /\ link'.lastMessage # None => link'.delivered[i] < link'.lastMessage
  BY DEF InOrder
<1>4. link'.lastMessage <= partner'.seq
  BY <1>1 DEF InOrder, None
<1>5. ASSUME partner'.waiting
      PROVE  /\ plugged' /\ partner'.seq > 0 /\ ~Resetting'
             /\ Received(partner.seq)' => link'.lastRxMessageId = partner'.id
  <2>1. partner.seq > 0 /\ (Received(partner.seq) => link.lastRxMessageId = partner.id)
    BY <1>5 DEF InOrder
  <2>2. Received(partner.seq)' => Received(partner.seq)
    BY <1>1, <2>1 DEF Received, Delivered, None
  <2>3. QED
    BY <1>5, <2>1, <2>2
<1>6. QED
  BY <1>2, <1>3, <1>4, <1>5 DEF InOrder

(* A handler delivers the kept message only, and keeps one only if it is   *)
(* new.                                                                    *)
LEMMA OrderSoftware ==
  ASSUME Prompt, InOrder, Software
  PROVE  InOrder'
<1>1. TypeOK
  BY DEF Prompt, IInv
<1>2. link \in Link /\ rx \in Packet /\ partner \in Partner
  BY <1>1 DEF TypeOK
<1>3. /\ wire' = wire /\ rx' = rx /\ partner' = partner /\ plugged' = plugged
      /\ flags' \subseteq flags
  BY DEF Software, IsrEnter, HandleTypeC, HandleReset, HandleResetDiscarded, HandleRx, HandleSent,
         HandleDiscarded, TimerExpires, Handles, Clears
<1>4. /\ Resetting' => Resetting
      /\ wire'.from = "partner" => Current(wire.packet)'
      /\ "rxMsgEnd" \in flags' => Current(rx)'
  BY <1>3 DEF Resetting, InOrder, Current
<1>5. ASSUME link'.delivered = link.delivered, link'.lastMessage \in {link.lastMessage, None},
             partner.waiting => link'.lastRxMessageId = link.lastRxMessageId
      PROVE  InOrder'
  <2>1. partner'.waiting => /\ partner.waiting /\ partner'.id = partner.id
                            /\ plugged' /\ ~Resetting'
                            /\ link'.lastRxMessageId = link.lastRxMessageId
    BY <1>3, <1>4, <1>5 DEF InOrder
  <2>2. partner'.seq = partner.seq
    BY <1>3
  <2>3. QED
    BY <1>1, <1>4, <1>5, <2>1, <2>2, OrderKept
<1>6. CASE link' = link
  BY <1>5, <1>6
<1>7. CASE HandleTypeC
  <2>1. /\ link'.delivered = link.delivered /\ link'.lastMessage = link.lastMessage
        /\ link'.lastRxMessageId = link.lastRxMessageId
    BY <1>2, <1>7 DEF HandleTypeC, Link
  <2>2. QED
    BY <1>5, <2>1
<1>8. CASE HandleReset
  <2>1. {"rxHrst", "hrstSent"} \intersect flags # {}
    BY <1>8 DEF HandleReset, Handles, Prompt, Served
  <2>2. ~partner.waiting
    BY <2>1 DEF InOrder, Resetting
  <2>3. QED
    BY <1>5, <1>8, <2>2, ResetEffect
<1>9. CASE HandleRx
  <2>1. "rxMsgEnd" \in flags
    BY <1>9 DEF HandleRx, Handles, Prompt, Served
  <2>2. Interrupted(link) \in {link.lastMessage, None}
    BY DEF Interrupted
  <2>3. CASE rx.kind # "msg"
    BY <1>5, <1>9, <2>2, <2>3, ReceiveEffect
  <2>4. CASE rx.kind = "msg"
    <3>1. partner.waiting /\ rx.seq = partner.seq /\ rx.id = partner.id
      BY <2>1, <2>4 DEF InOrder, Current
    <3>2. /\ link'.delivered = link.delivered /\ link'.lastRxMessageId = rx.id
          /\ link'.lastMessage = IF rx.id # link.lastRxMessageId THEN rx.seq ELSE Interrupted(link)
      BY <1>9, <2>4, ReceiveEffect
    <3>3. CASE rx.id = link.lastRxMessageId
      BY <1>5, <2>2, <3>2, <3>3
    <3>4. CASE rx.id # link.lastRxMessageId
      <4>1. ~Received(partner.seq)
        BY <3>1, <3>4 DEF InOrder
      <4>2. link'.lastMessage = partner.seq
        BY <3>1, <3>2, <3>4
      <4>3. DeliveredInOrder'
        BY <3>2 DEF InOrder, DeliveredInOrder
      <4>4. \A i \in 1 .. Len(link'.delivered) :
              /\ link'.delivered[i] <= partner'.seq
              /\ link'.lastMessage # None => link'.delivered[i] < link'.lastMessage
        <5> SUFFICES ASSUME NEW i \in 1 .. Len(link.delivered)
                     PROVE  link.delivered[i] <= partner.seq /\ link.delivered[i] < partner.seq
          BY <1>3, <3>2, <4>2
        <5>1. link.delivered[i] <= partner.seq /\ link.delivered[i] # partner.seq
          BY <4>1 DEF InOrder, Received, Delivered
        <5>2. link.delivered[i] \in Nat /\ partner.seq \in Nat
          <6>1. link.delivered \in Seq(Nat) /\ partner.seq \in Nat
            BY <1>2 DEF Link, Partner
          <6>2. QED
            BY <6>1
        <5>3. QED
          BY <5>1, <5>2
      <4>5. link'.lastMessage <= partner'.seq
        BY <1>2, <1>3, <4>2 DEF Partner
      <4>6. partner'.waiting =>
              /\ plugged' /\ partner'.seq > 0 /\ ~Resetting'
              /\ Received(partner.seq)' => link'.lastRxMessageId = partner'.id
        BY <1>3, <1>4, <3>1, <3>2 DEF InOrder
      <4>7. QED
        BY <1>4, <4>3, <4>4, <4>5, <4>6 DEF InOrder
    <3>5. QED
      BY <3>3, <3>4
  <2>5. QED
    BY <2>3, <2>4
<1>10. CASE HandleSent
  <2>1. link'.lastRxMessageId = link.lastRxMessageId
    BY <1>10, SentEffect
  <2>2. CASE link'.delivered = link.delivered /\ link'.lastMessage \in {link.lastMessage, None}
    BY <1>5, <2>1, <2>2
  <2>3. CASE /\ link.lastMessage # None /\ link'.lastMessage = None
             /\ link'.delivered = Append(link.delivered, link.lastMessage)
    <3> DEFINE d == link.delivered
               n == link.lastMessage
    <3>1. d \in Seq(Nat) /\ n \in Nat /\ partner.seq \in Nat
      BY <1>2 DEF Link, Partner
    <3>2. /\ \A i, j \in 1 .. Len(d) : i < j => d[i] < d[j]
          /\ \A i \in 1 .. Len(d) : d[i] < n
          /\ n <= partner.seq /\ n # None
      BY <2>3 DEF InOrder, DeliveredInOrder
    <3> HIDE DEF d, n
    <3>3. /\ Len(Append(d, n)) = Len(d) + 1
          /\ \A i \in 1 .. Len(d) : Append(d, n)[i] = d[i]
          /\ Append(d, n)[Len(d) + 1] = n
          /\ Len(d) \in Nat
      BY <3>1
    <3>4. \A i \in 1 .. Len(d) + 1 : Append(d, n)[i] <= n /\ Append(d, n)[i] \in Nat
      BY <3>1, <3>2, <3>3
    <3>5. \A i, j \in 1 .. Len(d) + 1 : i < j => Append(d, n)[i] < Append(d, n)[j]
      <4> SUFFICES ASSUME NEW i \in 1 .. Len(d) + 1, NEW j \in 1 .. Len(d) + 1, i < j
                   PROVE  Append(d, n)[i] < Append(d, n)[j]
        OBVIOUS
      <4>1. i \in 1 .. Len(d) /\ Append(d, n)[i] = d[i]
        BY <3>3
      <4>2. CASE j = Len(d) + 1
        BY <3>2, <3>3, <4>1, <4>2
      <4>3. CASE j \in 1 .. Len(d)
        BY <3>2, <3>3, <4>1, <4>3
      <4>4. QED
        BY <3>3, <4>2, <4>3
    <3>6. link'.delivered = Append(d, n)
      BY <2>3 DEF d, n
    <3>7. DeliveredInOrder'
      BY <3>3, <3>5, <3>6 DEF DeliveredInOrder
    <3>8. \A i \in 1 .. Len(link'.delivered) :
            /\ link'.delivered[i] <= partner'.seq
            /\ link'.lastMessage # None => link'.delivered[i] < link'.lastMessage
      BY <1>3, <2>3, <3>1, <3>2, <3>3, <3>4, <3>6
    <3>9. link'.lastMessage <= partner'.seq
      BY <1>3, <2>3, <3>1 DEF None
    <3>10. ASSUME partner'.waiting
           PROVE  /\ plugged' /\ partner'.seq > 0 /\ ~Resetting'
                  /\ Received(partner.seq)' => link'.lastRxMessageId = partner'.id
      <4>1. /\ plugged /\ partner.seq > 0 /\ ~Resetting
            /\ Received(partner.seq) => link.lastRxMessageId = partner.id
        BY <1>3, <3>10 DEF InOrder
      <4>2. Received(partner.seq)' => Received(partner.seq)
        <5>1. ASSUME Received(partner.seq)' PROVE Received(partner.seq)
          <6>1. Delivered(partner.seq)'
            BY <1>3, <2>3, <4>1, <5>1 DEF Received, None
          <6>2. PICK i \in 1 .. Len(d) + 1 : Append(d, n)[i] = partner.seq
            BY <1>3, <3>3, <3>6, <6>1 DEF Delivered
          <6>3. CASE i = Len(d) + 1
            BY <3>3, <6>2, <6>3 DEF Received, n
          <6>4. CASE i \in 1 .. Len(d)
            BY <3>3, <6>2, <6>4 DEF Received, Delivered, d
          <6>5. QED
            BY <3>3, <6>3, <6>4
        <5>2. QED
          BY <5>1
      <4>3. QED
        BY <1>3, <1>4, <2>1, <4>1, <4>2
    <3>11. QED
      BY <1>4, <3>7, <3>8, <3>9, <3>10 DEF InOrder
  <2>4. QED
    BY <1>10, <2>2, <2>3, SentEffect
<1>11. CASE HandleDiscarded
  BY <1>5, <1>11, DiscardEffect DEF Ended, Keeps
<1>12. CASE TimerExpires
  BY <1>5, <1>12, ExpireEffect
<1>13. QED
  BY <1>6, <1>7, <1>8, <1>9, <1>10, <1>11, <1>12 DEF Software, IsrEnter, HandleResetDiscarded

(* What we send delivers nothing. *)
LEMMA OrderClient ==
  ASSUME Prompt, InOrder, Client
  PROVE  InOrder'
<1>1. ClientSends \/ ClientSendsHardReset
  BY DEF Client, Prompt, ThreadChecks, ThreadFills, ThreadTransmits
<1>2. /\ flags' = flags /\ wire' = wire /\ plugged' = plugged /\ partner' = partner /\ rx' = rx
  BY <1>1 DEF ClientSends, ClientSendsHardReset
<1>3. /\ link'.lastRxMessageId = link.lastRxMessageId /\ link'.lastMessage = link.lastMessage
      /\ link'.delivered = link.delivered
  BY <1>1, ClientEffect, HardResetEffect
<1>4. Resetting' => Resetting
  BY <1>2 DEF Resetting
<1>5. /\ partner'.waiting => partner.waiting /\ plugged' /\ ~Resetting'
      /\ wire'.from = "partner" => Current(wire.packet)'
      /\ "rxMsgEnd" \in flags' => Current(rx)'
  BY <1>2, <1>4 DEF InOrder, Current
<1>6. TypeOK
  BY DEF Prompt, IInv
<1>7. QED
  BY <1>2, <1>3, <1>5, <1>6, OrderKept

(* What the partner does with a packet of ours keeps its message, or ends  *)
(* its waiting.                                                            *)
LEMMA HearsOrder ==
  ASSUME NEW p \in Partner, NEW packet
  PROVE  LET q == PartnerHears(p, packet)
         IN  /\ q.seq = p.seq
             /\ q.waiting => p.waiting /\ q.id = p.id /\ packet.kind # "hardReset"
BY DEF PartnerHears, NewPartnerSession, Partner

(* What arrives is what the partner has sent last. *)
LEMMA OrderHardware ==
  ASSUME ~LateIsr, Prompt, InOrder, Hardware
  PROVE  InOrder'
<1>1. /\ TypeOK /\ link \in Link /\ partner \in Partner /\ plugged' = plugged
  BY DEF Prompt, IInv, TypeOK, Hardware, HwStarts, HwDiscards, OurPacketEnds, PartnerPacketEnds
<1>2. /\ link'.lastRxMessageId = link.lastRxMessageId /\ link'.lastMessage = link.lastMessage
      /\ link'.delivered = link.delivered
  BY <1>1 DEF Hardware, HwStarts, HwDiscards, OurPacketEnds, PartnerPacketEnds, Link
<1>3. /\ partner.waiting => plugged /\ ~Resetting
      /\ wire.from = "partner" => Current(wire.packet)
      /\ "rxMsgEnd" \in flags => Current(rx)
  BY DEF InOrder
<1>4. CASE HwStarts \/ HwDiscards
  <2>1. /\ partner' = partner /\ rx' = rx
        /\ wire' = wire \/ wire'.from = "us"
        /\ flags' \subseteq flags \union {"hrstDisc", "txDisc"}
    BY <1>4 DEF HwStarts, HwDiscards, Raise
  <2>2. Resetting' => Resetting
    BY <2>1 DEF Resetting
  <2>3. /\ wire'.from = "partner" => Current(wire.packet)'
        /\ "rxMsgEnd" \in flags' => Current(rx)'
    BY <1>3, <2>1 DEF Current
  <2>4. /\ partner'.waiting => partner.waiting /\ plugged' /\ ~Resetting'
        /\ partner'.seq = partner.seq /\ partner'.id = partner.id
    BY <1>1, <1>3, <2>1, <2>2
  <2>5. QED
    BY <1>1, <1>2, <2>3, <2>4, OrderKept
<1>5. CASE OurPacketEnds
  <2>1. /\ Enabled = {} /\ wire.from = "us" /\ wire'.from = "nobody" /\ rx' = rx
        /\ flags' = flags \/ flags' = flags \union {"txSent"} \/ flags' = flags \union {"hrstSent"}
        /\ wire.packet.kind # "hardReset" => flags' = flags \/ flags' = flags \union {"txSent"}
    BY <1>5 DEF OurPacketEnds, HardwareMayAct, EmptyLine, Raise
  <2>2. /\ plugged => flags = {}
        /\ ~plugged => flags \subseteq {"txSent", "hrstSent"}
    BY <2>1, QuietLemma
  <2>3. "rxMsgEnd" \notin flags'
    BY <2>1, <2>2
  <2>4. /\ partner'.seq = partner.seq
        /\ partner'.waiting => /\ partner.waiting /\ partner'.id = partner.id
                               /\ wire.packet.kind # "hardReset" \/ flags' = flags
    <3>1. CASE partner' = PartnerHears(partner, wire.packet)
      BY <1>1, <3>1, HearsOrder
    <3>2. CASE partner' = partner
      <4>1. \/ link.tx = "sending" /\ plugged /\ wire.packet.kind # "hardReset"
            \/ link.tx # "sending" /\ flags' = flags
            \/ ~plugged
            \/ partner' = PartnerHears(partner, wire.packet)
        BY <1>5 DEF OurPacketEnds
      <4>2. QED
        BY <1>3, <3>1, <3>2, <4>1
    <3>3. QED
      BY <1>5, <3>1, <3>2 DEF OurPacketEnds
  <2>5. partner'.waiting => ~Resetting'
    BY <1>3, <2>1, <2>4 DEF Resetting
  <2>6. QED
    BY <1>1, <1>2, <1>3, <2>1, <2>3, <2>4, <2>5, OrderKept
<1>6. CASE PartnerPacketEnds
  <2>1. /\ Enabled = {} /\ wire.from = "partner" /\ wire'.from = "nobody" /\ partner' = partner
        /\ \/ flags' = flags
           \/ flags' = flags \union {"rxHrst"} /\ wire.packet.kind = "hardReset"
           \/ flags' = flags \union {"rxMsgEnd"} /\ (rx' = wire.packet \/ rx' = Signal("garbled"))
    BY <1>6 DEF PartnerPacketEnds, HardwareMayAct, EmptyLine, Raise
  <2>2. flags = {}
    BY <2>1, QuietLemma DEF Prompt, Served
  <2>3. "rxMsgEnd" \in flags' => Current(rx)'
    BY <1>3, <2>1, <2>2 DEF Current, Signal
  <2>4. Resetting' => Resetting
    BY <2>1, <2>2 DEF Resetting
  <2>5. /\ partner'.seq = partner.seq
        /\ partner'.waiting => partner.waiting /\ partner'.id = partner.id /\ plugged' /\ ~Resetting'
    BY <1>1, <1>3, <2>1, <2>4
  <2>6. QED
    BY <1>1, <1>2, <2>1, <2>3, <2>5, OrderKept
<1>7. QED
  BY <1>4, <1>5, <1>6 DEF Hardware

(* The partner sends a new message when its last one is confirmed or given *)
(* up.                                                                     *)
LEMMA OrderEnvironment ==
  ASSUME ~LateIsr, Prompt, InOrder, Environment
  PROVE  InOrder'
<1>1. /\ TypeOK /\ link \in Link /\ partner \in Partner /\ link' = link /\ rx' = rx
  BY DEF Prompt, IInv, TypeOK, Environment, PartnerSends, PartnerRetries, PartnerGivesUp, PartnerAcks,
         PartnerResets, PartnerTalksToCable, PartnerSpeaks, Plug
<1>2. /\ partner.waiting => plugged /\ ~Resetting
      /\ wire.from = "partner" => Current(wire.packet)
      /\ "rxMsgEnd" \in flags => Current(rx)
  BY DEF InOrder
<1>3. ASSUME NEW packet, PartnerSpeaks(packet)
      PROVE  /\ flags' = {} /\ plugged /\ plugged' = plugged
             /\ wire'.packet = packet
             /\ packet.kind # "hardReset" => ~Resetting'
  <2>1. flags' = flags /\ plugged /\ plugged' = plugged /\ Enabled = {} /\ wire'.packet = packet
    BY <1>3 DEF PartnerSpeaks, HardwareMayAct
  <2>2. flags = {}
    BY <2>1, QuietLemma
  <2>3. QED
    BY <2>1, <2>2 DEF Resetting
<1>4. CASE PartnerSends
  <2> DEFINE packet == [kind |-> "msg", id |-> partner.id, seq |-> partner.seq + 1]
  <2>1. /\ PartnerSpeaks(packet)
        /\ partner' = [partner EXCEPT !.seq = @ + 1, !.waiting = TRUE, !.tries = NRetryCount]
    BY <1>4 DEF PartnerSends
  <2>2. /\ partner'.seq = partner.seq + 1 /\ partner.seq \in Nat /\ partner'.id = partner.id
        /\ partner'.waiting = TRUE
    BY <1>1, <2>1 DEF Partner
  <2>3. /\ flags' = {} /\ plugged' /\ wire'.packet = packet /\ ~Resetting'
    BY <1>3, <2>1
  <2>4. Current(wire.packet)'
    BY <2>2, <2>3 DEF Current
  <2>5. /\ link.lastMessage \in Nat
        /\ \A i \in 1 .. Len(link.delivered) : link.delivered[i] \in Nat
    BY <1>1 DEF Link
  <2>6. /\ link.lastMessage <= partner.seq
        /\ \A i \in 1 .. Len(link.delivered) : link.delivered[i] <= partner.seq
    BY DEF InOrder
  <2>7. ~Received(partner.seq)'
    BY <1>1, <2>2, <2>5, <2>6 DEF Received, Delivered
  <2>8. link'.lastMessage <= partner'.seq
    BY <1>1, <2>2, <2>5, <2>6
  <2>9. \A i \in 1 .. Len(link'.delivered) :
          /\ link'.delivered[i] <= partner'.seq
          /\ link'.lastMessage # None => link'.delivered[i] < link'.lastMessage
    BY <1>1, <2>2, <2>5, <2>6 DEF InOrder
  <2>10. DeliveredInOrder' /\ partner'.seq > 0
    BY <1>1, <2>2 DEF InOrder, DeliveredInOrder
  <2>11. QED
    BY <2>3, <2>4, <2>7, <2>8, <2>9, <2>10 DEF InOrder
<1>5. ASSUME partner'.seq = partner.seq,
             partner'.waiting => partner.waiting /\ partner'.id = partner.id /\ plugged' /\ ~Resetting',
             wire'.from = "partner" => Current(wire.packet)',
             "rxMsgEnd" \notin flags'
      PROVE  InOrder'
  BY <1>1, <1>5, OrderKept
<1>6. CASE PartnerRetries
  <2> DEFINE packet == [kind |-> "msg", id |-> partner.id, seq |-> partner.seq]
  <2>1. /\ PartnerSpeaks(packet) /\ partner.waiting
        /\ partner' = [partner EXCEPT !.tries = @ - 1]
    BY <1>6 DEF PartnerRetries
  <2>2. /\ partner'.seq = partner.seq /\ partner'.id = partner.id /\ partner'.waiting = partner.waiting
    BY <1>1, <2>1 DEF Partner
  <2>3. /\ flags' = {} /\ plugged' /\ wire'.packet = packet /\ ~Resetting'
    BY <1>3, <2>1
  <2>4. Current(wire.packet)'
    BY <2>1, <2>2, <2>3 DEF Current
  <2>5. QED
    BY <1>5, <2>1, <2>2, <2>3, <2>4
<1>7. ASSUME NEW packet, PartnerSpeaks(packet), packet.kind \notin {"msg", "hardReset"},
             partner'.seq = partner.seq, partner'.id = partner.id, partner'.waiting = partner.waiting
      PROVE  InOrder'
  <2>1. /\ flags' = {} /\ plugged' /\ wire'.packet = packet /\ ~Resetting'
    BY <1>3, <1>7
  <2>2. Current(wire.packet)'
    BY <1>7, <2>1 DEF Current
  <2>3. QED
    BY <1>5, <1>7, <2>1, <2>2
<1>8. CASE PartnerAcks
  <2>1. partner'.seq = partner.seq /\ partner'.id = partner.id /\ partner'.waiting = partner.waiting
    BY <1>1, <1>8 DEF PartnerAcks, Partner
  <2>2. QED
    BY <1>7, <1>8, <2>1 DEF PartnerAcks
<1>9. CASE PartnerTalksToCable
  BY <1>7, <1>9 DEF PartnerTalksToCable, Signal
<1>10. ASSUME partner' = NewPartnerSession(partner)
       PROVE  partner'.seq = partner.seq /\ partner'.waiting = FALSE
  BY <1>1, <1>10 DEF NewPartnerSession, Partner
<1>11. CASE PartnerResets
  <2>1. PartnerSpeaks(Signal("hardReset")) /\ partner' = NewPartnerSession(partner)
    BY <1>11 DEF PartnerResets
  <2>2. flags' = {} /\ wire'.packet = Signal("hardReset")
    BY <1>3, <2>1
  <2>3. Current(wire.packet)'
    BY <2>2 DEF Current, Signal
  <2>4. QED
    BY <1>5, <1>10, <2>1, <2>2, <2>3
<1>12. CASE PartnerGivesUp
  <2>1. /\ partner' = [partner EXCEPT !.waiting = FALSE, !.id = (@ + 1) % IdMod]
        /\ Enabled = {} /\ flags' = flags /\ wire' = wire /\ wire.from = "nobody" /\ partner.waiting
    BY <1>12 DEF PartnerGivesUp, HardwareMayAct, LineFree
  <2>2. flags = {}
    BY <1>2, <2>1, QuietLemma
  <2>3. partner'.seq = partner.seq /\ partner'.waiting = FALSE
    BY <1>1, <2>1 DEF Partner
  <2>4. QED
    BY <1>5, <2>1, <2>2, <2>3
<1>13. CASE Plug
  <2>1. /\ partner' = NewPartnerSession(partner) /\ Enabled = {}
        /\ flags' = flags \union {"typeC"} /\ wire'.from # "partner"
    BY <1>13 DEF Plug, HardwareMayAct, Raise, EmptyLine
  <2>2. flags = {} \/ flags \subseteq {"txSent", "hrstSent"}
    BY <2>1, QuietLemma
  <2>3. "rxMsgEnd" \notin flags'
    BY <2>1, <2>2
  <2>4. QED
    BY <1>5, <1>10, <2>1, <2>3
<1>14. QED
  BY <1>4, <1>6, <1>8, <1>9, <1>11, <1>12, <1>13 DEF Environment

(* Nothing has been sent or delivered yet. *)
LEMMA OrderInit ==
  ASSUME Init
  PROVE  InOrder
BY DEF Init, InOrder, DeliveredInOrder, None

(* No step delivers out of order. *)
LEMMA OrderLemma ==
  ASSUME ~LateIsr, Prompt, InOrder, [Next]_vars
  PROVE  InOrder'
<1>1. CASE UNCHANGED vars
  BY <1>1 DEF vars, InOrder, DeliveredInOrder, Received, Delivered, Current, Resetting
<1>2. QED
  BY <1>1, OrderSoftware, OrderClient, OrderHardware, OrderEnvironment DEF Next

(* The event handler gets the partner's messages in the order they were    *)
(* sent and none twice (PDController.cpp, onMessageReceived and            *)
(* onMessageTransmitted), for every number of messages, losses, resets and *)
(* detachments, whatever the modulus of the message IDs.                   *)
THEOREM DeliveryIsInOrder ==
  ASSUME ~LateIsr, ~ThreadSends
  PROVE  Spec => []DeliveredInOrder
<1>1. Init => Prompt /\ InOrder
  BY PromptInit, OrderInit
<1>2. Prompt /\ InOrder /\ [Next]_vars => (Prompt /\ InOrder)'
  BY PromptLemma, OrderLemma
<1>3. InOrder => DeliveredInOrder
  BY DEF InOrder
<1>4. QED
  BY <1>1, <1>2, <1>3, PTL DEF Spec

----------------------------------------------------------------------------
(***************************************************************************)
(* The IDs of our messages.  Each message has the ID after the one before  *)
(* it.  So while fewer than IdMod messages have followed the one that the  *)
(* partner heard last, the IDs are as far apart as the messages, or wrap   *)
(* around once.                                                            *)
(***************************************************************************)

Busy(kind) == IsTransmitting(link) /\ link.txMessage.kind = kind

(* The controller counts from 0 again only after the partner has forgotten. *)
Forgotten == (Resetting \/ ~plugged) => partner.lastId = NoId

(* The message that has the ID txMessageId: the current one, or the next.  *)
Upcoming == MaxSends - budget.sends + (IF Busy("msg") THEN 0 ELSE 1)

Numbered ==
  partner.lastId # NoId =>
    LET d == Upcoming - partner.lastSeq
    IN  /\ d >= 0
        /\ d = 0 => Busy("msg")
        /\ d < IdMod => link.txMessageId \in {partner.lastId + d, partner.lastId + d - IdMod}

Labelled ==
  /\ link.txMessage.seq <= MaxSends - budget.sends
  /\ Busy("msg") => link.txMessage.seq = MaxSends - budget.sends
  /\ link.tx # "idle" /\ link.out.kind = "msg" => link.out.id = link.txMessageId

Fresh == NewMessageIsNew /\ Forgotten /\ Numbered /\ Labelled

(* The types that the following lemmas need. *)
LEMMA FreshTypes ==
  ASSUME Prompt
  PROVE  /\ link \in Link /\ partner \in Partner /\ budget \in Budget /\ IdMod \in Nat \ {0}
         /\ link.txMessageId \in 0 .. IdMod - 1 /\ partner.lastId \in NoId .. IdMod - 1
         /\ budget.sends \in 0 .. MaxSends /\ MaxSends \in Nat
         /\ link.txMessage.seq \in Nat /\ partner.lastSeq \in Nat
BY LinkAssumption DEF Prompt, IInv, TypeOK, Link, Partner, Budget, Packet

(* One message on, one ID on. *)
LEMMA NextIdFollows ==
  ASSUME NEW m \in Nat, NEW id \in Int, NEW d \in Nat, IdMod \in Nat \ {0}, m < IdMod,
         d < IdMod => m \in {id + d, id + d - IdMod}, id >= 0, id < IdMod,
         d + 1 < IdMod
  PROVE  (m + 1) % IdMod \in {id + (d + 1), id + (d + 1) - IdMod}
<1>1. CASE m + 1 < IdMod
  <2>1. (m + 1) % IdMod = m + 1
    BY <1>1
  <2>2. QED
    BY <2>1
<1>2. CASE m + 1 = IdMod
  <2>1. (m + 1) % IdMod = 0
    BY <1>2
  <2>2. QED
    BY <1>2, <2>1
<1>3. QED
  BY <1>1, <1>2

(* The controller has sent its next message.                               *)
LEMMA FreshSends ==
  ASSUME Prompt, Fresh, SendsNext, partner' = partner,
         partner.lastId = NoId \/ (~Busy("msg") /\ link'.txMessageId = link.txMessageId)
  PROVE  Numbered' /\ Labelled'
<1>1. /\ budget.sends \in Nat /\ MaxSends \in Nat /\ budget \in Budget /\ partner.lastId \in Int
      /\ partner.lastSeq \in Nat
  BY FreshTypes DEF NoId
<1>2. /\ budget'.sends = budget.sends - 1 /\ budget.sends > 0
      /\ link'.txMessage.kind = "msg" /\ link'.txMessage.seq = MaxSends - budget.sends + 1
      /\ link'.txMessage.id = link'.txMessageId
      /\ IsTransmitting(link') /\ link'.out = link'.txMessage
  BY <1>1 DEF SendsNext, NewMessage, Started, Budget
<1>3. Busy("msg")'
  BY <1>2 DEF Busy
<1>4. Numbered'
  <2>1. CASE partner.lastId = NoId
    BY <2>1 DEF Numbered
  <2>2. CASE partner.lastId # NoId
    <3>1. Upcoming' = Upcoming
      BY <1>1, <1>2, <1>3, <2>2 DEF Upcoming
    <3>2. QED
      BY <1>3, <2>2, <3>1 DEF Fresh, Numbered
  <2>3. QED
    BY <2>1, <2>2
<1>5. link'.txMessage.seq = MaxSends - budget'.sends
  BY <1>1, <1>2
<1>6. QED
  BY <1>1, <1>2, <1>4, <1>5 DEF Labelled

(* When a transmission of ours ends, its ID has been used, and the next is *)
(* new.                                                                    *)
LEMMA FreshIdles ==
  ASSUME Prompt, Fresh, budget' = budget, partner' = partner, ~Busy("msg")',
         \/ link'.txMessageId = NextId(link) /\ IsTransmitting(link)
         \/ link'.txMessageId = link.txMessageId /\ ~Busy("msg"),
         link'.txMessage.seq \in {None, link.txMessage.seq},
         link'.tx # "idle" => link'.out.kind # "msg"
  PROVE  Numbered' /\ Labelled'
<1>1. /\ budget.sends \in Nat /\ MaxSends \in Nat /\ budget.sends <= MaxSends
      /\ partner.lastId \in Int /\ partner.lastSeq \in Nat /\ link.txMessageId \in Nat
      /\ IdMod \in Nat \ {0} /\ link.txMessageId < IdMod
      /\ partner.lastId # NoId => partner.lastId >= 0 /\ partner.lastId < IdMod
      /\ GoodSlot(link)
  BY FreshTypes DEF NoId, Prompt, IInv
<1>2. ASSUME partner.lastId # NoId PROVE Numbered'
  <2> DEFINE d == Upcoming - partner.lastSeq
  <2>1. /\ d >= 0 /\ (d = 0 => Busy("msg"))
        /\ d < IdMod => link.txMessageId \in {partner.lastId + d, partner.lastId + d - IdMod}
    BY <1>2 DEF Fresh, Numbered
  <2>2. d \in Int
    BY <1>1 DEF Upcoming
  <2>3. CASE ~Busy("msg")
    <3>1. link'.txMessageId = link.txMessageId
      BY <1>1, <2>3 DEF NextId, Busy, GoodSlot
    <3>2. Upcoming' = Upcoming
      BY <2>3 DEF Upcoming
    <3>3. QED
      BY <2>1, <2>3, <3>1, <3>2 DEF Numbered
  <2>4. CASE Busy("msg")
    <3>1. link'.txMessageId = (link.txMessageId + 1) % IdMod
      BY <2>4 DEF NextId, Busy
    <3>2. Upcoming' - partner.lastSeq = d + 1
      BY <1>1, <2>4 DEF Upcoming
    <3> HIDE DEF d
    <3>3. d + 1 < IdMod =>
            link'.txMessageId \in {partner.lastId + (d + 1), partner.lastId + (d + 1) - IdMod}
      BY <1>1, <1>2, <2>1, <2>2, <3>1, NextIdFollows
    <3>4. d + 1 > 0
      BY <2>1, <2>2
    <3> DEFINE n == Upcoming' - partner.lastSeq
    <3>5. /\ n > 0
          /\ n < IdMod => link'.txMessageId \in {partner.lastId + n, partner.lastId + n - IdMod}
      BY <3>2, <3>3, <3>4
    <3>6. n = Upcoming' - partner'.lastSeq
      OBVIOUS
    <3> HIDE DEF n
    <3>7. n >= 0 /\ n # 0
      <4>1. n \in Int
        BY <2>2, <3>2 DEF n
      <4>2. QED
        BY <3>5, <4>1
    <3>8. QED
      BY <3>5, <3>6, <3>7 DEF Numbered
  <2>5. QED
    BY <2>3, <2>4
<1>3. partner.lastId = NoId => Numbered'
  BY DEF Numbered
<1>4. link'.txMessage.seq <= MaxSends - budget'.sends
  BY <1>1 DEF Fresh, Labelled, None
<1>5. QED
  BY <1>2, <1>3, <1>4 DEF Labelled

(* The message and its ID stay what they were. *)
LEMMA FreshStays ==
  ASSUME Fresh, budget'.sends = budget.sends,
         link'.txMessageId = link.txMessageId,
         link'.txMessage.kind = link.txMessage.kind, link'.txMessage.seq = link.txMessage.seq,
         IsTransmitting(link') <=> IsTransmitting(link),
         partner'.lastId = partner.lastId, partner'.lastSeq = partner.lastSeq,
         link'.tx # "idle" /\ link'.out.kind = "msg" => link'.out.id = link'.txMessageId
  PROVE  Numbered' /\ Labelled'
<1>1. Busy("msg")' <=> Busy("msg")
  BY DEF Busy
<1>2. Upcoming' = Upcoming
  BY <1>1 DEF Upcoming
<1>3. Numbered'
  BY <1>1, <1>2 DEF Fresh, Numbered
<1>4. QED
  BY <1>1, <1>3 DEF Fresh, Labelled

(* A handler uses a new ID for each new message, the same one for retries. *)
LEMMA FreshSoftware ==
  ASSUME ~LateIsr, Prompt, Fresh, Software
  PROVE  Fresh'
<1>1. /\ wire' = wire /\ partner' = partner /\ plugged' = plugged /\ flags' \subseteq flags
  BY DEF Software, IsrEnter, HandleTypeC, HandleReset, HandleResetDiscarded, HandleRx, HandleSent,
         HandleDiscarded, TimerExpires, Handles, Clears
<1>2. NewMessageIsNew' /\ Forgotten'
  BY <1>1 DEF Fresh, NewMessageIsNew, Forgotten, Resetting
<1>3. SUFFICES Numbered' /\ Labelled'
  BY <1>2 DEF Fresh
<1>4. /\ link \in Link /\ budget.sends \in Nat /\ MaxSends \in Nat /\ budget.sends <= MaxSends
      /\ link.txMessageId \in Nat /\ partner.lastId \in Int
  BY FreshTypes DEF NoId
<1>5. link.txMessage.seq <= MaxSends - budget.sends
  BY DEF Fresh, Labelled
<1>6. CASE link' = link /\ budget' = budget
  BY <1>1, <1>6, FreshStays DEF Fresh, Labelled
<1>7. CASE HandleTypeC
  <2>1. /\ link'.txMessageId = link.txMessageId /\ link'.txMessage = link.txMessage
        /\ link'.txRetryCount = link.txRetryCount /\ link'.out = link.out
        /\ link'.tx = link.tx \/ link'.tx = "idle"
        /\ budget' = budget
    BY <1>4, <1>7 DEF HandleTypeC, Link
  <2>2. /\ IsTransmitting(link') <=> IsTransmitting(link)
        /\ link'.tx # "idle" /\ link'.out.kind = "msg" => link'.out.id = link'.txMessageId
    BY <2>1 DEF IsTransmitting, Fresh, Labelled
  <2>3. QED
    BY <1>1, <2>1, <2>2, FreshStays
<1>8. CASE HandleReset
  <2>1. PICK f \in {"rxHrst", "hrstSent"} : Handles(f) /\ Clears(f)
    BY <1>8 DEF HandleReset
  <2>2. f \in flags /\ link.tx = "idle"
    BY <2>1, HandledLemma DEF Flags
  <2>3. partner.lastId = NoId
    BY <2>2 DEF Fresh, Forgotten, Resetting
  <2>4. CASE SendsNext
    BY <1>1, <2>3, <2>4, FreshSends
  <2>5. CASE /\ ~IsTransmitting(link') /\ link'.tx = link.tx
             /\ link'.txMessage = link.txMessage /\ budget' = budget
    <3>1. ~Busy("msg")'
      BY <2>5 DEF Busy
    <3>2. Numbered'
      BY <1>1, <2>3 DEF Numbered
    <3>3. Labelled'
      BY <1>5, <2>2, <2>5, <3>1 DEF Labelled
    <3>4. QED
      BY <3>2, <3>3
  <2>6. QED
    BY <1>8, <2>4, <2>5, ResetEffect
<1>9. CASE HandleRx
  <2>1. link.tx = "idle" /\ budget' = budget
    BY <1>9, HandledLemma DEF HandleRx, Flags
  <2>2. CASE link' = link
    BY <1>6, <2>1, <2>2
  <2>3. CASE link' # link
    <3>1. /\ link'.txMessageId = IF IsTransmitting(link) THEN NextId(link) ELSE link.txMessageId
          /\ link'.txMessage.seq \in {None, link.txMessage.seq}
          /\ \/ ~IsTransmitting(link') /\ link'.tx = link.tx
             \/ Started(link') /\ link'.txMessage.kind = "goodCrc"
      BY <1>9, <2>3, ReceiveEffect
    <3>2. ~Busy("msg")'
      BY <3>1 DEF Busy
    <3>3. \/ link'.txMessageId = NextId(link) /\ IsTransmitting(link)
          \/ link'.txMessageId = link.txMessageId /\ ~Busy("msg")
      BY <3>1 DEF Busy
    <3>4. link'.tx # "idle" => link'.out.kind # "msg"
      BY <2>1, <3>1 DEF Started
    <3>5. QED
      BY <1>1, <2>1, <3>1, <3>2, <3>3, <3>4, FreshIdles
  <2>4. QED
    BY <2>2, <2>3
<1>10. CASE HandleSent
  <2>1. link.tx = "idle"
    BY <1>10, HandledLemma DEF HandleSent, Flags
  <2>2. link'.txMessageId = link.txMessageId
    BY <1>10, SentEffect
  <2>3. CASE link.txMessage.kind = "msg"
    <3>1. /\ link'.txMessage = link.txMessage /\ link'.tx = link.tx
          /\ link'.txRetryCount = link.txRetryCount
          /\ link.txMessage.seq # NewMessage.seq => budget' = budget
      BY <1>10, <2>3, SentEffect
    <3>2. link.txMessage.seq # NewMessage.seq
      <4>1. NewMessage.seq = MaxSends - budget.sends + 1 /\ link.txMessage.seq \in Nat
        BY FreshTypes DEF NewMessage
      <4>2. QED
        BY <1>4, <1>5, <4>1
    <3>3. IsTransmitting(link') <=> IsTransmitting(link)
      BY <3>1 DEF IsTransmitting
    <3>4. QED
      BY <1>1, <2>1, <2>2, <3>1, <3>2, <3>3, FreshStays
  <2>4. CASE link.txMessage.kind = "goodCrc"
    <3>1. ~Busy("msg")
      BY <2>4 DEF Busy
    <3>2. CASE SendsNext
      BY <1>1, <2>2, <3>1, <3>2, FreshSends
    <3>3. CASE ~SendsNext
      <4>1. /\ ~IsTransmitting(link') /\ link'.tx = link.tx
            /\ link'.txMessage.seq = None /\ budget' = budget
        BY <1>10, <2>4, <3>3, SentEffect
      <4>2. ~Busy("msg")'
        BY <4>1 DEF Busy
      <4>3. QED
        BY <1>1, <2>1, <2>2, <3>1, <4>1, <4>2, FreshIdles
    <3>4. QED
      BY <3>2, <3>3
  <2>5. QED
    BY <2>3, <2>4 DEF Prompt, IInv, GoodSlot
<1>11. CASE HandleDiscarded
  <2>1. link.tx = "idle" /\ "txDisc" \in flags /\ budget' = budget
    BY <1>11, HandledLemma DEF HandleDiscarded, Flags
  <2>2. IsTransmitting(link)
    BY <2>1 DEF Prompt, Outgoing, TxFlags
  <2>3. /\ ~IsTransmitting(link') /\ link'.tx = link.tx /\ link'.txMessageId = NextId(link)
        /\ link'.txMessage.seq = None
    BY <1>11, DiscardEffect DEF Ended
  <2>4. ~Busy("msg")'
    BY <2>3 DEF Busy
  <2>5. QED
    BY <1>1, <2>1, <2>2, <2>3, <2>4, FreshIdles
<1>12. CASE TimerExpires
  <2>1. IsTransmitting(link) /\ link.tx = "idle" /\ link.txMessage.kind = "msg" /\ budget' = budget
    BY <1>12, ExpireEffect DEF TimerExpires
  <2>2. CASE /\ ~IsTransmitting(link') /\ link'.tx = link.tx
             /\ link'.txMessageId = NextId(link) /\ link'.txMessage.seq = None
    <3>1. ~Busy("msg")'
      BY <2>2 DEF Busy
    <3>2. QED
      BY <1>1, <2>1, <2>2, <3>1, FreshIdles
  <2>3. CASE /\ Started(link') /\ link'.txMessage.kind = "msg"
             /\ link'.txMessageId = link.txMessageId
             /\ link'.txMessage.seq = link.txMessage.seq
             /\ link'.txMessage.id = link.txMessageId
    <3>1. IsTransmitting(link') /\ link'.out.id = link'.txMessageId
      BY <2>3 DEF Started
    <3>2. QED
      BY <1>1, <2>1, <2>3, <3>1, FreshStays
  <2>4. QED
    BY <1>12, <2>2, <2>3, ExpireEffect
<1>13. QED
  BY <1>6, <1>7, <1>8, <1>9, <1>10, <1>11, <1>12 DEF Software, IsrEnter, HandleResetDiscarded

(* Only a message of ours counts against MaxSends. *)
LEMMA SendsUnspent ==
  ASSUME TypeOK, NEW what \in {"messages", "losses", "cable", "resets", "plugs"}, Spend(what)
  PROVE  budget'.sends = budget.sends
BY DEF Spend, TypeOK, Budget

(* A call of sendMessage uses a new ID too. *)
LEMMA FreshClient ==
  ASSUME Prompt, Fresh, Client
  PROVE  Fresh'
<1>1. ClientSends \/ ClientSendsHardReset
  BY DEF Client, Prompt, ThreadChecks, ThreadFills, ThreadTransmits
<1>2. flags' = flags /\ wire' = wire /\ plugged' = plugged /\ partner' = partner
  BY <1>1 DEF ClientSends, ClientSendsHardReset
<1>3. NewMessageIsNew' /\ Forgotten'
  BY <1>2 DEF Fresh, NewMessageIsNew, Forgotten, Resetting
<1>4. CASE ClientSends
  <2>1. SendsNext /\ ~IsTransmitting(link) /\ link'.txMessageId = link.txMessageId
    BY <1>4, ClientEffect
  <2>2. ~Busy("msg")
    BY <2>1 DEF Busy
  <2>3. QED
    BY <1>2, <1>3, <2>1, <2>2, FreshSends DEF Fresh
<1>5. CASE ClientSendsHardReset
  <2>1. /\ link'.txMessageId = link.txMessageId /\ link'.txMessage = link.txMessage
        /\ link'.txRetryCount = link.txRetryCount /\ link'.out.kind = "hardReset"
    BY <1>5, HardResetEffect
  <2>2. budget'.sends = budget.sends
    BY <1>5, SendsUnspent DEF ClientSendsHardReset, Prompt, IInv
  <2>3. IsTransmitting(link') <=> IsTransmitting(link)
    BY <2>1 DEF IsTransmitting
  <2>4. QED
    BY <1>2, <1>3, <2>1, <2>2, <2>3, FreshStays DEF Fresh
<1>6. QED
  BY <1>1, <1>4, <1>5

(* The controller stays as it is; the partner may forget. *)
LEMMA FreshForgets ==
  ASSUME Prompt, Fresh, Forgotten', budget'.sends = budget.sends,
         link'.txMessageId = link.txMessageId, link'.txMessage = link.txMessage,
         link'.txRetryCount = link.txRetryCount, link'.out = link.out,
         link'.tx # "idle" => link.tx # "idle",
         partner'.confused = partner.confused, partner'.lastSeq = partner.lastSeq,
         partner'.lastId \in {partner.lastId, NoId}
  PROVE  Fresh'
<1>1. link.txMessageId \in Nat /\ partner.lastId \in Int
  BY FreshTypes DEF NoId
<1>2. IsTransmitting(link') <=> IsTransmitting(link)
  BY DEF IsTransmitting
<1>3. Busy("msg")' <=> Busy("msg")
  BY <1>2 DEF Busy
<1>4. Numbered'
  <2>1. Upcoming' = Upcoming
    BY <1>3 DEF Upcoming
  <2>2. QED
    BY <1>1, <1>3, <2>1 DEF Fresh, Numbered, NoId
<1>5. Labelled' /\ NewMessageIsNew'
  BY <1>3 DEF Fresh, Labelled, NewMessageIsNew
<1>6. QED
  BY <1>4, <1>5 DEF Fresh

(* The partner takes a message with the last ID for a repetition. *)
LEMMA HearsFresh ==
  ASSUME NEW p \in Partner, NEW packet \in Packet
  PROVE  LET q == PartnerHears(p, packet)
         IN  /\ packet.kind = "msg" =>
                  /\ q.lastId = packet.id /\ q.lastSeq = packet.seq
                  /\ q.confused <=> (p.confused \/ Confusing(p, packet))
             /\ packet.kind # "msg" =>
                  /\ q.confused = p.confused /\ q.lastSeq = p.lastSeq
                  /\ q.lastId = IF packet.kind = "hardReset" THEN NoId ELSE p.lastId
<1>1. CASE packet.kind = "msg"
  <2>1. PartnerHears(p, packet) =
          [p EXCEPT !.due = packet.id, !.lastId = packet.id, !.lastSeq = packet.seq,
                    !.confused = @ \/ Confusing(p, packet)]
    BY <1>1 DEF PartnerHears
  <2>2. QED
    BY <1>1, <2>1 DEF Partner
<1>2. CASE packet.kind # "msg"
  BY <1>2 DEF PartnerHears, NewPartnerSession, Partner
<1>3. QED
  BY <1>1, <1>2

(* The partner hears a packet of ours. *)
LEMMA FreshHears ==
  ASSUME ~LateIsr, Prompt, Fresh, link.tx = "sending", wire.from = "us", plugged,
         partner' = PartnerHears(partner, wire.packet),
         budget' = budget, link' = [link EXCEPT !.tx = "idle"], Forgotten'
  PROVE  Fresh'
<1>1. link \in Link /\ partner \in Partner /\ wire.packet = link.out /\ link.out \in Packet
      /\ link.txMessageId \in Nat /\ partner.lastId \in Int
  BY FreshTypes DEF Prompt, IInv, SendingIsOnWire, Link, NoId
<1>2. /\ link'.tx = "idle" /\ link'.out = link.out /\ link'.txMessageId = link.txMessageId
      /\ link'.txMessage = link.txMessage /\ link'.txRetryCount = link.txRetryCount
  BY <1>1 DEF Link
<1>3. CASE link.out.kind # "msg"
  <2>1. /\ partner'.confused = partner.confused /\ partner'.lastSeq = partner.lastSeq
        /\ partner'.lastId \in {partner.lastId, NoId}
    BY <1>1, <1>3, HearsFresh
  <2>2. QED
    BY <1>2, <2>1, FreshForgets
<1>4. CASE link.out.kind = "msg"
  <2>1. /\ link.out = link.txMessage /\ IsTransmitting(link)
        /\ link.out.id = link.txMessageId
    BY <1>4 DEF Prompt, Outgoing, Fresh, Labelled
  <2>2. Busy("msg") /\ Busy("msg")'
    BY <1>2, <1>4, <2>1 DEF Busy, IsTransmitting
  <2>3. /\ partner'.lastId = link.txMessageId /\ partner'.lastSeq = link.txMessage.seq
        /\ partner'.confused <=> (partner.confused \/ Confusing(partner, link.out))
    BY <1>1, <1>4, <2>1, HearsFresh
  <2>4. link.txMessage.seq = Upcoming
    BY <2>2, FreshTypes DEF Fresh, Labelled, Upcoming
  <2>5. /\ Upcoming \in Nat /\ partner.lastSeq \in Nat /\ IdMod \in Nat \ {0}
        /\ link.out.seq = Upcoming
    BY <2>1, <2>4, FreshTypes
  <2>6. ~Confusing(partner, link.out)
    <3> SUFFICES ASSUME Confusing(partner, link.out) PROVE FALSE
      OBVIOUS
    <3> DEFINE d == Upcoming - partner.lastSeq
    <3>1. partner.lastId = link.txMessageId /\ d # 0 /\ d < IdMod
      BY <2>1, <2>5 DEF Confusing
    <3>2. d >= 0 /\ link.txMessageId \in {partner.lastId + d, partner.lastId + d - IdMod}
      BY <1>1, <3>1 DEF Fresh, Numbered, NoId
    <3>3. d \in Int
      BY <2>5
    <3> HIDE DEF d
    <3>4. QED
      BY <1>1, <2>5, <3>1, <3>2, <3>3
  <2>7. Numbered'
    <3>1. Upcoming' = Upcoming
      BY <2>2 DEF Upcoming
    <3>2. Upcoming' - partner'.lastSeq = 0
      BY <2>3, <2>4, <2>5, <3>1
    <3>3. QED
      BY <1>1, <1>2, <2>2, <2>3, <3>2 DEF Numbered
  <2>8. Labelled'
    BY <1>2, <2>2 DEF Fresh, Labelled
  <2>9. QED
    BY <2>3, <2>6, <2>7, <2>8 DEF Fresh, NewMessageIsNew
<1>5. QED
  BY <1>3, <1>4

(* What the partner hears is the message being sent. *)
LEMMA FreshHardware ==
  ASSUME ~LateIsr, Prompt, Fresh, Hardware
  PROVE  Fresh'
<1>1. /\ TypeOK /\ link \in Link /\ partner \in Partner /\ plugged' = plugged
  BY DEF Prompt, IInv, TypeOK, Hardware, HwStarts, HwDiscards, OurPacketEnds, PartnerPacketEnds
<1>2. CASE HwStarts \/ HwDiscards
  <2>1. /\ partner' = partner /\ budget' = budget
        /\ wire' = wire \/ wire'.from = "us"
        /\ flags' \subseteq flags \union {"hrstDisc", "txDisc"}
        /\ link.tx = "requested"
        /\ \E tx \in {"idle", "sending"} : link' = [link EXCEPT !.tx = tx]
    BY <1>2 DEF HwStarts, HwDiscards, Raise
  <2>2. /\ link'.out = link.out /\ link'.txMessageId = link.txMessageId
        /\ link'.txMessage = link.txMessage /\ link'.txRetryCount = link.txRetryCount
    BY <1>1, <2>1 DEF Link
  <2>3. Forgotten'
    BY <1>1, <2>1 DEF Fresh, Forgotten, Resetting
  <2>4. QED
    BY <2>1, <2>2, <2>3, FreshForgets
<1>3. CASE OurPacketEnds
  <2>1. /\ Enabled = {} /\ wire.from = "us" /\ wire'.from = "nobody"
        /\ flags' = flags \/ flags' = flags \union {"txSent"} \/ flags' = flags \union {"hrstSent"}
        /\ wire.packet.kind # "hardReset" => flags' = flags \/ flags' = flags \union {"txSent"}
        /\ link.tx # "sending" => link' = link
        /\ link.tx = "sending" => link' = [link EXCEPT !.tx = "idle"]
    BY <1>3 DEF OurPacketEnds, HardwareMayAct, EmptyLine, Raise
  <2>2. plugged => flags = {}
    BY <2>1, QuietLemma
  <2>3. /\ link'.out = link.out /\ link'.txMessageId = link.txMessageId
        /\ link'.txMessage = link.txMessage /\ link'.txRetryCount = link.txRetryCount
        /\ link'.tx # "idle" => link.tx # "idle"
    BY <1>1, <2>1 DEF Link
  <2>4. CASE /\ link.tx = "sending" /\ plugged
             /\ partner' = PartnerHears(partner, wire.packet) /\ budget' = budget
    <3>1. wire.packet = link.out /\ link.out \in Packet
      BY <1>1, <2>4 DEF Prompt, IInv, SendingIsOnWire, Link
    <3>2. wire.packet.kind = "hardReset" => partner'.lastId = NoId
      BY <1>1, <2>4, <3>1, HearsFresh
    <3>3. wire.packet.kind # "hardReset" => ~Resetting'
      BY <2>1, <2>2, <2>4 DEF Resetting
    <3>4. Forgotten'
      BY <1>1, <2>4, <3>2, <3>3 DEF Forgotten
    <3>5. QED
      BY <2>1, <2>4, <3>4, FreshHears
  <2>5. CASE partner' = partner
    <3>1. \/ plugged /\ wire.packet.kind # "hardReset" /\ Spend("losses")
          \/ link.tx # "sending" /\ budget' = budget /\ flags' = flags
          \/ ~plugged /\ budget' = budget
          \/ /\ link.tx = "sending" /\ plugged
             /\ partner' = PartnerHears(partner, wire.packet) /\ budget' = budget
      BY <1>3 DEF OurPacketEnds
    <3>2. CASE \/ plugged /\ wire.packet.kind # "hardReset" /\ Spend("losses")
               \/ link.tx # "sending" /\ budget' = budget /\ flags' = flags
               \/ ~plugged /\ budget' = budget
      <4>1. budget'.sends = budget.sends
        BY <1>1, <3>2, SendsUnspent
      <4>2. Resetting' => Resetting \/ ~plugged
        BY <2>1, <2>2, <3>2 DEF Resetting
      <4>3. Forgotten'
        BY <1>1, <2>5, <4>2 DEF Fresh, Forgotten
      <4>4. QED
        BY <2>3, <2>5, <4>1, <4>3, FreshForgets
    <3>3. QED
      BY <2>4, <3>1, <3>2
  <2>6. QED
    BY <1>3, <2>4, <2>5 DEF OurPacketEnds
<1>4. CASE PartnerPacketEnds
  <2>1. /\ Enabled = {} /\ wire.from = "partner" /\ wire'.from = "nobody" /\ partner' = partner
        /\ link' = link
        /\ \/ flags' = flags
           \/ flags' = flags \union {"rxHrst"} /\ wire.packet.kind = "hardReset"
           \/ flags' = flags \union {"rxMsgEnd"}
        /\ budget' = budget \/ Spend("losses")
    BY <1>4 DEF PartnerPacketEnds, HardwareMayAct, EmptyLine, Raise
  <2>2. flags = {}
    BY <2>1, QuietLemma DEF Prompt, Served
  <2>3. Resetting' => Resetting
    BY <2>1, <2>2 DEF Resetting
  <2>4. Forgotten'
    BY <1>1, <2>1, <2>3 DEF Fresh, Forgotten
  <2>5. budget'.sends = budget.sends
    BY <1>1, <2>1, SendsUnspent
  <2>6. QED
    BY <2>1, <2>4, <2>5, FreshForgets
<1>5. QED
  BY <1>2, <1>3, <1>4 DEF Hardware

(* The partner forgets our last ID with a reset or an attach only. *)
LEMMA FreshEnvironment ==
  ASSUME ~LateIsr, Prompt, Fresh, Environment
  PROVE  Fresh'
<1>1. /\ TypeOK /\ partner \in Partner /\ link' = link
  BY DEF Prompt, IInv, TypeOK, Environment, PartnerSends, PartnerRetries, PartnerGivesUp, PartnerAcks,
         PartnerResets, PartnerTalksToCable, PartnerSpeaks, Plug
<1>2. \/ budget' = budget
      \/ \E what \in {"messages", "cable", "resets", "plugs"} : Spend(what)
  BY DEF Environment, PartnerSends, PartnerRetries, PartnerGivesUp, PartnerAcks,
         PartnerResets, PartnerTalksToCable, Plug
<1>3. budget'.sends = budget.sends
  BY <1>1, <1>2, SendsUnspent
<1>4. CASE PartnerResets \/ Plug
  <2>1. partner' = NewPartnerSession(partner)
    BY <1>4 DEF PartnerResets, Plug
  <2>2. /\ partner'.lastId = NoId /\ partner'.confused = partner.confused
        /\ partner'.lastSeq = partner.lastSeq
    BY <1>1, <2>1 DEF NewPartnerSession, Partner
  <2>3. QED
    BY <1>1, <1>3, <2>2, FreshForgets DEF Forgotten
<1>5. CASE PartnerSends \/ PartnerRetries \/ PartnerGivesUp \/ PartnerAcks \/ PartnerTalksToCable
  <2>1. /\ partner'.lastId = partner.lastId /\ partner'.confused = partner.confused
        /\ partner'.lastSeq = partner.lastSeq
    BY <1>1, <1>5 DEF PartnerSends, PartnerRetries, PartnerGivesUp, PartnerAcks, PartnerTalksToCable,
                      Partner
  <2>2. /\ flags' = flags /\ plugged' = plugged
        /\ wire' = wire \/ wire'.packet.kind # "hardReset"
    BY <1>5 DEF PartnerSends, PartnerRetries, PartnerGivesUp, PartnerAcks, PartnerTalksToCable,
                PartnerSpeaks, Signal
  <2>3. Forgotten'
    BY <2>1, <2>2 DEF Fresh, Forgotten, Resetting
  <2>4. QED
    BY <1>1, <1>3, <2>1, <2>3, FreshForgets
<1>6. QED
  BY <1>4, <1>5 DEF Environment

(* No ID has been used. *)
LEMMA FreshInit ==
  ASSUME Init
  PROVE  Fresh
<1>1. /\ link.txMessageId = 0 /\ link.txRetryCount = 0 /\ link.tx = "idle"
      /\ link.txMessage.seq = None /\ budget.sends = MaxSends
      /\ partner.lastId = NoId /\ partner.confused = FALSE /\ MaxSends \in Nat
  BY LinkAssumption DEF Init, Signal
<1>2. QED
  BY <1>1 DEF Fresh, NewMessageIsNew, Forgotten, Numbered, Labelled, Busy, IsTransmitting, NoId,
              None

(* A new message of ours is never taken for a repetition of the last one   *)
(* that the partner heard (PDController.cpp, prepareNextTxMessage), unless *)
(* it has missed all of the IdMod - 1 messages in between or more: however *)
(* often the IDs wrap around, and whatever is lost, given up, reset or     *)
(* detached.                                                               *)
THEOREM NewMessagesAreNew ==
  ASSUME ~LateIsr, ~ThreadSends
  PROVE  Spec => []NewMessageIsNew
<1>1. Init => Prompt /\ Fresh
  BY PromptInit, FreshInit
<1>2. ASSUME Prompt, Fresh, [Next]_vars PROVE Fresh'
  <2>1. CASE UNCHANGED vars
    BY <1>2, <2>1 DEF vars, Fresh, NewMessageIsNew, Forgotten, Resetting, Numbered, Upcoming,
                      Labelled, Busy
  <2>2. QED
    BY <1>2, <2>1, FreshSoftware, FreshClient, FreshHardware, FreshEnvironment DEF Next
<1>3. Prompt /\ Fresh /\ [Next]_vars => (Prompt /\ Fresh)'
  BY <1>2, PromptLemma
<1>4. Fresh => NewMessageIsNew
  BY DEF Fresh
<1>5. QED
  BY <1>1, <1>3, <1>4, PTL DEF Spec

----------------------------------------------------------------------------
(***************************************************************************)
(* A message that we confirmed is delivered.  The ID that the controller   *)
(* remembers is that of the message heard last.  Until the partner's IDs   *)
(* have wrapped around, it is as far behind the ID of the partner's        *)
(* current message as the messages are apart, so the same ID is the same   *)
(* message.                                                                *)
(***************************************************************************)

(* The GoodCRC is to be sent, on its way, or has been sent. *)
Answering == Busy("goodCrc") /\ (link.tx # "idle" \/ "txSent" \in flags)

(* A message waits for the GoodCRC that confirms it, and nothing comes in  *)
(* while the GoodCRC goes out.                                             *)
Acking ==
  /\ link.lastMessage # None => Busy("goodCrc")
  /\ Busy("goodCrc") => "txDisc" \notin flags
  /\ Answering => wire.from # "partner"
  /\ Answering /\ partner.waiting => "typeC" \notin flags /\ link.lastHeard = partner.seq
  /\ "typeC" \in flags => ~partner.waiting
  /\ link.tx # "idle" /\ link.out.kind = "goodCrc" => link.out.id = link.lastRxMessageId
  /\ link.lastHeard = None => link.lastRxMessageId = NoId

Kept(n) ==
  \/ Delivered(n)
  \/ n \in link.mistaken
  \/ link.lastMessage = n /\ n # None /\ Answering

(* The ID remembered is this partner's, and stays so. *)
Recalls ==
  /\ ~Resetting /\ "typeC" \notin flags
  /\ link.lastRxMessageId # NoId /\ link.lastHeard \notin {None, Foreign}

(* How many messages the partner is ahead of the one heard last, counting  *)
(* the next one once it does not wait any more.                            *)
Behind == (IF partner.waiting THEN partner.seq ELSE partner.seq + 1) - link.lastHeard

Remembered ==
  Recalls =>
    /\ Behind >= 0
    /\ Behind = 0 => partner.waiting /\ Kept(partner.seq)
    /\ Behind < IdMod =>
         partner.id \in {link.lastRxMessageId + Behind, link.lastRxMessageId + Behind - IdMod}

Answered == AckedIsDelivered /\ Acking /\ Remembered

(* The types that the following lemmas need. *)
LEMMA AnswerTypes ==
  ASSUME Prompt
  PROVE  /\ link \in Link /\ partner \in Partner /\ budget \in Budget /\ status \subseteq flags
         /\ link.lastRxMessageId \in Int /\ link.lastRxMessageId >= NoId
         /\ link.lastRxMessageId < IdMod
         /\ link.lastMessage \in Nat /\ link.delivered \in Seq(Nat) /\ link.lastHeard \in Int
         /\ partner.id \in Nat /\ partner.id < IdMod /\ partner.seq \in Nat /\ partner.acked \in Nat
         /\ partner.waiting \in BOOLEAN
         /\ IdMod \in Nat \ {0} /\ Behind \in Int
<1>1. link \in Link /\ partner \in Partner /\ budget \in Budget /\ status \subseteq flags
  BY DEF Prompt, IInv, TypeOK, Served
<1>2. /\ link.lastRxMessageId \in NoId .. IdMod - 1 /\ link.lastMessage \in Nat
      /\ link.delivered \in Seq(Nat) /\ link.lastHeard \in Int
  BY <1>1 DEF Link
<1>3. /\ partner.id \in 0 .. IdMod - 1 /\ partner.seq \in Nat /\ partner.acked \in Nat
      /\ partner.waiting \in BOOLEAN
  BY <1>1 DEF Partner
<1>4. Behind \in Int
  BY <1>2, <1>3 DEF Behind
<1>5. QED
  BY <1>1, <1>2, <1>3, <1>4, LinkAssumption DEF NoId

(* When the transmitter is idle and has not just sent, or is busy with a   *)
(* message, nothing is being answered.                                     *)
LEMMA NotAnswering ==
  ASSUME \/ link.tx = "idle" /\ "txSent" \notin flags
         \/ link.txMessage.kind = "msg"
         \/ ~IsTransmitting(link)
  PROVE  ~Answering
BY DEF Answering, Busy

(* Nothing confirmed is lost. *)
LEMMA AckedStays ==
  ASSUME Prompt, Answered, partner'.acked = partner.acked,
         link'.delivered = link.delivered, link.mistaken \subseteq link'.mistaken,
         link.lastMessage # None /\ "txSent" \in flags =>
           link'.lastMessage = link.lastMessage /\ "txSent" \in flags'
  PROVE  AckedIsDelivered'
<1>1. status \subseteq flags
  BY AnswerTypes
<1>2. HandedOver(partner.acked) => HandedOver(partner.acked)'
  BY <1>1 DEF HandedOver
<1>3. QED
  BY <1>2 DEF Answered, AckedIsDelivered

(* Nothing is received, delivered or confirmed. *)
LEMMA AnswerKept ==
  ASSUME Prompt, Answered, Acking',
         link'.delivered = link.delivered, link'.mistaken = link.mistaken,
         link'.lastMessage = link.lastMessage, link'.lastHeard = link.lastHeard,
         link'.lastRxMessageId = link.lastRxMessageId,
         partner'.seq = partner.seq, partner'.id = partner.id,
         partner'.waiting = partner.waiting, partner'.acked = partner.acked,
         Resetting => Resetting', "typeC" \in flags => "typeC" \in flags',
         "txSent" \in flags => "txSent" \in flags' \/ link.lastMessage = None,
         Answering => Answering' \/ link.lastMessage = None
  PROVE  Answered'
<1>1. AckedIsDelivered'
  BY AckedStays
<1>2. Kept(partner.seq) => Kept(partner.seq)'
  BY DEF Kept, Delivered
<1>3. Recalls' => Recalls
  BY DEF Recalls
<1>4. Behind' = Behind
  BY DEF Behind
<1>5. Remembered'
  BY <1>2, <1>3, <1>4 DEF Answered, Remembered
<1>6. QED
  BY <1>1, <1>5 DEF Answered

(* A transmission ends or one of a message starts, and nothing was being   *)
(* answered.                                                               *)
LEMMA AnswerIdles ==
  ASSUME Prompt, Answered, ~Answering, "txSent" \in flags => link.lastMessage = None,
         link'.delivered = link.delivered, link'.mistaken = link.mistaken,
         link'.lastMessage \in {link.lastMessage, None}, link'.lastHeard = link.lastHeard,
         link'.lastRxMessageId = link.lastRxMessageId,
         partner' = partner, wire' = wire, flags' \subseteq flags,
         Resetting => Resetting', "typeC" \in flags => "typeC" \in flags',
         Busy("goodCrc")' => Busy("goodCrc") /\ link'.lastMessage = link.lastMessage
                             /\ link'.tx = "idle",
         link'.lastMessage # None => Busy("goodCrc")',
         link'.tx # "idle" => link'.out.kind # "goodCrc"
  PROVE  Answered'
<1>1. ~Answering'
  BY DEF Answering
<1>2. Acking'
  BY <1>1 DEF Answered, Acking
<1>3. AckedIsDelivered'
  BY AckedStays
<1>4. Kept(partner.seq) => Kept(partner.seq)'
  BY DEF Kept, Delivered
<1>5. Recalls' => Recalls
  BY DEF Recalls
<1>6. Behind' = Behind
  BY DEF Behind
<1>7. Remembered'
  BY <1>4, <1>5, <1>6 DEF Answered, Remembered
<1>8. QED
  BY <1>2, <1>3, <1>7 DEF Answered

(* The partner does not wait any longer for the confirmation of its        *)
(* message; its next message has the next ID.                              *)
LEMMA NextIsBehind ==
  ASSUME Prompt, Answered, partner.waiting, ~partner'.waiting, partner'.seq = partner.seq,
         partner'.id = (partner.id + 1) % IdMod,
         link'.lastHeard = link.lastHeard, link'.lastRxMessageId = link.lastRxMessageId,
         Recalls' => Recalls
  PROVE  Remembered'
<1> DEFINE d == Behind
<1>1. /\ d \in Int /\ partner.id \in Nat /\ partner.id < IdMod /\ IdMod \in Nat \ {0}
      /\ partner.seq \in Nat /\ link.lastHeard \in Int
      /\ link.lastRxMessageId \in Int /\ link.lastRxMessageId < IdMod
      /\ link.lastRxMessageId # NoId => link.lastRxMessageId >= 0
  BY AnswerTypes DEF NoId
<1>2. Behind' = d + 1
  BY <1>1 DEF Behind
<1>3. ASSUME Recalls'
      PROVE  /\ d + 1 > 0
             /\ d + 1 < IdMod =>
                  partner'.id \in {link.lastRxMessageId + (d + 1), link.lastRxMessageId + (d + 1) - IdMod}
  <2>1. /\ d >= 0 /\ link.lastRxMessageId # NoId
        /\ d < IdMod => partner.id \in {link.lastRxMessageId + d, link.lastRxMessageId + d - IdMod}
    BY <1>3 DEF Answered, Remembered, Recalls
  <2> HIDE DEF d
  <2>2. d + 1 < IdMod =>
          partner'.id \in {link.lastRxMessageId + (d + 1), link.lastRxMessageId + (d + 1) - IdMod}
    BY <1>1, <2>1, NextIdFollows
  <2>3. QED
    BY <1>1, <2>1, <2>2
<1> HIDE DEF d
<1>4. QED
  BY <1>1, <1>2, <1>3 DEF Remembered

(* A new message is kept while its GoodCRC is sent; what has the last ID   *)
(* is kept, delivered or mistaken.                                         *)
LEMMA AnswerReceives ==
  ASSUME Prompt, InOrder, Answered, HandleRx, rx.kind = "msg"
  PROVE  Answered'
<1>1. /\ "rxMsgEnd" \in flags /\ flags' = flags \ {"rxMsgEnd"} /\ "txSent" \notin flags
      /\ link.tx = "idle" /\ wire' = wire /\ partner' = partner
  BY HandledLemma DEF HandleRx, Flags
<1>2. ~Answering
  BY <1>1, NotAnswering
<1>3. /\ Started(link') /\ link'.txMessage.kind = "goodCrc" /\ link'.txMessage.id = rx.id
      /\ link'.lastRxMessageId = rx.id /\ link'.delivered = link.delivered
      /\ link'.lastHeard = rx.seq
      /\ link'.mistaken = IF rx.id = link.lastRxMessageId /\ Deceived(link, rx)
                          THEN link.mistaken \union {rx.seq} ELSE link.mistaken
      /\ rx.id # link.lastRxMessageId => link'.lastMessage = rx.seq
  BY <1>1, ReceiveEffect
<1>4. /\ partner.waiting /\ rx.seq = partner.seq /\ rx.id = partner.id /\ partner.seq > 0
      /\ ~Resetting
  BY <1>1 DEF InOrder, Current
<1>5. /\ partner.id \in Nat /\ partner.seq \in Nat /\ IdMod \in Nat \ {0}
      /\ link.lastHeard \in Int /\ link.lastRxMessageId \in Int
  BY AnswerTypes
<1>6. wire.from # "partner"
  BY <1>1 DEF Prompt, Served
<1>7. "typeC" \notin flags
  BY <1>4 DEF Answered, Acking
<1>8. Answering' /\ Busy("goodCrc")' /\ link'.tx = "requested" /\ link'.out.id = rx.id
  BY <1>3 DEF Answering, Busy, Started
<1>9. "txDisc" \notin flags'
  BY <1>1 DEF Prompt, Served
<1>10. Acking'
  BY <1>1, <1>3, <1>4, <1>6, <1>7, <1>8, <1>9 DEF Acking, None
<1>11. AckedIsDelivered'
  BY <1>1, <1>3, AckedStays
<1>12. Kept(partner.seq)'
  <2>1. CASE rx.id # link.lastRxMessageId
    BY <1>1, <1>3, <1>4, <1>8, <2>1 DEF Kept, None
  <2>2. CASE rx.id = link.lastRxMessageId /\ Deceived(link, rx)
    BY <1>1, <1>3, <1>4, <2>2 DEF Kept
  <2>3. CASE rx.id = link.lastRxMessageId /\ ~Deceived(link, rx)
    <3> DEFINE d == Behind
    <3>1. d = partner.seq - link.lastHeard
      BY <1>4 DEF Behind
    <3>2. link.lastRxMessageId # NoId
      BY <1>4, <1>5, <2>3 DEF NoId
    <3>3. link.lastHeard # None /\ link.lastHeard # Foreign /\ d < IdMod
      BY <1>4, <1>5, <2>3, <3>1, <3>2 DEF Deceived, Answered, Acking
    <3>4. Recalls
      BY <1>4, <1>7, <3>2, <3>3 DEF Recalls
    <3>5. /\ d >= 0 /\ (d = 0 => Kept(partner.seq))
          /\ d < IdMod => partner.id \in {link.lastRxMessageId + d, link.lastRxMessageId + d - IdMod}
      BY <3>4 DEF Answered, Remembered
    <3>6. d \in Int
      BY <1>5, <3>1
    <3> HIDE DEF d
    <3>7. d = 0
      BY <1>4, <1>5, <2>3, <3>3, <3>5, <3>6
    <3>8. Delivered(partner.seq) \/ partner.seq \in link.mistaken
      BY <1>2, <3>5, <3>7 DEF Kept
    <3>9. QED
      BY <1>1, <1>3, <2>3, <3>8 DEF Kept, Delivered
  <2>4. QED
    BY <2>1, <2>2, <2>3
<1>13. Behind' = 0
  BY <1>1, <1>3, <1>4, <1>5 DEF Behind
<1>14. Remembered'
  BY <1>1, <1>3, <1>4, <1>5, <1>12, <1>13 DEF Remembered
<1>15. QED
  BY <1>10, <1>11, <1>14 DEF Answered

(* The GoodCRC has been sent: the message is handed over. *)
LEMMA AnswerDelivers ==
  ASSUME Prompt, InOrder, Answered, HandleSent, link.txMessage.kind = "goodCrc"
  PROVE  Answered'
<1> DEFINE d == link.delivered
           n == link.lastMessage
<1>1. /\ flags' = flags \ {"txSent"} /\ link.tx = "idle" /\ wire' = wire /\ partner' = partner
  BY HandledLemma DEF HandleSent, Flags
<1>2. /\ link'.lastRxMessageId = link.lastRxMessageId
      /\ link'.lastHeard = link.lastHeard /\ link'.mistaken = link.mistaken
      /\ link'.lastMessage = None
      /\ link'.delivered = IF n = None THEN d ELSE Append(d, n)
      /\ (~IsTransmitting(link') /\ link'.tx = link.tx) \/ SendsNext
  BY SentEffect
<1>3. ~Busy("goodCrc")' /\ (link'.tx # "idle" => link'.out.kind # "goodCrc")
  BY <1>1, <1>2 DEF Busy, SendsNext, Started
<1>4. d \in Seq(Nat) /\ n \in Nat /\ status \subseteq flags
  BY AnswerTypes
<1>5. ASSUME NEW m, m # None, Delivered(m) \/ n = m PROVE Delivered(m)'
  <2>1. CASE n = None
    BY <1>2, <1>5, <2>1 DEF Delivered
  <2>2. CASE n # None
    <3>1. link'.delivered = Append(d, n)
      BY <1>2, <2>2
    <3> HIDE DEF d, n
    <3>2. /\ Len(Append(d, n)) = Len(d) + 1 /\ Len(d) \in Nat
          /\ \A i \in 1 .. Len(d) : Append(d, n)[i] = d[i]
          /\ Append(d, n)[Len(d) + 1] = n
      BY <1>4
    <3>3. CASE m = n
      <4>1. Len(d) + 1 \in 1 .. Len(Append(d, n))
        BY <3>2
      <4>2. QED
        BY <3>1, <3>2, <3>3, <4>1 DEF Delivered
    <3>4. CASE m # n
      <4>1. PICK i \in 1 .. Len(d) : d[i] = m
        BY <1>5, <3>4 DEF Delivered, d
      <4>2. i \in 1 .. Len(Append(d, n)) /\ Append(d, n)[i] = m
        BY <3>2, <4>1
      <4>3. QED
        BY <3>1, <4>2 DEF Delivered
    <3>5. QED
      BY <3>3, <3>4
  <2>3. QED
    BY <2>1, <2>2
<1>6. AckedIsDelivered'
  <2>1. CASE partner.acked = None
    BY <1>1, <2>1 DEF AckedIsDelivered, HandedOver
  <2>2. CASE partner.acked # None
    <3>1. \/ Delivered(partner.acked) \/ n = partner.acked
          \/ partner.acked \in link.mistaken
      BY <2>2 DEF Answered, AckedIsDelivered, HandedOver, Delivered
    <3>2. Delivered(partner.acked)' \/ partner.acked \in link'.mistaken
      BY <1>1, <1>2, <1>5, <2>2, <3>1 DEF Delivered
    <3>3. QED
      BY <1>1, <3>2 DEF Delivered, AckedIsDelivered, HandedOver
  <2>3. QED
    BY <2>1, <2>2
<1>7. Acking'
  BY <1>1, <1>2, <1>3 DEF Answered, Acking, Answering
<1>8. Recalls' => Recalls
  BY <1>1, <1>2 DEF Recalls, Resetting
<1>9. Behind' = Behind
  BY <1>1, <1>2 DEF Behind
<1>10. Kept(partner.seq) => Kept(partner.seq)' \/ partner.seq = None
  BY <1>1, <1>2, <1>5 DEF Kept
<1>11. partner.waiting => partner.seq # None
  BY DEF InOrder, None
<1>12. Remembered'
  BY <1>1, <1>2, <1>8, <1>9, <1>10, <1>11 DEF Answered, Remembered
<1>13. QED
  BY <1>6, <1>7, <1>12 DEF Answered

(* After a hard reset nothing is remembered. *)
LEMMA AnswerResets ==
  ASSUME Prompt, Answered, HandleReset
  PROVE  Answered'
<1>1. PICK f \in {"rxHrst", "hrstSent"} : Handles(f) /\ Clears(f)
  BY DEF HandleReset
<1>2. /\ f \in flags /\ flags' = flags \ {f} /\ flags \subseteq {"typeC", f} /\ link.tx = "idle"
      /\ wire' = wire /\ partner' = partner
  BY <1>1, HandledLemma DEF Flags
<1>3. /\ link'.lastRxMessageId = NoId /\ link'.lastMessage = None
      /\ link'.lastHeard = None /\ link'.mistaken = link.mistaken
      /\ link'.delivered = link.delivered
      /\ (~IsTransmitting(link') /\ link'.tx = link.tx) \/ SendsNext
  BY ResetEffect
<1>4. ~Busy("goodCrc")' /\ (link'.tx # "idle" => link'.out.kind # "goodCrc")
  BY <1>2, <1>3 DEF Busy, SendsNext, Started
<1>5. Acking'
  BY <1>2, <1>3, <1>4 DEF Answered, Acking, Answering
<1>6. AckedIsDelivered'
  BY <1>2, <1>3, AckedStays
<1>7. Remembered'
  BY <1>3 DEF Remembered, Recalls
<1>8. QED
  BY <1>5, <1>6, <1>7 DEF Answered

(* A handler lets go of the kept message only by delivering it. *)
LEMMA AnswerSoftware ==
  ASSUME ~LateIsr, Prompt, InOrder, Answered, Software
  PROVE  Answered'
<1>1. link \in Link
  BY AnswerTypes
<1>2. CASE IsrEnter \/ HandleResetDiscarded
  <2>1. /\ link' = link /\ partner' = partner /\ wire' = wire
        /\ flags' = flags \/ flags' = flags \ {"hrstDisc"}
    BY <1>2 DEF IsrEnter, HandleResetDiscarded, Handles, Clears
  <2>2. Answering' <=> Answering
    BY <2>1 DEF Answering, Busy
  <2>3. Acking'
    BY <2>1, <2>2 DEF Answered, Acking, Busy
  <2>4. QED
    BY <2>1, <2>2, <2>3, AnswerKept DEF Resetting
<1>3. CASE HandleTypeC
  <2>1. /\ link'.lastHeard = Foreign /\ link'.mistaken = link.mistaken
        /\ link'.tx = "idle" \/ link'.tx = link.tx
        /\ link'.out = link.out
        /\ link'.delivered = link.delivered /\ link'.lastMessage = link.lastMessage
        /\ link'.lastRxMessageId = link.lastRxMessageId
        /\ link'.txMessage = link.txMessage /\ link'.txRetryCount = link.txRetryCount
    BY <1>1, <1>3 DEF HandleTypeC, Link
  <2>2. /\ "typeC" \in flags /\ flags' = flags \ {"typeC"} /\ wire' = wire /\ partner' = partner
    BY <1>3, AnswerTypes DEF HandleTypeC, Handles, Clears
  <2>3. Busy("goodCrc")' <=> Busy("goodCrc")
    BY <2>1 DEF Busy, IsTransmitting
  <2>4. Answering' => Answering
    BY <2>1, <2>2, <2>3 DEF Answering
  <2>5. Acking'
    BY <2>1, <2>2, <2>3, <2>4 DEF Answered, Acking, Foreign, None
  <2>6. AckedIsDelivered'
    BY <2>1, <2>2, AckedStays
  <2>7. Remembered'
    BY <2>1 DEF Remembered, Recalls
  <2>8. QED
    BY <2>5, <2>6, <2>7 DEF Answered
<1>4. CASE HandleRx
  <2>1. /\ "rxMsgEnd" \in flags /\ flags' = flags \ {"rxMsgEnd"} /\ "txSent" \notin flags
        /\ link.tx = "idle" /\ wire' = wire /\ partner' = partner
    BY <1>4, HandledLemma DEF HandleRx, Flags
  <2>2. ~Answering
    BY <2>1, NotAnswering
  <2>3. Resetting => Resetting'
    BY <2>1 DEF Resetting
  <2>4. CASE link' = link
    <3>1. Busy("goodCrc")' <=> Busy("goodCrc")
      BY <2>4 DEF Busy
    <3>2. link'.lastMessage # None => Busy("goodCrc")'
      BY <2>4, <3>1 DEF Answered, Acking
    <3>3. QED
      BY <2>1, <2>2, <2>3, <2>4, <3>1, <3>2, AnswerIdles
  <2>5. CASE link' # link /\ rx.kind # "msg"
    <3>1. /\ ~IsTransmitting(link') /\ link'.tx = link.tx
          /\ link'.lastHeard = link.lastHeard /\ link'.mistaken = link.mistaken
          /\ link'.lastRxMessageId = link.lastRxMessageId /\ link'.delivered = link.delivered
          /\ link'.lastMessage = Interrupted(link)
      BY <1>4, <2>5, ReceiveEffect
    <3>2. link'.lastMessage = None
      BY <3>1 DEF Interrupted, Answered, Acking, Busy
    <3>3. ~Busy("goodCrc")'
      BY <3>1 DEF Busy
    <3>4. QED
      BY <2>1, <2>2, <2>3, <3>1, <3>2, <3>3, AnswerIdles
  <2>6. QED
    BY <1>4, <2>4, <2>5, AnswerReceives
<1>5. CASE HandleSent
  <2>1. /\ flags' = flags \ {"txSent"} /\ link.tx = "idle" /\ wire' = wire /\ partner' = partner
    BY <1>5, HandledLemma DEF HandleSent, Flags
  <2>2. CASE link.txMessage.kind = "msg"
    <3>1. link.lastMessage = None /\ ~Answering
      BY <2>2, NotAnswering DEF Answered, Acking, Busy
    <3>2. /\ link'.txMessage = link.txMessage /\ link'.tx = link.tx
          /\ link'.lastHeard = link.lastHeard /\ link'.mistaken = link.mistaken
          /\ link'.delivered = link.delivered /\ link'.lastMessage = link.lastMessage
          /\ link'.lastRxMessageId = link.lastRxMessageId
      BY <1>5, <2>2, SentEffect
    <3>3. ~Busy("goodCrc")'
      BY <2>2, <3>2 DEF Busy
    <3>4. Resetting => Resetting'
      BY <2>1 DEF Resetting
    <3>5. QED
      BY <2>1, <3>1, <3>2, <3>3, <3>4, AnswerIdles
  <2>3. CASE link.txMessage.kind = "goodCrc"
    BY <1>5, <2>3, AnswerDelivers
  <2>4. QED
    BY <2>2, <2>3 DEF Prompt, IInv, GoodSlot
<1>6. CASE HandleDiscarded
  <2>1. /\ "txDisc" \in flags /\ flags' = flags \ {"txDisc"} /\ "txSent" \notin flags
        /\ link.tx = "idle" /\ wire' = wire /\ partner' = partner
    BY <1>6, HandledLemma DEF HandleDiscarded, Flags
  <2>2. ~Answering /\ link.lastMessage = None
    BY <2>1, NotAnswering DEF Answered, Acking
  <2>3. /\ ~IsTransmitting(link') /\ link'.tx = link.tx
        /\ link'.lastHeard = link.lastHeard /\ link'.mistaken = link.mistaken
        /\ link'.lastRxMessageId = link.lastRxMessageId /\ link'.delivered = link.delivered
        /\ link'.lastMessage = link.lastMessage
    BY <1>6, DiscardEffect DEF Ended, Keeps
  <2>4. ~Busy("goodCrc")' /\ (Resetting => Resetting')
    BY <2>1, <2>3 DEF Busy, Resetting
  <2>5. QED
    BY <2>1, <2>2, <2>3, <2>4, AnswerIdles
<1>7. CASE TimerExpires
  <2>1. /\ link.txMessage.kind = "msg" /\ link.tx = "idle"
        /\ link'.lastHeard = link.lastHeard /\ link'.mistaken = link.mistaken
        /\ link'.lastRxMessageId = link.lastRxMessageId
        /\ link'.lastMessage = link.lastMessage /\ link'.delivered = link.delivered
        /\ \/ ~IsTransmitting(link') /\ link'.tx = link.tx
           \/ Started(link') /\ link'.txMessage.kind = "msg"
    BY <1>7, ExpireEffect
  <2>2. flags' = flags /\ wire' = wire /\ partner' = partner
    BY <1>7 DEF TimerExpires
  <2>3. ~Answering /\ link.lastMessage = None
    BY <2>1, NotAnswering DEF Answered, Acking, Busy
  <2>4. ~Busy("goodCrc")' /\ (link'.tx # "idle" => link'.out.kind # "goodCrc")
    BY <2>1 DEF Busy, Started
  <2>5. Resetting => Resetting'
    BY <2>2 DEF Resetting
  <2>6. QED
    BY <2>1, <2>2, <2>3, <2>4, <2>5, AnswerIdles
<1>8. QED
  BY <1>2, <1>3, <1>4, <1>5, <1>6, <1>7, AnswerResets DEF Software

(* Our own messages confirm nothing. *)
LEMMA AnswerClient ==
  ASSUME Prompt, Answered, Client
  PROVE  Answered'
<1>1. ClientSends \/ ClientSendsHardReset
  BY DEF Client, Prompt, ThreadChecks, ThreadFills, ThreadTransmits
<1>2. /\ flags' = flags /\ wire' = wire /\ partner' = partner /\ ~IsTransmitting(link)
  BY <1>1 DEF ClientSends, ClientSendsHardReset
<1>3. ~Answering /\ link.lastMessage = None
  BY <1>2, NotAnswering DEF Answered, Acking, Busy
<1>4. /\ link'.lastRxMessageId = link.lastRxMessageId /\ link'.lastMessage = link.lastMessage
      /\ link'.lastHeard = link.lastHeard /\ link'.mistaken = link.mistaken
      /\ link'.delivered = link.delivered
      /\ \/ SendsNext
         \/ /\ link'.out.kind = "hardReset" /\ link'.txRetryCount = link.txRetryCount
  BY <1>1, ClientEffect, HardResetEffect
<1>5. ~Busy("goodCrc")' /\ link'.out.kind # "goodCrc"
  BY <1>2, <1>4 DEF Busy, SendsNext, Started, IsTransmitting
<1>6. Resetting => Resetting'
  BY <1>2 DEF Resetting
<1>7. QED
  BY <1>2, <1>3, <1>4, <1>5, <1>6, AnswerIdles

(* The partner takes a GoodCRC with its ID for the confirmation of its     *)
(* message.                                                                *)
LEMMA HearsAnswer ==
  ASSUME NEW p \in Partner, NEW packet
  PROVE  LET q == PartnerHears(p, packet)
             confirmed == packet.kind = "goodCrc" /\ p.waiting /\ packet.id = p.id
         IN  /\ q.seq = p.seq
             /\ confirmed => ~q.waiting /\ q.id = (p.id + 1) % IdMod /\ q.acked = p.seq
             /\ packet.kind = "hardReset" => ~q.waiting /\ q.acked = p.acked
             /\ ~confirmed /\ packet.kind # "hardReset" =>
                  /\ q.waiting = p.waiting /\ q.id = p.id /\ q.acked = p.acked
BY DEF PartnerHears, NewPartnerSession, Partner

(* The partner hears a packet of ours.  If it is the GoodCRC it waits for, *)
(* its message has been kept, delivered or mistaken.                       *)
LEMMA AnswerHeard ==
  ASSUME ~LateIsr, Prompt, InOrder, Answered,
         Enabled = {}, link.tx = "sending", wire.from = "us", plugged,
         partner' = PartnerHears(partner, wire.packet),
         link' = [link EXCEPT !.tx = "idle"],
         flags' = {IF wire.packet.kind = "hardReset" THEN "hrstSent" ELSE "txSent"},
         wire'.from = "nobody"
  PROVE  Answered'
<1>1. /\ link \in Link /\ partner \in Partner /\ wire.packet = link.out
      /\ partner.id \in Nat
  BY AnswerTypes DEF Prompt, IInv, SendingIsOnWire
<1>2. /\ link'.tx = "idle" /\ link'.out = link.out
      /\ link'.txMessage = link.txMessage /\ link'.txRetryCount = link.txRetryCount
      /\ link'.delivered = link.delivered /\ link'.lastMessage = link.lastMessage
      /\ link'.lastRxMessageId = link.lastRxMessageId
      /\ link'.lastHeard = link.lastHeard /\ link'.mistaken = link.mistaken
  BY <1>1 DEF Link
<1>3. Busy("goodCrc")' <=> Busy("goodCrc")
  BY <1>2 DEF Busy, IsTransmitting
<1>4. wire.packet.kind = "hardReset" => ~Busy("goodCrc")
  BY <1>1 DEF Busy, Prompt, IInv, ResetIsIdle
<1>5. Answering' <=> Answering
  BY <1>2, <1>3, <1>4 DEF Answering
<1>6. flags = {} /\ status = {} /\ ~Resetting
  BY QuietLemma DEF Resetting
<1>7. ASSUME partner'.waiting => partner.waiting /\ partner'.seq = partner.seq
      PROVE  Acking'
  BY <1>2, <1>3, <1>5, <1>7 DEF Answered, Acking
<1> DEFINE confirmed == /\ wire.packet.kind = "goodCrc" /\ partner.waiting
                        /\ wire.packet.id = partner.id
<1>8. CASE confirmed
  <2>1. /\ ~partner'.waiting /\ partner'.id = (partner.id + 1) % IdMod
        /\ partner'.acked = partner.seq /\ partner'.seq = partner.seq
    BY <1>1, <1>8, HearsAnswer
  <2>2. Answering
    BY <1>1, <1>8 DEF Answering, Busy, Prompt, Outgoing
  <2>3. /\ link.lastRxMessageId = partner.id /\ link.lastHeard = partner.seq
        /\ "typeC" \notin flags
    BY <1>1, <1>8, <2>2 DEF Answered, Acking
  <2>4. partner.seq > 0 /\ partner.seq \in Nat
    BY <1>8, AnswerTypes DEF InOrder
  <2>5. Recalls
    BY <1>1, <1>6, <2>3, <2>4 DEF Recalls, NoId, None, Foreign
  <2>6. Behind = 0
    BY <1>8, <2>3, <2>4 DEF Behind
  <2>7. Kept(partner.seq)
    BY <2>5, <2>6 DEF Answered, Remembered
  <2>8. "txSent" \in flags'
    BY <1>8
  <2>9. AckedIsDelivered'
    BY <1>2, <2>1, <2>7, <2>8 DEF AckedIsDelivered, HandedOver, Kept, Delivered
  <2>10. Remembered'
    BY <1>2, <1>8, <2>1, <2>5, NextIsBehind
  <2>11. QED
    BY <1>7, <2>1, <2>9, <2>10 DEF Answered
<1>9. CASE wire.packet.kind = "hardReset"
  <2>1. ~partner'.waiting /\ partner'.acked = partner.acked
    BY <1>1, <1>9, HearsAnswer
  <2>2. Resetting'
    BY <1>9 DEF Resetting
  <2>3. AckedIsDelivered'
    BY <1>2, <1>6, <2>1, AckedStays
  <2>4. QED
    BY <1>7, <2>1, <2>2, <2>3 DEF Answered, Remembered, Recalls
<1>10. CASE ~confirmed /\ wire.packet.kind # "hardReset"
  <2>1. /\ partner'.waiting = partner.waiting /\ partner'.id = partner.id
        /\ partner'.acked = partner.acked /\ partner'.seq = partner.seq
    BY <1>1, <1>10, HearsAnswer
  <2>2. Acking'
    BY <1>7, <2>1
  <2>3. QED
    BY <1>2, <1>5, <1>6, <2>1, <2>2, AnswerKept
<1>11. QED
  BY <1>8, <1>9, <1>10

(* A GoodCRC that the partner hears is for the message kept or delivered. *)
LEMMA AnswerHardware ==
  ASSUME ~LateIsr, Prompt, InOrder, Answered, Hardware
  PROVE  Answered'
<1>1. /\ TypeOK /\ link \in Link /\ flags \subseteq Flags
  BY DEF Prompt, IInv, TypeOK
<1>2. /\ link'.out = link.out
      /\ link'.txMessage = link.txMessage /\ link'.txRetryCount = link.txRetryCount
      /\ link'.delivered = link.delivered /\ link'.lastMessage = link.lastMessage
      /\ link'.lastRxMessageId = link.lastRxMessageId
      /\ link'.lastHeard = link.lastHeard /\ link'.mistaken = link.mistaken
      /\ link'.tx # "idle" => link.tx # "idle"
  BY <1>1 DEF Hardware, HwStarts, HwDiscards, OurPacketEnds, PartnerPacketEnds, Link
<1>3. Busy("goodCrc")' <=> Busy("goodCrc")
  BY <1>2 DEF Busy, IsTransmitting
<1>4. CASE HwStarts \/ HwDiscards
  <2>1. /\ partner' = partner /\ link.tx = "requested"
        /\ \/ /\ flags' = flags /\ link'.tx # "idle" /\ wire'.from = "us"
           \/ /\ flags' = flags \union {"hrstDisc"} \/ flags' = flags \union {"txDisc"}
              /\ wire' = wire /\ wire.from = "partner"
    BY <1>1, <1>4 DEF HwStarts, HwDiscards, Raise, LineFree, Link
  <2>2. /\ flags \subseteq flags' /\ ("typeC" \in flags' => "typeC" \in flags)
        /\ "txSent" \in flags' => "txSent" \in flags
    BY <2>1
  <2>3. Answering' <=> Answering /\ wire.from # "partner"
    <3>1. Answering <=> Busy("goodCrc")
      BY <2>1 DEF Answering
    <3>2. Answering => wire.from # "partner"
      BY DEF Answered, Acking
    <3>3. QED
      BY <1>3, <2>1, <2>2, <3>1, <3>2 DEF Answering
  <2>4. Busy("goodCrc") => wire.from # "partner"
    BY <2>1 DEF Answered, Acking, Answering
  <2>5. Acking'
    BY <1>2, <1>3, <2>1, <2>2, <2>3, <2>4 DEF Answered, Acking
  <2>6. Resetting => Resetting'
    <3>1. wire.from = "partner" => wire' = wire
      BY <1>4 DEF HwStarts, HwDiscards, LineFree
    <3>2. QED
      BY <2>2, <3>1 DEF Resetting
  <2>7. Answering => Answering'
    BY <2>3 DEF Answered, Acking
  <2>8. QED
    BY <1>2, <2>1, <2>2, <2>5, <2>6, <2>7, AnswerKept
<1>5. CASE OurPacketEnds
  <2>1. /\ Enabled = {} /\ wire.from = "us" /\ wire'.from = "nobody" /\ flags \subseteq flags'
        /\ link.tx # "sending" => link' = link /\ flags' = flags
        /\ link.tx = "sending" =>
             /\ link' = [link EXCEPT !.tx = "idle"]
             /\ flags' = flags \union {IF wire.packet.kind = "hardReset" THEN "hrstSent" ELSE "txSent"}
    BY <1>5 DEF OurPacketEnds, HardwareMayAct, EmptyLine, Raise
  <2>2. plugged => flags = {}
    BY <2>1, QuietLemma
  <2>3. CASE /\ link.tx = "sending" /\ plugged
             /\ partner' = PartnerHears(partner, wire.packet)
    BY <2>1, <2>2, <2>3, AnswerHeard
  <2>4. CASE partner' = partner
    <3>1. Answering' <=> Answering
      <4>1. CASE link.tx # "sending"
        BY <2>1, <4>1 DEF Answering, Busy
      <4>2. CASE link.tx = "sending"
        <5>1. wire.packet.kind = "hardReset" => ~Busy("goodCrc")
          BY <4>2 DEF Busy, Prompt, IInv, ResetIsIdle, SendingIsOnWire
        <5>2. link'.tx = "idle"
          BY <1>1, <2>1, <4>2 DEF Link
        <5>3. QED
          BY <1>3, <2>1, <4>2, <5>1, <5>2 DEF Answering
      <4>3. QED
        BY <4>1, <4>2
    <3>2. "txDisc" \in flags' => "txDisc" \in flags
      BY <2>1
    <3>3. "typeC" \in flags' => "typeC" \in flags
      BY <2>1
    <3>4. Acking'
      BY <1>2, <1>3, <2>1, <2>4, <3>1, <3>2, <3>3 DEF Answered, Acking
    <3>5. Resetting => Resetting'
      BY <2>1 DEF Resetting
    <3>6. QED
      BY <1>2, <2>1, <2>4, <3>1, <3>4, <3>5, AnswerKept
  <2>5. QED
    BY <1>5, <2>3, <2>4 DEF OurPacketEnds
<1>6. CASE PartnerPacketEnds
  <2>1. /\ Enabled = {} /\ wire.from = "partner" /\ wire'.from = "nobody" /\ partner' = partner
        /\ link' = link /\ flags \subseteq flags' /\ flags' \subseteq flags \union {"rxHrst", "rxMsgEnd"}
        /\ ~link.ccPin \/ (wire.packet.kind = "hardReset" => "rxHrst" \in flags')
    BY <1>6 DEF PartnerPacketEnds, HardwareMayAct, EmptyLine, Raise
  <2>2. plugged
    BY <2>1 DEF Prompt, Served
  <2>3. link.ccPin
    BY <2>1, <2>2, QuietLemma, Zenon
  <2>4. Resetting => Resetting'
    BY <2>1, <2>3 DEF Resetting
  <2>5. Answering' <=> Answering
    BY <2>1 DEF Answering, Busy
  <2>6. "typeC" \notin flags' \/ "typeC" \in flags
    BY <2>1
  <2>7. "txDisc" \notin flags' \/ "txDisc" \in flags
    BY <2>1
  <2>8. Acking'
    BY <1>3, <2>1, <2>5, <2>6, <2>7 DEF Answered, Acking
  <2>9. QED
    BY <2>1, <2>4, <2>5, <2>8, AnswerKept
<1>7. QED
  BY <1>4, <1>5, <1>6 DEF Hardware

(* The partner speaks only when no answer to it is due or on its way.      *)
LEMMA AnswerSpeaks ==
  ASSUME ~LateIsr, Prompt, Answered, NEW packet, PartnerSpeaks(packet)
  PROVE  /\ link' = link /\ flags = {} /\ flags' = {} /\ ~Resetting
         /\ packet.kind = "hardReset" => Resetting'
         /\ ~Answering
         /\ Acking'
<1>1. /\ link' = link /\ flags' = flags /\ plugged /\ Enabled = {} /\ ~AnswerDue
      /\ wire.from = "nobody" /\ wire' = [from |-> "partner", packet |-> packet]
  BY DEF PartnerSpeaks, HardwareMayAct, LineFree
<1>2. flags = {}
  BY <1>1, QuietLemma
<1>3. ~Answering
  <2> SUFFICES ASSUME Answering PROVE FALSE
    OBVIOUS
  <2>1. link.tx # "idle" /\ Busy("goodCrc")
    BY <1>2 DEF Answering
  <2>2. link.out.kind = "goodCrc"
    BY <2>1 DEF Prompt, Outgoing, Busy
  <2>3. link.tx = "sending"
    BY <1>1, <2>1, <2>2 DEF AnswerDue, Prompt, IInv, TypeOK, Link
  <2>4. QED
    BY <1>1, <2>3 DEF Prompt, IInv, SendingIsOnWire
<1>4. ~Answering'
  BY <1>1, <1>3 DEF Answering, Busy
<1>5. Acking'
  BY <1>1, <1>2, <1>4 DEF Answered, Acking, Busy
<1>6. QED
  BY <1>1, <1>2, <1>3, <1>5 DEF Resetting

(* A new message of the partner is one ahead, and has the next ID. *)
LEMMA AnswerEnvironment ==
  ASSUME ~LateIsr, Prompt, InOrder, Answered, Environment
  PROVE  Answered'
<1>1. /\ partner \in Partner /\ partner.seq \in Nat /\ link.lastHeard \in Int
      /\ status \subseteq flags
  BY AnswerTypes
<1>2. CASE PartnerSends
  <2>1. /\ PartnerSpeaks([kind |-> "msg", id |-> partner.id, seq |-> partner.seq + 1])
        /\ partner' = [partner EXCEPT !.seq = @ + 1, !.waiting = TRUE, !.tries = NRetryCount]
        /\ ~partner.waiting
    BY <1>2 DEF PartnerSends
  <2>2. /\ partner'.id = partner.id /\ partner'.acked = partner.acked /\ partner'.waiting = TRUE
        /\ partner'.seq = partner.seq + 1
    BY <1>1, <2>1 DEF Partner
  <2>3. link' = link /\ flags = {} /\ flags' = {} /\ ~Resetting /\ Acking'
    BY <2>1, AnswerSpeaks
  <2>4. AckedIsDelivered'
    BY <2>2, <2>3, AckedStays
  <2>5. Recalls' => Recalls
    BY <2>3 DEF Recalls
  <2>6. Behind' = Behind
    BY <2>1, <2>2, <2>3 DEF Behind
  <2>7. Recalls => Behind # 0
    BY <2>1 DEF Answered, Remembered
  <2>8. Remembered'
    BY <2>2, <2>3, <2>5, <2>6, <2>7 DEF Answered, Remembered
  <2>9. QED
    BY <2>3, <2>4, <2>8 DEF Answered
<1>3. ASSUME PartnerRetries \/ PartnerAcks \/ PartnerTalksToCable
      PROVE  Answered'
  <2>1. PICK packet : PartnerSpeaks(packet)
    BY <1>3 DEF PartnerRetries, PartnerAcks, PartnerTalksToCable
  <2>2. /\ partner'.seq = partner.seq /\ partner'.id = partner.id
        /\ partner'.waiting = partner.waiting /\ partner'.acked = partner.acked
    BY <1>1, <1>3 DEF PartnerRetries, PartnerAcks, PartnerTalksToCable, Partner
  <2>3. link' = link /\ flags = {} /\ ~Resetting /\ ~Answering /\ Acking'
    BY <2>1, AnswerSpeaks
  <2>4. QED
    BY <2>2, <2>3, AnswerKept
<1>4. ASSUME partner' = NewPartnerSession(partner)
      PROVE  ~partner'.waiting /\ partner'.acked = partner.acked
  BY <1>1, <1>4 DEF NewPartnerSession, Partner
<1>5. CASE PartnerResets
  <2>1. /\ PartnerSpeaks(Signal("hardReset")) /\ Signal("hardReset").kind = "hardReset"
        /\ partner' = NewPartnerSession(partner)
    BY <1>5 DEF PartnerResets, Signal
  <2>2. link' = link /\ flags = {} /\ Resetting' /\ Acking'
    BY <2>1, AnswerSpeaks
  <2>3. AckedIsDelivered'
    BY <1>4, <2>1, <2>2, AckedStays
  <2>4. QED
    BY <2>2, <2>3 DEF Answered, Remembered, Recalls
<1>6. CASE PartnerGivesUp
  <2>1. /\ partner' = [partner EXCEPT !.waiting = FALSE, !.id = (@ + 1) % IdMod]
        /\ link' = link /\ flags' = flags /\ wire' = wire /\ partner.waiting
    BY <1>6 DEF PartnerGivesUp
  <2>2. /\ ~partner'.waiting /\ partner'.id = (partner.id + 1) % IdMod
        /\ partner'.acked = partner.acked /\ partner'.seq = partner.seq
    BY <1>1, <2>1 DEF Partner
  <2>3. Acking'
    BY <2>1, <2>2 DEF Answered, Acking, Answering, Busy
  <2>4. AckedIsDelivered'
    BY <2>1, <2>2, AckedStays
  <2>5. Recalls' => Recalls
    BY <2>1 DEF Recalls, Resetting
  <2>6. Remembered'
    BY <2>1, <2>2, <2>5, NextIsBehind
  <2>7. QED
    BY <2>3, <2>4, <2>6 DEF Answered
<1>7. CASE Plug
  <2>1. /\ partner' = NewPartnerSession(partner) /\ link' = link
        /\ wire'.from = "partner" => wire.from = "partner"
        /\ flags' = flags \union {"typeC"}
    BY <1>7 DEF Plug, Raise, EmptyLine
  <2>2. ~partner'.waiting /\ partner'.acked = partner.acked
    BY <1>4, <2>1
  <2>3. Answering' <=> Answering
    BY <2>1 DEF Answering, Busy
  <2>4. "txDisc" \in flags' => "txDisc" \in flags
    BY <2>1
  <2>5. Acking'
    BY <2>1, <2>2, <2>3, <2>4 DEF Answered, Acking, Busy
  <2>6. AckedIsDelivered'
    BY <2>1, <2>2, AckedStays
  <2>7. ~Recalls'
    BY <2>1 DEF Recalls
  <2>8. QED
    BY <2>5, <2>6, <2>7 DEF Answered, Remembered
<1>8. QED
  BY <1>2, <1>3, <1>5, <1>6, <1>7 DEF Environment

(* Nothing is confirmed yet. *)
LEMMA AnswerInit ==
  ASSUME Init
  PROVE  Answered
<1>1. /\ link.lastMessage = None /\ link.txRetryCount = 0 /\ link.tx = "idle"
      /\ link.lastRxMessageId = NoId /\ ~partner.waiting /\ flags = {}
      /\ partner.acked = None
  BY DEF Init
<1>2. QED
  BY <1>1 DEF Answered, AckedIsDelivered, HandedOver, Acking, Answering, Remembered, Recalls, Busy,
              IsTransmitting

(* A message that the controller confirms is handed to the event handler   *)
(* (PDController.cpp:148), whatever is lost, repeated, reset or detached   *)
(* and however often the IDs wrap around, unless it was taken for a        *)
(* repetition of an earlier partner's last message, or of one of this      *)
(* partner's at least IdMod messages ago (Deceived): no reset clears the   *)
(* ID remembered when a partner is detached (PDController.cpp:244).        *)
THEOREM ConfirmedIsDelivered ==
  ASSUME ~LateIsr, ~ThreadSends
  PROVE  Spec => []AckedIsDelivered
<1> DEFINE I == Prompt /\ InOrder /\ Answered
<1>1. Init => I
  BY PromptInit, OrderInit, AnswerInit
<1>2. ASSUME Prompt, InOrder, Answered, [Next]_vars PROVE Answered'
  <2>1. CASE UNCHANGED vars
    <3>1. Acking' /\ Kept(partner.seq)' = Kept(partner.seq)
      BY <1>2, <2>1 DEF vars, Answered, Acking, Answering, Busy, Kept, Delivered
    <3>2. QED
      BY <1>2, <2>1, <3>1 DEF vars, Answered, AckedIsDelivered, HandedOver, Remembered, Recalls,
                              Resetting, Behind
  <2>2. QED
    BY <1>2, <2>1, AnswerSoftware, AnswerClient, AnswerHardware, AnswerEnvironment DEF Next
<1>3. I /\ [Next]_vars => I'
  BY <1>2, PromptLemma, OrderLemma
<1>4. I => AckedIsDelivered
  BY DEF Answered
<1>5. QED
  BY <1>1, <1>3, <1>4, PTL DEF Spec
=============================================================================
