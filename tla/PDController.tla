---------------------------- MODULE PDController ----------------------------
(***************************************************************************)
(* The USB PD link layer: usb_pd/PDController.cpp on top of the UCPD       *)
(* peripheral as usb_pd/PDPhySTM32UCPD.cpp drives it.                      *)
(*                                                                         *)
(* The controller sends one message at a time and waits for the partner's  *)
(* GoodCRC; it answers each message of the partner with a GoodCRC and only *)
(* then hands it to the event handler.  Everything runs in two interrupt   *)
(* handlers of equal priority (the UCPD's and the scheduler timer's) and   *)
(* in the main loop, which they interrupt.                                 *)
(*                                                                         *)
(* `link` holds the controller's fields and the transmitter.  The          *)
(* operators on it, one per function of the code, are composed by the      *)
(* actions, one per interrupt flag, timer or call.  The CC line, the       *)
(* peripheral and the partner (a source) are the environment.              *)
(***************************************************************************)
EXTENDS Integers, Sequences, SequencesExt

CONSTANTS
  NRetryCount,   \* paramNRetryCount (2)
  IdMod,         \* message IDs wrap around (8)
  MaxMessages,   \* bound: messages of the partner
  MaxSends,      \* bound: messages of the client
  MaxLosses,     \* bound: packets lost or garbled
  MaxCable,      \* bound: packets between the partner and the cable's plug
  MaxResets,     \* bound: hard resets, of either side
  MaxPlugs,      \* bound: attach and detach events
  LateIsr,       \* may other things happen while the UCPD interrupt waits?
  ThreadSends    \* does the main loop send too?

ASSUME LinkAssumption ==
  /\ NRetryCount \in Nat /\ IdMod \in Nat \ {0}
  /\ MaxMessages \in Nat /\ MaxSends \in Nat /\ MaxLosses \in Nat
  /\ MaxCable \in Nat /\ MaxResets \in Nat /\ MaxPlugs \in Nat
  /\ LateIsr \in BOOLEAN /\ ThreadSends \in BOOLEAN

VARIABLES
  link,     \* fields of PDController, its pending timers and the transmitter
  flags,    \* UCPD status register
  status,   \* the copy of it that handleInterrupt is working through
  rx,       \* packet in the receive buffer
  wire,     \* packet on the CC line, which is half duplex
  plugged,  \* is a partner attached?
  partner,  \* the partner's link layer
  thread,   \* where the main loop is in sendDataMessage
  budget    \* history: what is left of the bounds

vars == <<link, flags, status, rx, wire, plugged, partner, thread, budget>>

----------------------------------------------------------------------------
None == 0          \* no message: messages are numbered from 1
Foreign == -1      \* a message of an earlier partner
NoId == -1

Packet == [kind : {"none", "msg", "goodCrc", "hardReset", "cable", "garbled"},
           id : NoId .. IdMod - 1, seq : Nat]
NoPacket == [kind |-> "none", id |-> NoId, seq |-> None]
Signal(kind) == [kind |-> kind, id |-> NoId, seq |-> None]

Flags == {"typeC", "rxHrst", "hrstSent", "hrstDisc", "rxMsgEnd", "txSent", "txDisc"}

Link ==
  [txRetryCount : Int,
   txMessageId : 0 .. IdMod - 1,
   txMessage : Packet,
   lastRxMessageId : NoId .. IdMod - 1,
   lastMessage : Nat,
   timers : Nat,                               \* noGoodCrcReceivedCallback scheduled
   ccPin : BOOLEAN,
   tx : {"idle", "requested", "sending"},      \* the transmitter
   out : Packet,                               \* what it transmits
   delivered : Seq(Nat),                       \* history: messages given to the event handler
   lastHeard : Int,                            \* history: which message had lastRxMessageId
   mistaken : SUBSET Nat]                      \* history: messages taken for repetitions

Partner ==
  [seq : Nat,                \* number of its current message
   id : 0 .. IdMod - 1,      \* its message ID
   waiting : BOOLEAN,        \* waits for our GoodCRC
   tries : Nat,              \* retries left
   due : NoId .. IdMod - 1,  \* ID of the GoodCRC it owes us
   lastId : NoId .. IdMod - 1,
   lastSeq : Nat,            \* history: which message of ours had lastId
   confused : BOOLEAN,       \* history: took a message for the repetition of a recent one
   acked : Nat]              \* history: last of its messages we acknowledged

Budget == [messages : Nat, sends : 0 .. MaxSends, losses : Nat, cable : Nat, resets : Nat, plugs : Nat]

TypeOK ==
  /\ link \in Link
  /\ flags \subseteq Flags
  /\ status \subseteq Flags
  /\ rx \in Packet
  /\ wire \in [from : {"nobody", "us", "partner"}, packet : Packet]
  /\ plugged \in BOOLEAN
  /\ partner \in Partner
  /\ thread \in {"idle", "checked", "filled", "done"}
  /\ budget \in Budget

----------------------------------------------------------------------------
(* The functions of PDController. *)

IsTransmitting(s) == s.txRetryCount > 0

(* PDPhy::transmitMessage reprograms the transmitter whatever it is doing. *)
TransmitMessage(s, packet) ==
  [s EXCEPT !.tx = "requested", !.out = packet]

SendMessage(s) ==
  LET id == IF s.txMessage.kind = "goodCrc" THEN s.lastRxMessageId ELSE s.txMessageId
      t  == [s EXCEPT !.txMessage.id = id]
  IN  TransmitMessage(t, t.txMessage)

(* sendControlMessage and sendDataMessage. *)
Send(s, message) ==
  IF IsTransmitting(s)
  THEN s
  ELSE SendMessage([s EXCEPT !.txMessage = message, !.txRetryCount = NRetryCount + 1])

SendHardReset(s) ==
  IF IsTransmitting(s) THEN s ELSE [s EXCEPT !.tx = "requested", !.out = Signal("hardReset")]

(* Variant: the message ID stays at its largest value. *)
PrepareLastId(s, stale) ==
  [s EXCEPT !.txRetryCount = 0,
            !.txMessageId = IF s.txMessage.kind = "goodCrc" \/ @ = IdMod - 1 THEN @ ELSE @ + 1,
            !.txMessage = stale]

(* The next slot of txBuffer holds what an earlier message left there. *)
PrepareNextTxMessage(s, stale) ==
  [s EXCEPT !.txRetryCount = 0,
            !.txMessageId = IF s.txMessage.kind = "goodCrc" THEN @ ELSE (@ + 1) % IdMod,
            !.txMessage = stale]

CancelUnscheduled(s) == [s EXCEPT !.timers = @ - 1]    \* variant: assumes that it is scheduled

CancelTimer(s) == [s EXCEPT !.timers = IF @ > 0 THEN @ - 1 ELSE 0]

(* The client gets no event, although there is one (PDController.h:57).    *)
GiveUp(s, stale) == PrepareNextTxMessage(s, stale)

(* reset: the event handler may send in reaction to the event, and when    *)
(* cancelTask executes another task that is due: `reply` is what it sends. *)
Reply(s, reply) == IF reply = NoPacket THEN s ELSE Send(s, reply)

(* Variant: the partner's first message would be taken for a repetition.   *)
ResetToZero(s, reply) ==
  Reply(CancelTimer([s EXCEPT !.lastRxMessageId = 0, !.txMessageId = 0,
                              !.txRetryCount = 0, !.lastMessage = None, !.lastHeard = None]),
        reply)

Reset(s, reply) ==
  Reply(CancelTimer([s EXCEPT !.lastRxMessageId = NoId, !.txMessageId = 0,
                              !.txRetryCount = 0, !.lastMessage = None, !.lastHeard = None]),
        reply)

OnMessageTransmitted(s, successful, stale, reply) ==
  CASE ~successful -> GiveUp(s, stale)
    [] successful /\ s.txMessage.kind # "goodCrc" -> [s EXCEPT !.timers = @ + 1]
    [] OTHER ->
         LET t == PrepareNextTxMessage(s, stale)
         IN  IF t.lastMessage = None
             THEN t
             ELSE [Reply([t EXCEPT !.delivered = Append(@, t.lastMessage)], reply)
                     EXCEPT !.lastMessage = None]

(* Variants: it retries for ever; it counts the retries and sends nothing. *)
RetryForEver(s, stale) == SendMessage(CancelTimer(s))

RetryNothing(s, stale) ==
  LET t == [CancelTimer(s) EXCEPT !.txRetryCount = @ - 1]
  IN  IF t.txRetryCount > 0 THEN t ELSE GiveUp(t, stale)

OnNoGoodCrcReceived(s, stale) ==
  LET t == [CancelTimer(s) EXCEPT !.txRetryCount = @ - 1]
  IN  IF t.txRetryCount > 0 /\ t.txMessage.kind # "goodCrc"
      THEN SendMessage(t)
      ELSE GiveUp(t, stale)

(* A packet that arrives while transmitting ends the transmission: it is   *)
(* the GoodCRC that was expected, or the transmission is reported failed.  *)
EndTransmissionTimerRuns(s, stale) ==    \* variant: leaves the timer running
  [PrepareNextTxMessage(s, stale) EXCEPT !.lastMessage = None]

EndTransmission(s, stale) ==
  [PrepareNextTxMessage(CancelTimer(s), stale) EXCEPT !.lastMessage = None]

RememberAll(s, packet) ==                \* variant: repetitions are messages too
  [s EXCEPT !.lastMessage = packet.seq, !.lastRxMessageId = packet.id, !.lastHeard = packet.seq]

(* What has the last message's ID is taken for its repetition.  The        *)
(* history notes where the ID had to deceive: it is an earlier partner's,  *)
(* or this partner's IDs have wrapped around since.                        *)
Deceived(s, packet) ==
  s.lastHeard = Foreign \/ (s.lastHeard # None /\ packet.seq - s.lastHeard >= IdMod)

Remember(s, packet) ==
  IF packet.id # s.lastRxMessageId
  THEN [s EXCEPT !.lastMessage = packet.seq, !.lastRxMessageId = packet.id,
                 !.lastHeard = packet.seq]
  ELSE [s EXCEPT !.lastHeard = packet.seq,
                 !.mistaken = IF Deceived(s, packet) THEN @ \union {packet.seq} ELSE @]

OnMessageReceived(s, packet, stale) ==
  LET t == IF IsTransmitting(s) THEN EndTransmission(s, stale) ELSE s
  IN  IF packet.kind = "msg" THEN Send(Remember(t, packet), Signal("goodCrc")) ELSE t

----------------------------------------------------------------------------
Init ==
  /\ link = [txRetryCount |-> 0, txMessageId |-> 0, txMessage |-> Signal("msg"),
             lastRxMessageId |-> NoId, lastMessage |-> None, timers |-> 0, ccPin |-> FALSE,
             tx |-> "idle", out |-> NoPacket,
             delivered |-> << >>, lastHeard |-> None, mistaken |-> {}]
  /\ flags = {} /\ status = {} /\ rx = NoPacket
  /\ wire = [from |-> "nobody", packet |-> NoPacket]
  /\ plugged = FALSE
  /\ partner = [seq |-> None, id |-> 0, waiting |-> FALSE, tries |-> 0, due |-> NoId,
                lastId |-> NoId, lastSeq |-> None, confused |-> FALSE, acked |-> None]
  /\ thread = IF ThreadSends THEN "idle" ELSE "done"
  /\ budget = [messages |-> MaxMessages, sends |-> MaxSends, losses |-> MaxLosses,
               cable |-> MaxCable, resets |-> MaxResets, plugs |-> MaxPlugs]

Spend(what) == budget[what] > 0 /\ budget' = [budget EXCEPT ![what] = @ - 1]

----------------------------------------------------------------------------
(* Software.  Interrupts of equal priority: no handler runs while another  *)
(* is at work, and the main loop only when none is.                        *)

Enabled == IF link.ccPin THEN flags ELSE flags \intersect {"typeC"}

CpuFree == status = {} /\ (LateIsr \/ Enabled = {})

(* What the event handler or a task may send: the next message of the      *)
(* client, or nothing.                                                     *)
NewMessage == [kind |-> "msg", id |-> 0, seq |-> MaxSends - budget.sends + 1]
Replies == {NoPacket} \union (IF budget.sends > 0 THEN {NewMessage} ELSE {})
SpendReply(reply) ==
  budget' = IF link'.txMessage.seq = reply.seq /\ reply # NoPacket
            THEN [budget EXCEPT !.sends = @ - 1] ELSE budget

StaleSlots == {Signal("msg"), Signal("goodCrc")}

(* handleInterrupt reads the status register, masked flags included.       *)
IsrEnter ==
  /\ status = {}
  /\ Enabled # {}
  /\ status' = flags
  /\ UNCHANGED <<link, flags, rx, wire, plugged, partner, thread, budget>>

(* The order in which it looks at the flags; each handler clears its own.  *)
Order == <<"typeC", "rxHrst", "hrstSent", "hrstDisc", "rxMsgEnd", "txSent", "txDisc">>

Handles(flag) ==
  /\ flag \in status
  /\ \A i, j \in 1 .. Len(Order) : Order[j] = flag /\ i < j => Order[i] \notin status
  /\ status' = status \ {flag}
  /\ UNCHANGED <<rx, wire, plugged, partner, thread>>

Clears(flag) == flags' = flags \ {flag}

(* disableCommunication stops the transmit DMA and masks its interrupts:   *)
(* a transmission under way has either got all of its bytes and will set   *)
(* a flag nobody sees, or it stops without one.  The message IDs stay.     *)
HandleTypeC ==
  /\ Handles("typeC")
  /\ Clears("typeC")
  /\ \E cut \in BOOLEAN :
        link' = [link EXCEPT !.ccPin = plugged, !.lastHeard = Foreign,
                             !.tx = IF link.ccPin /\ ~plugged /\ cut THEN "idle" ELSE @]
  /\ UNCHANGED budget

HandleReset ==
  /\ \E flag \in {"rxHrst", "hrstSent"} : Handles(flag) /\ Clears(flag)
  /\ \E reply \in Replies :
        /\ link' = Reset(link, reply)
        /\ SpendReply(reply)

HandleResetDiscarded ==
  /\ Handles("hrstDisc")
  /\ Clears("hrstDisc")
  /\ UNCHANGED <<link, budget>>

(* With RXERR set, onError only prepares the next read.                    *)
HandleRx ==
  /\ Handles("rxMsgEnd")
  /\ Clears("rxMsgEnd")
  /\ IF rx.kind = "garbled"
     THEN UNCHANGED link
     ELSE \E stale \in StaleSlots : link' = OnMessageReceived(link, rx, stale)
  /\ UNCHANGED budget

HandleSent ==
  /\ Handles("txSent")
  /\ Clears("txSent")
  /\ \E stale \in StaleSlots, reply \in Replies :
        /\ link' = OnMessageTransmitted(link, TRUE, stale, reply)
        /\ SpendReply(reply)

(* Transmission discarded; an aborted one (TXMSGABT) is handled alike.      *)
HandleDiscarded ==
  /\ Handles("txDisc")
  /\ Clears("txDisc")
  /\ \E stale \in StaleSlots : link' = OnMessageTransmitted(link, FALSE, stale, NoPacket)
  /\ UNCHANGED budget

(* The scheduler takes the task off its queue and executes it.             *)
TimerExpires ==
  /\ CpuFree
  /\ link.timers > 0
  /\ \E stale \in StaleSlots : link' = OnNoGoodCrcReceived(CancelTimer(link), stale)
  /\ UNCHANGED <<flags, status, rx, wire, plugged, partner, thread, budget>>

(* A task of the client sends (polling for capabilities, repeating a PPS   *)
(* request).  After sendHardReset the client waits for its outcome.        *)
AwaitsReset ==
  \/ link.tx # "idle" /\ link.out.kind = "hardReset"
  \/ {"hrstSent", "hrstDisc"} \intersect flags # {}

ClientSends ==
  /\ CpuFree
  /\ link.ccPin
  /\ ~AwaitsReset
  /\ ~IsTransmitting(link)
  /\ Spend("sends")
  /\ link' = Send(link, NewMessage)
  /\ UNCHANGED <<flags, status, rx, wire, plugged, partner, thread>>

ClientSendsHardReset ==
  /\ CpuFree
  /\ link.ccPin
  /\ ~AwaitsReset
  /\ ~IsTransmitting(link)
  /\ Spend("resets")
  /\ link' = SendHardReset(link)
  /\ UNCHANGED <<flags, status, rx, wire, plugged, partner, thread>>

(* PDSink::requestPower calls sendDataMessage from the main loop: the      *)
(* interrupts may come between its test, the message and the transmission. *)
(* It does so once.                                                        *)
ThreadChecks ==
  /\ thread = "idle"
  /\ CpuFree
  /\ link.ccPin
  /\ ~AwaitsReset
  /\ ~IsTransmitting(link)
  /\ thread' = "checked"
  /\ UNCHANGED <<link, flags, status, rx, wire, plugged, partner, budget>>

ThreadFills ==
  /\ thread = "checked"
  /\ CpuFree
  /\ link' = [link EXCEPT !.txMessage = [kind |-> "msg", id |-> 0, seq |-> MaxSends + 1]]
  /\ thread' = "filled"
  /\ UNCHANGED <<flags, status, rx, wire, plugged, partner, budget>>

ThreadTransmits ==
  /\ thread = "filled"
  /\ CpuFree
  /\ link' = SendMessage([link EXCEPT !.txRetryCount = NRetryCount + 1])
  /\ thread' = "done"
  /\ UNCHANGED <<flags, status, rx, wire, plugged, partner, budget>>

----------------------------------------------------------------------------
(* The peripheral and the CC line.  Unless LateIsr, the interrupt is       *)
(* served before anything else happens.                                    *)

HardwareMayAct == LateIsr \/ Enabled = {}
LineFree == wire.from = "nobody"
EmptyLine == [from |-> "nobody", packet |-> NoPacket]

SoftwareUnchanged == UNCHANGED <<status, thread>>

(* Each flag stays set until it is cleared; a packet that arrives while    *)
(* the last one has not been taken from the buffer replaces it.            *)
Raise(flag) == flags' = flags \union {flag}

HwStarts ==
  /\ link.tx = "requested" /\ LineFree
  /\ link' = [link EXCEPT !.tx = "sending"]
  /\ wire' = [from |-> "us", packet |-> link.out]
  /\ UNCHANGED <<flags, rx, plugged, partner, budget>>
  /\ SoftwareUnchanged

(* The line is busy: the request is discarded.                             *)
HwDiscards ==
  /\ link.tx = "requested" /\ wire.from = "partner"
  /\ link' = [link EXCEPT !.tx = "idle"]
  /\ Raise(IF link.out.kind = "hardReset" THEN "hrstDisc" ELSE "txDisc")
  /\ UNCHANGED <<rx, wire, plugged, partner, budget>>
  /\ SoftwareUnchanged

(* What the partner does with a packet of ours.                            *)
NewPartnerSession(p) ==
  [p EXCEPT !.id = 0, !.waiting = FALSE, !.tries = 0, !.due = NoId, !.lastId = NoId]

(* A new message with the last ID, although the IDs have not wrapped       *)
(* around since.                                                           *)
Confusing(p, packet) ==
  /\ packet.id = p.lastId
  /\ packet.seq # p.lastSeq /\ packet.seq - p.lastSeq < IdMod

PartnerHears(p, packet) ==
  CASE packet.kind = "msg" ->
         [p EXCEPT !.due = packet.id, !.lastId = packet.id, !.lastSeq = packet.seq,
                   !.confused = @ \/ Confusing(p, packet)]
    [] packet.kind = "goodCrc" /\ p.waiting /\ packet.id = p.id ->
         [p EXCEPT !.waiting = FALSE, !.id = (@ + 1) % IdMod, !.acked = p.seq]
    [] packet.kind = "hardReset" -> NewPartnerSession(p)
    [] OTHER -> p

(* Our packet has been sent.  The partner may not hear it; if the          *)
(* transmitter was reprogrammed meanwhile, nobody does.                    *)
OurPacketEnds ==
  /\ HardwareMayAct
  /\ wire.from = "us"
  /\ wire' = EmptyLine
  /\ \/ /\ link.tx = "sending" /\ plugged
        /\ partner' = PartnerHears(partner, wire.packet)
        /\ UNCHANGED budget
     \/ /\ link.tx = "sending" /\ plugged /\ wire.packet.kind # "hardReset"
        /\ Spend("losses")
        /\ UNCHANGED partner
     \/ /\ link.tx # "sending" \/ ~plugged
        /\ UNCHANGED <<partner, budget>>
  /\ IF link.tx = "sending"
     THEN /\ Raise(IF wire.packet.kind = "hardReset" THEN "hrstSent" ELSE "txSent")
          /\ link' = [link EXCEPT !.tx = "idle"]
     ELSE UNCHANGED <<flags, link>>
  /\ UNCHANGED <<rx, plugged>>
  /\ SoftwareUnchanged

(* A packet of the partner's has arrived.  The receiver is on while the    *)
(* controller believes a partner attached.  A transmission requested       *)
(* meanwhile has been discarded by now.                                    *)
PartnerPacketEnds ==
  /\ HardwareMayAct
  /\ wire.from = "partner"
  /\ link.tx # "requested"
  /\ wire' = EmptyLine
  /\ \/ /\ ~link.ccPin
        /\ UNCHANGED <<flags, rx, budget>>
     \/ /\ link.ccPin /\ wire.packet.kind = "hardReset"
        /\ Raise("rxHrst")
        /\ UNCHANGED <<rx, budget>>
     \/ /\ link.ccPin /\ wire.packet.kind # "hardReset"
        /\ Raise("rxMsgEnd")
        /\ \/ rx' = wire.packet /\ UNCHANGED budget
           \/ rx' = Signal("garbled") /\ Spend("losses")
  /\ UNCHANGED <<link, plugged, partner>>
  /\ SoftwareUnchanged

----------------------------------------------------------------------------
(* The partner.  It waits for our GoodCRC longer than a prompt interrupt   *)
(* handler takes to start it.                                              *)

AnswerDue == link.tx = "requested" /\ link.out.kind = "goodCrc"

PartnerSpeaks(packet) ==
  /\ HardwareMayAct /\ (LateIsr \/ ~AnswerDue)
  /\ plugged /\ LineFree
  /\ wire' = [from |-> "partner", packet |-> packet]
  /\ UNCHANGED <<link, flags, rx, plugged>>
  /\ SoftwareUnchanged

PartnerSends ==
  /\ ~partner.waiting /\ partner.due = NoId
  /\ Spend("messages")
  /\ partner' = [partner EXCEPT !.seq = @ + 1, !.waiting = TRUE, !.tries = NRetryCount]
  /\ PartnerSpeaks([kind |-> "msg", id |-> partner.id, seq |-> partner.seq + 1])

PartnerRetries ==
  /\ partner.waiting /\ partner.due = NoId /\ partner.tries > 0
  /\ partner' = [partner EXCEPT !.tries = @ - 1]
  /\ PartnerSpeaks([kind |-> "msg", id |-> partner.id, seq |-> partner.seq])
  /\ UNCHANGED budget

PartnerGivesUp ==
  /\ partner.waiting /\ partner.tries = 0 /\ LineFree
  /\ HardwareMayAct
  /\ partner' = [partner EXCEPT !.waiting = FALSE, !.id = (@ + 1) % IdMod]
  /\ UNCHANGED <<link, flags, rx, wire, plugged, budget>>
  /\ SoftwareUnchanged

PartnerAcks ==
  /\ partner.due # NoId
  /\ partner' = [partner EXCEPT !.due = NoId]
  /\ PartnerSpeaks([kind |-> "goodCrc", id |-> partner.due, seq |-> None])
  /\ UNCHANGED budget

PartnerResets ==
  /\ Spend("resets")
  /\ partner' = NewPartnerSession(partner)
  /\ PartnerSpeaks(Signal("hardReset"))

(* SOP' and SOP'' packets, heard but meant for the cable's plug.           *)
PartnerTalksToCable ==
  /\ Spend("cable")
  /\ PartnerSpeaks(Signal("cable"))
  /\ UNCHANGED partner

(* Attach or detach.  What a partner was sending breaks off.               *)
Plug ==
  /\ HardwareMayAct /\ status = {}
  /\ Spend("plugs")
  /\ plugged' = ~plugged
  /\ partner' = NewPartnerSession(partner)
  /\ wire' = IF wire.from = "partner" THEN EmptyLine ELSE wire
  /\ Raise("typeC")
  /\ UNCHANGED <<link, rx>>
  /\ SoftwareUnchanged

----------------------------------------------------------------------------
Software ==
  \/ IsrEnter
  \/ HandleTypeC \/ HandleReset \/ HandleResetDiscarded
  \/ HandleRx \/ HandleSent \/ HandleDiscarded
  \/ TimerExpires

Client ==
  \/ ClientSends \/ ClientSendsHardReset
  \/ ThreadChecks \/ ThreadFills \/ ThreadTransmits

Hardware == HwStarts \/ HwDiscards \/ OurPacketEnds \/ PartnerPacketEnds

Environment ==
  \/ PartnerSends \/ PartnerRetries \/ PartnerGivesUp \/ PartnerAcks
  \/ PartnerResets \/ PartnerTalksToCable
  \/ Plug

Next == Software \/ Client \/ Hardware \/ Environment

Spec == Init /\ [][Next]_vars

(***************************************************************************)
(* Interrupts are taken, the peripheral does what it was told to, the      *)
(* timer expires.  The partner and the clients need not do anything.       *)
(***************************************************************************)
Fairness == WF_vars(Software) /\ WF_vars(Hardware)

FairSpec == Spec /\ Fairness

----------------------------------------------------------------------------
(* Properties. *)

(* The event handler gets the partner's messages in the order they were   *)
(* sent and none of them twice, whatever is lost, repeated or reset.       *)
DeliveredInOrder ==
  \A i, j \in 1 .. Len(link.delivered) : i < j => link.delivered[i] < link.delivered[j]

(* A message that we confirmed is handed to the event handler: the comment *)
(* at PDController.cpp:148.  (Between the GoodCRC's end on the line and    *)
(* its interrupt, it is still to be handed over.)                          *)
HandedOver(message) ==
  \/ message = None
  \/ \E i \in 1 .. Len(link.delivered) : link.delivered[i] = message
  \/ link.lastMessage = message /\ "txSent" \in flags \union status

ConfirmedIsHandedOver == HandedOver(partner.acked)

(* A confirmed message is lost in two cases only: its ID is the one that   *)
(* an earlier partner's last message had, which no reset has cleared, or   *)
(* the partner's IDs have wrapped around since the last message heard, all *)
(* those in between having been missed.                                    *)
AckedIsDelivered == HandedOver(partner.acked) \/ partner.acked \in link.mistaken

(* A busy controller is always waiting for something that will happen: its *)
(* transmitter, an interrupt, or the GoodCRC timer.  (Otherwise it would   *)
(* refuse to send for ever.)                                               *)
TransmissionHasWakeup ==
  IsTransmitting(link)
    => \/ link.tx # "idle"
       \/ {"txSent", "txDisc"} \intersect flags # {}
       \/ link.timers > 0

(* The timer for the GoodCRC runs only while the controller waits for it:  *)
(* one timer, a message and not a GoodCRC sent, the transmitter idle.  (A  *)
(* timer left over would cut the next transmission short.)                 *)
TimerMeansWaiting ==
  link.timers > 0
    => /\ link.timers = 1
       /\ IsTransmitting(link)
       /\ link.txMessage.kind = "msg"
       /\ link.tx = "idle"

(* A new message of ours never carries the ID of the last one the partner  *)
(* heard: it would be confirmed and thrown away as a repetition.  (With    *)
(* one exception, which IDs of a few bits cannot rule out: a message after *)
(* IdMod - 1 others that the partner has all missed.)                      *)
NewMessageIsNew == ~partner.confused

(* Every transmission comes to an end.                                     *)
TransmissionEnds == IsTransmitting(link) ~> ~IsTransmitting(link)
=============================================================================
