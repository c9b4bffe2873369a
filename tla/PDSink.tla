------------------------------- MODULE PDSink -------------------------------
(***************************************************************************)
(* The power sink of usb_pd/PDSink.cpp: it polls the source for its        *)
(* capabilities, requests a supply, keeps a programmable supply (PPS)      *)
(* alive by repeating the request, and tells the application from Loop()   *)
(* what has changed.                                                       *)
(*                                                                         *)
(* Event handlers and tasks run in interrupts and to completion.  Loop()   *)
(* and requestPower() run in the main loop, where interrupts may come      *)
(* between any two statements that touch shared state.                     *)
(*                                                                         *)
(* `sink` holds the fields of PDSink, its pending tasks, and the state of  *)
(* PDController as PDSink sees it: what is being transmitted.  Below it    *)
(* the link is lossy: a message that sendDataMessage accepted may never    *)
(* arrive, and PDSink is not told (PDController gives it an event that     *)
(* handleEvent ignores, or none).                                          *)
(***************************************************************************)
EXTENDS Integers, Sequences, FiniteSetsExt, PDSourceCapability

CONSTANTS
  Offers,         \* what a source may offer: sequences of capability objects
  Wishes,         \* arguments of requestPower
  Preferences,    \* arguments of TryRequestPreferredVoltages
  MaxSourceCapsRetriesBeforeHardReset,
  BusPowered,     \* isBusPowered
  Answers,        \* does the source answer Get_Source_Cap?
  Preemptible,    \* may interrupts come between the statements of requestPower?
  MaxRequests,    \* bound: calls of requestPower
  MaxLosses,      \* bound: messages lost, either way
  MaxResets,      \* bound: hard resets by the source
  MaxOffers,      \* bound: unasked Source_Capabilities
  MaxRejects,     \* bound: requests the source rejects although it offers them
  MaxPlugs        \* bound: attach and detach events

Vsafe5V == [type |-> "fixed", max |-> 0, min |-> 100, current |-> 300]

ASSUME SupplyAssumption ==
  /\ \A offers \in Offers :
        /\ offers \in Seq(CapabilityObject) /\ Len(offers) \in 1 .. 7
        /\ offers[1] = Vsafe5V    \* every source offers it first
  /\ Wishes \subseteq Supply /\ Preferences \subseteq Seq(Nat)
  /\ BusPowered \in BOOLEAN /\ Answers \in BOOLEAN /\ Preemptible \in BOOLEAN

ASSUME SinkBounds ==
  /\ MaxSourceCapsRetriesBeforeHardReset \in Nat
  /\ {MaxRequests, MaxLosses, MaxResets, MaxOffers, MaxRejects, MaxPlugs} \subseteq Nat

VARIABLES
  sink,      \* fields of PDSink, its tasks, its view of the controller
  source,    \* the power source
  main,      \* the main loop: where it is in requestPower() or Loop()
  app,       \* what the application was last told
  budget     \* history: what is left of the bounds

vars == <<sink, source, main, app, budget>>

----------------------------------------------------------------------------
Default == [voltage |-> 5000, current |-> 900]    \* before a contract
Fallback == [voltage |-> 5000, current |-> 0]
Off == [voltage |-> 0, current |-> 0]

Nothing == [type |-> "nothing", value |-> <<>>]
GetSourceCap == [type |-> "getSourceCap", value |-> <<>>]
HardReset == [type |-> "hardReset", value |-> <<>>]
Stuck == [type |-> "stuck", value |-> <<>>]    \* what a detach has cut short
PsReady == [type |-> "psReady", value |-> <<>>]
Reject == [type |-> "reject", value |-> <<>>]
SourceCapabilities(offers) == [type |-> "sourceCapabilities", value |-> offers]
Request(object) == [type |-> "request", value |-> <<object>>]

Message ==
  {Nothing, GetSourceCap, HardReset, Stuck, PsReady, Reject}
    \union {SourceCapabilities(offers) : offers \in Offers}
    \union [type : {"request"}, value : [1 .. 1 -> RequestObject]]

Sink ==
  [ccPin : BOOLEAN,
   numSourceCapabilities : 0 .. 7,
   sourceCapabilities : Seq(Capability),      \* the array, as far as it was ever written
   active : Supply,                           \* activeVoltage, activeCurrent
   requested : Supply,
   desired : Supply,
   ppsIndex : 0 .. 7,                         \* 0: -1
   capabilitiesChanged : BOOLEAN,
   flagSourceCapChanged : BOOLEAN,
   flagVoltageChanged : BOOLEAN,
   flagPowerRejected : BOOLEAN,
   sourceCapsRetryCount : 0 .. MaxSourceCapsRetriesBeforeHardReset,
   ppsTasks : Nat,                            \* rerequestPPSCallback scheduled
   capsTasks : Nat,                           \* requestSourceCapsCallback scheduled
   confirming : BOOLEAN,                      \* the controller sends a GoodCRC
   sending : Message]                         \* what the controller transmits

Source ==
  [attached : BOOLEAN,
   offers : Offers,
   contract : [supply : Supply, pps : BOOLEAN],
   inbox : Message,
   outbox : Seq(Message)]

Main ==
  [at : {"idle", "build", "send", "cancel", "pps", "requested",
         "capsEvent", "voltageTest", "voltageEvent", "rejectTest", "rejectEvent"},
   wish : Supply, request : PowerRequest]

Budget == [{"requests", "losses", "resets", "offers", "rejects", "plugs"} -> Nat]

TypeOK ==
  /\ sink \in Sink /\ sink.numSourceCapabilities <= Len(sink.sourceCapabilities)
  /\ source \in Source /\ main \in Main /\ app \in Supply /\ budget \in Budget

Spend(what) == budget[what] > 0 /\ budget' = [budget EXCEPT ![what] = @ - 1]

----------------------------------------------------------------------------
(* The functions of PDSink. *)

Capabilities(s) == SubSeq(s.sourceCapabilities, 1, s.numSourceCapabilities)
IsConnected(s) == s.numSourceCapabilities > 0

CanProvideVoltage(s, voltage) ==
  \E i \in 1 .. s.numSourceCapabilities : InRange(s.sourceCapabilities[i], voltage)

IsTransmitting(s) == s.confirming \/ s.sending \notin {Nothing, HardReset}

(* sendControlMessage, sendDataMessage, sendHardReset, when not busy.      *)
Send(s, message) == [s EXCEPT !.sending = message]

(* powerRequestObject looks the voltage up anew; ppsIndex gets the index   *)
(* it finds, of a fixed supply too, and an object of 0 is sent if none is. *)
OnRerequestPps(s) ==
  LET r == PowerRequestObject(Capabilities(s), s.requested)
      t == [s EXCEPT !.ppsIndex = r.index, !.requested = r.supply]
  IN  IF IsTransmitting(s)
      THEN [t EXCEPT !.ppsTasks = @ + 1]
      ELSE Send(t, Request(r.object))

(* Variants: count on beyond the hard reset; never send the hard reset.    *)
PollCountingOn(s) ==
  IF ~s.ccPin \/ IsConnected(s) \/ IsTransmitting(s) THEN s
  ELSE [Send(s, GetSourceCap) EXCEPT !.sourceCapsRetryCount = @ + 1, !.capsTasks = @ + 1]

PollWithoutReset(s) ==
  IF ~s.ccPin \/ IsConnected(s) THEN s
  ELSE [(IF IsTransmitting(s) THEN s ELSE Send(s, GetSourceCap)) EXCEPT !.capsTasks = @ + 1]

OnRequestSourceCaps(s) ==
  CASE ~s.ccPin \/ IsConnected(s) -> s
    [] s.ccPin /\ ~IsConnected(s)
         /\ s.sourceCapsRetryCount >= MaxSourceCapsRetriesBeforeHardReset ->
         LET t == IF IsTransmitting(s) THEN s ELSE Send(s, HardReset)
         IN  [t EXCEPT !.sourceCapsRetryCount = 0, !.capsTasks = @ + 1]
    [] OTHER ->
         IF IsTransmitting(s)
         THEN [s EXCEPT !.capsTasks = @ + 1]
         ELSE [Send(s, GetSourceCap)
                 EXCEPT !.sourceCapsRetryCount = @ + 1, !.capsTasks = @ + 1]

(* cancelTask executes the tasks that are due: `due` tells whether the     *)
(* other task is.                                                          *)
Dec(n) == IF n > 0 THEN n - 1 ELSE 0

CancelPpsTask(s, due) ==
  LET t == [s EXCEPT !.ppsTasks = Dec(@)]
  IN  IF due /\ t.capsTasks > 0
      THEN OnRequestSourceCaps([t EXCEPT !.capsTasks = Dec(@)])
      ELSE t

CancelNoCapsTask(s, due) == s    \* variant: leaves the poll scheduled

CancelCapsTask(s, due) ==
  LET t == [s EXCEPT !.capsTasks = Dec(@)]
  IN  IF due /\ t.ppsTasks > 0
      THEN OnRerequestPps([t EXCEPT !.ppsTasks = Dec(@)])
      ELSE t

(* Variants: polls only after an attach; does not tell the application.    *)
ResetPollsOnAttach(s, connected, due) ==
  LET t == CancelCapsTask([s EXCEPT !.requested = Default, !.numSourceCapabilities = 0], due)
  IN  IF connected THEN [t EXCEPT !.capsTasks = @ + 1] ELSE t

ResetSilently(s, connected, due) ==
  LET t == CancelCapsTask([s EXCEPT !.active = Default, !.numSourceCapabilities = 0], due)
  IN  IF connected \/ s.ccPin THEN [t EXCEPT !.capsTasks = @ + 1] ELSE t

ResetSink(s, connected, due) ==
  LET t == [s EXCEPT !.active = IF BusPowered \/ connected THEN Default ELSE Off,
                     !.requested = Default,
                     !.numSourceCapabilities = 0,
                     !.flagSourceCapChanged = TRUE, !.flagVoltageChanged = TRUE,
                     !.flagPowerRejected = FALSE, !.capabilitiesChanged = FALSE,
                     !.sourceCapsRetryCount = 0]
      u == CancelCapsTask(CancelPpsTask(t, due), due)
  IN  IF connected \/ s.ccPin THEN [u EXCEPT !.capsTasks = @ + 1] ELSE u

(* requestPowerCore as one step, for the event handler, with the request   *)
(* that has been built.                                                    *)
CanRequest(s, request) == request.object # NoObject /\ ~IsTransmitting(s)

(* The entry is read after the request has been sent, and cancelTask.      *)
PpsIndexOf(s, request) ==
  IF s.sourceCapabilities[request.index].supplyType = "pps" THEN request.index ELSE 0

(* Variant: leaves the requested supply as it was.                         *)
RequestUnrecorded(s, request, due) ==
  [CancelPpsTask(Send(s, Request(request.object)), due) EXCEPT !.ppsIndex = PpsIndexOf(s, request)]

RequestPowerCore(s, request, due) ==
  [CancelPpsTask(Send(s, Request(request.object)), due)
     EXCEPT !.ppsIndex = PpsIndexOf(s, request), !.requested = request.supply]

Parsed(s, offers) ==
  LET parsed == ParseMessage(offers)
  IN  [s EXCEPT !.numSourceCapabilities = Len(parsed),
                !.sourceCapabilities = parsed \o SubSeq(@, Len(parsed) + 1, Len(@))]

(* Singletons make TLC evaluate what they hold once.                       *)
OnSourceCapabilities(s, offers, due) ==
  \E t \in {[CancelCapsTask(Parsed(s, offers), due) EXCEPT !.capabilitiesChanged = TRUE]} :
    \E desired \in {PowerRequestObject(Capabilities(t), t.desired)},
       fallback \in {PowerRequestObject(Capabilities(t), Fallback)} :
      sink' = CASE CanRequest(t, desired) -> RequestPowerCore(t, desired, due)
                [] ~CanRequest(t, desired) /\ CanRequest(t, fallback) ->
                     RequestPowerCore(t, fallback, due)
                [] OTHER -> t

(* Variant: repeats a request only if the voltage changed. *)
PsReadyRepeatsOnce(s) ==
  [s EXCEPT !.flagVoltageChanged = TRUE,
            !.active = s.requested,
            !.ppsTasks = IF s.ppsIndex > 0 /\ s.active # s.requested THEN @ + 1 ELSE @]

OnPsReady(s) ==
  [s EXCEPT !.flagSourceCapChanged = @ \/ s.capabilitiesChanged,
            !.capabilitiesChanged = FALSE,
            !.flagVoltageChanged = @ \/ s.active # s.requested,
            !.active = s.requested,
            !.ppsTasks = IF s.ppsIndex > 0 THEN @ + 1 ELSE @]

OnMessageReceived(s, message, due) ==
  \/ message.type = "sourceCapabilities" /\ OnSourceCapabilities(s, message.value, due)
  \/ message.type = "psReady" /\ sink' = OnPsReady(s)
  \/ message.type = "reject" /\ sink' = [s EXCEPT !.flagPowerRejected = TRUE]

(* PDController::onReset: the transmission is forgotten and the event      *)
(* handler called twice.                                                   *)
OnReset(s, due) ==
  ResetSink(ResetSink([s EXCEPT !.sending = Nothing, !.confirming = FALSE], FALSE, due), FALSE, due)

----------------------------------------------------------------------------
Idle == [at |-> "idle", wish |-> Fallback, request |-> NoRequest]

(* After PDSink::start: reset(false), twice. *)
Init ==
  /\ sink = [ccPin |-> FALSE, numSourceCapabilities |-> 0, sourceCapabilities |-> <<>>,
             active |-> IF BusPowered THEN Default ELSE Off,
             requested |-> Default, desired |-> Fallback,
             ppsIndex |-> 0, capabilitiesChanged |-> FALSE,
             flagSourceCapChanged |-> TRUE, flagVoltageChanged |-> TRUE,
             flagPowerRejected |-> FALSE, sourceCapsRetryCount |-> 0,
             ppsTasks |-> 0, capsTasks |-> 0, confirming |-> FALSE, sending |-> Nothing]
  /\ \E offers \in Offers :
        source = [attached |-> FALSE, offers |-> offers,
                  contract |-> [supply |-> Default, pps |-> FALSE],
                  inbox |-> Nothing, outbox |-> << >>]
  /\ main = Idle
  /\ app = Off
  /\ budget = [requests |-> MaxRequests, losses |-> MaxLosses, resets |-> MaxResets,
               offers |-> MaxOffers, rejects |-> MaxRejects, plugs |-> MaxPlugs]

----------------------------------------------------------------------------
(* Tasks and events, in interrupt handlers. *)

PpsTask ==
  /\ sink.ppsTasks > 0
  /\ sink' = OnRerequestPps([sink EXCEPT !.ppsTasks = @ - 1])
  /\ UNCHANGED <<source, main, app, budget>>

(* A poll or a hard reset has been transmitted long before the next one is *)
(* due: it takes a few milliseconds of the 100 or 200.                     *)
CapsTask ==
  /\ sink.capsTasks > 0
  /\ sink.sending \notin {GetSourceCap, HardReset}
  /\ sink' = OnRequestSourceCaps([sink EXCEPT !.capsTasks = @ - 1])
  /\ UNCHANGED <<source, main, app, budget>>

NewSession(src) ==
  [src EXCEPT !.contract = [supply |-> Default, pps |-> FALSE], !.inbox = Nothing, !.outbox = << >>]

Attach ==
  /\ ~source.attached
  /\ Spend("plugs")
  /\ \E offers \in Offers : source' = [source EXCEPT !.attached = TRUE, !.offers = offers]
  /\ \E due \in BOOLEAN : sink' = ResetSink([sink EXCEPT !.ccPin = TRUE], TRUE, due)
  /\ UNCHANGED <<main, app>>

(* The controller may stay busy with a transmission that was cut short     *)
(* (TransmissionEnds in PDController).                                     *)
Detach ==
  /\ source.attached
  /\ Spend("plugs")
  /\ source' = [NewSession(source) EXCEPT !.attached = FALSE]
  /\ \E due \in BOOLEAN, left \in {Nothing} \union (IF IsTransmitting(sink) THEN {Stuck} ELSE {}) :
        sink' = ResetSink([sink EXCEPT !.ccPin = FALSE, !.confirming = FALSE, !.sending = left],
                          FALSE, due)
  /\ UNCHANGED <<main, app>>

(* A message of the source arrives and is confirmed; what the controller   *)
(* was transmitting is lost: a loss of the bound unless it is a poll,      *)
(* which is repeated anyway.  When the GoodCRC has been sent, the event    *)
(* handler gets the message.                                               *)
MessageArrives ==
  /\ source.outbox # << >> /\ ~sink.confirming /\ sink.sending # HardReset
  /\ sink' = [sink EXCEPT !.confirming = TRUE, !.sending = Nothing]
  /\ IF sink.sending \in {Nothing, GetSourceCap, Stuck}
     THEN UNCHANGED budget ELSE Spend("losses")
  /\ UNCHANGED <<source, main, app>>

MessageConfirmed ==
  /\ sink.confirming
  /\ \E due \in BOOLEAN :
        OnMessageReceived([sink EXCEPT !.confirming = FALSE], Head(source.outbox), due)
  /\ source' = [source EXCEPT !.outbox = Tail(@)]
  /\ UNCHANGED <<main, app, budget>>

(* The source resets on its own (a PPS request overdue, a protocol error), *)
(* or in answer to our hard reset, and offers its capabilities again.      *)
Offered(src) == [NewSession(src) EXCEPT !.outbox = <<SourceCapabilities(src.offers)>>]

SourceResets ==
  /\ source.attached
  /\ Spend("resets")
  /\ source' = Offered(source)
  /\ \E due \in BOOLEAN : sink' = OnReset(sink, due)
  /\ UNCHANGED <<main, app>>

HardResetSent ==
  /\ sink.sending = HardReset
  /\ source' = IF source.attached THEN Offered(source) ELSE source
  /\ \E due \in BOOLEAN : sink' = OnReset(sink, due)
  /\ UNCHANGED <<main, app, budget>>

----------------------------------------------------------------------------
(* The link and the source. *)

(* The message is heard and confirmed. *)
LinkDelivers ==
  /\ sink.sending \notin {Nothing, HardReset, Stuck}
  /\ source.attached /\ source.inbox = Nothing
  /\ source' = [source EXCEPT !.inbox = sink.sending]
  /\ sink' = [sink EXCEPT !.sending = Nothing]
  /\ UNCHANGED <<main, app, budget>>

(* The controller has given up, or its hard reset was discarded. *)
LinkLoses ==
  /\ sink.sending \notin {Nothing, Stuck}
  /\ IF source.attached THEN Spend("losses") ELSE UNCHANGED budget
  /\ sink' = [sink EXCEPT !.sending = Nothing]
  /\ UNCHANGED <<source, main, app>>

SourceGivesUp ==
  /\ source.outbox # << >> /\ ~sink.confirming
  /\ Spend("losses")
  /\ source' = [source EXCEPT !.outbox = Tail(@)]
  /\ UNCHANGED <<sink, main, app>>

(* The source finishes one exchange of messages before the next. *)
SourceAnswers ==
  /\ source.inbox = GetSourceCap /\ source.outbox = << >>
  /\ source' = [source EXCEPT !.inbox = Nothing,
                  !.outbox = IF Answers THEN <<SourceCapabilities(source.offers)>> ELSE @]
  /\ UNCHANGED <<sink, main, app, budget>>

(* What a request is taken for, with the source's own list of offers.      *)
Supplied(object) ==
  LET pdo == source.offers[object.objPos]
  IN  IF pdo.type = "fixed"
      THEN [supply |-> [voltage |-> pdo.min * 50, current |-> object.current], pps |-> FALSE]
      ELSE [supply |-> [voltage |-> object.voltage, current |-> object.current], pps |-> TRUE]

CanSupply(object) ==
  /\ object.objPos \in DOMAIN source.offers
  /\ LET pdo == source.offers[object.objPos]
     IN  \/ pdo.type = "fixed" /\ object.current <= pdo.current * 10
         \/ /\ pdo.type = "pps" /\ object.current <= pdo.current * 50
            /\ object.voltage \in pdo.min * 100 .. pdo.max * 100

(* Accept is left out: handleEvent ignores it. *)
SourceAccepts ==
  /\ source.inbox.type = "request" /\ source.outbox = << >>
  /\ LET object == source.inbox.value[1]
     IN  /\ CanSupply(object)
         /\ source' = [source EXCEPT !.inbox = Nothing, !.contract = Supplied(object),
                                     !.outbox = <<PsReady>>]
  /\ UNCHANGED <<sink, main, app, budget>>

SourceRejects ==
  /\ source.inbox.type = "request" /\ source.outbox = << >>
  /\ IF CanSupply(source.inbox.value[1]) THEN Spend("rejects") ELSE UNCHANGED budget
  /\ source' = [source EXCEPT !.inbox = Nothing, !.outbox = <<Reject>>]
  /\ UNCHANGED <<sink, main, app>>

SourceOffers ==
  /\ source.attached /\ source.outbox = << >>
  /\ Spend("offers")
  /\ \E offers \in Offers :
        source' = [source EXCEPT !.offers = offers, !.outbox = <<SourceCapabilities(offers)>>]
  /\ UNCHANGED <<sink, main, app>>

----------------------------------------------------------------------------
(* The main loop. *)

At(here, there) == main.at = here /\ main' = [main EXCEPT !.at = there]

(* TryRequestPreferredVoltages: the first voltage that some capability,    *)
(* also one that cannot be requested, has in its range.                    *)
Preferred(list) ==
  LET able == {i \in DOMAIN list : CanProvideVoltage(sink, list[i])}
  IN  IF able = {} THEN {} ELSE {[voltage |-> list[Min(able)], current |-> 0]}

RequestPower ==
  /\ main.at = "idle"
  /\ Spend("requests")
  /\ \E wish \in Wishes \union UNION {Preferred(list) : list \in Preferences} :
        /\ main' = [Idle EXCEPT !.at = "build", !.wish = wish]
        /\ sink' = [sink EXCEPT !.desired = wish]
  /\ UNCHANGED <<source, app>>

Wanted == PowerRequestObject(Capabilities(sink), main.wish)

(* Not connected, or no matching capability: requestPower returns false.   *)
RequestRefused ==
  /\ main.at = "build" /\ Wanted.object = NoObject
  /\ main' = Idle
  /\ UNCHANGED <<sink, source, app, budget>>

RequestBuilt ==
  /\ Preemptible
  /\ main.at = "build" /\ Wanted.object # NoObject
  /\ main' = [main EXCEPT !.at = "send", !.request = Wanted]
  /\ UNCHANGED <<sink, source, app, budget>>

(* Busy: it builds the request again after a delay. *)
RequestSent ==
  /\ IF IsTransmitting(sink)
     THEN At("send", "build") /\ UNCHANGED sink
     ELSE At("send", "cancel") /\ sink' = Send(sink, Request(main.request.object))
  /\ UNCHANGED <<source, app, budget>>

PpsTaskCancelled ==
  /\ At("cancel", "pps")
  /\ \E due \in BOOLEAN : sink' = CancelPpsTask(sink, due)
  /\ UNCHANGED <<source, app, budget>>

PpsIndexSet ==
  /\ At("pps", "requested")
  /\ sink' = [sink EXCEPT !.ppsIndex = PpsIndexOf(sink, main.request)]
  /\ UNCHANGED <<source, app, budget>>

RequestedSet ==
  /\ main.at = "requested" /\ main' = Idle
  /\ sink' = [sink EXCEPT !.requested = main.request.supply]
  /\ UNCHANGED <<source, app, budget>>

(* The same without an interrupt in between. *)
RequestAtOnce ==
  /\ ~Preemptible
  /\ main.at = "build" /\ main' = Idle
  /\ CanRequest(sink, Wanted)
  /\ \E due \in BOOLEAN : sink' = RequestPowerCore(sink, Wanted, due)
  /\ UNCHANGED <<source, app, budget>>

(* Loop(): each flag is cleared before its event is delivered.             *)
LoopBegins ==
  /\ sink.flagSourceCapChanged \/ sink.flagVoltageChanged \/ sink.flagPowerRejected
  /\ At("idle", IF sink.flagSourceCapChanged THEN "capsEvent" ELSE "voltageTest")
  /\ sink' = [sink EXCEPT !.flagSourceCapChanged = FALSE]
  /\ UNCHANGED <<source, app, budget>>

SourceCapsEvent ==
  /\ At("capsEvent", "voltageTest")
  /\ UNCHANGED <<sink, source, app, budget>>

VoltageTest ==
  /\ At("voltageTest", IF sink.flagVoltageChanged THEN "voltageEvent" ELSE "rejectTest")
  /\ sink' = [sink EXCEPT !.flagVoltageChanged = FALSE]
  /\ UNCHANGED <<source, app, budget>>

(* The application reads the active voltage in its handler. *)
VoltageEvent ==
  /\ At("voltageEvent", "rejectTest")
  /\ app' = sink.active
  /\ UNCHANGED <<sink, source, budget>>

RejectTest ==
  /\ At("rejectTest", IF sink.flagPowerRejected THEN "rejectEvent" ELSE "idle")
  /\ sink' = [sink EXCEPT !.flagPowerRejected = FALSE]
  /\ UNCHANGED <<source, app, budget>>

RejectEvent ==
  /\ At("rejectEvent", "idle")
  /\ UNCHANGED <<sink, source, app, budget>>

----------------------------------------------------------------------------
MainLoop ==
  \/ RequestRefused \/ RequestBuilt \/ RequestSent \/ PpsTaskCancelled
  \/ PpsIndexSet \/ RequestedSet \/ RequestAtOnce
  \/ LoopBegins \/ SourceCapsEvent \/ VoltageTest \/ VoltageEvent
  \/ RejectTest \/ RejectEvent

LinkLayer ==
  \/ MessageArrives \/ MessageConfirmed \/ HardResetSent \/ LinkDelivers

SourceReplies == SourceAnswers \/ SourceAccepts \/ SourceRejects

Next ==
  \/ MainLoop \/ RequestPower
  \/ PpsTask \/ CapsTask
  \/ Attach \/ Detach
  \/ LinkLayer \/ LinkLoses \/ SourceGivesUp
  \/ SourceReplies \/ SourceResets \/ SourceOffers

Spec == Init /\ [][Next]_vars

(* The main loop calls Loop() again and again, the scheduler runs what is  *)
(* due, the link and the source do their part.  Losses need not happen.    *)
Fairness ==
  /\ WF_vars(MainLoop)
  /\ WF_vars(PpsTask) /\ WF_vars(CapsTask)
  /\ SF_vars(LinkLayer) /\ WF_vars(SourceReplies)

FairSpec == Spec /\ Fairness

----------------------------------------------------------------------------
(* Properties. *)

(* Polling never stops: as long as a source is attached and its            *)
(* capabilities are unknown, a task is scheduled that will ask for them.   *)
PollingGoesOn ==
  sink.ccPin /\ ~IsConnected(sink) => sink.capsTasks > 0

(* One chain of polls at a time: each poll schedules the next, so a chain  *)
(* once doubled would stay so, and the scheduler holds ten tasks and traps *)
(* on the eleventh.                                                        *)
PollsOnce == sink.capsTasks <= 1

(* No change of the active voltage goes unnoticed: what the application    *)
(* was told is the voltage, or it will be told again.                      *)
ApplicationKnows ==
  \/ app = sink.active
  \/ sink.flagVoltageChanged
  \/ main.at = "voltageEvent"

Quiet ==
  /\ source.attached /\ IsConnected(sink)
  /\ main.at \in {"idle", "capsEvent", "voltageTest", "voltageEvent", "rejectTest", "rejectEvent"}
  /\ sink.sending = Nothing /\ ~sink.confirming
  /\ source.inbox = Nothing /\ source.outbox = << >>

(* When nothing is under way, the active voltage and current are what the  *)
(* source supplies: capabilities are parsed, looked up, rounded and named  *)
(* by their places in the source's own list.                               *)
ActiveIsContract == Quiet => sink.active = source.contract.supply

(* A programmable supply is kept alive (PDSink.cpp:244): when nothing is   *)
(* under way, a task is scheduled that will request it again.  A request   *)
(* that is turned down, or lost, or a changed offer ends the repetition    *)
(* for good: the property holds until then.                                *)
PpsKeptAlive == Quiet /\ source.contract.pps => sink.ppsTasks > 0

(* A request for a supply is one that the source can satisfy: no rounding  *)
(* leaves its limits, and none names a supply of another source or of      *)
(* another place in the list (PDSourceCapability.h:41).  Requests that     *)
(* name no supply are excepted: only onRerequestPPS sends them             *)
(* (PDSink.cpp:256-258), which does not look at what it gets.              *)
RequestsAreOffered ==
  \A i \in DOMAIN source.inbox.value :
    source.inbox.type = "request" /\ source.inbox.value[i] # NoObject
      => CanSupply(source.inbox.value[i])

(* No request is without a supply: a repetition asks for the same voltage  *)
(* again (PDSink.cpp:255).                                                 *)
RequestsNameASupply ==
  source.inbox.type = "request" => source.inbox.value[1] # NoObject

(* The source is found, even one that is silent until it is reset: polling *)
(* escalates to a hard reset (PDSink.h:155).  Only a transmission that a   *)
(* detach has cut short can stop it.                                       *)
SourceIsFound ==
  sink.ccPin ~> IsConnected(sink) \/ ~sink.ccPin \/ sink.sending = Stuck
=============================================================================
