------------------------------- MODULE Modbus -------------------------------
(***************************************************************************)
(* Both Modbus servers, in threads of their own, on the same registers.    *)
(* The registers are all they share.                                       *)
(***************************************************************************)
EXTENDS ModbusCommons

CONSTANTS
  SlaveId, RtuRequests, Chunks, Noise, MaxFaults,
  TcpRequests, Cuts, MaxSplits,
  MaxRequests,     \* bound: requests of both clients
  MaxDisturbances  \* bound: of these, not brought whole

ASSUME LineAssumption ==
  /\ SlaveId \in Byte /\ Noise \subseteq Byte
  /\ Chunks \subseteq Nat \ {0} /\ Cuts \subseteq Nat \ {0}

ASSUME RequestsAssumption ==
  /\ \A request \in RtuRequests : request.slave \in Byte /\ Sendable(request)
  /\ \A request \in TcpRequests : Sendable(request)

ASSUME ModbusBounds == {MaxFaults, MaxSplits, MaxRequests, MaxDisturbances} \subseteq Nat

VARIABLES
  holding, rtu, line, master, tcp, packets, client,
  requests,    \* history: sent so far
  seen,        \* history: values of each register since a client's request
  touched      \* history: has a client's request written a register?

RtuServer == INSTANCE ModbusRtu
TcpServer == INSTANCE ModbusTcp

rtuVars == <<rtu, line, master>>
tcpVars == <<tcp, packets, client>>
vars == <<holding, rtuVars, tcpVars, requests, seen, touched>>

Clients == {"rtu", "tcp"}

TypeOK ==
  /\ holding \in Registers
  /\ RtuServer!RtuTypeOK
  /\ TcpServer!TcpTypeOK
  /\ requests \in 0 .. MaxRequests
  /\ seen \in [Clients -> [0 .. HoldingMaxIndex -> SUBSET Word]]
  /\ touched \in [Clients -> BOOLEAN]

----------------------------------------------------------------------------
Init ==
  /\ holding = [i \in 0 .. HoldingMaxIndex |-> 0]
  /\ RtuServer!RtuInit
  /\ TcpServer!TcpInit
  /\ requests = 0
  /\ seen = [c \in Clients |-> [i \in 0 .. HoldingMaxIndex |-> {0}]]
  /\ touched = [c \in Clients |-> FALSE]

Waits(c) == IF c = "rtu" THEN master.waiting ELSE client.at = "waiting"

(* What the clients will compare their answers with. *)
Observed(writer) ==
  /\ seen' = [c \in Clients |->
                 IF Waits(c)
                 THEN [i \in DOMAIN holding |-> seen[c][i] \union {holding'[i]}]
                 ELSE seen[c]]
  /\ touched' = [touched EXCEPT ![writer] = @ \/ holding' # holding]
  /\ UNCHANGED requests

Sent(sender) ==
  /\ requests < MaxRequests
  /\ requests' = requests + 1
  /\ master'.faults + client'.splits <= MaxDisturbances
  /\ seen' = [seen EXCEPT ![sender] = [i \in DOMAIN holding |-> {holding[i]}]]
  /\ touched' = [touched EXCEPT ![sender] = FALSE]

RtuNext ==
  /\ UNCHANGED tcpVars
  /\ \/ RtuServer!RtuServes /\ Observed("rtu")
     \/ RtuServer!MasterGivesUp /\ Observed("rtu")
     \/ RtuServer!MasterSends /\ Sent("rtu")

TcpNext ==
  /\ UNCHANGED rtuVars
  /\ \/ TcpServer!TcpServes /\ Observed("tcp")
     \/ TcpServer!Connect /\ Observed("tcp")
     \/ TcpServer!Disconnect /\ Observed("tcp")
     \/ TcpServer!ClientSends /\ Sent("tcp")

Next == RtuNext \/ TcpNext

Spec == Init /\ [][Next]_vars

(* Both threads run.  Clients need not do anything. *)
Fairness ==
  /\ WF_vars(RtuServer!RtuServes /\ Observed("rtu") /\ UNCHANGED tcpVars)
  /\ WF_vars(TcpServer!TcpServes /\ Observed("tcp") /\ UNCHANGED rtuVars)

FairSpec == Spec /\ Fairness

----------------------------------------------------------------------------
(* Properties. *)

RequestOf(c) == IF c = "rtu" THEN master.request ELSE client.request
AnswerOf(c) == IF c = "rtu" THEN master.answer ELSE client.answer

Asked(request, i, value) ==
  /\ Writes(request.fc)
  /\ i - request.start + 1 \in DOMAIN request.values
  /\ value = request.values[i - request.start + 1]

(* The server takes each packet for a request, and so the rest of one that *)
(* TCP has cut.  Harmless rests ask for no register and carry no           *)
(* transaction of the client; others have been served once it was cut.     *)
RestsAreHarmless ==
  \A request \in TcpRequests, transaction \in 1 .. MaxRequests, n \in Cuts :
    LET adu == TcpServer!Adu(transaction, request)
        rest == SubSeq(adu, n + 1, Len(adu))
    IN  Len(rest) >= 8 => /\ U16(rest, 0) \notin 1 .. MaxRequests
                          /\ TcpServer!ProcessModbusRequest(rest).quantity = 0

RestMayBeServed == client.splits > 0 /\ ~RestsAreHarmless

(* On the serial line a frame that is dropped with its first chunk leaves  *)
(* the others to be parsed: no part of a request is a frame by itself.     *)
FramesAreSingle ==
  \A request \in RtuRequests :
    LET frame == RtuServer!Frame(request)
    IN  \A from, to \in DOMAIN frame :
          from > 1 /\ from <= to => RtuServer!Parse(SubSeq(frame, from, to)).job.quantity = 0

(* A register changes only to what a client asked for in the request that  *)
(* is being served, an undisturbed one to this slave, whatever is lost,    *)
(* garbled, cut in pieces or put together on the way.  On the serial line  *)
(* this is so if the check sum finds what is garbled and FramesAreSingle,  *)
(* over TCP unless the rest of a cut request reads as another.             *)
AskedFor ==
  [][\A i \in DOMAIN holding :
       holding'[i] # holding[i] =>
         \/ /\ tcp' = tcp /\ master.intact /\ master.request.slave = SlaveId
            /\ Asked(master.request, i, holding'[i])
         \/ /\ rtu' = rtu
            /\ \/ client.whole /\ Asked(client.request, i, holding'[i])
               \/ RestMayBeServed]_vars

(* What the server's comments say of every packet with room for a header   *)
(* and a function code: it is a request, and writes what was asked for.    *)
OnlyRequestsWrite ==
  [][\A i \in DOMAIN holding :
       holding'[i] # holding[i] /\ rtu' = rtu => Asked(client.request, i, holding'[i])]_vars

(* A positive answer is true: it is about the client's request, and each   *)
(* register has had the value that was read or written at some time since  *)
(* the request, although the other server may write in between.  The       *)
(* exceptions are those of AskedFor.                                       *)
AnswerIsTrue ==
  \A c \in Clients :
    LET request == RequestOf(c)
        answer == AnswerOf(c)
        values == IF Reads(request.fc) THEN answer.values ELSE request.values
    IN  answer # NoAnswer /\ answer.code = 0 =>
          \/ /\ answer.fc = request.fc
             /\ Len(values) = request.quantity
             /\ \A k \in DOMAIN values :
                  IF request.fc = ReadInput
                  THEN values[k] = InputRegister(request.start + k - 1)
                  ELSE values[k] \in seen[c][request.start + k - 1]
          \/ c = "tcp" /\ RestMayBeServed

(* All or nothing: a request that was refused has written no register, and *)
(* to the master of the serial line an answer that does not come says the  *)
(* same.  A refused request that was cut may have a rest that is served,   *)
(* the exceptions are those of AskedFor.                                   *)
OnlyConfirmedWrites ==
  /\ touched["rtu"] /\ ~master.waiting => master.answer # NoAnswer
  /\ \A c \in Clients :
        AnswerOf(c).code > 0 => ~touched[c] \/ (c = "tcp" /\ RestMayBeServed)

(* A request is answered before its server waits for the next one, however *)
(* its frame was cut; over TCP, if it came in one packet.  On the serial   *)
(* line that takes a line that was clean before.                           *)
NoneForgotten ==
  /\ master.waiting /\ master.intact /\ master.clean /\ master.request.slave = SlaveId
       => rtu.serving \/ line # << >>
  /\ client.at = "waiting" /\ client.whole
       => tcp.at \in {"serve", "close"} \/ packets # << >>

(* Each server gets back to its clients: a master that waits is answered   *)
(* or the slave has forgotten all of it, a TCP client gets connected.      *)
EveryoneServed ==
  /\ master.waiting ~> ~master.waiting \/ (rtu.buf = << >> /\ line = << >> /\ ~rtu.serving)
  /\ client.at = "connecting" ~> client.at # "connecting"
=============================================================================
