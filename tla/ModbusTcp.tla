------------------------------ MODULE ModbusTcp ------------------------------
(***************************************************************************)
(* The Modbus TCP server of modbus/modbus_tcp_server.hpp and a client.     *)
(* The server has one connection at a time and takes each packet for a     *)
(* request.  The client sends one request at a time, which TCP may bring   *)
(* in two packets, and knows the answer by its transaction identifier.     *)
(***************************************************************************)
EXTENDS ModbusCommons

CONSTANTS
  TcpRequests,  \* what the client may ask for
  Cuts,         \* after how many bytes TCP may cut one in two
  MaxSplits     \* bound: requests that are cut

VARIABLES
  holding,  \* the holding registers, shared with the other server
  tcp,      \* the server's thread
  packets,  \* on their way to it in this connection
  client

Tcp == [at : {"accept", "receive", "serve", "close"},
        transaction : Word, job : Job]

Client == [at : {"closed", "connecting", "idle", "waiting"},
           request : TcpRequests,
           transaction : Word,
           whole : BOOLEAN,    \* history: the request went in one packet
           splits : Nat,
           answer : Response]

TcpTypeOK ==
  /\ tcp \in Tcp
  /\ packets \in Seq(Seq(Byte))
  /\ client \in Client

----------------------------------------------------------------------------
(* Transaction, protocol 0, length, unit 1. *)
MbapHeader(transaction, pdu) ==
  Bytes(transaction) \o Bytes(0) \o Bytes(Len(pdu) + 1) \o <<1>>

Adu(transaction, request) ==
  LET pdu == Pdu(request) IN MbapHeader(transaction, pdu) \o pdu

ReadJob(data, maxIndex) ==
  LET start == U16(data, 8)
      quantity == U16(data, 10)
  IN  IF quantity > 125 \/ start + quantity > maxIndex + 1
      THEN Refuse(data[8], 2)
      ELSE Serve(data[8], start, quantity, << >>)

WriteSingleJob(data) ==
  IF U16(data, 8) > HoldingMaxIndex
  THEN Refuse(WriteSingle, 2)
  ELSE Serve(WriteSingle, U16(data, 8), 1, Words(data, 10, 1))

WriteMultipleJob(data) ==
  LET start == U16(data, 8)
      quantity == U16(data, 10)
  IN  IF \/ quantity > 123 \/ data[13] # quantity * 2
         \/ Len(data) < 13 + data[13]
         \/ start + quantity > HoldingMaxIndex + 1
      THEN Refuse(WriteMultiple, 2)
      ELSE Serve(WriteMultiple, start, quantity, Words(data, 13, quantity))

ProcessModbusRequest(data) ==
  CASE data[8] = ReadHolding /\ Len(data) >= 12 -> ReadJob(data, HoldingMaxIndex)
    [] data[8] = ReadInput /\ Len(data) >= 12 -> ReadJob(data, InputMaxIndex)
    [] data[8] = WriteSingle /\ Len(data) >= 12 -> WriteSingleJob(data)
    [] data[8] = WriteMultiple /\ Len(data) >= 13 -> WriteMultipleJob(data)
    [] OTHER -> Refuse(data[8], 1)

----------------------------------------------------------------------------
TcpInit ==
  /\ tcp = [at |-> "accept", transaction |-> 0, job |-> NoJob]
  /\ packets = << >>
  /\ client = [at |-> "closed", request |-> CHOOSE r \in TcpRequests : TRUE,
               transaction |-> 0, whole |-> FALSE, splits |-> 0, answer |-> NoAnswer]

(* The loop of run(). *)

Accept ==
  /\ tcp.at = "accept" /\ client.at = "connecting"
  /\ tcp' = [tcp EXCEPT !.at = "receive"]
  /\ client' = [client EXCEPT !.at = "idle"]
  /\ UNCHANGED <<holding, packets>>

(* Variant: the server does not listen again. *)
CloseForGood ==
  /\ tcp.at = "close"
  /\ packets' = << >>
  /\ client' = [client EXCEPT !.at = IF @ = "connecting" THEN @ ELSE "closed"]
  /\ UNCHANGED <<holding, tcp>>

(* Disconnect and listen again.  A client that has gone may be connecting. *)
Close ==
  /\ tcp.at = "close"
  /\ tcp' = [tcp EXCEPT !.at = "accept"]
  /\ packets' = << >>
  /\ client' = [client EXCEPT !.at = IF @ = "connecting" THEN @ ELSE "closed"]
  /\ UNCHANGED holding

(* The loop of process_client_requests. *)

(* Too short for a function code: no request. *)
ReceiveFragment ==
  /\ tcp.at = "receive" /\ packets # << >> /\ Len(Head(packets)) < 8
  /\ packets' = Tail(packets)
  /\ UNCHANGED <<holding, tcp, client>>

ReceiveRequest ==
  /\ tcp.at = "receive" /\ packets # << >> /\ Len(Head(packets)) >= 8
  /\ packets' = Tail(packets)
  /\ tcp' = [at |-> "serve", transaction |-> U16(Head(packets), 0),
             job |-> ProcessModbusRequest(Head(packets))]
  /\ UNCHANGED <<holding, client>>

(* Nothing received in time (what is on its way comes too late), or the    *)
(* client has disconnected.                                                *)
ReceiveFails ==
  /\ tcp.at = "receive"
  /\ tcp' = [tcp EXCEPT !.at = "close"]
  /\ UNCHANGED <<holding, packets, client>>

AccessRegister ==
  /\ tcp.at = "serve" /\ ~Finished(tcp.job)
  /\ tcp' = [tcp EXCEPT !.job = NextJob(@, holding)]
  /\ holding' = NextHolding(tcp.job, holding)
  /\ UNCHANGED <<packets, client>>

(* The response carries the transaction of its packet. *)
SendResponse ==
  /\ tcp.at = "serve" /\ Finished(tcp.job)
  /\ tcp' = [tcp EXCEPT !.at = "receive", !.job = NoJob]
  /\ client' = IF client.at = "waiting" /\ client.transaction = tcp.transaction
               THEN [client EXCEPT !.at = "idle", !.answer = Answer(tcp.job)]
               ELSE client
  /\ UNCHANGED <<holding, packets>>

----------------------------------------------------------------------------
(* The client. *)

Connect ==
  /\ client.at = "closed"
  /\ client' = [client EXCEPT !.at = "connecting"]
  /\ UNCHANGED <<holding, tcp, packets>>

Request(request, whole, sent) ==
  /\ packets' = packets \o sent
  /\ client' = [client EXCEPT !.at = "waiting", !.request = request, !.whole = whole,
                              !.transaction = @ + 1, !.splits = IF whole THEN @ ELSE @ + 1,
                              !.answer = NoAnswer]
  /\ UNCHANGED <<holding, tcp>>

ClientSends ==
  /\ client.at = "idle"
  /\ \E request \in TcpRequests :
        LET adu == Adu(client.transaction + 1, request)
        IN  \/ Request(request, TRUE, <<adu>>)
            \/ /\ client.splits < MaxSplits
               /\ \E n \in Cuts \intersect 1 .. Len(adu) - 1 :
                     Request(request, FALSE,
                             <<SubSeq(adu, 1, n), SubSeq(adu, n + 1, Len(adu))>>)

(* It gives up, with or without an answer. *)
Disconnect ==
  /\ client.at \in {"idle", "waiting"}
  /\ client' = [client EXCEPT !.at = "closed"]
  /\ UNCHANGED <<holding, tcp, packets>>

TcpServes ==
  \/ Accept \/ Close \/ ReceiveFragment \/ ReceiveRequest \/ ReceiveFails
  \/ AccessRegister \/ SendResponse
=============================================================================
