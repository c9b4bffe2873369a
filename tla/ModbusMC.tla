------------------------------ MODULE ModbusMC ------------------------------
(* A small instance of Modbus for TLC: two registers, and a request of each *)
(* kind, with some that are refused or meant for another slave.             *)
EXTENDS Modbus

Req(fc, start, quantity, values) ==
  [fc |-> fc, start |-> start, quantity |-> quantity, values |-> values]

To(slave, request) ==
  [slave |-> slave, fc |-> request.fc, start |-> request.start,
   quantity |-> request.quantity, values |-> request.values]

(* Both registers, the second one, an unknown function, another slave. *)
ToMaster ==
  {To(9, Req(3, 0, 2, << >>)), To(9, Req(6, 1, 1, <<258>>)), To(9, Req(16, 0, 2, <<1, 9>>)),
   To(9, Req(15, 0, 1, <<9>>)), To(2, Req(6, 1, 1, <<9>>))}

(* An input register, the first register, both, a register too many. *)
ToClient ==
  {Req(4, 0, 1, << >>), Req(6, 0, 1, <<4>>), Req(16, 0, 2, <<4, 5>>), Req(16, 1, 2, <<4, 5>>)}

(* A write whose bytes after the first value read as a request of their    *)
(* own: of the function 6, for the first register.                         *)
ToCutClient == {Req(16, 0, 6, <<1, 0, 6, 262, 0, 9>>)}

ASSUME SerialFramesAreSingle == FramesAreSingle
=============================================================================
