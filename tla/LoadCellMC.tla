----------------------------- MODULE LoadCellMC -----------------------------
(* A small instance of LoadCell for TLC: two bits, three readings, an      *)
(* order that alternates, one that repeats, and single modes.              *)
EXTENDS LoadCell

SomeOrders ==
  {<<>>, <<"A128">>, <<"B32">>, <<"A128", "B32">>, <<"A64", "A64", "B32">>}
=============================================================================
