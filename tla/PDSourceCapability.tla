-------------------------- MODULE PDSourceCapability --------------------------
(***************************************************************************)
(* What a power source offers and what is requested of it:                 *)
(* usb_pd/PDSourceCapability.cpp.  Objects are records of their fields, in *)
(* the units of the protocol; capabilities are in mV and mA.               *)
(***************************************************************************)
EXTENDS Integers, Sequences, FiniteSets, FiniteSetsExt, SequencesExt

(* "other" is a programmable supply that is not a PPS.                     *)
CapabilityObject ==
  [type : {"fixed", "battery", "variable", "other"},
   max : 0 .. 1023, min : 0 .. 1023, current : 0 .. 1023]
    \union [type : {"pps"}, max : 0 .. 255, min : 0 .. 255, current : 0 .. 127]

Capability ==
  [supplyType : {"fixed", "battery", "variable", "pps"}, objPos : 1 .. 7,
   maxCurrent : Nat, maxVoltage : Nat, minVoltage : Nat]

Supply == [voltage : Nat, current : Nat]    \* current 0: as much as there is

RequestObject == [objPos : 0 .. 7, voltage : Nat, current : Nat]
NoObject == [objPos |-> 0, voltage |-> 0, current |-> 0]

PowerRequest == [index : 0 .. 7, supply : Supply, object : RequestObject]

(* The index counts from 1; 0 stands for -1.                               *)
NoRequest == [index |-> 0, supply |-> [voltage |-> 0, current |-> 0], object |-> NoObject]

----------------------------------------------------------------------------
CapabilityOf(pdo, objPos) ==
  LET pps == pdo.type = "pps"
      volts == IF pps THEN 100 ELSE 50
      highest == IF pdo.type = "fixed" THEN pdo.min ELSE pdo.max
  IN  [supplyType |-> pdo.type, objPos |-> objPos,
       maxCurrent |-> pdo.current * IF pps THEN 50 ELSE 10,
       maxVoltage |-> highest * volts, minVoltage |-> pdo.min * volts]

(* The objects that are kept, and the place of the n-th of them. *)
Kept(objects) == {i \in DOMAIN objects : objects[i].type # "other"}
KeptUpTo(objects, i) == Cardinality({j \in Kept(objects) : j <= i})
PlaceOf(objects, n) == CHOOSE i \in Kept(objects) : KeptUpTo(objects, i) = n

(* Variant: the place among the capabilities that are kept.                *)
ParseRenumbered(objects) ==
  [n \in 1 .. Cardinality(Kept(objects)) |-> CapabilityOf(objects[PlaceOf(objects, n)], n)]

ParseMessage(objects) ==
  [n \in 1 .. Cardinality(Kept(objects)) |->
     CapabilityOf(objects[PlaceOf(objects, n)], PlaceOf(objects, n))]

InRange(capability, voltage) == voltage \in capability.minVoltage .. capability.maxVoltage

----------------------------------------------------------------------------
(* Rounded to the units of the object, and what has been requested by it.  *)
Rounded(value, unit, limit) == Min({(value + unit \div 2) \div unit, limit}) * unit

FixedRequest(i, capability, supply) ==
  LET current == Rounded(supply.current, 10, 1023)
  IN  [index |-> i, supply |-> [supply EXCEPT !.current = current],
       object |-> [objPos |-> capability.objPos, voltage |-> 0, current |-> current]]

ProgrammableRequest(i, capability, supply) ==
  LET voltage == Rounded(supply.voltage, 20, 2047)
      current == Rounded(supply.current, 50, 127)
  IN  [index |-> i, supply |-> [voltage |-> voltage, current |-> current],
       object |-> [objPos |-> capability.objPos, voltage |-> voltage, current |-> current]]

PowerRequestObjectForCapability(i, capability, supply) ==
  IF supply.current \notin 25 .. capability.maxCurrent
  THEN [index |-> i, supply |-> supply, object |-> NoObject]
  ELSE IF capability.supplyType = "fixed"
       THEN FixedRequest(i, capability, supply)
       ELSE ProgrammableRequest(i, capability, supply)

(* The first fixed supply of the voltage, whatever its current, else the   *)
(* first programmable one that has both; 0 is for the maximum.             *)
Found(capabilities, supply) ==
  LET fixed == SelectInSeq(capabilities, LAMBDA c :
                 c.supplyType = "fixed" /\ InRange(c, supply.voltage))
      pps == SelectInSeq(capabilities, LAMBDA c :
               /\ c.supplyType = "pps" /\ InRange(c, supply.voltage)
               /\ supply.current = 0 \/ supply.current \in 25 .. c.maxCurrent)
  IN  IF fixed # 0 THEN fixed ELSE pps

Asked(capability, supply) ==
  IF supply.current = 0 THEN [supply EXCEPT !.current = capability.maxCurrent] ELSE supply

(* Of at most one index: a set, so that TLC looks it up once.              *)
PowerRequestObject(capabilities, supply) ==
  LET requests == {PowerRequestObjectForCapability(i, capabilities[i], Asked(capabilities[i], supply)) :
                     i \in {Found(capabilities, supply)} \ {0}}
  IN  IF requests = {} THEN [NoRequest EXCEPT !.supply = supply] ELSE CHOOSE r \in requests : TRUE
=============================================================================
