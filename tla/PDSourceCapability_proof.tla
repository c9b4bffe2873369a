----------------------- MODULE PDSourceCapability_proof -----------------------
(***************************************************************************)
(* Lemmas about the operators of PDSourceCapability: what is parsed of an  *)
(* offer, and that a request made of it stays within the capability it is  *)
(* made of.                                                                *)
(***************************************************************************)
EXTENDS PDSourceCapability, FiniteSetTheorems, SequenceTheorems,
        WellFoundedInduction, TLAPS

(* The library's least-number theorem takes an operator, which no prover   *)
(* here instantiates; its theorem about well-founded relations takes sets. *)
Below == {p \in Nat \X Nat : p[1] < p[2]}

(* Each set of numbers that is not empty has a least one. *)
LEMMA LeastNumber ==
  ASSUME NEW T, T \subseteq Nat, T # {}
  PROVE  \E x \in T : \A y \in T : x <= y
<1>1. IsWellFoundedOn(Below, Nat)
  BY NatLessThanWellFounded DEF OpToRel, Below
<1>2. PICK x \in T : \A y \in T : <<y, x>> \notin Below
  BY <1>1, WFMin
<1>3. \A y \in T : x <= y
  <2> TAKE y \in T
  <2>1. x \in Nat /\ y \in Nat /\ <<y, x>> \notin Below
    BY <1>2
  <2>2. ~(y < x)
    BY <2>1 DEF Below
  <2>3. QED
    BY <2>1, <2>2
<1>4. QED
  BY <1>3

(* Min finds it. *)
LEMMA MinLemma ==
  ASSUME NEW T, T \subseteq Nat, T # {}
  PROVE  Min(T) \in T /\ \A y \in T : Min(T) <= y
BY LeastNumber DEF Min

(* The lesser of two. *)
LEMMA MinOfTwo ==
  ASSUME NEW a \in Nat, NEW b \in Nat
  PROVE  /\ Min({a, b}) \in Nat
         /\ Min({a, b}) = IF a <= b THEN a ELSE b
<1>1. Min({a, b}) \in {a, b} /\ Min({a, b}) <= a /\ Min({a, b}) <= b
  BY MinLemma
<1>2. QED
  BY <1>1
----------------------------------------------------------------------------
(* parseMessage. *)

(* The count of the objects kept rises by one with each of them, from 0 to *)
(* their number.                                                           *)
LEMMA CountLemma ==
  ASSUME NEW objects \in Seq(CapabilityObject)
  PROVE  /\ IsFiniteSet(Kept(objects))
         /\ Kept(objects) \subseteq 1 .. Len(objects)
         /\ Cardinality(Kept(objects)) \in 0 .. Len(objects)
         /\ KeptUpTo(objects, 0) = 0
         /\ KeptUpTo(objects, Len(objects)) = Cardinality(Kept(objects))
         /\ \A i \in Nat : KeptUpTo(objects, i) \in Nat
         /\ \A i \in Nat : KeptUpTo(objects, i + 1)
              = IF i + 1 \in Kept(objects) THEN KeptUpTo(objects, i) + 1 ELSE KeptUpTo(objects, i)
<1> DEFINE K == Kept(objects)
           U(i) == {j \in K : j <= i}
<1>1. Len(objects) \in Nat /\ DOMAIN objects = 1 .. Len(objects)
  BY LenProperties
<1>2. K \subseteq 1 .. Len(objects)
  BY <1>1 DEF Kept
<1>3. IsFiniteSet(1 .. Len(objects)) /\ Cardinality(1 .. Len(objects)) = Len(objects)
  <2> DEFINE n == Len(objects)
  <2>1. n \in Nat
    BY <1>1
  <2> HIDE DEF n, K, U
  <2>2. IsFiniteSet(1 .. n) /\ Cardinality(1 .. n) = IF 1 > n THEN 0 ELSE n - 1 + 1
    BY <2>1, FS_Interval
  <2>3. IsFiniteSet(1 .. n) /\ Cardinality(1 .. n) = n
    BY <2>1, <2>2
  <2> QED BY <2>3 DEF n
<1>4. /\ IsFiniteSet(K) /\ Cardinality(K) <= Len(objects)
      /\ Cardinality(K) \in Nat
  BY <1>2, <1>3, FS_Subset, FS_CardinalityType
<1>5. \A i \in Nat : IsFiniteSet(U(i)) /\ Cardinality(U(i)) \in Nat
  <2> TAKE i \in Nat
  <2>1. U(i) \in SUBSET K
    OBVIOUS
  <2>2. QED
    BY <2>1, <1>4, FS_Subset, FS_CardinalityType
<1>6. U(0) = {} /\ U(Len(objects)) = K
  BY <1>1, <1>2
<1>7. \A i \in Nat : Cardinality(U(i + 1))
        = IF i + 1 \in K THEN Cardinality(U(i)) + 1 ELSE Cardinality(U(i))
  <2> TAKE i \in Nat
  <2>1. CASE i + 1 \in K
    <3>1. U(i + 1) = U(i) \union {i + 1} /\ i + 1 \notin U(i)
      BY <2>1, <1>1, <1>2
    <3>2. QED
      BY <2>1, <3>1, <1>5, FS_AddElement
  <2>2. CASE i + 1 \notin K
    <3>1. U(i + 1) = U(i)
      BY <2>2, <1>1, <1>2
    <3>2. QED
      BY <2>2, <3>1
  <2>3. QED
    BY <2>1, <2>2
<1>8. KeptUpTo(objects, 0) = 0 /\ KeptUpTo(objects, Len(objects)) = Cardinality(K)
  <2>1. KeptUpTo(objects, 0) = Cardinality(U(0))
        /\ KeptUpTo(objects, Len(objects)) = Cardinality(U(Len(objects)))
    BY DEF KeptUpTo
  <2>2. QED
    BY <2>1, <1>6, FS_EmptySet
<1>9. \A i \in Nat : KeptUpTo(objects, i) \in Nat
  BY <1>5 DEF KeptUpTo
<1>10. \A i \in Nat : KeptUpTo(objects, i + 1)
         = IF i + 1 \in K THEN KeptUpTo(objects, i) + 1 ELSE KeptUpTo(objects, i)
  BY <1>7 DEF KeptUpTo
<1> HIDE DEF U
<1>11. QED
  BY <1>1, <1>2, <1>4, <1>8, <1>9, <1>10

(* The n-th object that is kept has a place. *)
LEMMA PlaceLemma ==
  ASSUME NEW objects \in Seq(CapabilityObject), NEW n \in 1 .. Cardinality(Kept(objects))
  PROVE  PlaceOf(objects, n) \in Kept(objects) /\ KeptUpTo(objects, PlaceOf(objects, n)) = n
<1> DEFINE K == Kept(objects)
           C(i) == KeptUpTo(objects, i)
           T == {i \in Nat : C(i) >= n}
<1>1. Len(objects) \in Nat
  BY LenProperties
<1>2. /\ C(0) = 0 /\ C(Len(objects)) = Cardinality(K) /\ Cardinality(K) \in Nat
      /\ \A i \in Nat : C(i) \in Nat
      /\ \A i \in Nat : C(i + 1) = IF i + 1 \in K THEN C(i) + 1 ELSE C(i)
  BY CountLemma, <1>1
<1>3. n \in Nat /\ n >= 1 /\ n <= Cardinality(K)
  BY <1>2
<1> HIDE DEF C, K
<1>4. Len(objects) \in T
  BY <1>1, <1>2, <1>3
<1>5. PICK x \in T : \A y \in T : x <= y
  BY <1>4, LeastNumber
<1>6. x # 0 /\ x \in Nat
  BY <1>2, <1>3
<1>7. x - 1 \in Nat /\ x - 1 \notin T /\ x = (x - 1) + 1
  BY <1>5, <1>6
<1>8. C(x - 1) \in Nat /\ C(x - 1) < n /\ C(x) >= n
  BY <1>2, <1>3, <1>7
<1>9. C(x) = IF x \in K THEN C(x - 1) + 1 ELSE C(x - 1)
  BY <1>2, <1>7
<1>10. x \in K /\ C(x) = n
  BY <1>3, <1>8, <1>9
<1>11. QED
  BY <1>10 DEF PlaceOf, C, K

(* The fields of an object. *)
LEMMA ObjectLemma ==
  ASSUME NEW pdo \in CapabilityObject
  PROVE  /\ pdo.type \in {"fixed", "battery", "variable", "pps", "other"}
         /\ pdo.max \in Nat /\ pdo.min \in Nat /\ pdo.current \in Nat
         /\ pdo.type = "pps" => pdo.max <= 255 /\ pdo.min <= 255 /\ pdo.current <= 127
<1>1. CASE pdo \in [type : {"pps"}, max : 0 .. 255, min : 0 .. 255, current : 0 .. 127]
  BY <1>1
<1>2. CASE pdo \in [type : {"fixed", "battery", "variable", "other"},
                    max : 0 .. 1023, min : 0 .. 1023, current : 0 .. 1023]
  <2> DEFINE Field == 0 .. 1023
  <2>1. pdo.type \in {"fixed", "battery", "variable", "other"}
    BY <1>2
  <2>2. pdo.max \in Field /\ pdo.min \in Field /\ pdo.current \in Field
    BY <1>2
  <2>3. Field \subseteq Nat
    OBVIOUS
  <2> HIDE DEF Field
  <2>4. pdo.max \in Nat /\ pdo.min \in Nat /\ pdo.current \in Nat
    BY <2>2, <2>3, Zenon
  <2>5. pdo.type \in {"fixed", "battery", "variable", "pps", "other"} /\ pdo.type # "pps"
    BY <2>1
  <2>6. QED
    BY <2>4, <2>5, Zenon
<1>3. QED
  BY <1>1, <1>2 DEF CapabilityObject

(* An object that is not skipped makes a capability. *)
LEMMA CapabilityLemma ==
  ASSUME NEW pdo \in CapabilityObject, pdo.type # "other", NEW i \in 1 .. 7
  PROVE  CapabilityOf(pdo, i) \in Capability
<1>1. /\ pdo.type \in {"fixed", "battery", "variable", "pps"}
      /\ pdo.max \in Nat /\ pdo.min \in Nat /\ pdo.current \in Nat
  BY ObjectLemma
<1>2. \A a \in Nat : a * 10 \in Nat /\ a * 50 \in Nat /\ a * 100 \in Nat
  OBVIOUS
<1>3. QED
  BY <1>1, <1>2 DEF CapabilityOf, Capability

(* What is parsed: the objects that are kept, each with its own place.     *)
LEMMA ParseLemma ==
  ASSUME NEW objects \in Seq(CapabilityObject), Len(objects) <= 7
  PROVE  /\ ParseMessage(objects) \in Seq(Capability)
         /\ Len(ParseMessage(objects)) = Cardinality(Kept(objects))
         /\ Len(ParseMessage(objects)) \in 0 .. 7
         /\ Kept(objects) # {} => Len(ParseMessage(objects)) > 0
         /\ \A n \in 1 .. Len(ParseMessage(objects)) :
              \E i \in Kept(objects) : ParseMessage(objects)[n] = CapabilityOf(objects[i], i)
<1> DEFINE m == Cardinality(Kept(objects))
           p == ParseMessage(objects)
<1>1. Len(objects) \in Nat /\ DOMAIN objects = 1 .. Len(objects)
  BY LenProperties
<1>2. /\ m \in 0 .. Len(objects) /\ IsFiniteSet(Kept(objects))
      /\ Kept(objects) \subseteq 1 .. Len(objects)
  BY CountLemma
<1>3. Kept(objects) # {} => m > 0
  <2>1. m = 0 => Kept(objects) = {}
    BY <1>2, FS_EmptySet
  <2>2. QED
    BY <1>1, <1>2, <2>1
<1>4. \A n \in 1 .. m : PlaceOf(objects, n) \in Kept(objects)
  BY PlaceLemma
<1>5. \A i \in Kept(objects) : CapabilityOf(objects[i], i) \in Capability
  <2> TAKE i \in Kept(objects)
  <2>1. i \in 1 .. 7
    BY <1>1, <1>2
  <2>2. /\ objects[i] \in CapabilityObject /\ objects[i].type # "other"
    BY <1>1, <1>2, ElementOfSeq DEF Kept
  <2>3. QED
    BY <2>1, <2>2, CapabilityLemma
<1>6. p \in [1 .. m -> Capability]
  BY <1>4, <1>5 DEF ParseMessage
<1>7. p \in Seq(Capability)
  BY <1>1, <1>2, <1>6, SeqDef
<1>8. Len(p) = m
  BY <1>1, <1>2, <1>6, <1>7, LenProperties
<1>9. \A n \in 1 .. m : p[n] = CapabilityOf(objects[PlaceOf(objects, n)], PlaceOf(objects, n))
  BY DEF ParseMessage
<1>10. QED
  BY <1>1, <1>2, <1>3, <1>4, <1>7, <1>8, <1>9

----------------------------------------------------------------------------
(* powerRequestObject. *)

(* Rounding to the nearest multiple of a unit leaves what is a multiple    *)
(* of it on the same side.                                                 *)
LEMMA RoundedLemma ==
  ASSUME NEW value \in Nat, NEW limit \in Nat, NEW unit \in {10, 20, 50}
  PROVE  /\ Rounded(value, unit, limit) \in Nat
         /\ \A k \in Nat : value <= k * unit => Rounded(value, unit, limit) <= k * unit
         /\ \A k \in Nat : value >= k * unit /\ k <= limit => Rounded(value, unit, limit) >= k * unit
<1> DEFINE n == (value + unit \div 2) \div unit
<1>1. /\ n \in Nat
      /\ \A k \in Nat : value <= k * unit => n <= k
      /\ \A k \in Nat : value >= k * unit => n >= k
  <2>1. CASE unit = 10
    BY <2>1
  <2>2. CASE unit = 20
    BY <2>2
  <2>3. CASE unit = 50
    BY <2>3
  <2>4. QED
    BY <2>1, <2>2, <2>3
<1> DEFINE r == Min({n, limit})
<1>2. Rounded(value, unit, limit) = r * unit
  BY DEF Rounded
<1> HIDE DEF n
<1>3. r \in Nat /\ r = IF n <= limit THEN n ELSE limit
  BY <1>1, MinOfTwo
<1>4. /\ \A k \in Nat : value <= k * unit => r <= k
      /\ \A k \in Nat : value >= k * unit /\ k <= limit => r >= k
  BY <1>1, <1>3
<1> HIDE DEF r
<1>5. \A k \in Nat : (r <= k => r * unit <= k * unit) /\ (r >= k => r * unit >= k * unit)
  <2>1. CASE unit = 10
    BY <1>3, <2>1
  <2>2. CASE unit = 20
    BY <1>3, <2>2
  <2>3. CASE unit = 50
    BY <1>3, <2>3
  <2>4. QED
    BY <2>1, <2>2, <2>3
<1>6. r * unit \in Nat
  BY <1>3
<1>7. QED
  BY <1>2, <1>4, <1>5, <1>6

(* Rounded values are numbers, and are capped to their fields. *)
LEMMA RoundedType ==
  ASSUME NEW value \in Nat
  PROVE  /\ Rounded(value, 10, 1023) \in Nat
         /\ Rounded(value, 20, 2047) \in Nat
         /\ Rounded(value, 50, 127) \in Nat
<1>1. \A limit, unit \in Nat : unit \in {10, 20, 50} => Rounded(value, unit, limit) \in Nat
  BY RoundedLemma
<1>2. Rounded(value, 10, 1023) \in Nat
  BY <1>1
<1>3. Rounded(value, 20, 2047) \in Nat
  BY <1>1
<1>4. Rounded(value, 50, 127) \in Nat
  BY <1>1
<1>5. QED
  BY <1>2, <1>3, <1>4

(* A capability that is found is one of the list, has the voltage in its   *)
(* range, and is a fixed supply or a PPS.                                  *)
LEMMA FoundLemma ==
  ASSUME NEW capabilities \in Seq(Capability), NEW supply \in Supply
  PROVE  /\ Found(capabilities, supply) \in 0 .. Len(capabilities)
         /\ Found(capabilities, supply) # 0 =>
              LET c == capabilities[Found(capabilities, supply)]
              IN  /\ InRange(c, supply.voltage)
                  /\ c.supplyType \in {"fixed", "pps"}
<1> DEFINE F == {i \in 1 .. Len(capabilities) :
                   /\ capabilities[i].supplyType = "fixed"
                   /\ InRange(capabilities[i], supply.voltage)}
           P == {i \in 1 .. Len(capabilities) :
                   /\ capabilities[i].supplyType = "pps" /\ InRange(capabilities[i], supply.voltage)
                   /\ supply.current = 0 \/ supply.current \in 25 .. capabilities[i].maxCurrent}
<1>1. Found(capabilities, supply)
        = LET fixed == IF F # {} THEN Min(F) ELSE 0
              pps == IF P # {} THEN Min(P) ELSE 0
          IN  IF fixed # 0 THEN fixed ELSE pps
  BY DEF Found, SelectInSeq
<1>2. Len(capabilities) \in Nat
  BY LenProperties
<1> DEFINE Inside == F \subseteq Nat /\ P \subseteq Nat
<1>3. Inside
  BY <1>2
<1> HIDE DEF F, P
<1>4. (F # {} => Min(F) \in F) /\ (P # {} => Min(P) \in P)
  BY <1>3, MinLemma
<1>5. Found(capabilities, supply) \in {0} \union F \union P
  BY <1>1, <1>4
<1>6. QED
  BY <1>2, <1>5 DEF F, P

(* What is asked of a capability keeps the voltage wished for. *)
LEMMA AskedLemma ==
  ASSUME NEW capability \in Capability, NEW supply \in Supply
  PROVE  /\ Asked(capability, supply) \in Supply
         /\ Asked(capability, supply).voltage = supply.voltage
BY DEF Asked, Capability, Supply

(* A request made for a capability, or none, is a request. *)
LEMMA ForCapabilityLemma ==
  ASSUME NEW i \in 0 .. 7, NEW c \in Capability, NEW supply \in Supply
  PROVE  PowerRequestObjectForCapability(i, c, supply) \in PowerRequest
<1>1. supply.voltage \in Nat /\ supply.current \in Nat /\ c.objPos \in 0 .. 7
  BY DEF Supply, Capability
<1>2. /\ Rounded(supply.current, 10, 1023) \in Nat /\ Rounded(supply.voltage, 20, 2047) \in Nat
      /\ Rounded(supply.current, 50, 127) \in Nat
  BY <1>1, RoundedType
<1>3. \A v, a \in Nat : [voltage |-> v, current |-> a] \in Supply
  BY DEF Supply
<1>4. \A v, a \in Nat : [objPos |-> c.objPos, voltage |-> v, current |-> a] \in RequestObject
  BY <1>1 DEF RequestObject
<1>5. NoObject \in RequestObject
  BY DEF NoObject, RequestObject
<1>6. FixedRequest(i, c, supply) \in PowerRequest
  <2>1. [supply EXCEPT !.current = Rounded(supply.current, 10, 1023)] \in Supply
    BY <1>2 DEF Supply
  <2>2. QED
    BY <1>2, <1>4, <2>1 DEF FixedRequest, PowerRequest
<1>7. ProgrammableRequest(i, c, supply) \in PowerRequest
  BY <1>2, <1>3, <1>4 DEF ProgrammableRequest, PowerRequest
<1>8. [index |-> i, supply |-> supply, object |-> NoObject] \in PowerRequest
  BY <1>5 DEF PowerRequest
<1>9. QED
  BY <1>6, <1>7, <1>8 DEF PowerRequestObjectForCapability

(* A request, and the capability it is made of, if any. *)
LEMMA RequestLemma ==
  ASSUME NEW capabilities \in Seq(Capability), Len(capabilities) <= 7, NEW supply \in Supply
  PROVE  LET r == PowerRequestObject(capabilities, supply)
             i == Found(capabilities, supply)
         IN  /\ r \in PowerRequest
             /\ i \in 0 .. Len(capabilities)
             /\ i = 0 => r = [NoRequest EXCEPT !.supply = supply]
             /\ i # 0 => r = PowerRequestObjectForCapability(i, capabilities[i],
                                                           Asked(capabilities[i], supply))
<1> DEFINE r == PowerRequestObject(capabilities, supply)
           f == Found(capabilities, supply)
           Made(i) == PowerRequestObjectForCapability(i, capabilities[i], Asked(capabilities[i], supply))
<1>1. Len(capabilities) \in Nat /\ f \in 0 .. Len(capabilities)
  BY LenProperties, FoundLemma
<1>2. CASE f = 0
  <2>1. {Made(i) : i \in {f} \ {0}} = {}
    BY <1>2
  <2>2. r = [NoRequest EXCEPT !.supply = supply]
    BY <2>1 DEF PowerRequestObject
  <2>3. NoRequest \in PowerRequest
    BY DEF NoRequest, NoObject, PowerRequest, Supply, RequestObject
  <2>4. r \in PowerRequest
    BY <2>2, <2>3 DEF PowerRequest
  <2>5. QED
    BY <1>1, <1>2, <2>2, <2>4
<1>3. CASE f # 0
  <2>1. {Made(i) : i \in {f} \ {0}} = {Made(f)}
    BY <1>3
  <2>2. r = Made(f)
    BY <2>1 DEF PowerRequestObject
  <2>3. f \in 1 .. Len(capabilities) /\ f \in 0 .. 7
    BY <1>1, <1>3
  <2>4. capabilities[f] \in Capability
    BY <2>3, ElementOfSeq
  <2>5. Made(f) \in PowerRequest
    BY <2>3, <2>4, AskedLemma, ForCapabilityLemma
  <2>6. QED
    BY <1>1, <1>3, <2>2, <2>5
<1>4. QED
  BY <1>2, <1>3

(* An object that stays within the capability object it names. *)
Within(object, pdo) ==
  \/ /\ pdo.type = "fixed"
     /\ object.current <= pdo.current * 10
  \/ /\ pdo.type = "pps"
     /\ object.current <= pdo.current * 50
     /\ object.voltage \in pdo.min * 100 .. pdo.max * 100

(* No rounding leaves the limits of the capability. *)
LEMMA WithinLemma ==
  ASSUME NEW pdo \in CapabilityObject, pdo.type \in {"fixed", "pps"}, NEW i, NEW pos \in 1 .. 7,
         NEW supply \in Supply, InRange(CapabilityOf(pdo, pos), supply.voltage)
  PROVE  LET r == PowerRequestObjectForCapability(i, CapabilityOf(pdo, pos), supply)
         IN  r.object = NoObject \/ (r.object.objPos = pos /\ Within(r.object, pdo))
<1> DEFINE c == CapabilityOf(pdo, pos)
           r == PowerRequestObjectForCapability(i, c, supply)
<1>1. /\ pdo.max \in Nat /\ pdo.min \in Nat /\ pdo.current \in Nat
      /\ pdo.type = "pps" => pdo.max <= 255 /\ pdo.min <= 255
  BY ObjectLemma
<1>2. supply.voltage \in Nat /\ supply.current \in Nat
  BY DEF Supply
<1>3. CASE pdo.type = "fixed" /\ supply.current \in 25 .. c.maxCurrent
  <2>1. /\ c.maxCurrent = pdo.current * 10 /\ c.objPos = pos /\ c.supplyType = "fixed"
    BY <1>3 DEF CapabilityOf
  <2>2. supply.current <= pdo.current * 10
    BY <1>2, <1>3, <2>1
  <2>3. Rounded(supply.current, 10, 1023) <= pdo.current * 10
    <3>1. \A value \in Nat : value <= pdo.current * 10
                             => Rounded(value, 10, 1023) <= pdo.current * 10
      BY <1>1, RoundedLemma
    <3>2. QED
      BY <1>2, <2>2, <3>1
  <2>4. r = FixedRequest(i, c, supply)
    BY <1>3, <2>1 DEF PowerRequestObjectForCapability
  <2>5. r.object.objPos = pos /\ r.object.current = Rounded(supply.current, 10, 1023)
    BY <2>1, <2>4 DEF FixedRequest
  <2>6. QED
    BY <1>3, <2>3, <2>5 DEF Within
<1>4. CASE pdo.type = "pps" /\ supply.current \in 25 .. c.maxCurrent
  <2>1. /\ c.maxCurrent = pdo.current * 50 /\ c.objPos = pos /\ c.supplyType = "pps"
        /\ c.minVoltage = pdo.min * 100 /\ c.maxVoltage = pdo.max * 100
    BY <1>4 DEF CapabilityOf
  <2>2. /\ supply.current <= pdo.current * 50
        /\ supply.voltage >= (pdo.min * 5) * 20 /\ supply.voltage <= (pdo.max * 5) * 20
    BY <1>1, <1>2, <1>4, <2>1 DEF InRange
  <2>3. Rounded(supply.current, 50, 127) <= pdo.current * 50
    <3>1. \A value \in Nat : value <= pdo.current * 50
                             => Rounded(value, 50, 127) <= pdo.current * 50
      BY <1>1, RoundedLemma
    <3>2. QED
      BY <1>2, <2>2, <3>1
  <2>4. /\ Rounded(supply.voltage, 20, 2047) \in Nat
        /\ Rounded(supply.voltage, 20, 2047) >= (pdo.min * 5) * 20
        /\ Rounded(supply.voltage, 20, 2047) <= (pdo.max * 5) * 20
    <3>1. pdo.min * 5 \in Nat /\ pdo.max * 5 \in Nat /\ pdo.min * 5 <= 2047
      BY <1>1, <1>4
    <3>2. \A value, k \in Nat :
            /\ Rounded(value, 20, 2047) \in Nat
            /\ value <= k * 20 => Rounded(value, 20, 2047) <= k * 20
            /\ value >= k * 20 /\ k <= 2047 => Rounded(value, 20, 2047) >= k * 20
      <4> TAKE value, k \in Nat
      <4>1. Rounded(value, 20, 2047) \in Nat
        BY RoundedType
      <4>2. value <= k * 20 => Rounded(value, 20, 2047) <= k * 20
        BY RoundedLemma
      <4>3. value >= k * 20 /\ k <= 2047 => Rounded(value, 20, 2047) >= k * 20
        BY RoundedLemma
      <4>4. QED
        BY <4>1, <4>2, <4>3
    <3>3. QED
      BY <1>2, <2>2, <3>1, <3>2
  <2>5. r = ProgrammableRequest(i, c, supply)
    BY <1>4, <2>1 DEF PowerRequestObjectForCapability
  <2>6. /\ r.object.objPos = pos /\ r.object.current = Rounded(supply.current, 50, 127)
        /\ r.object.voltage = Rounded(supply.voltage, 20, 2047)
    BY <2>1, <2>5 DEF ProgrammableRequest
  <2> HIDE DEF r, c
  <2>7. r.object.voltage \in pdo.min * 100 .. pdo.max * 100
    BY <1>1, <2>4, <2>6
  <2>8. QED
    BY <1>4, <2>3, <2>6, <2>7 DEF Within, r, c
<1>5. CASE supply.current \notin 25 .. c.maxCurrent
  BY <1>5 DEF PowerRequestObjectForCapability
<1>6. QED
  BY <1>3, <1>4, <1>5

----------------------------------------------------------------------------
(* Requests that are repeated. *)

(* The values that a field of a request can hold. *)
Multiples(unit, limit) == {k * unit : k \in 0 .. limit}

(* A value that is rounded is one that its field can hold, and such a      *)
(* value is not rounded any more.                                          *)
LEMMA UnitsLemma ==
  ASSUME NEW limit \in Nat, NEW unit \in {10, 20, 50}
  PROVE  /\ \A value \in Nat : Rounded(value, unit, limit) \in Multiples(unit, limit)
         /\ \A held \in Multiples(unit, limit) : Rounded(held, unit, limit) = held
<1>1. ASSUME NEW value \in Nat PROVE Rounded(value, unit, limit) \in Multiples(unit, limit)
  <2> DEFINE n == (value + unit \div 2) \div unit
             k == Min({n, limit})
  <2>1. n \in Nat
    <3>1. CASE unit = 10
      BY <3>1
    <3>2. CASE unit = 20
      BY <3>2
    <3>3. CASE unit = 50
      BY <3>3
    <3> QED BY <3>1, <3>2, <3>3
  <2>2. Rounded(value, unit, limit) = k * unit
    BY DEF Rounded
  <2> HIDE DEF n
  <2>3. k \in 0 .. limit
    BY <2>1, MinOfTwo
  <2> HIDE DEF k
  <2> QED BY <2>2, <2>3 DEF Multiples
<1>2. ASSUME NEW k \in 0 .. limit PROVE Rounded(k * unit, unit, limit) = k * unit
  <2> DEFINE n == (k * unit + unit \div 2) \div unit
  <2>1. n = k
    <3>1. CASE unit = 10
      BY <3>1
    <3>2. CASE unit = 20
      BY <3>2
    <3>3. CASE unit = 50
      BY <3>3
    <3> QED BY <3>1, <3>2, <3>3
  <2>2. Rounded(k * unit, unit, limit) = Min({n, limit}) * unit
    BY DEF Rounded
  <2> HIDE DEF n
  <2>3. Min({n, limit}) = k
    BY <2>1, MinOfTwo
  <2> QED BY <2>2, <2>3
<1> QED BY <1>1, <1>2 DEF Multiples

(* What a request rounds, the same request rounds no more; nor does one of *)
(* a fixed supply, with the current rounded for a programmable one.        *)
LEMMA RoundedAgain ==
  ASSUME NEW value \in Nat
  PROVE  /\ Rounded(Rounded(value, 10, 1023), 10, 1023) = Rounded(value, 10, 1023)
         /\ Rounded(Rounded(value, 20, 2047), 20, 2047) = Rounded(value, 20, 2047)
         /\ Rounded(Rounded(value, 50, 127), 50, 127) = Rounded(value, 50, 127)
         /\ Rounded(Rounded(value, 50, 127), 10, 1023) = Rounded(value, 50, 127)
<1>1. ASSUME NEW limit \in Nat, NEW unit \in {10, 20, 50}
      PROVE  /\ Rounded(value, unit, limit) \in Multiples(unit, limit)
             /\ \A held \in Multiples(unit, limit) : Rounded(held, unit, limit) = held
  BY UnitsLemma
<1>2. /\ Rounded(value, 10, 1023) \in Multiples(10, 1023)
      /\ \A held \in Multiples(10, 1023) : Rounded(held, 10, 1023) = held
  BY <1>1
<1>3. /\ Rounded(value, 20, 2047) \in Multiples(20, 2047)
      /\ \A held \in Multiples(20, 2047) : Rounded(held, 20, 2047) = held
  BY <1>1
<1>4. /\ Rounded(value, 50, 127) \in Multiples(50, 127)
      /\ \A held \in Multiples(50, 127) : Rounded(held, 50, 127) = held
  BY <1>1
<1>5. Multiples(50, 127) \subseteq Multiples(10, 1023)
  <2> SUFFICES ASSUME NEW held \in Multiples(50, 127) PROVE held \in Multiples(10, 1023)
    OBVIOUS
  <2>1. PICK k \in 0 .. 127 : held = k * 50
    BY DEF Multiples
  <2> DEFINE j == 5 * k
  <2>2. j \in 0 .. 1023 /\ held = j * 10
    BY <2>1
  <2> HIDE DEF j
  <2> QED BY <2>2 DEF Multiples
<1> QED BY <1>2, <1>3, <1>4, <1>5

(* A fixed supply is the first of its voltage, whatever current is wished  *)
(* for.                                                                    *)
LEMMA FixedFound ==
  ASSUME NEW capabilities \in Seq(Capability), NEW supply \in Supply, NEW other \in Supply,
         other.voltage = supply.voltage,
         NEW i \in 1 .. Len(capabilities), capabilities[i].supplyType = "fixed",
         InRange(capabilities[i], supply.voltage)
  PROVE  /\ Found(capabilities, supply) \in 1 .. i
         /\ capabilities[Found(capabilities, supply)].supplyType = "fixed"
         /\ Found(capabilities, other) = Found(capabilities, supply)
<1> DEFINE F == {k \in 1 .. Len(capabilities) :
                   /\ capabilities[k].supplyType = "fixed"
                   /\ InRange(capabilities[k], supply.voltage)}
<1>1. Len(capabilities) \in Nat
  BY LenProperties
<1>2. i \in F /\ F \subseteq Nat
  BY <1>1
<1>3. SelectInSeq(capabilities, LAMBDA c : c.supplyType = "fixed" /\ InRange(c, supply.voltage))
        = Min(F)
  BY <1>2 DEF SelectInSeq
<1>4. Min(F) \in F /\ Min(F) <= i
  BY <1>2, MinLemma
<1>5. Min(F) \in 1 .. i /\ Min(F) # 0 /\ capabilities[Min(F)].supplyType = "fixed"
  BY <1>1, <1>4
<1> HIDE DEF F
<1>6. Found(capabilities, supply) = Min(F)
  BY <1>3, <1>5 DEF Found
<1>7. Found(capabilities, other) = Min(F)
  BY <1>3, <1>5 DEF Found
<1> QED BY <1>5, <1>6, <1>7

(* A request that can be sent, and the capability it is made of.           *)
LEMMA MadeLemma ==
  ASSUME NEW capabilities \in Seq(Capability), Len(capabilities) <= 7, NEW supply \in Supply,
         PowerRequestObject(capabilities, supply).object # NoObject
  PROVE  LET r == PowerRequestObject(capabilities, supply)
             c == capabilities[r.index]
             asked == Asked(c, supply)
         IN  /\ r \in PowerRequest /\ r.index = Found(capabilities, supply)
             /\ r.index \in 1 .. Len(capabilities)
             /\ c \in Capability /\ c.supplyType \in {"fixed", "pps"}
             /\ InRange(c, supply.voltage)
             /\ asked \in Supply /\ asked.voltage = supply.voltage
             /\ asked.current \in 25 .. c.maxCurrent
             /\ r = IF c.supplyType = "fixed" THEN FixedRequest(r.index, c, asked)
                    ELSE ProgrammableRequest(r.index, c, asked)
<1> DEFINE r == PowerRequestObject(capabilities, supply)
           f == Found(capabilities, supply)
           c == capabilities[f]
           asked == Asked(c, supply)
<1>1. /\ r \in PowerRequest /\ f \in 0 .. Len(capabilities)
      /\ f = 0 => r = [NoRequest EXCEPT !.supply = supply]
      /\ f # 0 => r = PowerRequestObjectForCapability(f, c, asked)
  BY RequestLemma
<1>2. Len(capabilities) \in Nat
  BY LenProperties
<1>3. f # 0
  BY <1>1 DEF NoRequest
<1>4. f \in 1 .. Len(capabilities)
  BY <1>1, <1>2, <1>3
<1>5. InRange(c, supply.voltage) /\ c.supplyType \in {"fixed", "pps"} /\ c \in Capability
  BY <1>3, <1>4, FoundLemma, ElementOfSeq
<1>6. asked \in Supply /\ asked.voltage = supply.voltage
  BY <1>5, AskedLemma
<1>7. r = PowerRequestObjectForCapability(f, c, asked) /\ r.object # NoObject
  BY <1>1, <1>3
<1> HIDE DEF r, f, c, asked
<1>8. asked.current \in 25 .. c.maxCurrent
  BY <1>7 DEF PowerRequestObjectForCapability
<1>9. r = IF c.supplyType = "fixed" THEN FixedRequest(f, c, asked) ELSE ProgrammableRequest(f, c, asked)
  BY <1>7, <1>8 DEF PowerRequestObjectForCapability
<1>10. r.index = f
  BY <1>9 DEF FixedRequest, ProgrammableRequest
<1> QED BY <1>1, <1>4, <1>5, <1>6, <1>8, <1>9, <1>10 DEF r, f, c, asked

(* A request that is repeated, if it can be, asks for the same supply.     *)
LEMMA RepeatLemma ==
  ASSUME NEW capabilities \in Seq(Capability), Len(capabilities) <= 7, NEW supply \in Supply,
         PowerRequestObject(capabilities, supply).object # NoObject,
         LET requested == PowerRequestObject(capabilities, supply).supply
         IN  PowerRequestObject(capabilities, requested).object # NoObject
  PROVE  LET requested == PowerRequestObject(capabilities, supply).supply
         IN  PowerRequestObject(capabilities, requested).supply = requested
<1> DEFINE r == PowerRequestObject(capabilities, supply)
           c == capabilities[r.index]
           asked == Asked(c, supply)
           requested == r.supply
           again == PowerRequestObject(capabilities, requested)
           d == capabilities[again.index]
           repeated == Asked(d, requested)
<1>1. /\ r \in PowerRequest /\ r.index = Found(capabilities, supply)
      /\ r.index \in 1 .. Len(capabilities)
      /\ c \in Capability /\ c.supplyType \in {"fixed", "pps"}
      /\ InRange(c, supply.voltage)
      /\ asked \in Supply /\ asked.voltage = supply.voltage
      /\ asked.current \in 25 .. c.maxCurrent
      /\ r = IF c.supplyType = "fixed" THEN FixedRequest(r.index, c, asked)
             ELSE ProgrammableRequest(r.index, c, asked)
  BY MadeLemma
<1>2. requested \in Supply
  BY <1>1 DEF PowerRequest
<1> HIDE DEF r
<1>3. /\ again.index = Found(capabilities, requested)
      /\ d \in Capability /\ d.supplyType \in {"fixed", "pps"}
      /\ repeated \in Supply /\ repeated.voltage = requested.voltage
      /\ repeated.current \in 25 .. d.maxCurrent
      /\ again = IF d.supplyType = "fixed" THEN FixedRequest(again.index, d, repeated)
                 ELSE ProgrammableRequest(again.index, d, repeated)
  BY <1>2, MadeLemma DEF r
<1> DEFINE v == asked.voltage
           a == asked.current
<1>4. v \in Nat /\ a \in Nat
  BY <1>1 DEF Supply
<1>5. /\ c.supplyType = "fixed" => requested = [voltage |-> v, current |-> Rounded(a, 10, 1023)]
      /\ c.supplyType = "pps" => requested = [voltage |-> Rounded(v, 20, 2047),
                                              current |-> Rounded(a, 50, 127)]
  <2>1. asked = [voltage |-> v, current |-> a]
    BY <1>1 DEF Supply
  <2> HIDE DEF asked, c, v, a
  <2>2. CASE c.supplyType = "fixed"
    <3>1. r = FixedRequest(r.index, c, asked)
      BY <1>1, <2>2
    <3> QED BY <2>1, <2>2, <3>1 DEF FixedRequest
  <2>3. CASE c.supplyType = "pps"
    <3>1. r = ProgrammableRequest(r.index, c, asked)
      BY <1>1, <2>3
    <3> QED BY <2>1, <2>3, <3>1 DEF ProgrammableRequest
  <2> QED BY <1>1, <2>2, <2>3
<1>6. requested.current # 0
  <2>1. CASE c.supplyType = "fixed"
    <3>1. Rounded(a, 10, 1023) >= 2 * 10
      <4> DEFINE k == 2
                 limit == 1023
                 unit == 10
      <4>1. /\ k \in Nat /\ limit \in Nat /\ unit \in {10, 20, 50}
            /\ a >= k * unit /\ k <= limit
        BY <1>1, <1>4
      <4> HIDE DEF a, k, limit, unit
      <4>2. Rounded(a, unit, limit) >= k * unit
        BY <1>4, <4>1, RoundedLemma
      <4> QED BY <4>2 DEF k, limit, unit
    <3> QED BY <1>5, <2>1, <3>1
  <2>2. CASE c.supplyType = "pps"
    <3>1. \A n \in Nat : n >= 25 => Rounded(n, 50, 127) # 0
      <4> TAKE n \in Nat
      <4> HAVE n >= 25
      <4> DEFINE k == (n + 50 \div 2) \div 50
      <4>1. k \in Nat /\ k >= 1
        OBVIOUS
      <4>2. Rounded(n, 50, 127) = Min({k, 127}) * 50
        BY DEF Rounded
      <4> HIDE DEF k
      <4>3. Min({k, 127}) \in Nat /\ Min({k, 127}) >= 1
        BY <4>1, MinOfTwo
      <4> QED BY <4>2, <4>3
    <3>2. Rounded(a, 50, 127) # 0
      BY <1>1, <1>4, <3>1
    <3> QED BY <1>5, <2>2, <3>2
  <2> QED BY <1>1, <2>1, <2>2
<1>7. repeated = requested
  BY <1>6 DEF Asked
<1>8. c.supplyType = "fixed" => d.supplyType = "fixed"
  <2> SUFFICES ASSUME c.supplyType = "fixed" PROVE d.supplyType = "fixed"
    OBVIOUS
  <2>1. requested.voltage = supply.voltage
    BY <1>1, <1>5
  <2>2. /\ Found(capabilities, supply) \in 1 .. r.index
        /\ capabilities[Found(capabilities, supply)].supplyType = "fixed"
        /\ Found(capabilities, requested) = Found(capabilities, supply)
    <3> HIDE DEF requested
    <3> QED BY <1>1, <1>2, <2>1, FixedFound
  <2> QED BY <1>3, <2>2
<1> DEFINE w == requested.voltage
           b == requested.current
<1>9. requested = [voltage |-> w, current |-> b]
  BY <1>2 DEF Supply
<1>10. /\ d.supplyType = "fixed" => again.supply = [voltage |-> w, current |-> Rounded(b, 10, 1023)]
       /\ d.supplyType = "pps" => again.supply = [voltage |-> Rounded(w, 20, 2047),
                                                  current |-> Rounded(b, 50, 127)]
  <2> HIDE DEF requested, again, d, w, b, repeated
  <2>1. CASE d.supplyType = "fixed"
    <3>1. again = FixedRequest(again.index, d, requested)
      BY <1>3, <1>7, <2>1
    <3> QED BY <1>9, <2>1, <3>1 DEF FixedRequest
  <2>2. CASE d.supplyType = "pps"
    <3>1. again = ProgrammableRequest(again.index, d, requested)
      BY <1>3, <1>7, <2>2
    <3> QED BY <1>9, <2>2, <3>1 DEF ProgrammableRequest
  <2> QED BY <1>3, <2>1, <2>2
<1>11. /\ Rounded(Rounded(a, 10, 1023), 10, 1023) = Rounded(a, 10, 1023)
       /\ Rounded(Rounded(v, 20, 2047), 20, 2047) = Rounded(v, 20, 2047)
       /\ Rounded(Rounded(a, 50, 127), 50, 127) = Rounded(a, 50, 127)
       /\ Rounded(Rounded(a, 50, 127), 10, 1023) = Rounded(a, 50, 127)
  BY <1>4, RoundedAgain
<1>12. /\ c.supplyType = "fixed" => w = v /\ b = Rounded(a, 10, 1023)
       /\ c.supplyType = "pps" => w = Rounded(v, 20, 2047) /\ b = Rounded(a, 50, 127)
  BY <1>5
<1> HIDE DEF c, d, asked, requested, again, repeated, v, a, w, b
<1>13. again.supply = requested
  <2>1. CASE c.supplyType = "fixed"
    BY <1>8, <1>9, <1>10, <1>11, <1>12, <2>1
  <2>2. CASE c.supplyType = "pps" /\ d.supplyType = "fixed"
    BY <1>9, <1>10, <1>11, <1>12, <2>2
  <2>3. CASE c.supplyType = "pps" /\ d.supplyType = "pps"
    BY <1>9, <1>10, <1>11, <1>12, <2>3
  <2> QED BY <1>1, <1>3, <2>1, <2>2, <2>3
<1> QED BY <1>13 DEF again, requested, r

=============================================================================
