--------------------------- MODULE MotorAxis_proof ---------------------------
(***************************************************************************)
(* Proofs about MotorAxis, from those about its stepper, and about the     *)
(* driver TMC2209 in it.                                                   *)
(*                                                                         *)
(* What the chip does between two calls is a matter of how the last call   *)
(* ended, so that MotorObeys and QuietAfterHoming are not inductive.       *)
(* ScriptInv says of a call under way what the transfers that it still has *)
(* to do will make of the chip, whichever of them fail: a script is a word *)
(* over the kinds of transfers that matter for it.                         *)
(***************************************************************************)
EXTENDS MotorAxis, SigmoidStepper_proof

(* The driver, the chip and time leave the stepper alone, or are one of    *)
(* its own steps; a restart starts it again.                               *)
LEMMA AxisIInv == ~Preemptible /\ IInv /\ [AxisNext]_axisVars => IInv'
<1> SUFFICES ASSUME ~Preemptible, IInv, [AxisNext]_axisVars PROVE IInv'
  OBVIOUS
<1>0. UNCHANGED vars => IInv'
  BY DEF vars, IInv, TypeOK, Planned, TowardTarget
<1>1. CASE CallsDriver \/ DriverRuns \/ TimeGoesOn
  BY <1>0, <1>1 DEF CallsDriver, DriverRuns, TimeGoesOn
<1>2. CASE Homed
  BY <1>2, SetCurrentPositionIInv DEF Homed
<1>3. CASE Moves
  BY <1>3, GotoPositionIInv DEF Moves
<1>4. CASE MoveGoesOn
  BY <1>4, ContinueIInv DEF MoveGoesOn
<1>5. CASE Pulse
  BY <1>5, UpdateInterruptIInv DEF Pulse
<1>6. CASE Restarted
  <2>1. Init'
    BY <1>6 DEF Restarted, Init
  <2> QED BY <2>1 DEF Init, IInv, TypeOK, Planned, TowardTarget, Axis, Thread
<1>7. CASE UNCHANGED axisVars
  BY <1>0, <1>7 DEF axisVars
<1> QED BY <1>1, <1>2, <1>3, <1>4, <1>5, <1>6, <1>7 DEF AxisNext

(* Whatever homings, failed transfers and restarts come in between: an     *)
(* axis that moves, moves towards its target.                              *)
THEOREM AxisStaysOnCourse == ASSUME ~Preemptible PROVE AxisSpec => []TowardTarget
<1>1. AxisInit => IInv
  BY InitIInv DEF AxisInit
<1>2. IInv /\ [AxisNext]_axisVars => IInv'
  BY AxisIInv
<1>3. IInv => TowardTarget
  BY DEF IInv
<1> QED BY <1>1, <1>2, <1>3, PTL DEF AxisSpec

----------------------------------------------------------------------------
(* Types.  The scripts of the driver are sequences of transfers.           *)

(* Finite functions are sequences.                                         *)
LEMMA FunctionIsSeq ==
  ASSUME NEW S, NEW n \in Nat, NEW f \in [1 .. n -> S]
  PROVE  f \in Seq(S) /\ Len(f) = n
<1>1. f \in Seq(S)
  BY DEF Seq
<1>2. Len(f) \in Nat /\ DOMAIN f = 1 .. Len(f)
  BY <1>1, LenProperties
<1>3. DOMAIN f = 1 .. n
  OBVIOUS
<1>4. Len(f) = n
  BY <1>2, <1>3
<1> QED BY <1>1, <1>4

(* A read is a transfer.                                                   *)
LEMMA ReadType ==
  ASSUME NEW reg \in Registers, NEW fail \in Fails
  PROVE  Read(reg, fail) \in Transfer
BY DEF Read, Transfer

(* So is a write of a register that is not mirrored, of the options, of    *)
(* one option or of the resolution.                                        *)
LEMMA WriteType ==
  ASSUME NEW fail \in Fails
  PROVE  /\ \A reg \in Registers \ Mirrored : \A v \in -1 .. 1 :
                Write(reg, [v |-> v], fail) \in Transfer
         /\ \A b \in BOOLEAN : /\ Write("GCONF", [spread |-> b], fail) \in Transfer
                               /\ Write("GCONF", [shaft |-> b], fail) \in Transfer
         /\ Write("GCONF", NormalOperation, fail) \in Transfer
         /\ \A n \in Nat : Write("CHOPCONF", [mres |-> n], fail) \in Transfer
<1>1. \A reg \in Registers \ Mirrored : \A v \in -1 .. 1 : Write(reg, [v |-> v], fail) \in Transfer
  BY DEF Write, Transfer
<1>2. \A b \in BOOLEAN : /\ Write("GCONF", [spread |-> b], fail) \in Transfer
                         /\ Write("GCONF", [shaft |-> b], fail) \in Transfer
  BY DEF Write, Transfer
<1>3. Write("GCONF", NormalOperation, fail) \in Transfer
  BY DEF Write, Transfer, NormalOperation, GConf
<1>4. \A n \in Nat : Write("CHOPCONF", [mres |-> n], fail) \in Transfer
  BY DEF Write, Transfer
<1> QED BY <1>1, <1>2, <1>3, <1>4

----------------------------------------------------------------------------
(* Kinds of transfers, and of scripts: what has still to come of a method. *)
(* Whatever of it fails, a script does not write the speed (silent), does  *)
(* not end early (forgiving), does neither (calm), or does not go over to  *)
(* the failure of a homing (plain).                                        *)
SpeedWrites(v) == {t \in Transfer : t.write /\ t.reg = "VACTUAL" /\ t.value.v = v}
Silent == {t \in Transfer : ~(t.write /\ t.reg = "VACTUAL")}
Forgiving == {t \in Transfer : t.fail = "ignore"}
Calm == Silent \intersect Forgiving
Plain == {t \in Transfer : t.fail # "restore"}

Script == Seq(Transfer)

(* A script that writes the speed v last: before, it either writes no      *)
(* other (steady), or cannot end (firm).                                   *)
Steady(s, v) ==
  \E a \in Seq(Silent), w \in SpeedWrites(v), b \in Seq(Calm) : s = a \o (<<w>> \o b)
Firm(s, v) ==
  \E a \in Seq(Forgiving), w \in SpeedWrites(v), b \in Seq(Calm) : s = a \o (<<w>> \o b)

(* The end of a homing switches StealthChop on again.                      *)
Hush == Write("GCONF", [spread |-> FALSE], "ignore")
EndsHushed(s) == \E a \in Seq(Forgiving) : s = a \o <<Hush>>

(* A script of one kind is a script.                                       *)
LEMMA KindIsScript ==
  /\ Seq(Silent) \subseteq Script /\ Seq(Forgiving) \subseteq Script
  /\ Seq(Plain) \subseteq Script /\ Seq(Calm) \subseteq Script
  /\ Seq(Calm) \subseteq Seq(Silent) /\ Seq(Calm) \subseteq Seq(Forgiving)
  /\ \A s \in Seq(Silent) : s \in Seq(Forgiving) => s \in Seq(Calm)
<1>1. /\ Silent \subseteq Transfer /\ Forgiving \subseteq Transfer /\ Plain \subseteq Transfer
      /\ Calm \subseteq Transfer /\ Calm \subseteq Silent /\ Calm \subseteq Forgiving
  BY DEF Silent, Forgiving, Plain, Calm
<1>2. ASSUME NEW s \in Seq(Silent), s \in Seq(Forgiving) PROVE s \in Seq(Calm)
  <2>1. s \in [1 .. Len(s) -> Silent] /\ Len(s) \in Nat
    BY LenProperties
  <2>2. s \in [1 .. Len(s) -> Forgiving]
    BY <1>2, LenProperties
  <2>3. s \in [1 .. Len(s) -> Calm]
    BY <2>1, <2>2 DEF Calm
  <2> QED BY <2>1, <2>3, FunctionIsSeq
<1>3. \A S, T : S \subseteq T => Seq(S) \subseteq Seq(T)
  BY SeqMonotonic
<1> QED BY <1>1, <1>2, <1>3 DEF Script

(* What is done of a script, and what is appended, keep its kind.          *)
LEMMA TailOfScript ==
  ASSUME NEW S, NEW s \in Seq(S), s # <<>>
  PROVE  Head(s) \in S /\ Tail(s) \in Seq(S)
BY HeadTailProperties

(* A script that begins with another goes on with the rest of that.        *)
LEMMA TailOfConcat ==
  ASSUME NEW S, NEW s \in Seq(S), NEW t \in Seq(S), s # <<>>
  PROVE  Head(s \o t) = Head(s) /\ Tail(s \o t) = Tail(s) \o t
<1>1. /\ s \o t \in Seq(S) /\ Len(s \o t) = Len(s) + Len(t) /\ s \o t # <<>>
      /\ \A i \in 1 .. Len(s) + Len(t) : (s \o t)[i] = IF i <= Len(s) THEN s[i] ELSE t[i - Len(s)]
  BY ConcatProperties, ConcatEqualIffEmpty
<1>2. /\ Len(s) \in Nat \ {0} /\ Len(t) \in Nat
  BY EmptySeq, LenProperties
<1>3. Head(s) = s[1] /\ Head(s \o t) = (s \o t)[1]
  OBVIOUS
<1>4. /\ Tail(s) \in Seq(S) /\ Len(Tail(s)) = Len(s) - 1
      /\ \A i \in 1 .. Len(Tail(s)) : Tail(s)[i] = s[i + 1]
  BY HeadTailProperties
<1>5. /\ Tail(s \o t) \in Seq(S) /\ Len(Tail(s \o t)) = Len(s \o t) - 1
      /\ \A i \in 1 .. Len(Tail(s \o t)) : Tail(s \o t)[i] = (s \o t)[i + 1]
  BY <1>1, HeadTailProperties
<1>6. /\ Tail(s) \o t \in Seq(S) /\ Len(Tail(s) \o t) = Len(s) - 1 + Len(t)
      /\ \A i \in 1 .. Len(s) - 1 + Len(t) :
            (Tail(s) \o t)[i] = IF i <= Len(s) - 1 THEN Tail(s)[i] ELSE t[i - (Len(s) - 1)]
  BY <1>4, ConcatProperties
<1>7. ASSUME NEW i \in 1 .. Len(s) - 1 + Len(t) PROVE Tail(s \o t)[i] = (Tail(s) \o t)[i]
  <2>1. Tail(s \o t)[i] = (s \o t)[i + 1] /\ i + 1 \in 1 .. Len(s) + Len(t)
    BY <1>1, <1>2, <1>5
  <2>2. CASE i <= Len(s) - 1
    BY <1>1, <1>2, <1>4, <1>6, <2>1, <2>2
  <2>3. CASE ~(i <= Len(s) - 1)
    <3>1. i + 1 - Len(s) = i - (Len(s) - 1) /\ ~(i + 1 <= Len(s))
      BY <1>2, <2>3
    <3>2. (s \o t)[i + 1] = t[i + 1 - Len(s)]
      BY <1>1, <2>1, <3>1
    <3>3. (Tail(s) \o t)[i] = t[i - (Len(s) - 1)]
      BY <1>6, <2>3
    <3> QED BY <2>1, <3>1, <3>2, <3>3
  <2> QED BY <2>2, <2>3
<1>8. Tail(s \o t) = Tail(s) \o t
  <2>1. Len(Tail(s \o t)) = Len(Tail(s) \o t) /\ Len(Tail(s \o t)) = Len(s) - 1 + Len(t)
    BY <1>1, <1>2, <1>5, <1>6
  <2> QED BY <1>5, <1>6, <1>7, <2>1, SeqEqual
<1> QED BY <1>1, <1>2, <1>3, <1>8

(* What a sequence of one transfer begins and ends with.                   *)
LEMMA Single ==
  ASSUME NEW S, NEW t \in S, NEW b \in Seq(S)
  PROVE  /\ <<t>> \in Seq(S) /\ <<t>> \o b \in Seq(S) /\ <<t>> \o b # <<>>
         /\ Head(<<t>> \o b) = t /\ Tail(<<t>> \o b) = b
<1>1. <<t>> \in Seq(S) /\ <<t>> # <<>> /\ Head(<<t>>) = t /\ Tail(<<t>>) = <<>>
  OBVIOUS
<1>2. <<t>> \o b \in Seq(S) /\ <<t>> \o b # <<>>
  BY <1>1, ConcatProperties, ConcatEqualIffEmpty
<1>3. Head(<<t>> \o b) = t /\ Tail(<<t>> \o b) = <<>> \o b
  BY <1>1, TailOfConcat
<1>4. <<>> \o b = b
  BY ConcatEmptySeq
<1> QED BY <1>1, <1>2, <1>3, <1>4

(* A steady script: the parts are scripts.                                 *)
LEMMA SpeedWriteType ==
  /\ \A v : SpeedWrites(v) \subseteq Transfer
  /\ \A s, v : Steady(s, v) \/ Firm(s, v) => s \in Script /\ s # <<>>
  /\ \A s : EndsHushed(s) => s \in Script /\ s # <<>>
<1>1. \A v : SpeedWrites(v) \subseteq Transfer
  BY DEF SpeedWrites
<1>2. ASSUME NEW a \in Script, NEW w \in Transfer, NEW b \in Script
      PROVE  a \o (<<w>> \o b) \in Script /\ a \o (<<w>> \o b) # <<>>
  <2>1. <<w>> \o b \in Seq(Transfer) /\ <<w>> \o b # <<>>
    BY Single DEF Script
  <2> QED BY <2>1, ConcatProperties, ConcatEqualIffEmpty DEF Script
<1>3. \A s, v : Steady(s, v) \/ Firm(s, v) => s \in Script /\ s # <<>>
  BY <1>1, <1>2, KindIsScript DEF Steady, Firm
<1>4. \A s : EndsHushed(s) => s \in Script /\ s # <<>>
  <2>1. Hush \in Transfer
    BY WriteType DEF Hush, Fails
  <2>2. \A a \in Script : a \o <<Hush>> = a \o (<<Hush>> \o <<>>) /\ <<>> \in Script
    <3>1. <<Hush>> \in Script /\ <<>> \in Script
      BY <2>1 DEF Script
    <3>2. <<Hush>> \o <<>> = <<Hush>>
      BY <3>1, ConcatEmptySeq DEF Script
    <3> QED BY <3>1, <3>2
  <2> QED BY <1>2, <2>1, <2>2, KindIsScript DEF EndsHushed
<1> QED BY <1>1, <1>3, <1>4

(* The next transfer of a steady or firm script is the write of the speed, *)
(* after which it is calm, or the script stays what it is.                 *)
LEMMA TailOfSteady ==
  ASSUME NEW s, NEW v, Steady(s, v)
  PROVE  \/ Head(s) \in SpeedWrites(v) /\ Tail(s) \in Seq(Calm)
         \/ Head(s) \in Silent /\ Steady(Tail(s), v)
<1>1. PICK a \in Seq(Silent), w \in SpeedWrites(v), b \in Seq(Calm) : s = a \o (<<w>> \o b)
  BY DEF Steady
<1>2. a \in Seq(Transfer) /\ w \in Transfer /\ b \in Seq(Transfer)
  BY KindIsScript, SpeedWriteType DEF Script
<1>3. /\ <<w>> \o b \in Seq(Transfer)
      /\ Head(<<w>> \o b) = w /\ Tail(<<w>> \o b) = b
  BY <1>2, Single
<1>4. CASE a = <<>>
  <2>1. s = <<w>> \o b
    BY <1>1, <1>3, <1>4, ConcatEmptySeq
  <2> QED BY <1>3, <2>1
<1>5. CASE a # <<>>
  <2>1. Head(s) = Head(a) /\ Tail(s) = Tail(a) \o (<<w>> \o b)
    BY <1>1, <1>2, <1>3, <1>5, TailOfConcat
  <2>2. Head(a) \in Silent /\ Tail(a) \in Seq(Silent)
    BY <1>5, TailOfScript
  <2> QED BY <2>1, <2>2 DEF Steady
<1> QED BY <1>4, <1>5

(* So it is with a firm script, of transfers whose failure is ignored. *)
LEMMA TailOfFirm ==
  ASSUME NEW s, NEW v, Firm(s, v)
  PROVE  \/ Head(s) \in SpeedWrites(v) /\ Tail(s) \in Seq(Calm)
         \/ Head(s) \in Forgiving /\ Firm(Tail(s), v)
<1>1. PICK a \in Seq(Forgiving), w \in SpeedWrites(v), b \in Seq(Calm) : s = a \o (<<w>> \o b)
  BY DEF Firm
<1>2. a \in Seq(Transfer) /\ w \in Transfer /\ b \in Seq(Transfer)
  BY KindIsScript, SpeedWriteType DEF Script
<1>3. /\ <<w>> \o b \in Seq(Transfer)
      /\ Head(<<w>> \o b) = w /\ Tail(<<w>> \o b) = b
  BY <1>2, Single
<1>4. CASE a = <<>>
  <2>1. s = <<w>> \o b
    BY <1>1, <1>3, <1>4, ConcatEmptySeq
  <2> QED BY <1>3, <2>1
<1>5. CASE a # <<>>
  <2>1. Head(s) = Head(a) /\ Tail(s) = Tail(a) \o (<<w>> \o b)
    BY <1>1, <1>2, <1>3, <1>5, TailOfConcat
  <2>2. Head(a) \in Forgiving /\ Tail(a) \in Seq(Forgiving)
    BY <1>5, TailOfScript
  <2> QED BY <2>1, <2>2 DEF Firm
<1> QED BY <1>4, <1>5

(* The next transfer of the end of a homing is its last, or not.           *)
LEMMA TailOfHushed ==
  ASSUME NEW s, EndsHushed(s)
  PROVE  IF Tail(s) = <<>> THEN Head(s) = Hush ELSE EndsHushed(Tail(s))
<1>1. PICK a \in Seq(Forgiving) : s = a \o <<Hush>>
  BY DEF EndsHushed
<1>2. Hush \in Transfer /\ a \in Seq(Transfer) /\ <<Hush>> \in Seq(Transfer)
  <2>1. Hush \in Transfer
    BY WriteType DEF Hush, Fails
  <2> QED BY <2>1, KindIsScript DEF Script
<1>3. CASE a = <<>>
  <2>1. s = <<Hush>>
    BY <1>1, <1>2, <1>3, ConcatEmptySeq
  <2> QED BY <2>1
<1>4. CASE a # <<>>
  <2>1. Head(s) = Head(a) /\ Tail(s) = Tail(a) \o <<Hush>>
    BY <1>1, <1>2, <1>4, TailOfConcat
  <2>2. Tail(a) \in Seq(Forgiving)
    BY <1>4, TailOfScript
  <2>3. EndsHushed(Tail(s))
    BY <2>1, <2>2 DEF EndsHushed
  <2> QED BY <2>3, SpeedWriteType
<1> QED BY <1>3, <1>4

Regroups(a, b, c) == (a \o b) \o c = a \o (b \o c)
Lengthens(a, w, b, c) ==
  (a \o (<<w>> \o b)) \o c = a \o (<<w>> \o (b \o c)) /\ b \o c \in Seq(Calm)

(* Scripts that are put together.                                          *)
LEMMA Composed ==
  /\ \A s, v : \A a \in Seq(Silent) : Steady(s, v) => Steady(a \o s, v)
  /\ \A s, v : \A a \in Seq(Forgiving) : Firm(s, v) => Firm(a \o s, v)
  /\ \A s, v : \A c \in Seq(Calm) : Steady(s, v) => Steady(s \o c, v)
  /\ \A s, v : \A c \in Seq(Calm) : Firm(s, v) => Firm(s \o c, v)
  /\ \A v : \A w \in SpeedWrites(v) : \A c \in Seq(Calm) :
        Steady(<<w>> \o c, v) /\ Firm(<<w>> \o c, v)
<1>0. \A a, b, c \in Seq(Transfer) : Regroups(a, b, c)
  BY ConcatAssociative DEF Regroups
<1>00. \A a, b \in Seq(Transfer) : a \o b \in Seq(Transfer)
  BY ConcatProperties
<1>T. /\ Seq(Silent) \subseteq Seq(Transfer) /\ Seq(Forgiving) \subseteq Seq(Transfer)
      /\ Seq(Calm) \subseteq Seq(Transfer)
      /\ \A v : \A w \in SpeedWrites(v) : <<w>> \in Seq(Transfer)
  <2>1. \A v : \A w \in SpeedWrites(v) : <<w>> \in Seq(Transfer)
    BY SpeedWriteType
  <2> QED BY <2>1, KindIsScript DEF Script
<1>1. ASSUME NEW s, NEW v, NEW a \in Seq(Silent), Steady(s, v) PROVE Steady(a \o s, v)
  <2>1. PICK d \in Seq(Silent), w \in SpeedWrites(v), b \in Seq(Calm) : s = d \o (<<w>> \o b)
    BY <1>1 DEF Steady
  <2>2. a \o s = (a \o d) \o (<<w>> \o b)
    <3>1. a \in Seq(Transfer) /\ d \in Seq(Transfer) /\ b \in Seq(Transfer)
          /\ <<w>> \in Seq(Transfer)
      BY <1>T
    <3>2. <<w>> \o b \in Seq(Transfer)
      BY <1>00, <3>1
    <3>3. Regroups(a, d, <<w>> \o b)
      BY <1>0, <3>1, <3>2
    <3> QED BY <2>1, <3>3, Zenon DEF Regroups
  <2>3. a \o d \in Seq(Silent)
    BY ConcatProperties
  <2> QED BY <2>2, <2>3 DEF Steady
<1>2. ASSUME NEW s, NEW v, NEW a \in Seq(Forgiving), Firm(s, v) PROVE Firm(a \o s, v)
  <2>1. PICK d \in Seq(Forgiving), w \in SpeedWrites(v), b \in Seq(Calm) : s = d \o (<<w>> \o b)
    BY <1>2 DEF Firm
  <2>2. a \o s = (a \o d) \o (<<w>> \o b)
    <3>1. a \in Seq(Transfer) /\ d \in Seq(Transfer) /\ b \in Seq(Transfer)
          /\ <<w>> \in Seq(Transfer)
      BY <1>T
    <3>2. <<w>> \o b \in Seq(Transfer)
      BY <1>00, <3>1
    <3>3. Regroups(a, d, <<w>> \o b)
      BY <1>0, <3>1, <3>2
    <3> QED BY <2>1, <3>3, Zenon DEF Regroups
  <2>3. a \o d \in Seq(Forgiving)
    BY ConcatProperties
  <2> QED BY <2>2, <2>3 DEF Firm
<1>3. ASSUME NEW d \in Seq(Transfer), NEW w \in Transfer, NEW b \in Seq(Calm), NEW c \in Seq(Calm)
      PROVE  Lengthens(d, w, b, c)
  <2>1. <<w>> \in Seq(Transfer)
    OBVIOUS
  <2>2. b \in Seq(Transfer) /\ c \in Seq(Transfer)
    BY <1>T
  <2>3. <<w>> \o b \in Seq(Transfer)
    BY <1>00, <2>1, <2>2
  <2>4. Regroups(d, <<w>> \o b, c)
    BY <1>0, <2>2, <2>3
  <2>5. Regroups(<<w>>, b, c)
    BY <1>0, <2>1, <2>2
  <2>6. b \o c \in Seq(Calm)
    BY ConcatProperties
  <2> QED BY <2>4, <2>5, <2>6, Zenon DEF Regroups, Lengthens
<1>4. ASSUME NEW s, NEW v, NEW c \in Seq(Calm), Steady(s, v) PROVE Steady(s \o c, v)
  <2>1. PICK d \in Seq(Silent), w \in SpeedWrites(v), b \in Seq(Calm) : s = d \o (<<w>> \o b)
    BY <1>4 DEF Steady
  <2>2. d \in Seq(Transfer) /\ w \in Transfer
    BY <1>T, SpeedWriteType
  <2>3. Lengthens(d, w, b, c)
    BY <1>3, <2>2
  <2>4. s \o c = d \o (<<w>> \o (b \o c)) /\ b \o c \in Seq(Calm)
    BY <2>1, <2>3, Zenon DEF Lengthens
  <2> QED BY <2>4 DEF Steady
<1>5. ASSUME NEW s, NEW v, NEW c \in Seq(Calm), Firm(s, v) PROVE Firm(s \o c, v)
  <2>1. PICK d \in Seq(Forgiving), w \in SpeedWrites(v), b \in Seq(Calm) : s = d \o (<<w>> \o b)
    BY <1>5 DEF Firm
  <2>2. d \in Seq(Transfer) /\ w \in Transfer
    BY <1>T, SpeedWriteType
  <2>3. Lengthens(d, w, b, c)
    BY <1>3, <2>2
  <2>4. s \o c = d \o (<<w>> \o (b \o c)) /\ b \o c \in Seq(Calm)
    BY <2>1, <2>3, Zenon DEF Lengthens
  <2> QED BY <2>4 DEF Firm
<1>6. ASSUME NEW v, NEW w \in SpeedWrites(v), NEW c \in Seq(Calm)
      PROVE  Steady(<<w>> \o c, v) /\ Firm(<<w>> \o c, v)
  <2>1. <<w>> \o c = <<>> \o (<<w>> \o c)
    BY <1>T, <1>00, ConcatEmptySeq
  <2>2. <<>> \in Seq(Silent) /\ <<>> \in Seq(Forgiving)
    OBVIOUS
  <2> QED BY <2>1, <2>2 DEF Steady, Firm
<1> QED BY <1>1, <1>2, <1>4, <1>5, <1>6

----------------------------------------------------------------------------
(* The scripts of the methods. *)

(* Scripts that only read, or only write other registers.                  *)
LEMMA ReadsKind ==
  ASSUME NEW regs \in Seq(Registers)
  PROVE  Reads(regs) \in Seq(Calm) /\ (regs # <<>> => Reads(regs) # <<>>)
<1> DEFINE n == Len(regs)
<1>0. n \in Nat /\ regs \in [1 .. n -> Registers] /\ (regs # <<>> => n # 0)
  BY LenProperties, EmptySeq
<1>1. \A i \in 1 .. n : Read(regs[i], "ignore") \in Calm
  <2>1. ASSUME NEW reg \in Registers PROVE Read(reg, "ignore") \in Calm
    <3>1. Read(reg, "ignore") \in Transfer
      BY ReadType DEF Fails
    <3> QED BY <3>1 DEF Calm, Silent, Forgiving, Read
  <2> QED BY <1>0, <2>1
<1>2. Reads(regs) \in [1 .. n -> Calm]
  BY <1>0, <1>1 DEF Reads
<1> QED BY <1>0, <1>2, FunctionIsSeq

(* Other registers than the speed, that are not mirrored.                  *)
LEMMA SetsKind ==
  ASSUME NEW regs \in Seq(Registers \ (Mirrored \union {"VACTUAL"})),
         NEW fail \in {"ignore", "abort"}
  PROVE  /\ Sets(regs, fail) \in Seq(Silent) /\ Sets(regs, fail) \in Seq(Plain)
         /\ fail = "ignore" => Sets(regs, fail) \in Seq(Calm)
         /\ regs # <<>> => Sets(regs, fail) # <<>>
<1> DEFINE n == Len(regs)
<1>0. /\ n \in Nat /\ regs \in [1 .. n -> Registers \ (Mirrored \union {"VACTUAL"})]
      /\ regs # <<>> => n # 0
  BY LenProperties, EmptySeq
<1>1. \A reg \in Registers \ Mirrored : Write(reg, [v |-> 1], fail) \in Transfer
  <2>1. fail \in Fails /\ 1 \in -1 .. 1
    BY DEF Fails
  <2> QED BY <2>1, WriteType
<1>2. \A i \in 1 .. n : /\ Write(regs[i], [v |-> 1], fail) \in Silent
                        /\ Write(regs[i], [v |-> 1], fail) \in Plain
                        /\ fail = "ignore" => Write(regs[i], [v |-> 1], fail) \in Calm
  BY <1>0, <1>1 DEF Silent, Plain, Calm, Forgiving, Write
<1>3. /\ Sets(regs, fail) \in [1 .. n -> Silent]
      /\ Sets(regs, fail) \in [1 .. n -> Plain]
      /\ fail = "ignore" => Sets(regs, fail) \in [1 .. n -> Calm]
  BY <1>0, <1>2 DEF Sets
<1> QED BY <1>0, <1>3, FunctionIsSeq

(* A script that writes a speed and reads it for the log.                  *)
LEMMA GenerateStepsKind ==
  ASSUME NEW speed \in -1 .. 1, NEW fail \in Fails
  PROVE  /\ Steady(GenerateSteps(speed, fail), speed)
         /\ Firm(GenerateSteps(speed, fail), speed)
         /\ fail # "restore" => GenerateSteps(speed, fail) \in Seq(Plain)
         /\ fail = "ignore" => GenerateSteps(speed, fail) \in Seq(Forgiving)
<1> DEFINE w == Write("VACTUAL", [v |-> speed], fail)
           log == Reads(<<"VACTUAL">>)
<1>1. w \in Transfer
  <2>1. "VACTUAL" \in Registers \ Mirrored
    BY DEF Mirrored, Registers, Stored
  <2> QED BY <2>1, WriteType
<1>2. w \in SpeedWrites(speed)
  BY <1>1 DEF SpeedWrites, Write
<1>3. log \in Seq(Calm)
  <2>1. <<"VACTUAL">> \in Seq(Registers)
    BY DEF Registers, Stored
  <2> QED BY <2>1, ReadsKind
<1>4. GenerateSteps(speed, fail) = <<w>> \o log
  BY DEF GenerateSteps
<1>5. fail # "restore" => w \in Plain
  BY <1>1 DEF Plain, Write
<1>6. fail = "ignore" => w \in Forgiving
  BY <1>1 DEF Forgiving, Write
<1>7. log \in Seq(Forgiving) /\ log \in Seq(Plain)
  <2>1. Calm \subseteq Plain /\ Calm \subseteq Forgiving
    BY DEF Calm, Plain, Forgiving
  <2> QED BY <1>3, <2>1, SeqMonotonic
<1> HIDE DEF w, log
<1>8. Steady(<<w>> \o log, speed) /\ Firm(<<w>> \o log, speed)
  BY <1>2, <1>3, Composed
<1>9. fail # "restore" => <<w>> \o log \in Seq(Plain)
  BY <1>5, <1>7, Single
<1>10. fail = "ignore" => <<w>> \o log \in Seq(Forgiving)
  BY <1>6, <1>7, Single
<1> QED BY <1>4, <1>8, <1>9, <1>10

(* A script of one transfer that is a write of GCONF.                      *)
LEMMA OptionsKind ==
  ASSUME NEW fail \in {"ignore", "abort"},
         NEW value \in {[spread |-> TRUE], [spread |-> FALSE], [shaft |-> TRUE],
                        [shaft |-> FALSE], NormalOperation}
  PROVE  /\ <<Write("GCONF", value, fail)>> \in Seq(Silent)
         /\ <<Write("GCONF", value, fail)>> \in Seq(Plain)
         /\ fail = "ignore" => <<Write("GCONF", value, fail)>> \in Seq(Calm)
<1>1. Write("GCONF", value, fail) \in Transfer
  <2>1. fail \in Fails
    BY DEF Fails
  <2> QED BY <2>1, WriteType
<1>2. /\ Write("GCONF", value, fail) \in Silent /\ Write("GCONF", value, fail) \in Plain
      /\ fail = "ignore" => Write("GCONF", value, fail) \in Calm
  BY <1>1 DEF Silent, Plain, Calm, Forgiving, Write
<1> QED BY <1>2

(* CoolStep is enabled without a word to the speed.                        *)
LEMMA EnableCoolStepKind ==
  EnableCoolStep \in Seq(Silent) /\ EnableCoolStep \in Seq(Plain) /\ EnableCoolStep # <<>>
<1> DEFINE first == <<Write("GCONF", [spread |-> TRUE], "abort")>>
           others == Sets(<<"TCOOLTHRS", "SGTHRS", "COOLCONF">>, "abort")
<1>1. first \in Seq(Silent) /\ first \in Seq(Plain) /\ first # <<>>
  BY OptionsKind
<1>2. others \in Seq(Silent) /\ others \in Seq(Plain)
  <2>1. <<"TCOOLTHRS", "SGTHRS", "COOLCONF">> \in Seq(Registers \ (Mirrored \union {"VACTUAL"}))
    BY DEF Mirrored, Registers, Stored
  <2> QED BY <2>1, SetsKind
<1>3. EnableCoolStep = first \o others
  BY DEF EnableCoolStep
<1> HIDE DEF first, others
<1> QED BY <1>1, <1>2, <1>3, ConcatProperties, ConcatEqualIffEmpty

(* StealthChop is switched on with one write.                              *)
LEMMA RestoreStealthChopKind ==
  RestoreStealthChop \in Seq(Calm) /\ RestoreStealthChop \in Seq(Forgiving)
    /\ EndsHushed(RestoreStealthChop)
<1>1. RestoreStealthChop = <<Hush>>
  BY DEF RestoreStealthChop, Hush
<1>2. <<Hush>> \in Seq(Calm)
  BY OptionsKind DEF Hush
<1>3. EndsHushed(<<Hush>>)
  <2>1. <<>> \o <<Hush>> = <<Hush>> /\ <<>> \in Seq(Forgiving)
    BY <1>2, ConcatEmptySeq
  <2> QED BY <2>1 DEF EndsHushed
<1> QED BY <1>1, <1>2, <1>3, KindIsScript

(* The end of a homing stops the motor and switches StealthChop on.        *)
LEMMA EndHomingKind ==
  Firm(EndHoming, 0) /\ EndHoming \in Seq(Forgiving) /\ EndsHushed(EndHoming)
<1>1. /\ Firm(GenerateSteps(0, "ignore"), 0)
      /\ GenerateSteps(0, "ignore") \in Seq(Forgiving)
  <2>1. 0 \in -1 .. 1 /\ "ignore" \in Fails
    BY DEF Fails
  <2> QED BY <2>1, GenerateStepsKind
<1>2. EndHoming = GenerateSteps(0, "ignore") \o RestoreStealthChop
  BY DEF EndHoming
<1>3. Firm(EndHoming, 0)
  BY <1>1, <1>2, RestoreStealthChopKind, Composed
<1>4. EndHoming \in Seq(Forgiving)
  BY <1>1, <1>2, RestoreStealthChopKind, ConcatProperties
<1>5. EndsHushed(EndHoming)
  BY <1>1, <1>2 DEF RestoreStealthChop, EndsHushed, Hush
<1> QED BY <1>3, <1>4, <1>5

(* Short sequences.                                                        *)
LEMMA Tuples ==
  ASSUME NEW S, NEW x \in S, NEW y \in S, NEW z \in S
  PROVE  /\ <<>> \in Seq(S) /\ <<x>> \in Seq(S) /\ <<x, y>> \in Seq(S) /\ <<x, y, z>> \in Seq(S)
         /\ <<x, y>> = <<x>> \o <<y>> /\ <<x>> # <<>> /\ <<x, y>> # <<>>
<1>1. /\ <<>> \in Seq(S) /\ <<x>> \in Seq(S) /\ <<y>> \in Seq(S) /\ <<x, y>> \in Seq(S)
      /\ <<x>> # <<>> /\ <<x, y>> # <<>>
  OBVIOUS
<1>2. <<x, y, z>> \in Seq(S)
  OBVIOUS
<1>3. <<x, y>> = <<x>> \o <<y>>
  <2>1. /\ <<x>> \o <<y>> \in Seq(S) /\ Len(<<x>> \o <<y>>) = 2
        /\ (<<x>> \o <<y>>)[1] = x /\ (<<x>> \o <<y>>)[2] = y
    BY <1>1, ConcatProperties
  <2>2. Len(<<x, y>>) = 2 /\ <<x, y>>[1] = x /\ <<x, y>>[2] = y
    OBVIOUS
  <2>3. \A i \in 1 .. 2 : i = 1 \/ i = 2
    OBVIOUS
  <2> QED BY <1>1, <2>1, <2>2, <2>3, SeqEqual
<1> QED BY <1>1, <1>2, <1>3

(* The initialisation ends with a write of the speed 0.                    *)
LEMMA InitKind ==
  ASSUME NEW setup \in Setups
  PROVE  /\ Steady(InitForNormalSpeedAndUartBasedOperation(setup), 0)
         /\ InitForNormalSpeedAndUartBasedOperation(setup) \in Seq(Plain)
<1> DEFINE Both == Silent \intersect Plain
           one == If(setup.reads, FetchMirrors)
           two == <<Write("GCONF", NormalOperation, "abort")>>
           three == If(setup.reads, <<Read("VERIFY GCONF", "abort")>>)
           four == If(setup.mres # 0, <<Write("CHOPCONF", [mres |-> setup.mres], "abort")>>)
           w == Write("VACTUAL", [v |-> 0], "abort")
           log == Read("VACTUAL", "ignore")
<1>0. setup \in [reads : BOOLEAN, mres : Nat] /\ {"ignore", "abort"} \subseteq Fails
  BY HomingAssumption DEF Fails
<1>1. \A reg \in Registers : \A fail \in {"ignore", "abort"} : Read(reg, fail) \in Both
  <2>1. \A reg \in Registers : \A fail \in {"ignore", "abort"} : Read(reg, fail) \in Transfer
    BY <1>0, ReadType
  <2> QED BY <2>1 DEF Silent, Plain, Read
<1>2. one \in Seq(Both)
  <2>1. {"IOIN", "MIRROR GCONF", "MIRROR CHOPCONF"} \subseteq Registers
    BY DEF Registers
  <2>2. /\ Read("IOIN", "abort") \in Both /\ Read("MIRROR GCONF", "ignore") \in Both
        /\ Read("MIRROR CHOPCONF", "ignore") \in Both
    BY <1>1, <2>1
  <2> HIDE DEF Both
  <2>3. FetchMirrors \in Seq(Both)
    BY <2>2, Tuples DEF FetchMirrors
  <2> QED BY <2>3 DEF If
<1>3. two \in Seq(Both)
  <2>1. Write("GCONF", NormalOperation, "abort") \in Transfer
    BY <1>0, WriteType
  <2>2. Write("GCONF", NormalOperation, "abort") \in Both
    BY <2>1 DEF Silent, Plain, Write
  <2> HIDE DEF Both
  <2> QED BY <2>2
<1>4. three \in Seq(Both)
  <2>1. Read("VERIFY GCONF", "abort") \in Both
    BY <1>1 DEF Registers
  <2> HIDE DEF Both
  <2> QED BY <2>1, Tuples DEF If
<1>5. four \in Seq(Both)
  <2>1. Write("CHOPCONF", [mres |-> setup.mres], "abort") \in Transfer
    BY <1>0, WriteType
  <2>2. Write("CHOPCONF", [mres |-> setup.mres], "abort") \in Both
    BY <2>1 DEF Silent, Plain, Write
  <2> HIDE DEF Both
  <2> QED BY <2>2 DEF If
<1>6. ClearGStat \in Seq(Both)
  <2>1. "GSTAT" \in Registers \ Mirrored /\ 1 \in -1 .. 1
    BY DEF Registers, Mirrored
  <2>2. Write("GSTAT", [v |-> 1], "abort") \in Transfer
    BY <1>0, <2>1, WriteType
  <2>3. Write("GSTAT", [v |-> 1], "abort") \in Both
    BY <2>2 DEF Silent, Plain, Write
  <2> HIDE DEF Both
  <2>4. ClearGStat = <<Write("GSTAT", [v |-> 1], "abort")>>
    BY DEF ClearGStat, Sets
  <2> QED BY <2>3, <2>4
<1>7. w \in SpeedWrites(0) /\ w \in Plain
  <2>1. "VACTUAL" \in Registers \ Mirrored /\ 0 \in -1 .. 1
    BY DEF Registers, Mirrored, Stored
  <2>2. w \in Transfer
    BY <1>0, <2>1, WriteType
  <2> QED BY <2>2 DEF SpeedWrites, Plain, Write
<1>8. log \in Calm /\ log \in Plain
  <2>1. log \in Transfer
    BY <1>0, ReadType DEF Registers, Stored
  <2> QED BY <2>1 DEF Calm, Silent, Forgiving, Plain, Read
<1>9. InitForNormalSpeedAndUartBasedOperation(setup)
        = one \o ClearGStat \o two \o three \o four \o ClearGStat \o <<w, log>>
  BY DEF InitForNormalSpeedAndUartBasedOperation
<1> DEFINE s == one \o ClearGStat \o two \o three \o four \o ClearGStat
<1>10. s \in Seq(Both)
  <2> HIDE DEF Both, one, two, three, four
  <2> QED BY <1>2, <1>3, <1>4, <1>5, <1>6, ConcatProperties
<1>11. s \in Seq(Silent) /\ s \in Seq(Plain)
  <2> HIDE DEF s
  <2> QED BY <1>10, SeqMonotonic
<1>12. <<w, log>> = <<w>> \o <<log>> /\ <<log>> \in Seq(Calm) /\ <<w, log>> \in Seq(Plain)
  <2> HIDE DEF w, log
  <2>1. w \in Transfer /\ log \in Transfer
    BY <1>7, <1>8 DEF Plain
  <2>2. <<w, log>> = <<w>> \o <<log>>
    BY <2>1, Tuples
  <2>3. <<log>> \in Seq(Calm) /\ <<w, log>> \in Seq(Plain)
    BY <1>7, <1>8, Tuples
  <2> QED BY <2>2, <2>3
<1>13. Steady(<<w, log>>, 0)
  <2> HIDE DEF w, log
  <2>1. Steady(<<w>> \o <<log>>, 0)
    BY <1>7, <1>12, Composed
  <2> QED BY <1>12, <2>1
<1> HIDE DEF s, w, log
<1>14. Steady(s \o <<w, log>>, 0)
  BY <1>11, <1>13, Composed
<1>15. s \o <<w, log>> \in Seq(Plain)
  BY <1>11, <1>12, ConcatProperties
<1> QED BY <1>9, <1>14, <1>15 DEF s

(* The tuning ends with a write of the speed 0 that nothing keeps from     *)
(* being tried.                                                            *)
LEMMA TuningKind ==
  /\ Firm(PerformStealthChopAutoTuning, 0)
  /\ PerformStealthChopAutoTuning \in Seq(Plain)
<1> DEFINE a == Sets(<<"IHOLD_IRUN", "TPWMTHRS", "PWMCONF">>, "ignore")
           regs == [i \in 1 .. 2 * TuneRounds |-> IF i % 2 = 1 THEN "PWMCONF" ELSE "PWM_AUTO"]
           c == Reads(regs)
           e == Sets(<<"PWMCONF">>, "ignore")
<1>1. a \in Seq(Calm) /\ e \in Seq(Calm)
  <2>1. {"IHOLD_IRUN", "TPWMTHRS", "PWMCONF"} \subseteq Registers \ (Mirrored \union {"VACTUAL"})
    BY DEF Registers, Mirrored
  <2>2. /\ <<"IHOLD_IRUN", "TPWMTHRS", "PWMCONF">> \in Seq(Registers \ (Mirrored \union {"VACTUAL"}))
        /\ <<"PWMCONF">> \in Seq(Registers \ (Mirrored \union {"VACTUAL"}))
    BY <2>1, Tuples
  <2> QED BY <2>2, SetsKind
<1>2. c \in Seq(Calm)
  <2>1. 2 * TuneRounds \in Nat /\ {"PWMCONF", "PWM_AUTO"} \subseteq Registers
    BY HomingAssumption DEF Registers
  <2>2. regs \in [1 .. 2 * TuneRounds -> Registers]
    BY <2>1
  <2>3. regs \in Seq(Registers)
    BY <2>1, <2>2, FunctionIsSeq
  <2> HIDE DEF regs
  <2> QED BY <2>3, ReadsKind
<1>3. /\ GenerateSteps(1, "ignore") \in Seq(Forgiving) /\ GenerateSteps(0, "ignore") \in Seq(Forgiving)
      /\ Firm(GenerateSteps(0, "ignore"), 0)
  <2>1. {0, 1} \subseteq -1 .. 1 /\ "ignore" \in Fails
    BY DEF Fails
  <2> QED BY <2>1, GenerateStepsKind
<1>4. PerformStealthChopAutoTuning
        = a \o GenerateSteps(1, "ignore") \o c \o GenerateSteps(0, "ignore") \o e
  BY DEF PerformStealthChopAutoTuning
<1> HIDE DEF a, c, e
<1>5. a \in Seq(Forgiving) /\ c \in Seq(Forgiving) /\ e \in Seq(Forgiving)
  BY <1>1, <1>2, KindIsScript
<1>6. a \o GenerateSteps(1, "ignore") \o c \in Seq(Forgiving)
  BY <1>3, <1>5, ConcatProperties
<1>7. /\ Firm(a \o GenerateSteps(1, "ignore") \o c \o GenerateSteps(0, "ignore"), 0)
      /\ a \o GenerateSteps(1, "ignore") \o c \o GenerateSteps(0, "ignore") \in Seq(Forgiving)
  BY <1>3, <1>6, Composed, ConcatProperties
<1>8. Firm(PerformStealthChopAutoTuning, 0)
  BY <1>1, <1>4, <1>7, Composed
<1>9. PerformStealthChopAutoTuning \in Seq(Forgiving)
  BY <1>4, <1>5, <1>7, ConcatProperties
<1>10. Forgiving \subseteq Plain
  BY DEF Forgiving, Plain
<1> QED BY <1>8, <1>9, <1>10, SeqMonotonic

(* The other methods that leave the speed alone.                           *)
LEMMA ServiceKind ==
  \A s \in {LogCoolStepRuntimeStatus, PrintPrettyFullSystemState, Sets(<<"IHOLD_IRUN">>, "abort")} :
     s \in Seq(Silent) /\ s \in Seq(Plain)
<1>1. LogCoolStepRuntimeStatus \in Seq(Silent) /\ LogCoolStepRuntimeStatus \in Seq(Plain)
  <2> DEFINE regs == <<"SG_RESULT", "DRV_STATUS", "TSTEP">>
  <2>1. \A i \in 1 .. 3 : regs[i] \in Registers
    <3>1. {"SG_RESULT", "DRV_STATUS", "TSTEP"} \subseteq Registers
      BY DEF Registers
    <3>2. regs[1] \in Registers /\ regs[2] \in Registers /\ regs[3] \in Registers
      BY <3>1
    <3> QED BY <3>2
  <2> HIDE DEF regs
  <2>2. \A i \in 1 .. 3 : Read(regs[i], "abort") \in Transfer
    BY <2>1, ReadType DEF Fails
  <2>3. \A i \in 1 .. 3 : Read(regs[i], "abort") \in Silent /\ Read(regs[i], "abort") \in Plain
    BY <2>2 DEF Silent, Plain, Read
  <2>4. LogCoolStepRuntimeStatus = [i \in 1 .. 3 |-> Read(regs[i], "abort")]
    BY DEF LogCoolStepRuntimeStatus, regs
  <2>5. /\ LogCoolStepRuntimeStatus \in [1 .. 3 -> Silent]
        /\ LogCoolStepRuntimeStatus \in [1 .. 3 -> Plain]
    BY <2>3, <2>4
  <2> QED BY <2>5, FunctionIsSeq
<1>2. PrintPrettyFullSystemState \in Seq(Silent) /\ PrintPrettyFullSystemState \in Seq(Plain)
  <2>1. {"GCONF", "GSTAT"} \subseteq Registers
    BY DEF Registers, Stored
  <2>2. <<"GCONF", "GSTAT">> \in Seq(Registers)
    BY <2>1, Tuples
  <2>3. PrintPrettyFullSystemState \in Seq(Calm)
    BY <2>2, ReadsKind DEF PrintPrettyFullSystemState
  <2>4. Calm \subseteq Silent /\ Calm \subseteq Plain
    BY DEF Calm, Plain, Forgiving
  <2> QED BY <2>3, <2>4, SeqMonotonic
<1>3. Sets(<<"IHOLD_IRUN">>, "abort") \in Seq(Silent) /\ Sets(<<"IHOLD_IRUN">>, "abort") \in Seq(Plain)
  <2>1. "IHOLD_IRUN" \in Registers \ (Mirrored \union {"VACTUAL"})
    BY DEF Registers, Mirrored
  <2>2. <<"IHOLD_IRUN">> \in Seq(Registers \ (Mirrored \union {"VACTUAL"}))
    BY <2>1, Tuples
  <2> QED BY <2>2, SetsKind
<1> QED BY <1>1, <1>2, <1>3

(* A homing starts with a silent script that writes the homing speed.      *)
LEMMA StartHomingKind ==
  ASSUME NEW fail \in {"abort", "ignore"}
  PROVE  /\ Steady(EnableCoolStep \o GenerateSteps(-HomingSpeed, fail), -HomingSpeed)
         /\ EnableCoolStep \o GenerateSteps(-HomingSpeed, fail) \in Seq(Plain)
<1>1. -HomingSpeed \in -1 .. 1 /\ fail \in Fails
  BY HomingAssumption DEF Fails
<1>2. /\ Steady(GenerateSteps(-HomingSpeed, fail), -HomingSpeed)
      /\ GenerateSteps(-HomingSpeed, fail) \in Seq(Plain)
  BY <1>1, GenerateStepsKind
<1> QED BY <1>2, EnableCoolStepKind, Composed, ConcatProperties

----------------------------------------------------------------------------
(* The type of the driver. *)

(* A method that returns leaves a driver without transfers.                *)
LEMMA ReturnsType ==
  ASSUME NEW d \in Driver, NEW good \in BOOLEAN
  PROVE  /\ Returns(d, good) \in Driver
         /\ Returns(d, good).todo = <<>>
<1> DEFINE left == [d EXCEPT !.call = "none", !.todo = <<>>, !.overdue = FALSE]
           over == [left EXCEPT !.phase = "Idle", !.elapsed = 0, !.lag = 0]
<1>0. /\ {"none"} \subseteq Methods /\ 0 \in 0 .. MaxElapsed /\ 0 \in Nat
      /\ {"Idle", "OppositeTravel", "Settle", "DeadTime"} \subseteq Phases
      /\ <<>> \in Seq(Transfer)
  BY HomingAssumption DEF Methods, Phases
<1>1. left \in Driver /\ left.todo = <<>>
  BY <1>0 DEF Driver
<1> HIDE DEF left
<1>2. over \in Driver /\ over.todo = <<>>
  BY <1>0, <1>1 DEF Driver
<1>3. [left EXCEPT !.ready = good] \in Driver /\ [left EXCEPT !.ready = good].todo = <<>>
  BY <1>1 DEF Driver
<1>4. /\ [left EXCEPT !.phase = "OppositeTravel", !.elapsed = 0, !.lag = 0] \in Driver
      /\ [left EXCEPT !.phase = "OppositeTravel", !.elapsed = 0, !.lag = 0].todo = <<>>
  BY <1>0, <1>1 DEF Driver
<1>5. ASSUME NEW phase \in {"Settle", "DeadTime"}
      PROVE  NextPhase(left, phase) \in Driver /\ NextPhase(left, phase).todo = <<>>
  BY <1>0, <1>1 DEF NextPhase, Driver
<1> HIDE DEF over
<1>6. ASSUME NEW r \in {"Error", "Success", "Timeout"}
      PROVE  [over EXCEPT !.result = r] \in Driver /\ [over EXCEPT !.result = r].todo = <<>>
  BY <1>2 DEF Driver
<1>7. \/ Returns(d, good) = left
      \/ Returns(d, good) = [left EXCEPT !.ready = good]
      \/ Returns(d, good) = [left EXCEPT !.phase = "OppositeTravel", !.elapsed = 0, !.lag = 0]
      \/ \E phase \in {"Settle", "DeadTime"} : Returns(d, good) = NextPhase(left, phase)
      \/ \E r \in {"Error", "Success", "Timeout"} : Returns(d, good) = [over EXCEPT !.result = r]
  BY DEF Returns, left, over
<1> QED BY <1>1, <1>3, <1>4, <1>5, <1>6, <1>7

(* A method that goes on has fewer transfers, or switches StealthChop on.  *)
LEMMA ContinuedType ==
  ASSUME NEW d \in Driver, NEW ok \in BOOLEAN, d.todo # <<>>
  PROVE  Continued(d, ok) \in Driver
<1>1. /\ Head(d.todo) \in Transfer /\ Tail(d.todo) \in Seq(Transfer)
      /\ d.todo \in Seq(Transfer)
  BY TailOfScript DEF Driver
<1>2. Head(d.todo).fail \in Fails
  BY <1>1 DEF Transfer
<1>3. /\ Returns(d, TRUE) \in Driver /\ Returns(d, FALSE) \in Driver
  BY ReturnsType
<1>4. [d EXCEPT !.todo = Tail(d.todo)] \in Driver
  BY <1>1 DEF Driver
<1>5. [d EXCEPT !.call = "Failed", !.todo = RestoreStealthChop] \in Driver
  <2>1. RestoreStealthChop \in Seq(Transfer) /\ "Failed" \in Methods
    BY RestoreStealthChopKind, KindIsScript DEF Script, Methods
  <2> QED BY <2>1 DEF Driver
<1> QED BY <1>2, <1>3, <1>4, <1>5 DEF Continued, Fails

(* A write to the mirror of a register.                                    *)
LEMMA AssignedType ==
  /\ \A old \in GConf : \A fields \in [spread : BOOLEAN] \union [shaft : BOOLEAN] \union GConf :
        /\ Assigned(fields, old) \in GConf
        /\ fields = [spread |-> FALSE] => ~Assigned(fields, old).spread
  /\ \A old \in ChopConf : \A fields \in [mres : Nat] : Assigned(fields, old) \in ChopConf
<1>1. ASSUME NEW old \in GConf, NEW fields \in [spread : BOOLEAN]
      PROVE  Assigned(fields, old) \in GConf /\ (fields = [spread |-> FALSE] => ~Assigned(fields, old).spread)
  BY DEF Assigned, GConf
<1>2. ASSUME NEW old \in GConf, NEW fields \in [shaft : BOOLEAN]
      PROVE  Assigned(fields, old) \in GConf /\ fields # [spread |-> FALSE]
  BY DEF Assigned, GConf
<1>3. ASSUME NEW old \in GConf, NEW fields \in GConf
      PROVE  Assigned(fields, old) \in GConf /\ fields # [spread |-> FALSE]
  BY DEF Assigned, GConf
<1>4. ASSUME NEW old \in ChopConf, NEW fields \in [mres : Nat]
      PROVE  Assigned(fields, old) \in ChopConf
  BY DEF Assigned, ChopConf
<1> QED BY <1>1, <1>2, <1>3, <1>4

(* A write of SpreadCycle leaves the direction alone.                      *)
LEMMA AssignedShaft ==
  \A old \in GConf : \A fields \in [spread : BOOLEAN] : Assigned(fields, old).shaft = old.shaft
BY DEF Assigned, GConf

----------------------------------------------------------------------------
(* What the transfers do. *)

Lost(reg) == reg \in history.lost

(* What the caller wants, and a quiet chip.                                *)
Obeys == chip.VACTUAL.v = history.asked \/ Lost("VACTUAL")
Hushed == ~chip.GCONF.spread \/ Lost("GCONF")

(* The call is the same, with the transfers it had.                        *)
SameCall(d, e) ==
  /\ d.todo = e.todo /\ d.call = e.call /\ d.phase = e.phase /\ d.ready = e.ready
  /\ d.result = e.result

(* Transfers that leave the resolution and the direction of the chip, and  *)
(* what the driver knows of it.                                            *)
Tame ==
  {t \in Transfer :
     IF t.write
     THEN t.reg # "CHOPCONF" /\ (t.reg = "GCONF" => t.value \in [spread : BOOLEAN])
     ELSE t.reg # "MIRROR GCONF"}
(* The first transfer of a homing. *)
Loud == Write("GCONF", [spread |-> TRUE], "abort")

(* The driver knows which way the motor turns. *)
Agreed == chip.GCONF.shaft = driver.GCONF.shaft

(* The driver that goes on is as old as before; a tame transfer leaves the *)
(* direction alone, the first one of a homing makes it known, unless it    *)
(* fails or gets lost; a silent one leaves the speed alone.                *)
Guided(d, ok) ==
  /\ d.elapsed = driver.elapsed /\ d.lag = driver.lag
  /\ chip'.on = chip.on
  /\ history'.clean => history.clean
  /\ Head(driver.todo) \in Tame =>
       /\ chip'.CHOPCONF = chip.CHOPCONF
       /\ Agreed => chip'.GCONF.shaft = chip.GCONF.shaft /\ d.GCONF.shaft = chip'.GCONF.shaft
  /\ Head(driver.todo) = Loud /\ ok /\ history'.clean => d.GCONF.shaft = chip'.GCONF.shaft
  /\ Head(driver.todo) \in Silent => chip'.age = chip.age
  /\ \A v : Head(driver.todo) \in SpeedWrites(v) =>
       /\ chip'.VACTUAL.v \in {chip.VACTUAL.v, v}
       /\ ok /\ history'.clean => chip'.VACTUAL.v = v

(* A write of the speed is done, or it is known that it is not; a write of *)
(* another register leaves the speed, and the last write of a homing turns *)
(* SpreadCycle off.                                                        *)
LEMMA WriteRegisterEffect ==
  ASSUME DriverTypeOK, WriteRegister
  PROVE  \E d \in Driver, ok \in BOOLEAN :
           /\ SameCall(d, driver) /\ driver.todo # <<>> /\ driver' = Continued(d, ok)
           /\ chip' \in Chip /\ history' \in History /\ place' = place
           /\ history'.asked = history.asked
           /\ \A v : Head(driver.todo) \in SpeedWrites(v) =>
                       IF ok THEN chip'.VACTUAL.v = v \/ Lost("VACTUAL")' ELSE Lost("VACTUAL")'
           /\ Head(driver.todo) \in Silent =>
                       chip'.VACTUAL = chip.VACTUAL /\ (Lost("VACTUAL")' <=> Lost("VACTUAL"))
           /\ Head(driver.todo) = Hush => Hushed'
           /\ Guided(d, ok)
<1> DEFINE h == Head(driver.todo)
           reg == h.reg
           d == IF reg \in Mirrored THEN [driver EXCEPT ![reg] = Assigned(h.value, @)] ELSE driver
           value == IF reg \in Mirrored THEN d[reg] ELSE h.value
           set == [chip EXCEPT ![reg] = value,
                               !.age = IF reg = "VACTUAL" /\ value # chip.VACTUAL THEN 0 ELSE @]
           told(ok) == [d EXCEPT !.coolstep = @ \/ (reg = "COOLCONF" /\ ok)]
           done(outcome) == outcome \in {"sent", "dropped"}
<1>1. driver \in Driver /\ chip \in Chip /\ history \in History /\ driver.todo # <<>> /\ h.write
  BY DEF DriverTypeOK, WriteRegister
<1>2. h \in Transfer
  BY <1>1, TailOfScript DEF Driver
<1>3. \/ reg = "GCONF" /\ h.value \in [spread : BOOLEAN] \union [shaft : BOOLEAN] \union GConf
      \/ reg = "CHOPCONF" /\ h.value \in [mres : Nat]
      \/ reg \in Registers \ Mirrored /\ h.value \in [v : -1 .. 1]
  BY <1>1, <1>2 DEF Transfer
<1>4. PICK outcome \in {"sent"} \union WriteFaults :
           /\ driver' = Continued(told(done(outcome)), done(outcome))
           /\ chip' = IF reg \in Stored /\ outcome \in {"sent", "late"} THEN set ELSE chip
           /\ history' = IF outcome = "sent"
                         THEN [history EXCEPT !.lost = @ \ {reg}]
                         ELSE [history EXCEPT !.lost = @ \union ({reg} \intersect Stored), !.faults = @ + 1,
                                              !.clean = @ /\ outcome # "dropped"]
           /\ place' = place
  BY DEF WriteRegister
<1>T. h \in Tame => reg # "CHOPCONF" /\ (reg = "GCONF" => h.value \in [spread : BOOLEAN])
  BY <1>1 DEF Tame
<1>L. h = Loud => h \in Tame /\ reg = "GCONF"
  <2>1. Loud.reg = "GCONF" /\ Loud.value = [spread |-> TRUE]
    BY DEF Loud, Write
  <2>2. [spread |-> TRUE] \in [spread : BOOLEAN]
    OBVIOUS
  <2> QED BY <1>1, <1>2, <2>1, <2>2 DEF Tame
<1> HIDE DEF h
<1>5. /\ d \in Driver /\ SameCall(d, driver)
      /\ d.elapsed = driver.elapsed /\ d.lag = driver.lag
      /\ h \in Tame => d.GCONF.shaft = driver.GCONF.shaft
  <2>1. CASE reg = "GCONF"
    <3>1. Assigned(h.value, driver.GCONF) \in GConf
      BY <1>1, <1>3, <2>1, AssignedType DEF Driver, Mirrored
    <3>2. h \in Tame => Assigned(h.value, driver.GCONF).shaft = driver.GCONF.shaft
      BY <1>1, <1>T, <2>1, AssignedShaft DEF Driver
    <3> QED BY <1>1, <2>1, <3>1, <3>2 DEF Driver, SameCall, Mirrored
  <2>2. CASE reg = "CHOPCONF"
    <3>1. Assigned(h.value, driver.CHOPCONF) \in ChopConf
      BY <1>1, <1>3, <2>2, AssignedType DEF Driver, Mirrored
    <3> QED BY <1>1, <1>T, <2>2, <3>1 DEF Driver, SameCall, Mirrored
  <2>3. CASE reg \notin Mirrored
    BY <1>1, <2>3 DEF SameCall
  <2> QED BY <2>1, <2>2, <2>3 DEF Mirrored
<1>6. ASSUME reg \in Stored
      PROVE  /\ set \in Chip
             /\ reg # "VACTUAL" => set.VACTUAL = chip.VACTUAL
             /\ reg = "VACTUAL" => set.VACTUAL.v = h.value.v
             /\ h = Hush => ~set.GCONF.spread
             /\ set.on = chip.on
             /\ reg # "CHOPCONF" => set.CHOPCONF = chip.CHOPCONF
             /\ set.GCONF = IF reg = "GCONF" THEN d.GCONF ELSE chip.GCONF
             /\ reg # "VACTUAL" => set.age = chip.age
  <2>0. 0 \in 0 .. SgSettling
    BY HomingAssumption
  <2>1. CASE reg = "GCONF"
    <3>1. value \in GConf
      BY <1>5, <2>1 DEF Driver, Mirrored
    <3>2. value = Assigned(h.value, driver.GCONF)
      BY <1>1, <2>1 DEF Driver, Mirrored
    <3>3. h = Hush => ~value.spread
      <4>1. h = Hush => h.value = [spread |-> FALSE]
        BY DEF Hush, Write
      <4>2. h.value \in [spread : BOOLEAN] \union [shaft : BOOLEAN] \union GConf
        BY <1>3, <2>1 DEF Mirrored
      <4>3. driver.GCONF \in GConf
        BY <1>1 DEF Driver
      <4> QED BY <3>2, <4>1, <4>2, <4>3, AssignedType
    <3>5. value = d.GCONF
      BY <2>1 DEF Mirrored
    <3> HIDE DEF value, d
    <3>4. set = [chip EXCEPT !.GCONF = value]
      BY <1>1, <2>1 DEF Chip
    <3> QED BY <1>1, <2>1, <3>1, <3>3, <3>4, <3>5 DEF Chip
  <2>2. CASE reg = "CHOPCONF"
    <3>1. value \in ChopConf
      BY <1>5, <2>2 DEF Driver, Mirrored
    <3>2. h # Hush
      BY <2>2 DEF Hush, Write
    <3> HIDE DEF value
    <3>4. set = [chip EXCEPT !.CHOPCONF = value]
      BY <1>1, <2>2 DEF Chip
    <3> QED BY <1>1, <2>2, <3>1, <3>2, <3>4 DEF Chip
  <2>3. CASE reg = "VACTUAL"
    <3>1. value = h.value /\ h.value \in [v : -1 .. 1]
      BY <1>3, <2>3 DEF Mirrored
    <3>2. h # Hush
      BY <2>3 DEF Hush, Write
    <3> HIDE DEF value
    <3>3. set = [chip EXCEPT !.VACTUAL = value, !.age = IF value # chip.VACTUAL THEN 0 ELSE @]
      BY <1>1, <2>3 DEF Chip
    <3> QED BY <1>1, <2>0, <2>3, <3>1, <3>2, <3>3 DEF Chip
  <2> QED BY <1>6, <2>1, <2>2, <2>3 DEF Stored
<1> HIDE DEF d, set, value
<1>7. \A ok \in BOOLEAN : told(ok) \in Driver /\ SameCall(told(ok), driver)
  BY <1>5 DEF Driver, SameCall
<1>7a. \A ok \in BOOLEAN : /\ told(ok).elapsed = driver.elapsed /\ told(ok).lag = driver.lag
                           /\ told(ok).GCONF = d.GCONF
  BY <1>5 DEF Driver
<1> HIDE DEF told
<1>8. chip' \in Chip
  BY <1>1, <1>4, <1>6
<1>9. /\ history' \in History /\ history'.asked = history.asked
      /\ IF outcome = "sent" THEN history'.lost = history.lost \ {reg}
                             ELSE history'.lost = history.lost \union ({reg} \intersect Stored)
  <2>1. [history EXCEPT !.lost = @ \ {reg}] \in History
    BY <1>1 DEF History
  <2>2. [history EXCEPT !.lost = @ \union ({reg} \intersect Stored), !.faults = @ + 1,
                        !.clean = @ /\ outcome # "dropped"] \in History
    <3>1. history.faults + 1 \in Nat
      BY <1>1 DEF History
    <3> QED BY <1>1, <3>1 DEF History
  <2> QED BY <1>1, <1>4, <2>1, <2>2 DEF History
<1>10. outcome \in {"sent", "failed", "dropped", "late"}
  BY <1>4, HomingAssumption
<1> DEFINE good == done(outcome)
<1>11. ASSUME NEW v, h \in SpeedWrites(v)
       PROVE  IF good THEN chip'.VACTUAL.v = v \/ Lost("VACTUAL")' ELSE Lost("VACTUAL")'
  <2>1. reg = "VACTUAL" /\ reg \in Stored /\ h.value.v = v
    BY <1>11 DEF SpeedWrites, Stored
  <2>2. outcome # "sent" => Lost("VACTUAL")'
    BY <1>9, <2>1 DEF Lost
  <2>3. outcome = "sent" => chip'.VACTUAL.v = v
    BY <1>4, <1>6, <2>1
  <2> QED BY <2>2, <2>3
<1>12. ASSUME h \in Silent
       PROVE  chip'.VACTUAL = chip.VACTUAL /\ (Lost("VACTUAL")' <=> Lost("VACTUAL"))
  <2>1. reg # "VACTUAL"
    BY <1>1, <1>12 DEF Silent, h
  <2>2. chip'.VACTUAL = chip.VACTUAL
    BY <1>4, <1>6, <2>1
  <2>3. "VACTUAL" \in history'.lost <=> "VACTUAL" \in history.lost
    BY <1>9, <2>1
  <2> QED BY <2>2, <2>3 DEF Lost
<1>13. ASSUME h = Hush PROVE Hushed'
  <2>1. reg = "GCONF" /\ reg \in Stored
    BY <1>13 DEF Hush, Write, Stored
  <2>2. outcome # "sent" => Lost("GCONF")'
    BY <1>9, <2>1 DEF Lost
  <2>3. outcome = "sent" => ~chip'.GCONF.spread
    BY <1>4, <1>6, <1>13, <2>1
  <2> QED BY <2>2, <2>3 DEF Hushed
<1>14. good \in BOOLEAN /\ told(good) \in Driver /\ SameCall(told(good), driver)
       /\ driver' = Continued(told(good), good)
  <2>1. good \in BOOLEAN
    OBVIOUS
  <2> HIDE DEF done
  <2> QED BY <1>4, <1>7, <2>1
<1>15. Guided(told(good), good)
  <2>1. history'.clean => history.clean /\ outcome # "dropped"
    BY <1>1, <1>4 DEF History
  <2>2. chip'.on = chip.on
    BY <1>4, <1>6
  <2>3. ASSUME h \in Tame
        PROVE  /\ chip'.CHOPCONF = chip.CHOPCONF
               /\ Agreed => chip'.GCONF.shaft = chip.GCONF.shaft /\ d.GCONF.shaft = chip'.GCONF.shaft
    <3>1. chip'.CHOPCONF = chip.CHOPCONF
      BY <1>4, <1>6, <1>T, <2>3
    <3>2. chip'.GCONF = chip.GCONF \/ chip'.GCONF = d.GCONF
      BY <1>4, <1>6
    <3>3. d.GCONF.shaft = driver.GCONF.shaft
      BY <1>5, <2>3
    <3> QED BY <3>1, <3>2, <3>3 DEF Agreed
  <2>4. ASSUME h = Loud, good, history'.clean PROVE d.GCONF.shaft = chip'.GCONF.shaft
    <3>1. outcome = "sent" /\ reg = "GCONF" /\ reg \in Stored
      BY <1>L, <2>1, <2>4 DEF Stored
    <3>2. chip'.GCONF = d.GCONF
      BY <1>4, <1>6, <3>1
    <3> QED BY <3>2
  <2>5. ASSUME h \in Silent PROVE chip'.age = chip.age
    <3>1. reg # "VACTUAL"
      BY <1>1, <2>5 DEF Silent, h
    <3> QED BY <1>4, <1>6, <3>1
  <2>6. ASSUME NEW v, h \in SpeedWrites(v)
        PROVE  /\ chip'.VACTUAL.v \in {chip.VACTUAL.v, v}
               /\ good /\ history'.clean => chip'.VACTUAL.v = v
    <3>1. reg = "VACTUAL" /\ reg \in Stored /\ h.value.v = v
      BY <2>6 DEF SpeedWrites, Stored
    <3>2. good /\ history'.clean => outcome = "sent"
      BY <2>1
    <3> QED BY <1>4, <1>6, <3>1, <3>2
  <2>7. good \in BOOLEAN
    OBVIOUS
  <2> HIDE DEF good
  <2>8. /\ told(good).elapsed = driver.elapsed /\ told(good).lag = driver.lag
        /\ told(good).GCONF = d.GCONF
    BY <1>7a, <2>7
  <2> HIDE DEF done
  <2> QED BY <2>1, <2>2, <2>3, <2>4, <2>5, <2>6, <2>8 DEF Guided, h
<1> HIDE DEF good
<1> QED BY <1>1, <1>4, <1>8, <1>9, <1>11, <1>12, <1>13, <1>14, <1>15 DEF h

(* A read leaves the chip as it is; the one that looks for the stop may    *)
(* end the homing.                                                         *)
LEMMA ReadRegisterEffect ==
  ASSUME DriverTypeOK, ReadRegister
  PROVE  /\ driver.todo # <<>> /\ Head(driver.todo) \in Silent /\ Head(driver.todo) # Hush
         /\ UNCHANGED <<chip, place>> /\ history' \in History
         /\ history'.asked = history.asked /\ history'.lost = history.lost
         /\ history'.clean = history.clean
         /\ \/ \E d \in Driver, ok \in BOOLEAN :
                 /\ SameCall(d, driver) /\ driver' = Continued(d, ok) /\ Guided(d, ok)
                 /\ driver.call # "StallDetect"
            \/ driver.call = "StallDetect" /\ driver' = Returns(driver, TRUE) /\ Guided(driver, TRUE)
            \/ \E call \in {"Success", "Timeout"} :
                 /\ driver.call = "StallDetect"
                 /\ driver' = [driver EXCEPT !.call = call, !.todo = EndHoming]
                 /\ call = "Success" => TRUE \in Loads
<1> DEFINE h == Head(driver.todo)
           reg == h.reg
<1>1. driver \in Driver /\ chip \in Chip /\ history \in History /\ driver.todo # <<>> /\ ~h.write
  BY DEF DriverTypeOK, ReadRegister
<1>2. h \in Transfer
  BY <1>1, TailOfScript DEF Driver
<1>3. h \in Silent /\ h # Hush
  BY <1>1, <1>2 DEF Silent, Hush, Write
<1>4. PICK ok \in BOOLEAN :
           /\ history' = [history EXCEPT !.faults = IF ok THEN @ ELSE @ + 1]
           /\ IF driver.call = "StallDetect"
              THEN \E loaded \in Loads :
                     driver' = IF (ok /\ loaded) \/ driver.overdue
                               THEN [driver EXCEPT !.call = IF ok /\ loaded THEN "Success" ELSE "Timeout",
                                                   !.todo = EndHoming]
                               ELSE Returns(driver, TRUE)
              ELSE \E content \in Content(reg, ok) : driver' = Continued(Mirrors(reg, ok), content)
  BY DEF ReadRegister
<1>5. /\ history' \in History /\ history'.asked = history.asked /\ history'.lost = history.lost
      /\ history'.clean = history.clean
  <2>1. history.faults + 1 \in Nat
    BY <1>1 DEF History
  <2> QED BY <1>1, <1>4, <2>1 DEF History
<1>6. CASE driver.call = "StallDetect"
  <2>1. PICK loaded \in Loads :
           driver' = IF (ok /\ loaded) \/ driver.overdue
                     THEN [driver EXCEPT !.call = IF ok /\ loaded THEN "Success" ELSE "Timeout",
                                         !.todo = EndHoming]
                     ELSE Returns(driver, TRUE)
    BY <1>4, <1>6
  <2>2. loaded \in BOOLEAN
    BY <2>1 DEF Loads, Blocked
  <2>5. Guided(driver, TRUE)
    <3>1. chip' = chip /\ history'.clean = history.clean
      BY <1>5 DEF ReadRegister
    <3>2. h # Loud /\ \A v : h \notin SpeedWrites(v)
      BY <1>1 DEF Loud, Write, SpeedWrites
    <3> QED BY <3>1, <3>2 DEF Guided, Agreed
  <2>3. loaded => TRUE \in Loads
    BY <2>1, <2>2
  <2> HIDE DEF h, reg
  <2>4. \/ driver' = Returns(driver, TRUE)
        \/ \E call \in {"Success", "Timeout"} :
              /\ driver' = [driver EXCEPT !.call = call, !.todo = EndHoming]
              /\ call = "Success" => TRUE \in Loads
    BY <2>1, <2>3
  <2> QED BY <1>1, <1>3, <1>5, <1>6, <2>4, <2>5 DEF ReadRegister, h
<1>7. CASE driver.call # "StallDetect"
  <2>1. PICK content \in Content(reg, ok) : driver' = Continued(Mirrors(reg, ok), content)
    BY <1>4, <1>7
  <2>2. content \in BOOLEAN
    BY <2>1 DEF Content
  <2>3. Mirrors(reg, ok) \in Driver /\ SameCall(Mirrors(reg, ok), driver)
    <3>1. chip.GCONF \in GConf /\ chip.CHOPCONF \in ChopConf
      BY <1>1 DEF Chip
    <3>2. NoGConf \in GConf /\ NoChopConf \in ChopConf
      BY DEF NoGConf, GConf, NoChopConf, ChopConf
    <3>3. ASSUME NEW g \in GConf
          PROVE  [driver EXCEPT !.GCONF = g] \in Driver /\ SameCall([driver EXCEPT !.GCONF = g], driver)
      BY <1>1 DEF Driver, SameCall
    <3>4. ASSUME NEW c \in ChopConf
          PROVE  [driver EXCEPT !.CHOPCONF = c] \in Driver /\ SameCall([driver EXCEPT !.CHOPCONF = c], driver)
      BY <1>1 DEF Driver, SameCall
    <3>5. SameCall(driver, driver)
      BY DEF SameCall
    <3> QED BY <1>1, <3>1, <3>2, <3>3, <3>4, <3>5 DEF Mirrors
  <2>5. /\ Mirrors(reg, ok).elapsed = driver.elapsed /\ Mirrors(reg, ok).lag = driver.lag
        /\ reg # "MIRROR GCONF" => Mirrors(reg, ok).GCONF \in {driver.GCONF, chip.GCONF}
    BY <1>1 DEF Mirrors, Driver
  <2>6. Guided(Mirrors(reg, ok), content)
    <3>1. h \in Tame => reg # "MIRROR GCONF"
      BY <1>1 DEF Tame
    <3>2. chip' = chip /\ history'.clean = history.clean
      BY <1>5 DEF ReadRegister
    <3>3. h # Loud /\ \A v : h \notin SpeedWrites(v)
      BY <1>1 DEF Loud, Write, SpeedWrites
    <3> HIDE DEF h, reg
    <3>4. h \in Tame /\ Agreed => Mirrors(reg, ok).GCONF.shaft = chip.GCONF.shaft
      BY <2>5, <3>1 DEF Agreed
    <3> QED BY <2>5, <3>2, <3>3, <3>4 DEF Guided, h
  <2> HIDE DEF h, reg
  <2>4. \E d \in Driver, o \in BOOLEAN :
           SameCall(d, driver) /\ driver' = Continued(d, o) /\ Guided(d, o)
    BY <2>1, <2>2, <2>3, <2>6
  <2> QED BY <1>1, <1>3, <1>5, <1>7, <2>4 DEF ReadRegister, h
<1> QED BY <1>6, <1>7

(* The driver keeps its type in a transfer.                                *)
LEMMA TransferType ==
  DriverTypeOK /\ (WriteRegister \/ ReadRegister) => DriverTypeOK'
<1>0. \A d : d \in Driver /\ SameCall(d, driver) /\ driver.todo # <<>> => d.todo # <<>>
  BY DEF SameCall
<1>1. DriverTypeOK /\ WriteRegister => DriverTypeOK'
  <2> SUFFICES ASSUME DriverTypeOK, WriteRegister PROVE DriverTypeOK'
    OBVIOUS
  <2>1. PICK d \in Driver, ok \in BOOLEAN :
           /\ SameCall(d, driver) /\ driver.todo # <<>> /\ driver' = Continued(d, ok)
           /\ chip' \in Chip /\ history' \in History /\ place' = place
    BY WriteRegisterEffect
  <2>2. driver' \in Driver
    BY <1>0, <2>1, ContinuedType
  <2> QED BY <2>1, <2>2 DEF DriverTypeOK
<1>2. DriverTypeOK /\ ReadRegister => DriverTypeOK'
  <2> SUFFICES ASSUME DriverTypeOK, ReadRegister PROVE DriverTypeOK'
    OBVIOUS
  <2>1. driver.todo # <<>> /\ UNCHANGED <<chip, place>> /\ history' \in History
    BY ReadRegisterEffect
  <2>2. driver \in Driver
    BY DEF DriverTypeOK
  <2>3. \A d \in Driver, ok \in BOOLEAN : SameCall(d, driver) => Continued(d, ok) \in Driver
    BY <1>0, <2>1, ContinuedType
  <2>4. Returns(driver, TRUE) \in Driver
    BY <2>2, ReturnsType
  <2>5. \A call \in {"Success", "Timeout"} : [driver EXCEPT !.call = call, !.todo = EndHoming] \in Driver
    <3>1. EndHoming \in Seq(Transfer) /\ {"Success", "Timeout"} \subseteq Methods
      BY EndHomingKind, KindIsScript DEF Script, Methods
    <3> QED BY <2>2, <3>1 DEF Driver
  <2>6. driver' \in Driver
    BY <2>3, <2>4, <2>5, ReadRegisterEffect
  <2> QED BY <2>1, <2>6 DEF DriverTypeOK
<1> QED BY <1>1, <1>2

(* The carriage stays between its end stops.                               *)
LEMMA MovedType ==
  ASSUME DriverTypeOK, NEW direction \in Int
  PROVE  Moved(direction) \in 0 .. Length /\ Places(direction) \subseteq 0 .. Length
<1>1. Length \in Nat /\ place \in 0 .. Length
  BY HomingAssumption DEF DriverTypeOK
<1>2. \A p \in Int : Clamped(p) \in 0 .. Length
  BY <1>1 DEF Clamped
<1>3. (IF chip.GCONF.shaft THEN -direction ELSE direction) \in Int
  OBVIOUS
<1>4. Moved(direction) \in 0 .. Length
  BY <1>1, <1>2, <1>3 DEF Moved
<1> QED BY <1>1, <1>4 DEF Places

(* What each method begins with is a script.                               *)
LEMMA BeginsType ==
  ASSUME DriverTypeOK, NEW call \in Methods, NEW script \in Script, NEW blocking \in BOOLEAN,
         Begins(call, script, blocking)
  PROVE  /\ driver' \in Driver /\ place' = place
         /\ driver'.call = call /\ driver'.todo = script /\ driver'.result = "none"
         /\ driver'.ready = (driver.ready /\ call # "Init")
         /\ driver.todo = <<>> /\ driver.phase = "Idle" /\ driver'.phase = "Idle"
<1> DEFINE ready == driver.ready /\ call # "Init"
<1>1. driver \in Driver
  BY DEF DriverTypeOK
<1>2. driver' = [driver EXCEPT !.call = call, !.todo = script, !.blocking = blocking,
                               !.result = "none", !.ready = ready] /\ place' = place
  BY DEF Begins
<1>3. ready \in BOOLEAN
  OBVIOUS
<1>4. driver.todo = <<>> /\ driver.phase = "Idle"
  BY DEF Begins
<1> HIDE DEF ready
<1>5. driver'.ready = ready /\ driver' \in Driver
  BY <1>1, <1>2, <1>3 DEF Driver, Script
<1>6. /\ driver'.call = call /\ driver'.todo = script /\ driver'.result = "none"
      /\ driver'.phase = driver.phase
  BY <1>1, <1>2 DEF Driver
<1> QED BY <1>2, <1>4, <1>5, <1>6 DEF ready

(* What the caller asks for is counted.                                    *)
LEMMA AsksType ==
  ASSUME DriverTypeOK, NEW speed \in -1 .. 1, Asks(speed)
  PROVE  history' \in History /\ history'.asked = speed /\ history'.lost = history.lost
<1>1. history \in History
  BY DEF DriverTypeOK
<1>2. history.calls + 1 \in Nat
  BY <1>1 DEF History
<1> QED BY <1>1, <1>2 DEF Asks, History

(* The scripts of all methods are scripts.                                 *)
LEMMA ScriptType ==
  /\ \A setup \in Setups : InitForNormalSpeedAndUartBasedOperation(setup) \in Script
  /\ {EnableCoolStep, LogCoolStepRuntimeStatus, PrintPrettyFullSystemState,
      Sets(<<"IHOLD_IRUN">>, "abort"), PerformStealthChopAutoTuning, EndHoming, <<>>} \subseteq Script
  /\ \A speed \in -1 .. 1, fail \in Fails : GenerateSteps(speed, fail) \in Script
  /\ \A reversed \in BOOLEAN : <<Write("GCONF", [shaft |-> reversed], "ignore")>> \in Script
  /\ \A fail \in {"abort", "ignore"} : EnableCoolStep \o GenerateSteps(-HomingSpeed, fail) \in Script
<1>1. \A setup \in Setups : InitForNormalSpeedAndUartBasedOperation(setup) \in Script
  BY InitKind, KindIsScript
<1>2. {EnableCoolStep, LogCoolStepRuntimeStatus, PrintPrettyFullSystemState,
       Sets(<<"IHOLD_IRUN">>, "abort"), PerformStealthChopAutoTuning, EndHoming, <<>>} \subseteq Script
  <2>1. <<>> \in Script
    BY DEF Script
  <2>2. PerformStealthChopAutoTuning \in Script /\ EnableCoolStep \in Script /\ EndHoming \in Script
    BY TuningKind, EnableCoolStepKind, EndHomingKind, KindIsScript
  <2>3. /\ LogCoolStepRuntimeStatus \in Script /\ PrintPrettyFullSystemState \in Script
        /\ Sets(<<"IHOLD_IRUN">>, "abort") \in Script
    BY ServiceKind, KindIsScript
  <2> QED BY <2>1, <2>2, <2>3
<1>3. \A speed \in -1 .. 1, fail \in Fails : GenerateSteps(speed, fail) \in Script
  BY GenerateStepsKind, SpeedWriteType
<1>4. \A reversed \in BOOLEAN : <<Write("GCONF", [shaft |-> reversed], "ignore")>> \in Script
  <2>1. \A reversed \in BOOLEAN : Write("GCONF", [shaft |-> reversed], "ignore") \in Transfer
    BY WriteType DEF Fails
  <2> QED BY <2>1, Tuples DEF Script
<1>5. \A fail \in {"abort", "ignore"} : EnableCoolStep \o GenerateSteps(-HomingSpeed, fail) \in Script
  BY StartHomingKind, KindIsScript
<1> QED BY <1>1, <1>2, <1>3, <1>4, <1>5

----------------------------------------------------------------------------
(* The invariant behind MotorObeys and QuietAfterHoming: what the          *)
(* transfers still to do will make of the chip, whichever of them fail.    *)

Services ==
  {"EnableCoolStep", "LogCoolStepRuntimeStatus", "PrintPrettyFullSystemState",
   "setIHoldIRun", "ShaftTurnReversed"}
Drives == {"GenerateSteps", "PerformStealthChopAutoTuning"}

(* Between two calls. *)
Resting ==
  driver.phase = "Idle" => /\ driver.ready => Obeys
                           /\ driver.result # "none" => Hushed

(* In a call, outside of a homing. *)
Initialising ==
  /\ driver.call = "Init" /\ ~driver.ready /\ history.asked = 0
  /\ Steady(driver.todo, 0) \/ (driver.todo \in Seq(Silent) /\ Obeys)

Serving == driver.call \in Services /\ driver.todo \in Seq(Silent) /\ Obeys

Driving ==
  /\ driver.call \in Drives
  /\ Firm(driver.todo, history.asked) \/ (driver.todo \in Seq(Calm) /\ Obeys)

StartingHoming ==
  /\ driver.call = "StartHoming" /\ history.asked = 0
  /\ (Steady(driver.todo, -HomingSpeed) /\ Obeys) \/ driver.todo \in Seq(Calm)

Calling ==
  /\ driver.result = "none" /\ driver.todo \in Seq(Plain)
  /\ Initialising \/ Serving \/ Driving \/ StartingHoming

(* In a call for a homing that is under way. *)
Looking == driver.call \in {"OppositeTravel", "StallDetect"} /\ driver.todo \in Seq(Forgiving)

Approaching ==
  /\ driver.call = "Settle"
  /\ Firm(driver.todo, HomingSpeed) \/ driver.todo \in Seq(Calm)

Failing ==
  driver.call = "Failed" /\ driver.todo \in Seq(Calm) /\ EndsHushed(driver.todo) /\ Lost("VACTUAL")

Ending ==
  /\ driver.call \in {"Success", "Timeout"}
  /\ driver.todo \in Seq(Forgiving) /\ EndsHushed(driver.todo)
  /\ Firm(driver.todo, 0) \/ (driver.todo \in Seq(Silent) /\ Obeys)

Homing == Looking \/ Approaching \/ Failing \/ Ending

ScriptInv ==
  /\ driver.phase # "Idle" => history.asked = 0
  /\ driver.todo = <<>> => Resting
  /\ driver.todo # <<>> => IF driver.phase = "Idle" THEN Calling ELSE Homing

(* What becomes of the call when a transfer has been done.                 *)
LEMMA ContinuedCases ==
  ASSUME NEW d \in Driver, NEW ok \in BOOLEAN, d.todo # <<>>
  PROVE  \/ /\ ok \/ Head(d.todo) \in Forgiving
            /\ Tail(d.todo) # <<>>
            /\ Continued(d, ok).todo = Tail(d.todo)
            /\ Continued(d, ok).call = d.call /\ Continued(d, ok).phase = d.phase
            /\ Continued(d, ok).ready = d.ready /\ Continued(d, ok).result = d.result
         \/ /\ ok \/ Head(d.todo) \in Forgiving
            /\ Tail(d.todo) = <<>> /\ Continued(d, ok) = Returns(d, TRUE)
         \/ /\ ~ok /\ Head(d.todo) \notin Forgiving /\ Continued(d, ok) = Returns(d, FALSE)
         \/ /\ ~ok /\ Head(d.todo) \notin Forgiving /\ Head(d.todo) \notin Plain
            /\ Continued(d, ok).todo = RestoreStealthChop
            /\ Continued(d, ok).call = "Failed" /\ Continued(d, ok).phase = d.phase
            /\ Continued(d, ok).ready = d.ready /\ Continued(d, ok).result = d.result
<1>1. Head(d.todo) \in Transfer
  BY TailOfScript DEF Driver
<1>2. Head(d.todo).fail \in Fails
  BY <1>1 DEF Transfer
<1>3. CASE (ok \/ Head(d.todo).fail = "ignore") /\ Tail(d.todo) # <<>>
  <2>1. Continued(d, ok) = [d EXCEPT !.todo = Tail(d.todo)]
    BY <1>3 DEF Continued
  <2> QED BY <1>1, <1>3, <2>1 DEF Driver, Forgiving
<1>4. CASE (ok \/ Head(d.todo).fail = "ignore") /\ Tail(d.todo) = <<>>
  BY <1>1, <1>4 DEF Continued, Forgiving
<1>5. CASE ~ok /\ Head(d.todo).fail = "abort"
  BY <1>1, <1>5 DEF Continued, Forgiving
<1>6. CASE ~ok /\ Head(d.todo).fail = "restore"
  <2>1. Continued(d, ok) = [d EXCEPT !.call = "Failed", !.todo = RestoreStealthChop]
    BY <1>6 DEF Continued
  <2> QED BY <1>1, <1>6, <2>1 DEF Driver, Forgiving, Plain
<1> QED BY <1>2, <1>3, <1>4, <1>5, <1>6 DEF Fails

(* What becomes of the driver when the method ends.                        *)
LEMMA ReturnsCases ==
  ASSUME NEW d \in Driver, NEW good \in BOOLEAN
  PROVE  /\ Returns(d, good).todo = <<>>
         /\ d.call = "Init" => /\ Returns(d, good).ready = good /\ Returns(d, good).phase = d.phase
                               /\ Returns(d, good).result = d.result
         /\ d.call # "Init" => Returns(d, good).ready = d.ready
         /\ d.call = "StartHoming" /\ good => Returns(d, good).phase # "Idle"
         /\ d.call = "StartHoming" /\ ~good => /\ Returns(d, good).phase = d.phase
                                               /\ Returns(d, good).result = d.result
         /\ d.call \in {"OppositeTravel", "Settle"} => Returns(d, good).phase # "Idle"
         /\ d.call \in Services \union Drives \union {"StallDetect"} =>
              Returns(d, good).phase = d.phase /\ Returns(d, good).result = d.result
<1> DEFINE left == [d EXCEPT !.call = "none", !.todo = <<>>, !.overdue = FALSE]
           over == [left EXCEPT !.phase = "Idle", !.elapsed = 0, !.lag = 0]
<1>0. Returns(d, good).todo = <<>>
  BY ReturnsType
<1>1. /\ DOMAIN left = DOMAIN d /\ left.ready = d.ready /\ left.phase = d.phase
      /\ left.result = d.result
      /\ {"ready", "phase", "result", "elapsed", "lag"} \subseteq DOMAIN left
  BY DEF Driver
<1> HIDE DEF left
<1>2. over.ready = d.ready /\ {"ready", "phase", "result"} \subseteq DOMAIN over
  BY <1>1
<1> HIDE DEF over
<1>3. CASE d.call = "Init"
  <2>1. Returns(d, good) = [left EXCEPT !.ready = good]
    BY <1>3 DEF Returns, left
  <2> QED BY <1>0, <1>1, <1>3, <2>1 DEF Services, Drives
<1>4. CASE d.call = "StartHoming" /\ good
  <2>1. Returns(d, good) = [left EXCEPT !.phase = "OppositeTravel", !.elapsed = 0, !.lag = 0]
    BY <1>4 DEF Returns, left
  <2> QED BY <1>0, <1>1, <1>4, <2>1 DEF Services, Drives
<1>5. CASE d.call \in {"OppositeTravel", "Settle"}
  <2>1. Returns(d, good) = NextPhase(left, IF d.call = "Settle" THEN "DeadTime" ELSE "Settle")
    BY <1>5 DEF Returns, left
  <2> QED BY <1>0, <1>1, <1>5, <2>1 DEF Services, Drives, NextPhase
<1>6. CASE d.call \in {"Failed", "Success", "Timeout"}
  <2>1. Returns(d, good) = [over EXCEPT !.result = IF d.call = "Failed" THEN "Error" ELSE d.call]
    BY <1>6 DEF Returns, left, over
  <2> QED BY <1>0, <1>2, <1>6, <2>1 DEF Services, Drives
<1>7. CASE (d.call = "StartHoming" /\ ~good)
           \/ d.call \notin {"Init", "StartHoming", "OppositeTravel", "Settle", "Failed", "Success", "Timeout"}
  <2>1. Returns(d, good) = left
    BY <1>7 DEF Returns, left
  <2> QED BY <1>0, <1>1, <1>7, <2>1 DEF Services, Drives
<1> QED BY <1>3, <1>4, <1>5, <1>6, <1>7

(* What a transfer does to the speed and to SpreadCycle.                   *)
Effect(ok) ==
  /\ history'.asked = history.asked
  /\ \A v : Head(driver.todo) \in SpeedWrites(v) =>
              IF ok THEN chip'.VACTUAL.v = v \/ Lost("VACTUAL")' ELSE Lost("VACTUAL")'
  /\ Head(driver.todo) \in Silent =>
              chip'.VACTUAL = chip.VACTUAL /\ (Lost("VACTUAL")' <=> Lost("VACTUAL"))
  /\ Head(driver.todo) = Hush => Hushed'

(* A transfer that is silent leaves the caller as content as it was; the   *)
(* one that writes what is asked for makes it content.                     *)
LEMMA EffectObeys ==
  ASSUME NEW ok \in BOOLEAN, Effect(ok)
  PROVE  /\ Head(driver.todo) \in Silent => (Obeys' <=> Obeys)
         /\ Head(driver.todo) \in SpeedWrites(history.asked) => Obeys'
         /\ \A v : Head(driver.todo) \in SpeedWrites(v) => ok \/ Lost("VACTUAL")'
         /\ Lost("VACTUAL")' => Obeys'
BY DEF Effect, Obeys

(* The same for a method that succeeds, and for one that fails.            *)
LEMMA ReturnsBoth ==
  ASSUME NEW d \in Driver
  PROVE  /\ Returns(d, TRUE).todo = <<>> /\ Returns(d, FALSE).todo = <<>>
         /\ d.call = "Init" => /\ Returns(d, TRUE).phase = d.phase /\ Returns(d, FALSE).phase = d.phase
                               /\ Returns(d, TRUE).result = d.result
                               /\ Returns(d, FALSE).result = d.result
                               /\ ~Returns(d, FALSE).ready
         /\ d.call # "Init" => Returns(d, TRUE).ready = d.ready /\ Returns(d, FALSE).ready = d.ready
         /\ d.call = "StartHoming" => /\ Returns(d, TRUE).phase # "Idle"
                                      /\ Returns(d, FALSE).phase = d.phase
                                      /\ Returns(d, FALSE).result = d.result
         /\ d.call \in {"OppositeTravel", "Settle"} =>
              Returns(d, TRUE).phase # "Idle" /\ Returns(d, FALSE).phase # "Idle"
         /\ d.call \in Services \union Drives \union {"StallDetect"} =>
              /\ Returns(d, TRUE).phase = d.phase /\ Returns(d, TRUE).result = d.result
              /\ Returns(d, FALSE).phase = d.phase /\ Returns(d, FALSE).result = d.result
<1> DEFINE yes == TRUE
           no == FALSE
<1>1. yes \in BOOLEAN /\ yes /\ no \in BOOLEAN /\ ~no
  OBVIOUS
<1>2. Returns(d, TRUE) = Returns(d, yes) /\ Returns(d, FALSE) = Returns(d, no)
  OBVIOUS
<1> HIDE DEF yes, no
<1>3. ASSUME NEW good \in BOOLEAN, ~good, d.call = "Init" PROVE ~Returns(d, good).ready
  BY <1>3, ReturnsCases
<1> QED BY <1>1, <1>2, <1>3, ReturnsCases

(* A transfer of a call that is not a homing keeps the invariant.          *)
LEMMA CallingTransferred ==
  ASSUME driver \in Driver, Calling, driver.phase = "Idle", driver.todo # <<>>,
         NEW d \in Driver, NEW ok \in BOOLEAN, SameCall(d, driver), driver' = Continued(d, ok),
         Effect(ok)
  PROVE  ScriptInv'
<1> DEFINE h == Head(driver.todo)
           r == Tail(driver.todo)
<1>1. /\ d.todo = driver.todo /\ d.call = driver.call /\ d.phase = "Idle" /\ d.ready = driver.ready
      /\ d.result = "none"
  BY DEF SameCall, Calling
<1>2. h \in Plain /\ r \in Seq(Plain) /\ Plain \subseteq Transfer
  BY TailOfScript DEF Calling, Plain
<1>3. \/ /\ ok \/ h \in Forgiving
         /\ r # <<>> /\ driver'.todo = r /\ driver'.call = driver.call /\ driver'.phase = "Idle"
         /\ driver'.ready = driver.ready /\ driver'.result = "none"
      \/ /\ ok \/ h \in Forgiving
         /\ r = <<>> /\ driver' = Returns(d, TRUE)
      \/ ~ok /\ h \notin Forgiving /\ driver' = Returns(d, FALSE)
  BY <1>1, <1>2, ContinuedCases
<1>4. history'.asked = history.asked
  BY DEF Effect
<1>5. /\ h \in Silent => (Obeys' <=> Obeys)
      /\ h \in SpeedWrites(history.asked) => Obeys'
      /\ \A v : h \in SpeedWrites(v) => ok \/ Lost("VACTUAL")'
      /\ Lost("VACTUAL")' => Obeys'
  BY EffectObeys
<1>6. \A v : SpeedWrites(v) \subseteq Transfer
  BY SpeedWriteType
<1>7. \A s : s \in Seq(Calm) => s \in Seq(Silent)
  BY KindIsScript
<1>8. \A v : Steady(r, v) \/ Firm(r, v) => r # <<>>
  BY SpeedWriteType
<1>9. driver.todo \in Seq(Silent) => h \in Silent /\ r \in Seq(Silent)
  BY TailOfScript
<1>10. driver.todo \in Seq(Calm) => h \in Silent /\ h \in Forgiving /\ r \in Seq(Calm)
  BY TailOfScript DEF Calm
<1>11. \A v : Steady(driver.todo, v) =>
          (h \in SpeedWrites(v) /\ r \in Seq(Calm)) \/ (h \in Silent /\ Steady(r, v))
  BY TailOfSteady
<1>12. \A v : Firm(driver.todo, v) =>
          (h \in SpeedWrites(v) /\ r \in Seq(Calm)) \/ (h \in Forgiving /\ Firm(r, v))
  BY TailOfFirm
<1> HIDE DEF h, r
<1>13. CASE Initialising
  <2>1. driver.call = "Init" /\ ~driver.ready /\ history.asked = 0
    BY <1>13 DEF Initialising
  <2>2. (Obeys' /\ r \in Seq(Silent)) \/ (h \in Silent /\ Steady(r, 0))
    BY <1>5, <1>7, <1>9, <1>11, <1>13, <2>1 DEF Initialising
  <2>3. CASE r # <<>> /\ driver'.todo = r /\ driver'.call = driver.call /\ driver'.phase = "Idle"
             /\ driver'.ready = driver.ready /\ driver'.result = "none"
    <3>1. Initialising'
      BY <1>4, <2>1, <2>2, <2>3 DEF Initialising
    <3> QED BY <1>2, <2>3, <3>1 DEF ScriptInv, Calling
  <2>4. CASE r = <<>> /\ driver' = Returns(d, TRUE)
    <3>1. driver'.todo = <<>> /\ driver'.phase = "Idle" /\ driver'.result = "none"
      BY <1>1, <2>1, <2>4, ReturnsBoth
    <3>2. Obeys'
      BY <1>8, <2>2, <2>4
    <3> QED BY <3>1, <3>2 DEF ScriptInv, Resting
  <2>5. CASE driver' = Returns(d, FALSE)
    <3>1. driver'.todo = <<>> /\ driver'.phase = "Idle" /\ driver'.result = "none" /\ ~driver'.ready
      BY <1>1, <2>1, <2>5, ReturnsBoth
    <3> QED BY <3>1 DEF ScriptInv, Resting
  <2> QED BY <1>3, <2>3, <2>4, <2>5
<1>14. CASE Serving
  <2>1. driver.call \in Services /\ Obeys' /\ r \in Seq(Silent)
    BY <1>5, <1>9, <1>14 DEF Serving
  <2>2. CASE r # <<>> /\ driver'.todo = r /\ driver'.call = driver.call /\ driver'.phase = "Idle"
             /\ driver'.ready = driver.ready /\ driver'.result = "none"
    BY <1>2, <2>1, <2>2 DEF ScriptInv, Calling, Serving
  <2>3. CASE driver' = Returns(d, TRUE) \/ driver' = Returns(d, FALSE)
    <3>1. driver'.todo = <<>> /\ driver'.phase = "Idle" /\ driver'.result = "none"
      BY <1>1, <2>1, <2>3, ReturnsBoth
    <3> QED BY <2>1, <3>1 DEF ScriptInv, Resting
  <2> QED BY <1>3, <2>2, <2>3
<1>15. CASE Driving
  <2>1. driver.call \in Drives
    BY <1>15 DEF Driving
  <2>2. (Obeys' /\ r \in Seq(Calm)) \/ (h \in Forgiving /\ Firm(r, history.asked))
    BY <1>5, <1>10, <1>12, <1>15 DEF Driving
  <2>3. CASE r # <<>> /\ driver'.todo = r /\ driver'.call = driver.call /\ driver'.phase = "Idle"
             /\ driver'.ready = driver.ready /\ driver'.result = "none"
    <3>1. Driving'
      BY <1>4, <2>1, <2>2, <2>3 DEF Driving
    <3> QED BY <1>2, <2>3, <3>1 DEF ScriptInv, Calling
  <2>4. CASE (r = <<>> /\ driver' = Returns(d, TRUE)) \/ (h \notin Forgiving /\ driver' = Returns(d, FALSE))
    <3>1. driver'.todo = <<>> /\ driver'.phase = "Idle" /\ driver'.result = "none"
      BY <1>1, <2>1, <2>4, ReturnsBoth
    <3>2. Obeys'
      BY <1>8, <2>2, <2>4
    <3> QED BY <3>1, <3>2 DEF ScriptInv, Resting
  <2> QED BY <1>3, <2>3, <2>4
<1>16. CASE StartingHoming
  <2>1. driver.call = "StartHoming" /\ history.asked = 0
    BY <1>16 DEF StartingHoming
  <2>2. \/ h \in SpeedWrites(-HomingSpeed) /\ r \in Seq(Calm)
        \/ h \in Silent /\ Steady(r, -HomingSpeed) /\ Obeys'
        \/ h \in Forgiving /\ r \in Seq(Calm)
    BY <1>5, <1>10, <1>11, <1>16 DEF StartingHoming
  <2>3. CASE r # <<>> /\ driver'.todo = r /\ driver'.call = driver.call /\ driver'.phase = "Idle"
             /\ driver'.ready = driver.ready /\ driver'.result = "none"
    <3>1. StartingHoming'
      BY <1>4, <2>1, <2>2, <2>3 DEF StartingHoming
    <3> QED BY <1>2, <2>3, <3>1 DEF ScriptInv, Calling
  <2>4. CASE driver' = Returns(d, TRUE)
    <3>1. driver'.todo = <<>> /\ driver'.phase # "Idle"
      BY <1>1, <2>1, <2>4, ReturnsBoth
    <3> QED BY <1>4, <2>1, <3>1 DEF ScriptInv, Resting
  <2>5. CASE ~ok /\ h \notin Forgiving /\ driver' = Returns(d, FALSE)
    <3>1. driver'.todo = <<>> /\ driver'.phase = "Idle" /\ driver'.result = "none"
      BY <1>1, <2>1, <2>5, ReturnsBoth
    <3>2. Obeys'
      BY <1>5, <2>2, <2>5
    <3> QED BY <3>1, <3>2 DEF ScriptInv, Resting
  <2> QED BY <1>3, <2>3, <2>4, <2>5
<1> QED BY <1>13, <1>14, <1>15, <1>16 DEF Calling

(* A transfer of a homing keeps the invariant.                             *)
LEMMA HomingTransferred ==
  ASSUME driver \in Driver, Homing, driver.phase # "Idle", history.asked = 0, driver.todo # <<>>,
         NEW d \in Driver, NEW ok \in BOOLEAN, SameCall(d, driver), driver' = Continued(d, ok),
         Effect(ok)
  PROVE  ScriptInv'
<1> DEFINE h == Head(driver.todo)
           r == Tail(driver.todo)
<1>1. /\ d.todo = driver.todo /\ d.call = driver.call /\ d.phase = driver.phase
      /\ d.ready = driver.ready /\ d.result = driver.result
  BY DEF SameCall
<1>2. /\ Returns(d, TRUE).todo = <<>> /\ Returns(d, FALSE).todo = <<>>
      /\ d.call \in {"OppositeTravel", "Settle", "StallDetect"} =>
           Returns(d, TRUE).phase # "Idle" /\ Returns(d, FALSE).phase # "Idle"
  BY <1>1, ReturnsBoth
<1>3. \/ /\ ok \/ h \in Forgiving
         /\ r # <<>> /\ driver'.todo = r /\ driver'.call = driver.call /\ driver'.phase = driver.phase
      \/ /\ ok \/ h \in Forgiving
         /\ r = <<>> /\ driver' = Returns(d, TRUE)
      \/ ~ok /\ h \notin Forgiving /\ driver' = Returns(d, FALSE)
      \/ ~ok /\ h \notin Forgiving /\ h \notin Plain
           /\ driver'.todo = RestoreStealthChop /\ driver'.call = "Failed" /\ driver'.phase = driver.phase
  BY <1>1, ContinuedCases
<1>4. history'.asked = 0
  BY DEF Effect
<1>5. /\ h \in Silent => (Obeys' <=> Obeys) /\ (Lost("VACTUAL")' <=> Lost("VACTUAL"))
      /\ h \in SpeedWrites(0) => Obeys'
      /\ \A v : h \in SpeedWrites(v) => ok \/ Lost("VACTUAL")'
      /\ Lost("VACTUAL")' => Obeys'
      /\ h = Hush => Hushed'
  BY EffectObeys DEF Effect
<1>7. \A s : s \in Seq(Calm) => s \in Seq(Silent) /\ s \in Seq(Forgiving)
  BY KindIsScript
<1>8. /\ \A v : Firm(r, v) => r # <<>>
      /\ EndsHushed(driver.todo) => IF r = <<>> THEN h = Hush ELSE EndsHushed(r)
  BY SpeedWriteType, TailOfHushed
<1>9. /\ driver.todo \in Seq(Silent) => h \in Silent /\ r \in Seq(Silent)
      /\ driver.todo \in Seq(Forgiving) => h \in Forgiving /\ r \in Seq(Forgiving)
  BY TailOfScript
<1>10. driver.todo \in Seq(Calm) => h \in Silent /\ h \in Forgiving /\ r \in Seq(Calm)
  BY TailOfScript DEF Calm
<1>12. \A v : Firm(driver.todo, v) =>
          (h \in SpeedWrites(v) /\ r \in Seq(Calm)) \/ (h \in Forgiving /\ Firm(r, v))
  BY TailOfFirm
<1> HIDE DEF h, r
<1>13. CASE Looking
  <2>1. driver.call \in {"OppositeTravel", "StallDetect"} /\ h \in Forgiving /\ r \in Seq(Forgiving)
    BY <1>9, <1>13 DEF Looking
  <2>2. CASE r # <<>> /\ driver'.todo = r /\ driver'.call = driver.call /\ driver'.phase = driver.phase
    <3>1. Looking'
      BY <2>1, <2>2 DEF Looking
    <3> QED BY <1>4, <2>2, <3>1 DEF ScriptInv, Homing
  <2>3. CASE r = <<>> /\ driver' = Returns(d, TRUE)
    <3>1. driver'.todo = <<>> /\ driver'.phase # "Idle"
      BY <1>1, <1>2, <2>1, <2>3
    <3> QED BY <1>4, <3>1 DEF ScriptInv, Resting
  <2> QED BY <1>3, <2>1, <2>2, <2>3
<1>14. CASE Approaching
  <2>1. driver.call = "Settle"
    BY <1>14 DEF Approaching
  <2>2. \/ h \in SpeedWrites(HomingSpeed) /\ r \in Seq(Calm)
        \/ h \in Forgiving /\ Firm(r, HomingSpeed)
        \/ h \in Forgiving /\ r \in Seq(Calm)
    BY <1>10, <1>12, <1>14 DEF Approaching
  <2>3. CASE r # <<>> /\ driver'.todo = r /\ driver'.call = driver.call /\ driver'.phase = driver.phase
    <3>1. Approaching'
      BY <2>1, <2>2, <2>3 DEF Approaching
    <3> QED BY <1>4, <2>3, <3>1 DEF ScriptInv, Homing
  <2>4. CASE driver' = Returns(d, TRUE) \/ driver' = Returns(d, FALSE)
    <3>1. driver'.todo = <<>> /\ driver'.phase # "Idle"
      BY <1>1, <1>2, <2>1, <2>4
    <3> QED BY <1>4, <3>1 DEF ScriptInv, Resting
  <2>5. CASE /\ ~ok /\ h \notin Forgiving
             /\ driver'.todo = RestoreStealthChop /\ driver'.call = "Failed" /\ driver'.phase = driver.phase
    <3>1. Lost("VACTUAL")'
      BY <1>5, <2>2, <2>5
    <3>2. Failing'
      BY <2>5, <3>1, RestoreStealthChopKind DEF Failing
    <3>3. driver'.todo # <<>>
      BY <2>5, RestoreStealthChopKind, SpeedWriteType
    <3> QED BY <1>4, <2>5, <3>2, <3>3 DEF ScriptInv, Homing
  <2> QED BY <1>3, <2>3, <2>4, <2>5
<1>15. CASE Failing
  <2>1. /\ driver.call = "Failed" /\ h \in Forgiving /\ r \in Seq(Calm) /\ Lost("VACTUAL")'
        /\ IF r = <<>> THEN h = Hush ELSE EndsHushed(r)
    BY <1>5, <1>8, <1>10, <1>15 DEF Failing
  <2>2. CASE r # <<>> /\ driver'.todo = r /\ driver'.call = driver.call /\ driver'.phase = driver.phase
    <3>1. Failing'
      BY <2>1, <2>2 DEF Failing
    <3> QED BY <1>4, <2>2, <3>1 DEF ScriptInv, Homing
  <2>3. CASE r = <<>> /\ driver' = Returns(d, TRUE)
    <3>1. driver'.todo = <<>> /\ Obeys' /\ Hushed'
      BY <1>2, <1>5, <2>1, <2>3
    <3> QED BY <1>4, <3>1 DEF ScriptInv, Resting
  <2> QED BY <1>3, <2>1, <2>2, <2>3
<1>16. CASE Ending
  <2>1. /\ driver.call \in {"Success", "Timeout"} /\ h \in Forgiving /\ r \in Seq(Forgiving)
        /\ IF r = <<>> THEN h = Hush ELSE EndsHushed(r)
    BY <1>8, <1>9, <1>16 DEF Ending
  <2>2. Firm(r, 0) \/ (r \in Seq(Silent) /\ Obeys')
    BY <1>5, <1>7, <1>9, <1>12, <1>16 DEF Ending
  <2>3. CASE r # <<>> /\ driver'.todo = r /\ driver'.call = driver.call /\ driver'.phase = driver.phase
    <3>1. Ending'
      BY <2>1, <2>2, <2>3 DEF Ending
    <3> QED BY <1>4, <2>3, <3>1 DEF ScriptInv, Homing
  <2>4. CASE r = <<>> /\ driver' = Returns(d, TRUE)
    <3>1. driver'.todo = <<>> /\ Obeys' /\ Hushed'
      BY <1>2, <1>5, <1>8, <2>1, <2>2, <2>4
    <3> QED BY <1>4, <3>1 DEF ScriptInv, Resting
  <2> QED BY <1>3, <2>1, <2>3, <2>4
<1> QED BY <1>13, <1>14, <1>15, <1>16 DEF Homing

----------------------------------------------------------------------------
(* What the theorems rest on, and its steps. *)
MotorInv == DriverTypeOK /\ ScriptInv

(* A write keeps the invariant, whatever becomes of it.                    *)
LEMMA WriteRegisterInv == MotorInv /\ WriteRegister => MotorInv'
<1> SUFFICES ASSUME MotorInv, WriteRegister PROVE MotorInv'
  OBVIOUS
<1>1. DriverTypeOK /\ ScriptInv /\ driver \in Driver
  BY DEF MotorInv, DriverTypeOK
<1>2. PICK d \in Driver, ok \in BOOLEAN :
         /\ SameCall(d, driver) /\ driver.todo # <<>> /\ driver' = Continued(d, ok)
         /\ Effect(ok)
  BY <1>1, WriteRegisterEffect DEF Effect
<1>3. CASE driver.phase = "Idle"
  <2>1. Calling
    BY <1>1, <1>2, <1>3 DEF ScriptInv
  <2> QED BY <1>1, <1>2, <1>3, <2>1, CallingTransferred, TransferType DEF MotorInv
<1>4. CASE driver.phase # "Idle"
  <2>1. Homing /\ history.asked = 0
    BY <1>1, <1>2, <1>4 DEF ScriptInv
  <2> QED BY <1>1, <1>2, <1>4, <2>1, HomingTransferred, TransferType DEF MotorInv
<1> QED BY <1>3, <1>4

(* So does a read.                                                         *)
LEMMA ReadRegisterInv == MotorInv /\ ReadRegister => MotorInv'
<1> SUFFICES ASSUME MotorInv, ReadRegister PROVE MotorInv'
  OBVIOUS
<1>1. DriverTypeOK /\ ScriptInv /\ driver \in Driver
  BY DEF MotorInv, DriverTypeOK
<1>2. /\ driver.todo # <<>> /\ Head(driver.todo) \in Silent /\ Head(driver.todo) # Hush
      /\ chip' = chip /\ history'.asked = history.asked /\ history'.lost = history.lost
  BY <1>1, ReadRegisterEffect
<1>3. ASSUME NEW ok \in BOOLEAN PROVE Effect(ok)
  <2>1. \A v : Head(driver.todo) \notin SpeedWrites(v)
    BY <1>2 DEF SpeedWrites, Silent
  <2> QED BY <1>2, <2>1 DEF Effect, Lost
<1>4. driver.call = "StallDetect" => driver.phase # "Idle" /\ Homing /\ history.asked = 0
  BY <1>1, <1>2 DEF ScriptInv, Calling, Initialising, Serving, Services, Driving, Drives, StartingHoming
<1>5. ASSUME NEW d \in Driver, NEW ok \in BOOLEAN, SameCall(d, driver), driver' = Continued(d, ok)
      PROVE  ScriptInv'
  <2>1. CASE driver.phase = "Idle"
    <3>1. Calling
      BY <1>1, <1>2, <2>1 DEF ScriptInv
    <3> QED BY <1>1, <1>2, <1>3, <1>5, <2>1, <3>1, CallingTransferred
  <2>2. CASE driver.phase # "Idle"
    <3>1. Homing /\ history.asked = 0
      BY <1>1, <1>2, <2>2 DEF ScriptInv
    <3> QED BY <1>1, <1>2, <1>3, <1>5, <2>2, <3>1, HomingTransferred
  <2> QED BY <2>1, <2>2
<1>6. CASE driver.call = "StallDetect" /\ driver' = Returns(driver, TRUE)
  <2>1. driver'.todo = <<>> /\ driver'.phase # "Idle"
    BY <1>1, <1>4, <1>6, ReturnsBoth
  <2>2. ScriptInv'
    BY <1>2, <1>4, <1>6, <2>1 DEF ScriptInv, Resting
  <2> QED BY <2>2, TransferType DEF MotorInv
<1>7. ASSUME NEW call \in {"Success", "Timeout"}, driver.call = "StallDetect",
             driver' = [driver EXCEPT !.call = call, !.todo = EndHoming]
      PROVE  ScriptInv'
  <2>1. driver'.call = call /\ driver'.todo = EndHoming /\ driver'.phase # "Idle"
    BY <1>1, <1>4, <1>7 DEF Driver
  <2>2. Ending' /\ driver'.todo # <<>>
    BY <1>7, <2>1, EndHomingKind, SpeedWriteType DEF Ending
  <2> QED BY <1>2, <1>4, <1>7, <2>1, <2>2 DEF ScriptInv, Homing
<1>8. ScriptInv'
  BY <1>1, <1>5, <1>6, <1>7, ReadRegisterEffect DEF MotorInv
<1> QED BY <1>8, TransferType DEF MotorInv

(* A call begins with a script of its kind.                                *)
LEMMA BeginsInv ==
  ASSUME MotorInv, NEW call \in Methods, NEW script \in Script, NEW blocking \in BOOLEAN,
         Begins(call, script, blocking),
         chip' \in Chip, chip'.VACTUAL = chip.VACTUAL,
         history' \in History, history'.lost = history.lost,
         \/ /\ call = "Init" /\ history'.asked = 0 /\ Steady(script, 0) /\ script \in Seq(Plain)
         \/ /\ call \in Services /\ driver.ready /\ history'.asked = history.asked
            /\ script \in Seq(Silent) /\ script \in Seq(Plain)
         \/ /\ call \in Drives /\ Firm(script, history'.asked) /\ script \in Seq(Plain)
         \/ /\ call = "StartHoming" /\ driver.ready /\ history'.asked = 0 /\ history.asked = 0
            /\ Steady(script, -HomingSpeed) /\ script \in Seq(Plain)
         \/ call = "none" /\ script = <<>> /\ driver.ready /\ history'.asked = history.asked
  PROVE  MotorInv'
<1>1. DriverTypeOK /\ ScriptInv
  BY DEF MotorInv
<1>2. /\ driver' \in Driver /\ place' = place
      /\ driver'.call = call /\ driver'.todo = script /\ driver'.result = "none"
      /\ driver'.ready = (driver.ready /\ call # "Init")
      /\ driver.todo = <<>> /\ driver.phase = "Idle" /\ driver'.phase = "Idle"
  BY <1>1, BeginsType
<1>3. driver.ready => Obeys
  BY <1>1, <1>2 DEF ScriptInv, Resting
<1>4. history'.asked = history.asked => (Obeys' <=> Obeys)
  BY DEF Obeys, Lost
<1>5. DriverTypeOK'
  BY <1>1, <1>2 DEF DriverTypeOK
<1>6. CASE call = "Init" /\ history'.asked = 0 /\ Steady(script, 0) /\ script \in Seq(Plain)
  <2>1. script # <<>>
    BY <1>6, SpeedWriteType
  <2>2. Initialising'
    BY <1>2, <1>6 DEF Initialising
  <2> QED BY <1>2, <1>5, <1>6, <2>1, <2>2 DEF MotorInv, ScriptInv, Calling
<1>7. CASE call \in Services /\ driver.ready /\ history'.asked = history.asked
           /\ script \in Seq(Silent) /\ script \in Seq(Plain)
  <2>1. Obeys' /\ Serving'
    BY <1>2, <1>3, <1>4, <1>7 DEF Serving
  <2> QED BY <1>2, <1>5, <1>7, <2>1 DEF MotorInv, ScriptInv, Calling, Resting
<1>8. CASE call \in Drives /\ Firm(script, history'.asked) /\ script \in Seq(Plain)
  <2>1. script # <<>>
    BY <1>8, SpeedWriteType
  <2>2. Driving'
    BY <1>2, <1>8 DEF Driving
  <2> QED BY <1>2, <1>5, <1>8, <2>1, <2>2 DEF MotorInv, ScriptInv, Calling
<1>9. CASE call = "StartHoming" /\ driver.ready /\ history'.asked = 0 /\ history.asked = 0
           /\ Steady(script, -HomingSpeed) /\ script \in Seq(Plain)
  <2>1. script # <<>>
    BY <1>9, SpeedWriteType
  <2>2. StartingHoming'
    BY <1>2, <1>3, <1>4, <1>9 DEF StartingHoming
  <2> QED BY <1>2, <1>5, <1>9, <2>1, <2>2 DEF MotorInv, ScriptInv, Calling
<1>10. CASE call = "none" /\ script = <<>> /\ driver.ready /\ history'.asked = history.asked
  BY <1>2, <1>3, <1>4, <1>5, <1>10 DEF MotorInv, ScriptInv, Resting
<1> QED BY <1>6, <1>7, <1>8, <1>9, <1>10

(* The methods that the caller calls when no homing is under way.          *)
LEMMA CallInv ==
  MotorInv /\ (Initialise \/ Service \/ Displace \/ StartHoming) => MotorInv'
<1> SUFFICES ASSUME MotorInv, Initialise \/ Service \/ Displace \/ StartHoming PROVE MotorInv'
  OBVIOUS
<1>1. /\ DriverTypeOK /\ driver \in Driver /\ chip \in Chip /\ history \in History
      /\ history.asked \in -1 .. 1
  BY DEF MotorInv, DriverTypeOK, History
<1>2. ASSUME NEW on \in BOOLEAN
      PROVE  [chip EXCEPT !.on = on] \in Chip /\ [chip EXCEPT !.on = on].VACTUAL = chip.VACTUAL
  BY <1>1 DEF Chip
<1>3. Services \subseteq Methods /\ Drives \subseteq Methods /\ {"Init", "StartHoming", "none"} \subseteq Methods
  BY DEF Services, Drives, Methods
<1> DEFINE no == FALSE
           yes == TRUE
<1>4. no \in BOOLEAN /\ yes \in BOOLEAN /\ [chip EXCEPT !.on = TRUE] = [chip EXCEPT !.on = yes]
  OBVIOUS
<1>5. \A call, script : Calls(call, script) <=> Begins(call, script, no)
  BY DEF Calls
<1>6. \A script : Begins("StartHoming", script, TRUE) <=> Begins("StartHoming", script, yes)
  OBVIOUS
<1> HIDE DEF no, yes
<1>7. CASE Initialise
  <2>1. PICK setup \in Setups :
          /\ Calls("Init", InitForNormalSpeedAndUartBasedOperation(setup))
          /\ chip' = [chip EXCEPT !.on = yes]
          /\ history' = [history EXCEPT !.asked = 0]
    BY <1>4, <1>7 DEF Initialise
  <2>2. history' \in History /\ history'.asked = 0 /\ history'.lost = history.lost
    BY <1>1, <2>1 DEF History
  <2>3. chip' \in Chip /\ chip'.VACTUAL = chip.VACTUAL
    BY <1>2, <1>4, <2>1
  <2> DEFINE script == InitForNormalSpeedAndUartBasedOperation(setup)
  <2>4. script \in Script /\ Steady(script, 0) /\ script \in Seq(Plain)
    BY InitKind, ScriptType
  <2>5. Begins("Init", script, no)
    BY <1>5, <2>1
  <2> HIDE DEF script
  <2> QED BY <1>3, <1>4, <2>2, <2>3, <2>4, <2>5, BeginsInv
<1>8. CASE Service
  <2>1. driver.ready /\ chip' = chip /\ Asks(history.asked)
    BY <1>8 DEF Service
  <2>2. history' \in History /\ history'.asked = history.asked /\ history'.lost = history.lost
    BY <1>1, <2>1, AsksType
  <2>3. \E call \in Services : \E script \in {EnableCoolStep, LogCoolStepRuntimeStatus,
           PrintPrettyFullSystemState, Sets(<<"IHOLD_IRUN">>, "abort")} : Begins(call, script, no)
    BY <1>5, <1>8 DEF Service, Services
  <2>4. PICK call \in Services, script \in Script :
           /\ Begins(call, script, no)
           /\ script \in Seq(Silent) /\ script \in Seq(Plain)
    BY <2>3, ServiceKind, EnableCoolStepKind, KindIsScript
  <2> QED BY <1>1, <1>3, <1>4, <2>1, <2>2, <2>4, BeginsInv
<1>9. CASE Displace
  <2>1. driver.ready
    BY <1>9 DEF Displace
  <2>2. ASSUME NEW reversed \in BOOLEAN,
               Calls("ShaftTurnReversed", <<Write("GCONF", [shaft |-> reversed], "ignore")>>),
               Asks(history.asked), UNCHANGED chip
        PROVE  MotorInv'
    <3> DEFINE script == <<Write("GCONF", [shaft |-> reversed], "ignore")>>
    <3>1. script \in Seq(Silent) /\ script \in Seq(Plain) /\ script \in Script
      <4>1. [shaft |-> reversed] \in {[shaft |-> TRUE], [shaft |-> FALSE]}
        OBVIOUS
      <4> QED BY <4>1, OptionsKind, ScriptType
    <3>2. Begins("ShaftTurnReversed", script, no) /\ "ShaftTurnReversed" \in Services
      BY <1>5, <2>2 DEF Services
    <3>3. history' \in History /\ history'.asked = history.asked /\ history'.lost = history.lost
      BY <1>1, <2>2, AsksType
    <3> HIDE DEF script
    <3> QED BY <1>1, <1>3, <1>4, <2>1, <2>2, <3>1, <3>2, <3>3, BeginsInv
  <2>3. ASSUME NEW speed \in {0, 1}, Calls("GenerateSteps", GenerateSteps(speed, "abort")),
               Asks(speed), UNCHANGED chip
        PROVE  MotorInv'
    <3>0. speed \in -1 .. 1 /\ "abort" \in Fails
      BY DEF Fails
    <3>1. /\ Firm(GenerateSteps(speed, "abort"), speed) /\ GenerateSteps(speed, "abort") \in Seq(Plain)
          /\ GenerateSteps(speed, "abort") \in Script
      BY <3>0, GenerateStepsKind, KindIsScript
    <3>2. Begins("GenerateSteps", GenerateSteps(speed, "abort"), no) /\ "GenerateSteps" \in Drives
      BY <1>5, <2>3 DEF Drives
    <3>3. history' \in History /\ history'.asked = speed /\ history'.lost = history.lost
      BY <1>1, <2>3, <3>0, AsksType
    <3>4. Firm(GenerateSteps(speed, "abort"), history'.asked)
      BY <3>1, <3>3
    <3> QED BY <1>1, <1>3, <1>4, <2>3, <3>1, <3>2, <3>3, <3>4, BeginsInv
  <2>4. ASSUME Calls("PerformStealthChopAutoTuning", PerformStealthChopAutoTuning), Asks(0), UNCHANGED chip
        PROVE  MotorInv'
    <3>1. /\ Firm(PerformStealthChopAutoTuning, 0) /\ PerformStealthChopAutoTuning \in Seq(Plain)
          /\ PerformStealthChopAutoTuning \in Script
      BY TuningKind, KindIsScript
    <3>2. Begins("PerformStealthChopAutoTuning", PerformStealthChopAutoTuning, no)
          /\ "PerformStealthChopAutoTuning" \in Drives
      BY <1>5, <2>4 DEF Drives
    <3>3. history' \in History /\ history'.asked = 0 /\ history'.lost = history.lost
      BY <1>1, <2>4, AsksType
    <3>4. Firm(PerformStealthChopAutoTuning, history'.asked)
      BY <3>1, <3>3
    <3> QED BY <1>1, <1>3, <1>4, <2>4, <3>1, <3>2, <3>3, <3>4, BeginsInv
  <2>5. ASSUME NEW on \in BOOLEAN, Calls("none", <<>>), Asks(history.asked), chip' = [chip EXCEPT !.on = on]
        PROVE  MotorInv'
    <3>1. Begins("none", <<>>, no) /\ <<>> \in Script
      BY <1>5, <2>5, ScriptType
    <3>2. history' \in History /\ history'.asked = history.asked /\ history'.lost = history.lost
      BY <1>1, <2>5, AsksType
    <3>3. chip' \in Chip /\ chip'.VACTUAL = chip.VACTUAL
      BY <1>2, <2>5
    <3> QED BY <1>1, <1>3, <1>4, <2>1, <3>1, <3>2, <3>3, BeginsInv
  <2> QED BY <1>9, <2>2, <2>3, <2>4, <2>5 DEF Displace
<1>10. CASE StartHoming
  <2>1. /\ driver.ready /\ history.asked = 0 /\ chip' = chip
        /\ history' = [history EXCEPT !.calls = @ + 1, !.clean = TRUE]
    BY <1>10 DEF StartHoming
  <2>2. history' \in History /\ history'.asked = 0 /\ history'.lost = history.lost
    <3>1. history.calls + 1 \in Nat
      BY <1>1 DEF History, Chip, ChopConf
    <3> QED BY <1>1, <2>1, <3>1 DEF History
  <2>3. PICK fail \in {"abort", "ignore"}, blocking \in BOOLEAN :
           Begins("StartHoming", EnableCoolStep \o GenerateSteps(-HomingSpeed, fail), blocking)
    BY <1>4, <1>5, <1>6, <1>10 DEF StartHoming
  <2> DEFINE script == EnableCoolStep \o GenerateSteps(-HomingSpeed, fail)
  <2>4. script \in Script /\ Steady(script, -HomingSpeed) /\ script \in Seq(Plain)
    BY StartHomingKind, ScriptType
  <2> HIDE DEF script
  <2>5. Begins("StartHoming", script, blocking)
    BY <2>3 DEF script
  <2> QED BY <1>1, <1>3, <2>1, <2>2, <2>4, <2>5, BeginsInv
<1> QED BY <1>7, <1>8, <1>9, <1>10

(* A tick starts the next phase with its script, or looks at the load.     *)
LEMMA TickInv == MotorInv /\ TickHoming => MotorInv'
<1> SUFFICES ASSUME MotorInv, TickHoming PROVE MotorInv'
  OBVIOUS
<1>1. /\ DriverTypeOK /\ driver \in Driver /\ driver.todo = <<>> /\ driver.phase # "Idle"
      /\ chip' = chip /\ place' = place /\ history' = history /\ history.asked = 0
  BY DEF MotorInv, DriverTypeOK, TickHoming, ScriptInv
<1>2. PICK age \in IF driver.blocking THEN {0} ELSE Stale :
         LET now == [driver EXCEPT !.lag = 0, !.result = "InProgress"]
             begun == Starts(now, age)
         IN  driver' =
             CASE driver.phase = "OppositeTravel" /\ Due(age, TravelOpposite) ->
                    [begun EXCEPT !.call = "OppositeTravel", !.todo = GenerateSteps(0, "ignore")]
               [] driver.phase = "Settle" /\ Due(age, SettlePause) ->
                    [begun EXCEPT !.call = "Settle", !.todo = GenerateSteps(HomingSpeed, "restore")]
               [] driver.phase = "DeadTime" /\ Due(age, DeadTime) ->
                    [begun EXCEPT !.phase = "StallDetect"]
               [] driver.phase = "StallDetect" /\ driver.blocking /\ Due(age, Timeout) ->
                    [now EXCEPT !.call = "Timeout", !.todo = EndHoming]
               [] driver.phase = "StallDetect" ->
                    [now EXCEPT !.call = "StallDetect", !.overdue = Due(age, Timeout),
                                !.todo = Reads(<<"SG_RESULT">>)]
               [] OTHER -> now
  BY DEF TickHoming
<1> DEFINE now == [driver EXCEPT !.lag = 0, !.result = "InProgress"]
           begun == Starts(now, age)
<1>3. age \in 0 .. MaxElapsed
  <2>1. 0 \in 0 .. MaxElapsed /\ \A a \in Stale : a \in 0 .. MaxElapsed
    <3>1. MaxElapsed \in Nat /\ TravelOpposite \in Nat
      BY HomingAssumption
    <3>2. ASSUME NEW a \in Stale PROVE a \in 0 .. MaxElapsed
      <4>1. a \in Nat /\ TravelOpposite + a < MaxElapsed
        BY HomingAssumption
      <4> QED BY <3>1, <4>1
    <3> QED BY <3>1, <3>2
  <2> QED BY <1>2, <2>1
<1>4. now \in Driver /\ now.phase = driver.phase /\ now.todo = <<>>
  BY <1>1 DEF Driver
<1> HIDE DEF now
<1>5. begun \in Driver /\ begun.phase = driver.phase /\ begun.todo = <<>>
  BY <1>3, <1>4 DEF Starts, Driver
<1> DEFINE overdue == Due(age, Timeout)
<1>6. overdue \in BOOLEAN
  BY DEF Due
<1>7. \/ driver' = [begun EXCEPT !.call = "OppositeTravel", !.todo = GenerateSteps(0, "ignore")]
      \/ driver' = [begun EXCEPT !.call = "Settle", !.todo = GenerateSteps(HomingSpeed, "restore")]
      \/ driver' = [begun EXCEPT !.phase = "StallDetect"]
      \/ driver' = [now EXCEPT !.call = "Timeout", !.todo = EndHoming]
      \/ driver' = [now EXCEPT !.call = "StallDetect", !.overdue = overdue, !.todo = Reads(<<"SG_RESULT">>)]
      \/ driver' = now
  BY <1>2 DEF now
<1> HIDE DEF begun, overdue
<1>8. /\ {"OppositeTravel", "Settle", "Timeout", "StallDetect"} \subseteq Methods
      /\ "StallDetect" \in Phases
  BY DEF Methods, Phases
<1>9. ASSUME NEW d \in Driver, d.phase # "Idle", NEW call \in Methods, NEW script \in Script,
             driver' = [d EXCEPT !.call = call, !.todo = script],
             script # <<>>,
             \/ call = "OppositeTravel" /\ script \in Seq(Forgiving)
             \/ call = "Settle" /\ Firm(script, HomingSpeed)
             \/ /\ call = "Timeout" /\ Firm(script, 0) /\ script \in Seq(Forgiving)
                /\ EndsHushed(script)
             \/ call = "StallDetect" /\ script \in Seq(Forgiving)
      PROVE  MotorInv'
  <2>1. /\ driver' \in Driver /\ driver'.call = call /\ driver'.todo = script
        /\ driver'.phase # "Idle"
    BY <1>9 DEF Driver, Script
  <2>2. Homing'
    BY <1>9, <2>1 DEF Homing, Looking, Approaching, Ending
  <2>3. DriverTypeOK'
    BY <1>1, <2>1 DEF DriverTypeOK
  <2> QED BY <1>1, <1>9, <2>1, <2>2, <2>3 DEF MotorInv, ScriptInv
<1>10. CASE driver' = [begun EXCEPT !.call = "OppositeTravel", !.todo = GenerateSteps(0, "ignore")]
  <2>1. 0 \in -1 .. 1 /\ "ignore" \in Fails
    BY DEF Fails
  <2>2. GenerateSteps(0, "ignore") \in Seq(Forgiving) /\ Firm(GenerateSteps(0, "ignore"), 0)
    BY <2>1, GenerateStepsKind
  <2>3. GenerateSteps(0, "ignore") \in Script /\ GenerateSteps(0, "ignore") # <<>>
    BY <2>2, SpeedWriteType
  <2> QED BY <1>1, <1>5, <1>8, <1>9, <1>10, <2>2, <2>3
<1>11. CASE driver' = [begun EXCEPT !.call = "Settle", !.todo = GenerateSteps(HomingSpeed, "restore")]
  <2>1. HomingSpeed \in -1 .. 1 /\ "restore" \in Fails
    BY HomingAssumption DEF Fails
  <2>2. Firm(GenerateSteps(HomingSpeed, "restore"), HomingSpeed)
    BY <2>1, GenerateStepsKind
  <2>3. GenerateSteps(HomingSpeed, "restore") \in Script /\ GenerateSteps(HomingSpeed, "restore") # <<>>
    BY <2>2, SpeedWriteType
  <2> QED BY <1>1, <1>5, <1>8, <1>9, <1>11, <2>2, <2>3
<1>12. ASSUME NEW d \in Driver, d.todo = <<>>, d.phase # "Idle", driver' = d PROVE MotorInv'
  BY <1>1, <1>12 DEF MotorInv, DriverTypeOK, ScriptInv, Resting
<1>13. CASE driver' = [begun EXCEPT !.phase = "StallDetect"]
  <2>1. /\ [begun EXCEPT !.phase = "StallDetect"] \in Driver
        /\ [begun EXCEPT !.phase = "StallDetect"].todo = <<>>
        /\ [begun EXCEPT !.phase = "StallDetect"].phase # "Idle"
    BY <1>5, <1>8 DEF Driver
  <2> QED BY <1>12, <1>13, <2>1
<1>14. CASE driver' = [now EXCEPT !.call = "Timeout", !.todo = EndHoming]
  <2>1. EndHoming \in Script /\ EndHoming # <<>>
    BY EndHomingKind, SpeedWriteType
  <2> QED BY <1>1, <1>4, <1>8, <1>9, <1>14, <2>1, EndHomingKind
<1>15. CASE driver' = [now EXCEPT !.call = "StallDetect", !.overdue = overdue, !.todo = Reads(<<"SG_RESULT">>)]
  <2> DEFINE late == [now EXCEPT !.overdue = overdue]
  <2>1. late \in Driver /\ late.phase # "Idle"
    BY <1>1, <1>4, <1>6 DEF Driver
  <2>2. driver' = [late EXCEPT !.call = "StallDetect", !.todo = Reads(<<"SG_RESULT">>)]
    BY <1>4, <1>15 DEF Driver
  <2>3. Reads(<<"SG_RESULT">>) \in Seq(Calm) /\ Reads(<<"SG_RESULT">>) # <<>>
    <3>1. "SG_RESULT" \in Registers
      BY DEF Registers
    <3>2. <<"SG_RESULT">> \in Seq(Registers) /\ <<"SG_RESULT">> # <<>>
      BY <3>1, Tuples
    <3> QED BY <3>2, ReadsKind
  <2>4. Reads(<<"SG_RESULT">>) \in Seq(Forgiving) /\ Reads(<<"SG_RESULT">>) \in Script
    BY <2>3, KindIsScript
  <2> HIDE DEF late
  <2> QED BY <1>8, <1>9, <2>1, <2>2, <2>3, <2>4
<1>16. CASE driver' = now
  BY <1>1, <1>4, <1>12, <1>16
<1> QED BY <1>7, <1>10, <1>11, <1>13, <1>14, <1>15, <1>16

(* Time, and a restart.                                                    *)
LEMMA TimeInv == MotorInv /\ TimePasses => MotorInv'
<1> SUFFICES ASSUME MotorInv, TimePasses PROVE MotorInv'
  OBVIOUS
<1>1. /\ DriverTypeOK /\ driver \in Driver /\ chip \in Chip /\ place \in 0 .. Length
      /\ SgSettling \in Nat /\ MaxElapsed \in Nat
  BY HomingAssumption DEF MotorInv, DriverTypeOK
<1>2. chip' \in Chip /\ chip'.VACTUAL = chip.VACTUAL /\ chip'.GCONF = chip.GCONF
  <2>1. chip.age \in 0 .. SgSettling
    BY <1>1 DEF Chip
  <2>2. (IF chip.age < SgSettling THEN chip.age + 1 ELSE chip.age) \in 0 .. SgSettling
    BY <1>1, <2>1
  <2> DEFINE age == IF chip.age < SgSettling THEN chip.age + 1 ELSE chip.age
  <2>3. chip' = [chip EXCEPT !.age = age]
    BY DEF TimePasses
  <2> HIDE DEF age
  <2>4. age \in 0 .. SgSettling
    BY <2>2 DEF age
  <2> QED BY <1>1, <2>3, <2>4 DEF Chip
<1>3. driver' \in Driver /\ SameCall(driver', driver)
  <2>1. CASE driver.phase = "Idle"
    BY <1>1, <2>1 DEF TimePasses, SameCall
  <2>2. CASE driver.phase # "Idle"
    <3> DEFINE elapsed == IF driver.elapsed < MaxElapsed THEN driver.elapsed + 1 ELSE driver.elapsed
               lag == driver.lag + 1
    <3>1. driver.elapsed \in 0 .. MaxElapsed /\ driver.lag \in Nat
      BY <1>1 DEF Driver
    <3>2. elapsed \in 0 .. MaxElapsed /\ lag \in Nat
      BY <1>1, <3>1
    <3>3. driver' = [driver EXCEPT !.elapsed = elapsed, !.lag = lag]
      BY <2>2 DEF TimePasses
    <3> HIDE DEF elapsed, lag
    <3> QED BY <1>1, <3>2, <3>3 DEF Driver, SameCall
  <2> QED BY <2>1, <2>2
<1>4. place' \in 0 .. Length /\ history' = history
  <2>1. chip.VACTUAL.v \in Int
    BY <1>1 DEF Chip
  <2>2. Places(chip.VACTUAL.v) \subseteq 0 .. Length
    BY <1>1, <2>1, MovedType
  <2> QED BY <1>1, <2>2 DEF TimePasses
<1>5. DriverTypeOK'
  BY <1>1, <1>2, <1>3, <1>4 DEF DriverTypeOK
<1>6. (Obeys' <=> Obeys) /\ (Hushed' <=> Hushed) /\ (Lost("VACTUAL")' <=> Lost("VACTUAL"))
  BY <1>2, <1>4 DEF Obeys, Hushed, Lost
<1>7. Resting' <=> Resting
  BY <1>3, <1>6 DEF Resting, SameCall
<1>8. Calling' <=> Calling
  BY <1>3, <1>4, <1>6 DEF Calling, Initialising, Serving, Driving, StartingHoming, SameCall
<1>9. Homing' <=> Homing
  BY <1>3, <1>6 DEF Homing, Looking, Approaching, Failing, Ending, SameCall
<1>10. ScriptInv'
  BY <1>3, <1>4, <1>7, <1>8, <1>9 DEF MotorInv, ScriptInv, SameCall
<1> QED BY <1>5, <1>10 DEF MotorInv

(* The driver that is started again is at rest, and not ready.             *)
LEMMA DriverResetType ==
  /\ DriverReset \in Driver /\ DriverReset.todo = <<>> /\ DriverReset.phase = "Idle"
  /\ ~DriverReset.ready /\ DriverReset.result = "none"
<1>1. /\ NoGConf \in GConf /\ NoChopConf \in ChopConf /\ <<>> \in Seq(Transfer)
      /\ 0 \in 0 .. MaxElapsed /\ 0 \in Nat /\ "none" \in Methods /\ "Idle" \in Phases
  BY HomingAssumption DEF NoGConf, GConf, NoChopConf, ChopConf, Methods, Phases
<1> QED BY <1>1 DEF DriverReset, Driver

(* After a restart the driver is not initialised and has no script. *)
LEMMA RestartInv == MotorInv /\ Restart => MotorInv'
<1> SUFFICES ASSUME MotorInv, Restart PROVE MotorInv'
  OBVIOUS
<1>1. chip \in Chip /\ history \in History /\ place \in 0 .. Length
  BY DEF MotorInv, DriverTypeOK
<1>2. chip' \in Chip
  BY <1>1 DEF Restart, Chip
<1>3. history' \in History /\ history'.asked = 0
  <2> DEFINE n == history.restarts + 1
             no == FALSE
  <2>1. n \in Nat /\ no \in BOOLEAN /\ 0 \in -1 .. 1
    BY <1>1 DEF History
  <2>2. history' = [history EXCEPT !.restarts = n, !.asked = 0, !.clean = no]
    BY <1>1 DEF Restart, History
  <2> HIDE DEF n, no
  <2>3. history' \in History
    BY <1>1, <2>1, <2>2 DEF History
  <2> QED BY <1>1, <2>2, <2>3 DEF History
<1>4. driver' = DriverReset /\ place' = place
  BY DEF Restart
<1> QED BY <1>1, <1>2, <1>3, <1>4, DriverResetType DEF MotorInv, DriverTypeOK, ScriptInv, Resting

(* Initially everything is at rest.                                        *)
LEMMA MotorInit == DriverInit => MotorInv
<1> SUFFICES ASSUME DriverInit PROVE MotorInv
  OBVIOUS
<1>1. driver = DriverReset /\ place \in 0 .. Length
  BY DEF DriverInit
<1>2. chip \in Chip
  <2>1. NoGConf \in GConf /\ [mres |-> 0, own |-> TRUE] \in ChopConf /\ SgSettling \in 0 .. SgSettling
        /\ [v |-> 0] \in [v : -1 .. 1]
    BY HomingAssumption DEF NoGConf, GConf, ChopConf
  <2> QED BY <2>1 DEF DriverInit, Chip
<1>3. history \in History /\ history.asked = 0
  BY DEF DriverInit, History
<1> QED BY <1>1, <1>2, <1>3, DriverResetType DEF MotorInv, DriverTypeOK, ScriptInv, Resting

(* The steps of the axis.                                                  *)
LEMMA MotorNext == MotorInv /\ [AxisNext]_axisVars => MotorInv'
<1> SUFFICES ASSUME MotorInv, [AxisNext]_axisVars PROVE MotorInv'
  OBVIOUS
<1>0. UNCHANGED driverVars => MotorInv'
  BY DEF driverVars, MotorInv, DriverTypeOK, ScriptInv, Resting, Calling, Initialising, Serving,
         Driving, StartingHoming, Homing, Looking, Approaching, Failing, Ending, Obeys, Hushed, Lost
<1>1. CASE CallsDriver
  BY <1>1, CallInv DEF CallsDriver
<1>2. CASE DriverRuns
  BY <1>2, WriteRegisterInv, ReadRegisterInv, TickInv DEF DriverRuns
<1>3. CASE TimeGoesOn
  BY <1>3, TimeInv DEF TimeGoesOn
<1>4. CASE Homed \/ Moves \/ MoveGoesOn \/ UNCHANGED axisVars
  BY <1>0, <1>4 DEF Homed, Moves, MoveGoesOn, axisVars
<1>5. CASE Pulse
  <2>1. UNCHANGED <<driver, chip, history>>
    BY <1>5 DEF Pulse
  <2>2. place' \in 0 .. Length
    <3>1. Places(1) \subseteq 0 .. Length /\ Places(-1) \subseteq 0 .. Length /\ place \in 0 .. Length
      BY MovedType DEF MotorInv, DriverTypeOK
    <3> QED BY <1>5, <3>1 DEF Pulse
  <2>3. DriverTypeOK'
    BY <2>1, <2>2 DEF MotorInv, DriverTypeOK
  <2>4. ScriptInv'
    BY <2>1 DEF MotorInv, ScriptInv, Resting, Calling, Initialising, Serving,
         Driving, StartingHoming, Homing, Looking, Approaching, Failing, Ending, Obeys, Hushed, Lost
  <2> QED BY <2>3, <2>4 DEF MotorInv
<1>6. CASE Restarted
  BY <1>6, RestartInv DEF Restarted
<1> QED BY <1>1, <1>2, <1>3, <1>4, <1>5, <1>6 DEF AxisNext

(* For all lengths of the phases, all setups, any number of calls, failed  *)
(* or lost transfers and restarts: after each call the chip's generator    *)
(* does what the caller has asked for, unless the last write of the speed  *)
(* has not gone well (tmc2209.cpp:180, :860).                              *)
THEOREM MotorDoesAsAsked == AxisSpec => []MotorObeys
<1>1. AxisInit => MotorInv
  BY MotorInit DEF AxisInit
<1>2. MotorInv => MotorObeys
  BY DEF MotorInv, ScriptInv, Resting, MotorObeys, AtRest, Obeys, Lost
<1> QED BY <1>1, <1>2, MotorNext, PTL DEF AxisSpec

(* And a homing that has come to a result has switched SpreadCycle off     *)
(* again, unless the last write of GCONF has not gone well                 *)
(* (tmc2209.hpp:69).                                                       *)
THEOREM HomingLeavesQuiet == AxisSpec => []QuietAfterHoming
<1>1. AxisInit => MotorInv
  BY MotorInit DEF AxisInit
<1>2. MotorInv => QuietAfterHoming
  BY DEF MotorInv, ScriptInv, Resting, QuietAfterHoming, AtRest, Hushed, Lost
<1> QED BY <1>1, <1>2, MotorNext, PTL DEF AxisSpec

(* Every part of the axis keeps its type: no script leaves its registers,  *)
(* no carriage its end stops, no profile its segments.                     *)
THEOREM AxisTypeCorrect == AxisSpec => []AxisTypeOK
<1> DEFINE TypeInv == TypeOK /\ MotorInv /\ known \in BOOLEAN
<1>1. AxisInit => TypeInv
  <2> SUFFICES ASSUME AxisInit PROVE TypeInv
    OBVIOUS
  <2>1. TypeOK
    BY InitIInv DEF AxisInit, IInv
  <2>2. known \in BOOLEAN
    BY DEF AxisInit
  <2> QED BY <2>1, <2>2, MotorInit DEF AxisInit
<1>2. TypeInv /\ [AxisNext]_axisVars => TypeInv'
  <2> SUFFICES ASSUME TypeInv, [AxisNext]_axisVars PROVE TypeInv'
    OBVIOUS
  <2>1. MotorInv'
    BY MotorNext
  <2>2. UNCHANGED vars => TypeOK'
    BY DEF vars, TypeOK
  <2>3. CASE CallsDriver \/ DriverRuns \/ TimeGoesOn
    BY <2>1, <2>2, <2>3 DEF CallsDriver, DriverRuns, TimeGoesOn
  <2>4. CASE Homed \/ Moves \/ MoveGoesOn \/ Pulse
    BY <2>1, <2>4, NextType DEF Homed, Moves, MoveGoesOn, Pulse, Next
  <2>5. CASE Restarted
    <3>1. Init'
      BY <2>5 DEF Restarted, Init
    <3>2. TypeOK'
      BY <3>1 DEF Init, TypeOK, Axis, Thread
    <3>3. known' \in BOOLEAN
      BY <2>5 DEF Restarted
    <3> QED BY <2>1, <3>2, <3>3
  <2>6. CASE UNCHANGED axisVars
    BY <2>1, <2>2, <2>6 DEF axisVars
  <2> QED BY <2>3, <2>4, <2>5, <2>6 DEF AxisNext
<1>3. TypeInv => AxisTypeOK
  BY DEF MotorInv, AxisTypeOK
<1> QED BY <1>1, <1>2, <1>3, PTL DEF AxisSpec

----------------------------------------------------------------------------
(* The invariant behind PositionIsTrue: how far a homing has come, and     *)
(* what its transfers still to do leave alone.                             *)

(* Transfers that start no motion. *)
Halting == {t \in Transfer : t.write /\ t.reg = "VACTUAL" => t.value.v = 0}

(* A write of the homing speed, whose failure ends the homing.             *)
Approaches(s) == Head(s) \in SpeedWrites(HomingSpeed) \ Plain /\ Tail(s) \in Seq(Calm)

Track == {p \in Int : -HomingSpeed * p \in 0 .. Length}

Under(call) == driver.todo # <<>> /\ driver.call = call

(* From the beginning of a homing until the axis is displaced.             *)
Referenced ==
  known \/ driver.phase # "Idle" \/ driver.result = "Success" \/ Under("StartHoming")

Ages == Stale \union {0}

(* The phase counts from a time shortly before the transfer; the speed is  *)
(* as old as the phase, but for this.                                      *)
Early == \E age \in Ages : driver.elapsed <= age + driver.lag
Ripening == chip.age = SgSettling \/ \E age \in Ages : driver.elapsed <= chip.age + age + MaxLag

(* What each phase may be doing. *)
Staged ==
  /\ driver.phase # "Idle" => driver.result # "Success"
  /\ driver.phase = "OppositeTravel" => driver.todo = <<>> \/ Under("OppositeTravel")
  /\ driver.phase = "Settle" => driver.todo = <<>> \/ Under("Settle") \/ Under("Failed")
  /\ driver.phase = "DeadTime" => driver.todo = <<>>
  /\ driver.phase = "StallDetect" =>
       driver.todo = <<>> \/ Under("StallDetect") \/ Under("Success") \/ Under("Timeout")
  /\ Under("StallDetect") => driver.todo \in Seq(Calm)
  /\ Under("Success") => driver.todo \in Seq(Halting)

Driven == chip.VACTUAL.v = HomingSpeed

(* None of the exceptions that PositionIsTrue makes for the homing. *)
Certain == history.clean /\ chip.CHOPCONF.own

(* What the phases have made of the chip and the carriage. *)
Settling ==
  Under("Settle") => \/ Approaches(driver.todo) /\ Early
                     \/ driver.todo \in Seq(Calm) /\ Driven /\ Ripening
Settled == driver.phase = "DeadTime" => Driven /\ Ripening
Pressing ==
  driver.phase = "StallDetect" /\ (driver.todo = <<>> \/ Under("StallDetect")) =>
    Driven /\ chip.age = SgSettling
AtStop ==
  ~known /\ (Under("Success") \/ driver.result = "Success") =>
    place = Stop /\ chip.VACTUAL.v \in {0, HomingSpeed}
Following ==
  known /\ ~Lost("VACTUAL") => chip.VACTUAL.v = 0 /\ axis.position = Sense * (place - Stop)

Sound ==
  /\ chip.on /\ chip.CHOPCONF.own
  /\ Agreed \/ (Under("StartHoming") /\ Head(driver.todo) = Loud)
  /\ Settling /\ Settled /\ Pressing /\ AtStop /\ Following

Prepared ==
  Referenced => driver.todo \in Seq(Tame) /\ driver.ready /\ history.asked = 0

(* An axis that does not know where it is does not move by its stepper.    *)
Standing ==
  IF known
  THEN /\ driver.phase = "Idle" /\ driver.todo \in Seq(Silent)
       /\ driver.todo # <<>> => driver.call \in Services
  ELSE ~axis.running /\ thread.at = "idle"

OnTrack == axis.position \in Track /\ axis.target \in Track /\ thread.goal \in Track

ReferenceInv ==
  /\ Prepared /\ Standing /\ Staged /\ OnTrack
  /\ driver.lag <= MaxLag
  /\ Referenced /\ Certain => Sound

----------------------------------------------------------------------------
(* The scripts of a homing, and those that go on while the axis is         *)
(* referenced, are tame.                                                   *)

(* Single transfers.                                                       *)
LEMMA TameTransfers ==
  /\ \A fail \in Fails, b \in BOOLEAN :
        Write("GCONF", [spread |-> b], fail) \in Tame \intersect Halting
  /\ \A fail \in Fails : \A reg \in Registers \ {"MIRROR GCONF"} :
        Read(reg, fail) \in Tame \intersect Halting
  /\ \A fail \in Fails : \A reg \in Registers \ (Mirrored \union {"VACTUAL"}) :
        Write(reg, [v |-> 1], fail) \in Tame \intersect Halting
  /\ \A fail \in Fails, v \in -1 .. 1 : /\ Write("VACTUAL", [v |-> v], fail) \in Tame
                                        /\ v = 0 => Write("VACTUAL", [v |-> v], fail) \in Halting
<1>1. ASSUME NEW fail \in Fails, NEW b \in BOOLEAN
      PROVE  Write("GCONF", [spread |-> b], fail) \in Tame \intersect Halting
  <2>1. Write("GCONF", [spread |-> b], fail) \in Transfer
    BY WriteType
  <2> QED BY <2>1 DEF Tame, Halting, Write
<1>2. ASSUME NEW fail \in Fails, NEW reg \in Registers \ {"MIRROR GCONF"}
      PROVE  Read(reg, fail) \in Tame \intersect Halting
  <2>1. Read(reg, fail) \in Transfer
    BY ReadType
  <2> QED BY <2>1 DEF Tame, Halting, Read
<1>3. ASSUME NEW fail \in Fails, NEW reg \in Registers \ (Mirrored \union {"VACTUAL"})
      PROVE  Write(reg, [v |-> 1], fail) \in Tame \intersect Halting
  <2>1. Write(reg, [v |-> 1], fail) \in Transfer
    BY WriteType
  <2> QED BY <2>1 DEF Tame, Halting, Write, Mirrored
<1>4. ASSUME NEW fail \in Fails, NEW v \in -1 .. 1
      PROVE  /\ Write("VACTUAL", [v |-> v], fail) \in Tame
             /\ v = 0 => Write("VACTUAL", [v |-> v], fail) \in Halting
  <2>1. "VACTUAL" \in Registers \ Mirrored
    BY DEF Registers, Stored, Mirrored
  <2>2. Write("VACTUAL", [v |-> v], fail) \in Transfer
    BY <2>1, WriteType
  <2> QED BY <2>2 DEF Tame, Halting, Write
<1> QED BY <1>1, <1>2, <1>3, <1>4

(* Scripts of reads, and of writes of registers that do not matter here.   *)
LEMMA TameSeries ==
  /\ \A regs \in Seq(Registers \ {"MIRROR GCONF"}) : Reads(regs) \in Seq(Tame \intersect Halting)
  /\ \A regs \in Seq(Registers \ (Mirrored \union {"VACTUAL"})) : \A fail \in Fails :
        Sets(regs, fail) \in Seq(Tame \intersect Halting)
<1>1. ASSUME NEW regs \in Seq(Registers \ {"MIRROR GCONF"})
      PROVE  Reads(regs) \in Seq(Tame \intersect Halting)
  <2> DEFINE n == Len(regs)
  <2>1. n \in Nat /\ regs \in [1 .. n -> Registers \ {"MIRROR GCONF"}]
    BY LenProperties
  <2>2. \A i \in 1 .. n : Read(regs[i], "ignore") \in Tame \intersect Halting
    <3>1. "ignore" \in Fails
      BY DEF Fails
    <3> QED BY <2>1, <3>1, TameTransfers
  <2>3. Reads(regs) \in [1 .. n -> Tame \intersect Halting]
    BY <2>1, <2>2 DEF Reads
  <2> QED BY <2>1, <2>3, FunctionIsSeq
<1>2. ASSUME NEW regs \in Seq(Registers \ (Mirrored \union {"VACTUAL"})), NEW fail \in Fails
      PROVE  Sets(regs, fail) \in Seq(Tame \intersect Halting)
  <2> DEFINE n == Len(regs)
  <2>1. n \in Nat /\ regs \in [1 .. n -> Registers \ (Mirrored \union {"VACTUAL"})]
    BY LenProperties
  <2>2. \A i \in 1 .. n : Write(regs[i], [v |-> 1], fail) \in Tame \intersect Halting
    BY <2>1, TameTransfers
  <2>3. Sets(regs, fail) \in [1 .. n -> Tame \intersect Halting]
    BY <2>1, <2>2 DEF Sets
  <2> QED BY <2>1, <2>3, FunctionIsSeq
<1> QED BY <1>1, <1>2

(* The writes of a speed; that of the homing speed is the one that ends    *)
(* the homing when it fails.                                               *)
LEMMA TameGenerateSteps ==
  /\ \A speed \in -1 .. 1, fail \in Fails : GenerateSteps(speed, fail) \in Seq(Tame)
  /\ \A fail \in Fails : GenerateSteps(0, fail) \in Seq(Halting)
  /\ Approaches(GenerateSteps(HomingSpeed, "restore"))
<1> DEFINE log == Reads(<<"VACTUAL">>)
           w(speed, fail) == Write("VACTUAL", [v |-> speed], fail)
<1>1. log \in Seq(Tame) /\ log \in Seq(Halting) /\ log \in Seq(Calm)
  <2>1. "VACTUAL" \in Registers \ {"MIRROR GCONF"}
    BY DEF Registers, Stored
  <2>2. <<"VACTUAL">> \in Seq(Registers \ {"MIRROR GCONF"}) /\ <<"VACTUAL">> \in Seq(Registers)
    BY <2>1, Tuples
  <2>3. log \in Seq(Tame \intersect Halting) /\ log \in Seq(Calm)
    BY <2>2, TameSeries, ReadsKind
  <2> QED BY <2>3, SeqMonotonic
<1>2. \A speed, fail : GenerateSteps(speed, fail) = <<w(speed, fail)>> \o log
  BY DEF GenerateSteps
<1> HIDE DEF log
<1>3. ASSUME NEW speed \in -1 .. 1, NEW fail \in Fails
      PROVE  /\ GenerateSteps(speed, fail) \in Seq(Tame)
             /\ speed = 0 => GenerateSteps(speed, fail) \in Seq(Halting)
  <2> DEFINE x == w(speed, fail)
  <2>1. x \in Tame /\ (speed = 0 => x \in Halting)
    BY TameTransfers
  <2>2. GenerateSteps(speed, fail) = <<x>> \o log
    BY <1>2
  <2> HIDE DEF x
  <2> QED BY <1>1, <2>1, <2>2, Single
<1>4. Approaches(GenerateSteps(HomingSpeed, "restore"))
  <2> DEFINE x == w(HomingSpeed, "restore")
  <2>1. x \in Transfer
    <3>1. HomingSpeed \in -1 .. 1 /\ "restore" \in Fails
      BY HomingAssumption DEF Fails
    <3> QED BY <3>1, TameTransfers DEF Tame
  <2>2. x \in SpeedWrites(HomingSpeed) \ Plain
    BY <2>1 DEF SpeedWrites, Plain, Write
  <2>3. GenerateSteps(HomingSpeed, "restore") = <<x>> \o log
    BY <1>2
  <2> HIDE DEF x
  <2>4. log \in Seq(Transfer)
    BY <1>1, KindIsScript DEF Script
  <2>5. Head(<<x>> \o log) = x /\ Tail(<<x>> \o log) = log
    BY <2>1, <2>4, Single
  <2> QED BY <1>1, <2>2, <2>3, <2>5 DEF Approaches
<1>5. 0 \in -1 .. 1
  OBVIOUS
<1> QED BY <1>3, <1>4, <1>5

(* The methods that a homing calls, and those that leave the axis where    *)
(* it is.                                                                  *)
LEMMA TameScripts ==
  /\ EnableCoolStep \in Seq(Tame) /\ Head(EnableCoolStep) = Loud
  /\ RestoreStealthChop \in Seq(Tame)
  /\ EndHoming \in Seq(Tame) /\ EndHoming \in Seq(Halting)
  /\ LogCoolStepRuntimeStatus \in Seq(Tame) /\ PrintPrettyFullSystemState \in Seq(Tame)
  /\ Sets(<<"IHOLD_IRUN">>, "abort") \in Seq(Tame)
  /\ Reads(<<"SG_RESULT">>) \in Seq(Tame)
<1>0. {"ignore", "abort", "restore"} = Fails /\ Tame \subseteq Transfer
  BY DEF Fails, Tame
<1>1. EnableCoolStep \in Seq(Tame) /\ Head(EnableCoolStep) = Loud
  <2> DEFINE others == Sets(<<"TCOOLTHRS", "SGTHRS", "COOLCONF">>, "abort")
  <2>1. Loud \in Tame
    <3> DEFINE yes == TRUE
    <3>1. yes \in BOOLEAN /\ Loud = Write("GCONF", [spread |-> yes], "abort")
      BY DEF Loud
    <3> HIDE DEF yes
    <3> QED BY <1>0, <3>1, TameTransfers
  <2>2. others \in Seq(Tame)
    <3>1. {"TCOOLTHRS", "SGTHRS", "COOLCONF"} \subseteq Registers \ (Mirrored \union {"VACTUAL"})
      BY DEF Mirrored, Registers, Stored
    <3>2. <<"TCOOLTHRS", "SGTHRS", "COOLCONF">> \in Seq(Registers \ (Mirrored \union {"VACTUAL"}))
      BY <3>1, Tuples
    <3>3. others \in Seq(Tame \intersect Halting)
      BY <1>0, <3>2, TameSeries
    <3> QED BY <3>3, SeqMonotonic
  <2>3. EnableCoolStep = <<Loud>> \o others
    BY DEF EnableCoolStep, Loud
  <2> HIDE DEF others
  <2> QED BY <2>1, <2>2, <2>3, Single
<1>2. RestoreStealthChop \in Seq(Tame) /\ RestoreStealthChop \in Seq(Halting)
  <2> DEFINE x == Write("GCONF", [spread |-> FALSE], "ignore")
             no == FALSE
  <2>1. no \in BOOLEAN /\ x = Write("GCONF", [spread |-> no], "ignore")
    OBVIOUS
  <2>2. RestoreStealthChop = <<x>>
    BY DEF RestoreStealthChop
  <2> HIDE DEF x, no
  <2>3. x \in Tame \intersect Halting
    BY <1>0, <2>1, TameTransfers
  <2> QED BY <2>2, <2>3, Tuples
<1>3. EndHoming \in Seq(Tame) /\ EndHoming \in Seq(Halting)
  <2>1. GenerateSteps(0, "ignore") \in Seq(Tame) /\ GenerateSteps(0, "ignore") \in Seq(Halting)
    <3>1. 0 \in -1 .. 1
      OBVIOUS
    <3> QED BY <1>0, <3>1, TameGenerateSteps
  <2> QED BY <1>2, <2>1, ConcatProperties DEF EndHoming
<1>4. LogCoolStepRuntimeStatus \in Seq(Tame)
  <2> DEFINE regs == <<"SG_RESULT", "DRV_STATUS", "TSTEP">>
             others == Registers \ {"MIRROR GCONF"}
  <2>0. {"SG_RESULT", "DRV_STATUS", "TSTEP"} \subseteq others
    BY DEF Registers
  <2>1. \A reg \in others : Read(reg, "abort") \in Tame
    BY <1>0, TameTransfers
  <2> HIDE DEF others
  <2>2. \A i \in 1 .. 3 : Read(regs[i], "abort") \in Tame
    <3>1. regs[1] \in others /\ regs[2] \in others /\ regs[3] \in others
      BY <2>0
    <3> QED BY <2>1, <3>1
  <2> HIDE DEF regs
  <2>3. LogCoolStepRuntimeStatus = [i \in 1 .. 3 |-> Read(regs[i], "abort")]
    BY DEF LogCoolStepRuntimeStatus, regs
  <2>4. LogCoolStepRuntimeStatus \in [1 .. 3 -> Tame]
    BY <2>2, <2>3
  <2> QED BY <2>4, FunctionIsSeq
<1>5. PrintPrettyFullSystemState \in Seq(Tame) /\ Reads(<<"SG_RESULT">>) \in Seq(Tame)
  <2>1. {"GCONF", "GSTAT", "SG_RESULT"} \subseteq Registers \ {"MIRROR GCONF"}
    BY DEF Registers, Stored
  <2>2. /\ <<"GCONF", "GSTAT">> \in Seq(Registers \ {"MIRROR GCONF"})
        /\ <<"SG_RESULT">> \in Seq(Registers \ {"MIRROR GCONF"})
    BY <2>1, Tuples
  <2>3. /\ PrintPrettyFullSystemState \in Seq(Tame \intersect Halting)
        /\ Reads(<<"SG_RESULT">>) \in Seq(Tame \intersect Halting)
    BY <2>2, TameSeries DEF PrintPrettyFullSystemState
  <2> QED BY <2>3, SeqMonotonic
<1>6. Sets(<<"IHOLD_IRUN">>, "abort") \in Seq(Tame)
  <2>1. "IHOLD_IRUN" \in Registers \ (Mirrored \union {"VACTUAL"})
    BY DEF Registers, Mirrored
  <2>2. <<"IHOLD_IRUN">> \in Seq(Registers \ (Mirrored \union {"VACTUAL"}))
    BY <2>1, Tuples
  <2>3. Sets(<<"IHOLD_IRUN">>, "abort") \in Seq(Tame \intersect Halting)
    BY <1>0, <2>2, TameSeries
  <2> QED BY <2>3, SeqMonotonic
<1> QED BY <1>1, <1>2, <1>3, <1>4, <1>5, <1>6

(* What a homing begins with.                                              *)
LEMMA TameStart ==
  \A fail \in {"abort", "ignore"} :
    /\ EnableCoolStep \o GenerateSteps(-HomingSpeed, fail) \in Seq(Tame)
    /\ Head(EnableCoolStep \o GenerateSteps(-HomingSpeed, fail)) = Loud
<1> SUFFICES ASSUME NEW fail \in {"abort", "ignore"}
             PROVE  /\ EnableCoolStep \o GenerateSteps(-HomingSpeed, fail) \in Seq(Tame)
                    /\ Head(EnableCoolStep \o GenerateSteps(-HomingSpeed, fail)) = Loud
  OBVIOUS
<1>1. -HomingSpeed \in -1 .. 1 /\ fail \in Fails
  BY HomingAssumption DEF Fails
<1>2. GenerateSteps(-HomingSpeed, fail) \in Seq(Tame)
  BY <1>1, TameGenerateSteps
<1>3. EnableCoolStep \in Seq(Tame) /\ EnableCoolStep # <<>> /\ Head(EnableCoolStep) = Loud
  BY TameScripts, EnableCoolStepKind
<1> QED BY <1>2, <1>3, ConcatProperties, TailOfConcat

----------------------------------------------------------------------------
(* What becomes of the driver in a transfer. *)

(* A call goes on, ends, or goes over to the failure of the homing.        *)
LEMMA ContinuedAge ==
  ASSUME NEW d \in Driver, NEW ok \in BOOLEAN, d.todo # <<>>
  PROVE  \/ /\ ok \/ Head(d.todo) \in Forgiving
            /\ Tail(d.todo) # <<>>
            /\ Continued(d, ok) = [d EXCEPT !.todo = Tail(d.todo)]
         \/ /\ ok \/ Head(d.todo) \in Forgiving
            /\ Tail(d.todo) = <<>> /\ Continued(d, ok) = Returns(d, TRUE)
         \/ /\ ~ok /\ Head(d.todo) \notin Forgiving /\ Head(d.todo) \in Plain
            /\ Continued(d, ok) = Returns(d, FALSE)
         \/ /\ ~ok /\ Head(d.todo) \notin Forgiving /\ Head(d.todo) \notin Plain
            /\ Continued(d, ok) = [d EXCEPT !.call = "Failed", !.todo = RestoreStealthChop]
<1>1. Head(d.todo) \in Transfer
  BY TailOfScript DEF Driver
<1>2. Head(d.todo).fail \in Fails
  BY <1>1 DEF Transfer
<1>3. CASE (ok \/ Head(d.todo).fail = "ignore") /\ Tail(d.todo) # <<>>
  BY <1>1, <1>3 DEF Continued, Forgiving
<1>4. CASE (ok \/ Head(d.todo).fail = "ignore") /\ Tail(d.todo) = <<>>
  BY <1>1, <1>4 DEF Continued, Forgiving
<1>5. CASE ~ok /\ Head(d.todo).fail = "abort"
  BY <1>1, <1>5 DEF Continued, Forgiving, Plain
<1>6. CASE ~ok /\ Head(d.todo).fail = "restore"
  BY <1>1, <1>6 DEF Continued, Forgiving, Plain
<1> QED BY <1>2, <1>3, <1>4, <1>5, <1>6 DEF Fails

(* The phase that follows on a method, its result and its age.             *)
LEMMA ReturnsPhase ==
  ASSUME NEW d \in Driver, NEW good \in BOOLEAN
  PROVE  LET r == Returns(d, good)
         IN  /\ r.todo = <<>> /\ r.GCONF = d.GCONF
             /\ r.lag \in {0, d.lag} /\ r.elapsed \in {0, d.elapsed}
             /\ d.call # "Init" => r.ready = d.ready
             /\ \/ /\ d.call = "StartHoming" /\ good
                   /\ r.phase = "OppositeTravel" /\ r.result = d.result
                \/ d.call = "OppositeTravel" /\ r.phase = "Settle" /\ r.result = d.result
                \/ d.call = "Settle" /\ r.phase = "DeadTime" /\ r.result = d.result
                \/ d.call = "Failed" /\ r.phase = "Idle" /\ r.result = "Error"
                \/ d.call \in {"Success", "Timeout"} /\ r.phase = "Idle" /\ r.result = d.call
                \/ /\ d.call \notin {"OppositeTravel", "Settle", "Failed", "Success", "Timeout"}
                   /\ ~(d.call = "StartHoming" /\ good)
                   /\ r.phase = d.phase /\ r.result = d.result
<1> DEFINE left == [d EXCEPT !.call = "none", !.todo = <<>>, !.overdue = FALSE]
           over == [left EXCEPT !.phase = "Idle", !.elapsed = 0, !.lag = 0]
           r == Returns(d, good)
<1>0. r.todo = <<>>
  BY ReturnsType
<1>1. /\ left.ready = d.ready /\ left.phase = d.phase /\ left.result = d.result
      /\ left.GCONF = d.GCONF /\ left.lag = d.lag /\ left.elapsed = d.elapsed
      /\ {"ready", "phase", "result", "elapsed", "lag", "GCONF"} \subseteq DOMAIN left
  BY DEF Driver
<1> HIDE DEF left
<1>2. /\ over.ready = d.ready /\ over.phase = "Idle" /\ over.GCONF = d.GCONF
      /\ over.lag = 0 /\ over.elapsed = 0 /\ {"ready", "phase", "result", "elapsed", "lag", "GCONF"} \subseteq DOMAIN over
  BY <1>1
<1> HIDE DEF over, r
<1>3. CASE d.call = "Init"
  <2>1. r = [left EXCEPT !.ready = good]
    BY <1>3 DEF Returns, left, r
  <2> QED BY <1>0, <1>1, <1>3, <2>1 DEF r
<1>4. CASE d.call = "StartHoming" /\ good
  <2>1. r = [left EXCEPT !.phase = "OppositeTravel", !.elapsed = 0, !.lag = 0]
    BY <1>4 DEF Returns, left, r
  <2> QED BY <1>0, <1>1, <1>4, <2>1 DEF r
<1>5. CASE d.call \in {"OppositeTravel", "Settle"}
  <2>1. r = NextPhase(left, IF d.call = "Settle" THEN "DeadTime" ELSE "Settle")
    BY <1>5 DEF Returns, left, r
  <2> QED BY <1>0, <1>1, <1>5, <2>1 DEF r, NextPhase
<1>6. CASE d.call \in {"Failed", "Success", "Timeout"}
  <2>1. r = [over EXCEPT !.result = IF d.call = "Failed" THEN "Error" ELSE d.call]
    BY <1>6 DEF Returns, left, over, r
  <2> QED BY <1>0, <1>2, <1>6, <2>1 DEF r
<1>7. CASE (d.call = "StartHoming" /\ ~good)
           \/ d.call \notin {"Init", "StartHoming", "OppositeTravel", "Settle", "Failed", "Success", "Timeout"}
  <2>1. r = left
    BY <1>7 DEF Returns, left, r
  <2> QED BY <1>0, <1>1, <1>7, <2>1 DEF r
<1> QED BY <1>3, <1>4, <1>5, <1>6, <1>7

(* What the driver is after a transfer: the call has less to do, or is     *)
(* over, or the homing has failed.                                         *)
GoesOn ==
  /\ Tail(driver.todo) # <<>> /\ driver'.todo = Tail(driver.todo)
  /\ driver'.call = driver.call /\ driver'.phase = driver.phase /\ driver'.result = driver.result
  /\ driver'.elapsed = driver.elapsed /\ driver'.lag = driver.lag /\ driver'.ready = driver.ready

Ends(ok) ==
  /\ driver'.todo = <<>>
  /\ driver'.lag \in {0, driver.lag} /\ driver'.elapsed \in {0, driver.elapsed}
  /\ driver.call # "Init" => driver'.ready = driver.ready
  /\ \/ /\ driver.call = "StartHoming" /\ (ok \/ Head(driver.todo) \in Forgiving)
        /\ driver'.phase = "OppositeTravel" /\ driver'.result = driver.result
     \/ driver.call = "OppositeTravel" /\ driver'.phase = "Settle" /\ driver'.result = driver.result
     \/ driver.call = "Settle" /\ driver'.phase = "DeadTime" /\ driver'.result = driver.result
     \/ driver.call = "Failed" /\ driver'.phase = "Idle" /\ driver'.result = "Error"
     \/ driver.call \in {"Success", "Timeout"} /\ driver'.phase = "Idle" /\ driver'.result = driver.call
     \/ /\ driver.call \notin {"OppositeTravel", "Settle", "Failed", "Success", "Timeout"}
        /\ driver'.phase = driver.phase /\ driver'.result = driver.result

GivesUp ==
  /\ driver'.todo = RestoreStealthChop /\ driver'.call = "Failed"
  /\ driver'.phase = driver.phase /\ driver'.result = driver.result
  /\ driver'.elapsed = driver.elapsed /\ driver'.lag = driver.lag /\ driver'.ready = driver.ready

(* A transfer has an outcome.                                              *)
Outcome(ok) ==
  \/ (ok \/ Head(driver.todo) \in Forgiving) /\ GoesOn
  \/ (ok \/ Head(driver.todo) \in Plain) /\ Ends(ok)
  \/ ~ok /\ Head(driver.todo) \notin Forgiving /\ Head(driver.todo) \notin Plain /\ GivesUp

(* An end of the method is one of the outcomes.                            *)
LEMMA EndsOutcome ==
  ASSUME NEW d \in Driver, NEW good \in BOOLEAN, SameCall(d, driver), driver' = Returns(d, good),
         d.elapsed = driver.elapsed, d.lag = driver.lag,
         NEW ok, good => ok \/ Head(driver.todo) \in Forgiving
  PROVE  Ends(ok) /\ driver'.GCONF = d.GCONF
BY ReturnsPhase DEF Ends, SameCall

(* The driver goes on to one of the outcomes.                              *)
LEMMA ContinuedOutcome ==
  ASSUME NEW d \in Driver, NEW ok \in BOOLEAN, SameCall(d, driver), driver.todo # <<>>,
         driver' = Continued(d, ok), d.elapsed = driver.elapsed, d.lag = driver.lag
  PROVE  Outcome(ok) /\ driver'.GCONF = d.GCONF
<1>1. /\ d.todo = driver.todo /\ d.call = driver.call /\ d.phase = driver.phase
      /\ d.ready = driver.ready /\ d.result = driver.result
  BY DEF SameCall
<1>2. Forgiving \subseteq Plain
  BY DEF Forgiving, Plain
<1>3. CASE /\ ok \/ Head(d.todo) \in Forgiving
           /\ Tail(d.todo) # <<>>
           /\ Continued(d, ok) = [d EXCEPT !.todo = Tail(d.todo)]
  <2>1. GoesOn /\ driver'.GCONF = d.GCONF
    BY <1>1, <1>3 DEF GoesOn, Driver
  <2> QED BY <1>1, <1>3, <2>1 DEF Outcome
<1>4. CASE /\ ok \/ Head(d.todo) \in Forgiving
           /\ Continued(d, ok) = Returns(d, TRUE)
  <2> DEFINE yes == TRUE
  <2>1. yes \in BOOLEAN /\ driver' = Returns(d, yes)
    BY <1>4
  <2> HIDE DEF yes
  <2>2. Ends(ok) /\ driver'.GCONF = d.GCONF
    BY <1>1, <1>4, <2>1, EndsOutcome
  <2> QED BY <1>1, <1>2, <1>4, <2>2 DEF Outcome
<1>5. CASE /\ ~ok /\ Head(d.todo) \notin Forgiving /\ Head(d.todo) \in Plain
           /\ Continued(d, ok) = Returns(d, FALSE)
  <2> DEFINE no == FALSE
  <2>1. no \in BOOLEAN /\ ~no /\ driver' = Returns(d, no)
    BY <1>5
  <2> HIDE DEF no
  <2>2. Ends(ok) /\ driver'.GCONF = d.GCONF
    BY <1>1, <2>1, EndsOutcome
  <2> QED BY <1>1, <1>5, <2>2 DEF Outcome
<1>6. CASE /\ ~ok /\ Head(d.todo) \notin Forgiving /\ Head(d.todo) \notin Plain
           /\ Continued(d, ok) = [d EXCEPT !.call = "Failed", !.todo = RestoreStealthChop]
  <2>1. GivesUp /\ driver'.GCONF = d.GCONF
    BY <1>1, <1>6 DEF GivesUp, Driver
  <2> QED BY <1>1, <1>6, <2>1 DEF Outcome
<1> QED BY <1>1, <1>3, <1>4, <1>5, <1>6, ContinuedAge

----------------------------------------------------------------------------
(* The invariant of PositionIsTrue, step by step. *)

(* Who may be at work, as the invariant of the scripts has it.             *)
LEMMA WhoCalls ==
  ASSUME MotorInv, driver.todo # <<>>
  PROVE  /\ driver.phase = "Idle" =>
              /\ driver.result = "none" /\ Head(driver.todo) \in Plain
              /\ driver.call \in {"Init", "StartHoming"} \union Services \union Drives
              /\ driver.call = "Init" => ~driver.ready
         /\ driver.phase # "Idle" =>
              /\ driver.call \in {"OppositeTravel", "Settle", "StallDetect", "Success", "Timeout", "Failed"}
              /\ driver.call # "Settle" => Head(driver.todo) \in Forgiving
<1>1. CASE driver.phase = "Idle"
  <2>1. Calling
    BY <1>1 DEF MotorInv, ScriptInv
  <2>2. Head(driver.todo) \in Plain
    BY <2>1, TailOfScript DEF Calling
  <2> QED BY <1>1, <2>1, <2>2
        DEF Calling, Initialising, Serving, Driving, StartingHoming, Services, Drives
<1>2. CASE driver.phase # "Idle"
  <2>1. Homing
    BY <1>2 DEF MotorInv, ScriptInv
  <2>2. driver.call # "Settle" => driver.todo \in Seq(Forgiving)
    BY <2>1, KindIsScript DEF Homing, Looking, Approaching, Failing, Ending
  <2>3. driver.call # "Settle" => Head(driver.todo) \in Forgiving
    BY <2>2, TailOfScript
  <2> QED BY <1>2, <2>1, <2>3 DEF Homing, Looking, Approaching, Failing, Ending
<1> QED BY <1>1, <1>2

(* A transfer of any call keeps it.                                        *)
LEMMA TransferredReference ==
  ASSUME MotorInv, ReferenceInv, driver.todo # <<>>, UNCHANGED <<vars, known, place>>,
         NEW d, NEW ok \in BOOLEAN, Outcome(ok), Effect(ok), Guided(d, ok),
         driver'.GCONF = d.GCONF, chip' \in Chip
  PROVE  ReferenceInv'
<1> DEFINE h == Head(driver.todo)
           r == Tail(driver.todo)
<1>1. /\ driver.phase = "Idle" =>
           /\ driver.result = "none" /\ h \in Plain
           /\ driver.call \in {"Init", "StartHoming"} \union Services \union Drives
           /\ driver.call = "Init" => ~driver.ready
      /\ driver.phase # "Idle" =>
           /\ driver.call \in {"OppositeTravel", "Settle", "StallDetect", "Success", "Timeout", "Failed"}
           /\ driver.call # "Settle" => h \in Forgiving
      /\ driver.phase # "Idle" => driver.result # "Success"
  BY WhoCalls DEF ReferenceInv, Staged
<1>2. /\ "Init" \notin Services \union Drives /\ "StartHoming" \notin Services \union Drives
      /\ {"OppositeTravel", "Settle", "StallDetect", "Success", "Timeout", "Failed"}
           \intersect (Services \union Drives) = {}
      /\ Services \intersect Drives = {}
  BY DEF Services, Drives
<1>3. /\ \A S : driver.todo \in Seq(S) => h \in S /\ r \in Seq(S)
      /\ Forgiving \subseteq Plain
  BY TailOfScript DEF Forgiving, Plain
<1>4. /\ axis' = axis /\ thread' = thread /\ known' = known /\ place' = place
      /\ history'.asked = history.asked
  BY DEF vars, Effect
<1>5. Prepared /\ Standing /\ Staged /\ OnTrack /\ driver.lag <= MaxLag
      /\ (Referenced /\ Certain => Sound)
  BY DEF ReferenceInv
<1>6. \/ (ok \/ h \in Forgiving) /\ GoesOn
      \/ (ok \/ h \in Plain) /\ Ends(ok)
      \/ ~ok /\ h \notin Plain /\ GivesUp
  BY <1>3 DEF Outcome
<1>7. /\ history'.clean => history.clean
      /\ h \in Silent => /\ chip'.VACTUAL = chip.VACTUAL /\ chip'.age = chip.age
                        /\ (Lost("VACTUAL")' <=> Lost("VACTUAL"))
  BY DEF Effect, Guided
<1>v. ASSUME NEW v, h \in SpeedWrites(v)
      PROVE  chip'.VACTUAL.v \in {chip.VACTUAL.v, v} /\ (ok /\ history'.clean => chip'.VACTUAL.v = v)
  BY <1>v DEF Guided
<1>8. /\ chip'.on = chip.on
      /\ h \in Tame => chip'.CHOPCONF = chip.CHOPCONF
      /\ h \in Tame /\ Agreed => Agreed' /\ Sense' = Sense /\ Stop' = Stop
      /\ h = Loud /\ ok /\ history'.clean => Agreed'
  BY DEF Guided, Agreed, Sense, Stop
<1>9. Loud \notin Forgiving /\ Calm \subseteq Silent
  <2> DEFINE yes == TRUE
  <2>1. yes \in BOOLEAN /\ Loud = Write("GCONF", [spread |-> yes], "abort")
    BY DEF Loud
  <2> HIDE DEF yes
  <2>2. Loud \in Transfer
    BY <2>1, WriteType DEF Fails
  <2> QED BY <2>1, <2>2 DEF Forgiving, Write, Calm
<1>10. /\ driver.lag \in Nat /\ driver.elapsed \in Nat /\ chip'.age \in Nat /\ MaxLag \in Nat
       /\ Ages \subseteq Nat /\ 0 \in Ages
  BY HomingAssumption DEF MotorInv, DriverTypeOK, Driver, Chip, Ages
<1>c. /\ Certain' => history'.clean
      /\ Referenced /\ Certain' => Certain
  BY <1>3, <1>5, <1>7, <1>8 DEF Certain, Prepared
<1> HIDE DEF h, r
(* The write of the homing speed, and what comes after it.                 *)
<1>11. ASSUME Under("Settle"), ok \/ h \in Plain, Certain',
              driver'.elapsed \in {0, driver.elapsed}
       PROVE  r \in Seq(Calm) /\ Driven' /\ Ripening'
  <2>1. driver.phase # "Idle" /\ Referenced
    BY <1>1, <1>2, <1>11 DEF Under, Referenced
  <2>2. Settling
    BY <1>5, <1>7, <1>c, <1>11, <2>1 DEF Sound
  <2>3. CASE Approaches(driver.todo) /\ Early
    <3>1. h \in SpeedWrites(HomingSpeed) /\ h \notin Plain /\ r \in Seq(Calm)
      BY <2>3 DEF Approaches, h, r
    <3>2. Driven'
      <4>1. ok /\ Certain'
        BY <1>11, <3>1
      <4>2. chip'.VACTUAL.v = HomingSpeed
        BY <1>v, <1>c, <3>1, <4>1
      <4> QED BY <4>2 DEF Driven
    <3>3. PICK age \in Ages : driver.elapsed <= age + driver.lag
      BY <2>3 DEF Early
    <3>4. driver'.elapsed <= chip'.age + age + MaxLag
      BY <1>5, <1>10, <1>11, <3>3
    <3> QED BY <3>1, <3>2, <3>4 DEF Ripening, Ages
  <2>4. CASE driver.todo \in Seq(Calm) /\ Driven /\ Ripening
    <3>1. h \in Silent /\ r \in Seq(Calm)
      BY <1>3, <1>9, <2>4
    <3>2. Driven' /\ chip'.age = chip.age
      BY <1>7, <1>c, <2>4, <3>1 DEF Driven
    <3>3. Ripening'
      <4>1. CASE chip.age = SgSettling
        BY <3>2, <4>1 DEF Ripening
      <4>2. CASE \E age \in Ages : driver.elapsed <= chip.age + age + MaxLag
        <5>1. PICK age \in Ages : driver.elapsed <= chip.age + age + MaxLag
          BY <4>2
        <5>2. driver'.elapsed <= chip'.age + age + MaxLag
          BY <1>10, <1>11, <3>2, <5>1
        <5> QED BY <5>2 DEF Ripening, Ages
      <4> QED BY <2>4, <4>1, <4>2 DEF Ripening
    <3> QED BY <3>1, <3>2, <3>3
  <2> QED BY <1>11, <2>2, <2>3, <2>4 DEF Settling
(* The look at the load.                                                   *)
<1>12. ASSUME driver.phase = "StallDetect", Under("StallDetect"), Certain'
       PROVE  r \in Seq(Calm) /\ Driven' /\ chip'.age = SgSettling
  <2>1. Driven /\ chip.age = SgSettling
    BY <1>5, <1>7, <1>c, <1>12 DEF Sound, Pressing, Referenced
  <2>2. h \in Silent /\ r \in Seq(Calm)
    BY <1>3, <1>5, <1>9, <1>12 DEF Staged
  <2> QED BY <1>7, <1>c, <2>1, <2>2 DEF Driven
(* The end of a homing that has found the stop.                            *)
<1>13. ASSUME Under("Success"), ~known, Certain'
       PROVE  place' = Stop' /\ chip'.VACTUAL.v \in {0, HomingSpeed}
  <2>1. driver.phase # "Idle" /\ Referenced
    BY <1>1, <1>2, <1>13 DEF Under, Referenced
  <2>2. Sound
    BY <1>5, <1>7, <1>c, <1>13, <2>1
  <2>3. place = Stop /\ chip.VACTUAL.v \in {0, HomingSpeed} /\ Agreed
    BY <1>13, <2>2 DEF Sound, AtStop, Under
  <2>4. h \in Tame /\ h \in Halting
    BY <1>3, <1>5, <1>13, <2>1 DEF Prepared, Staged
  <2>5. h \in Silent \/ h \in SpeedWrites(0)
    BY <2>4 DEF Halting, Silent, SpeedWrites
  <2>6. chip'.VACTUAL.v \in {chip.VACTUAL.v, 0}
    <3>1. CASE h \in Silent
      BY <1>7, <1>c, <3>1
    <3>2. CASE h \in SpeedWrites(0)
      BY <1>v, <1>c, <3>2
    <3> QED BY <2>5, <3>1, <3>2
  <2>7. Stop' = Stop
    BY <1>8, <1>c, <2>3, <2>4
  <2> QED BY <1>4, <2>3, <2>6, <2>7
(* An axis that is known.                                                  *)
<1>14. ASSUME known, Certain' PROVE Following' /\ Agreed'
  <2>1. Referenced /\ Sound
    BY <1>5, <1>7, <1>c, <1>14 DEF Referenced
  <2>2. driver.call \in Services /\ h \in Silent /\ h \in Tame
    BY <1>3, <1>5, <1>14, <2>1 DEF Standing, Prepared
  <2>3. Agreed
    BY <1>2, <2>1, <2>2 DEF Sound, Under
  <2>4. Following
    BY <2>1 DEF Sound
  <2> QED BY <1>4, <1>7, <1>8, <1>c, <2>2, <2>3, <2>4 DEF Following
(* Everything else of a referenced axis.                                   *)
<1>15. ASSUME Referenced, Certain'
       PROVE  /\ chip'.on /\ chip'.CHOPCONF.own
              /\ Agreed' \/ (Under("StartHoming") /\ h = Loud /\ ~ok)
  <2>1. Sound /\ h \in Tame
    BY <1>3, <1>5, <1>7, <1>c, <1>15 DEF Prepared
  <2>2. Agreed \/ (Under("StartHoming") /\ h = Loud)
    BY <2>1 DEF Sound, h
  <2> QED BY <1>7, <1>8, <1>c, <1>15, <2>1, <2>2 DEF Sound
<1>16. OnTrack'
  BY <1>4, <1>5 DEF OnTrack, Track
(* The call goes on. *)
<1>17. CASE (ok \/ h \in Forgiving) /\ GoesOn
  <2>1. /\ r # <<>> /\ driver'.todo = r
        /\ driver'.call = driver.call /\ driver'.phase = driver.phase
        /\ driver'.result = driver.result /\ driver'.elapsed = driver.elapsed
        /\ driver'.lag = driver.lag /\ driver'.ready = driver.ready
    BY <1>17 DEF GoesOn, r
  <2>2. /\ Under("StartHoming")' <=> Under("StartHoming")
        /\ Under("OppositeTravel")' <=> Under("OppositeTravel")
        /\ Under("Settle")' <=> Under("Settle")
        /\ Under("Failed")' <=> Under("Failed")
        /\ Under("StallDetect")' <=> Under("StallDetect")
        /\ Under("Success")' <=> Under("Success")
        /\ Under("Timeout")' <=> Under("Timeout")
    BY <2>1 DEF Under
  <2>3. Referenced' <=> Referenced
    BY <1>4, <2>1, <2>2 DEF Referenced
  <2>4. Prepared'
    BY <1>3, <1>4, <1>5, <2>1, <2>3 DEF Prepared
  <2>5. Standing'
    BY <1>3, <1>4, <1>5, <2>1 DEF Standing
  <2>6. Staged'
    BY <1>3, <1>5, <2>1, <2>2 DEF Staged
  <2>7. ASSUME Referenced', Certain' PROVE Sound'
    <3>1. Settling'
      BY <1>3, <1>11, <1>17, <2>1, <2>2, <2>7 DEF Settling
    <3>2. Settled'
      BY <1>5, <2>1 DEF Settled, Staged
    <3>3. Pressing'
      BY <1>12, <2>1, <2>2, <2>7 DEF Pressing
    <3>4. AtStop'
      BY <1>1, <1>4, <1>13, <2>1, <2>2, <2>7 DEF AtStop
    <3>5. Following'
      BY <1>4, <1>14, <2>7 DEF Following
    <3>6. chip'.on /\ chip'.CHOPCONF.own /\ Agreed'
      BY <1>9, <1>15, <1>17, <2>3, <2>7
    <3> QED BY <3>1, <3>2, <3>3, <3>4, <3>5, <3>6 DEF Sound
  <2> QED BY <1>5, <1>16, <2>1, <2>4, <2>5, <2>6, <2>7 DEF ReferenceInv
(* The call is over. *)
<1>18. CASE (ok \/ h \in Plain) /\ Ends(ok)
  <2>1. /\ driver'.todo = <<>>
        /\ driver'.lag \in {0, driver.lag} /\ driver'.elapsed \in {0, driver.elapsed}
        /\ driver.call # "Init" => driver'.ready = driver.ready
    BY <1>18 DEF Ends
  <2>2. \/ /\ driver.call = "StartHoming" /\ (ok \/ h \in Forgiving)
           /\ driver'.phase = "OppositeTravel" /\ driver'.result = driver.result
        \/ driver.call = "OppositeTravel" /\ driver'.phase = "Settle" /\ driver'.result = driver.result
        \/ driver.call = "Settle" /\ driver'.phase = "DeadTime" /\ driver'.result = driver.result
        \/ driver.call = "Failed" /\ driver'.phase = "Idle" /\ driver'.result = "Error"
        \/ driver.call \in {"Success", "Timeout"} /\ driver'.phase = "Idle" /\ driver'.result = driver.call
        \/ /\ driver.call \notin {"OppositeTravel", "Settle", "Failed", "Success", "Timeout"}
           /\ driver'.phase = driver.phase /\ driver'.result = driver.result
    BY <1>18 DEF Ends, h
  <2>3. ~Under("StartHoming")' /\ ~Under("OppositeTravel")' /\ ~Under("Settle")' /\ ~Under("Failed")'
        /\ ~Under("StallDetect")' /\ ~Under("Success")' /\ ~Under("Timeout")'
    BY <2>1 DEF Under
  <2>4. Referenced' => Referenced
    BY <1>1, <1>2, <1>4, <2>2, <2>3 DEF Referenced, Under
  <2>5. Prepared'
    <3>1. Referenced => driver.call # "Init"
      BY <1>1, <1>5 DEF Prepared
    <3>2. <<>> \in Seq(Tame)
      OBVIOUS
    <3> QED BY <1>4, <1>5, <2>1, <2>4, <3>1, <3>2 DEF Prepared
  <2>6. Standing'
    <3>1. <<>> \in Seq(Silent)
      OBVIOUS
    <3>2. known => driver'.phase = "Idle"
      BY <1>1, <1>2, <1>5, <2>2 DEF Standing
    <3> QED BY <1>4, <1>5, <2>1, <3>1, <3>2 DEF Standing
  <2>7. Staged'
    BY <1>1, <2>1, <2>2, <2>3 DEF Staged
  <2>8. ASSUME Referenced', Certain' PROVE Sound'
    <3>1. Settling'
      BY <2>3 DEF Settling
    <3>2. Settled'
      <4>1. driver'.phase = "DeadTime" => driver.call = "Settle"
        BY <1>5, <2>2 DEF Staged
      <4> QED BY <1>11, <1>18, <2>1, <2>8, <4>1 DEF Settled, Under
    <3>3. Pressing'
      <4>1. driver'.phase = "StallDetect" => driver.phase = "StallDetect" /\ Under("StallDetect")
        BY <1>5, <2>2 DEF Staged, Under
      <4> QED BY <1>12, <2>8, <4>1 DEF Pressing
    <3>4. AtStop'
      <4>1. driver'.result = "Success" => Under("Success")
        BY <1>1, <2>2 DEF Under
      <4> QED BY <1>4, <1>13, <2>3, <2>8, <4>1 DEF AtStop
    <3>5. Following'
      BY <1>4, <1>14, <2>8 DEF Following
    <3>6. chip'.on /\ chip'.CHOPCONF.own /\ Agreed'
      <4>1. Under("StartHoming") /\ h = Loud /\ ~ok => ~Referenced'
        BY <1>1, <1>2, <1>4, <1>5, <1>9, <2>2, <2>3 DEF Referenced, Under, Standing
      <4> QED BY <1>15, <2>4, <2>8, <4>1
    <3> QED BY <3>1, <3>2, <3>3, <3>4, <3>5, <3>6 DEF Sound
  <2> QED BY <1>5, <1>10, <1>16, <2>1, <2>5, <2>6, <2>7, <2>8 DEF ReferenceInv
(* The write of the homing speed has failed. *)
<1>19. CASE ~ok /\ h \notin Plain /\ GivesUp
  <2>1. /\ driver'.todo = RestoreStealthChop /\ driver'.call = "Failed"
        /\ driver'.phase = driver.phase /\ driver'.result = driver.result
        /\ driver'.lag = driver.lag /\ driver'.ready = driver.ready
    BY <1>19 DEF GivesUp
  <2>2. driver.phase = "Settle" /\ Under("Settle") /\ ~known
    <3>1. driver.phase # "Idle" /\ driver.call = "Settle"
      BY <1>1, <1>3, <1>19
    <3>2. driver.phase \in Phases
      BY DEF MotorInv, DriverTypeOK, Driver
    <3>3. driver.phase = "Settle"
      BY <1>5, <3>1, <3>2 DEF Staged, Under, Phases
    <3> QED BY <1>5, <3>1, <3>3 DEF Standing, Under
  <2>3. RestoreStealthChop \in Seq(Tame) /\ RestoreStealthChop # <<>>
    BY TameScripts, RestoreStealthChopKind, SpeedWriteType
  <2>4. Under("Failed")' /\ ~Under("StartHoming")' /\ ~Under("Settle")'
        /\ ~Under("StallDetect")' /\ ~Under("Success")'
    BY <2>1, <2>3 DEF Under
  <2>5. Referenced
    BY <2>2 DEF Referenced
  <2>6. Prepared' /\ Standing' /\ Staged'
    BY <1>1, <1>4, <1>5, <2>1, <2>2, <2>3, <2>4, <2>5 DEF Prepared, Standing, Staged
  <2>7. ASSUME Certain' PROVE Sound'
    <3>1. chip'.on /\ chip'.CHOPCONF.own /\ Agreed'
      BY <1>15, <2>2, <2>5, <2>7 DEF Under
    <3>2. Settling' /\ Settled' /\ Pressing' /\ AtStop' /\ Following'
      BY <1>1, <1>4, <2>1, <2>2, <2>4 DEF Settling, Settled, Pressing, AtStop, Following
    <3> QED BY <3>1, <3>2 DEF Sound
  <2> QED BY <1>5, <1>16, <2>1, <2>6, <2>7 DEF ReferenceInv
<1> QED BY <1>6, <1>17, <1>18, <1>19

(* Writes and reads; a success is found where the stop is.                 *)
LEMMA TransferReference ==
  ASSUME MotorInv, ReferenceInv, UNCHANGED <<vars, known>>, WriteRegister \/ ReadRegister
  PROVE  ReferenceInv'
<1>1. DriverTypeOK /\ driver \in Driver /\ chip \in Chip /\ place \in 0 .. Length
  BY DEF MotorInv, DriverTypeOK
<1>2. CASE WriteRegister
  <2>1. PICK d \in Driver, ok \in BOOLEAN :
           /\ SameCall(d, driver) /\ driver.todo # <<>> /\ driver' = Continued(d, ok)
           /\ chip' \in Chip /\ place' = place
           /\ Effect(ok) /\ Guided(d, ok)
    BY <1>1, <1>2, WriteRegisterEffect DEF Effect
  <2>2. d.elapsed = driver.elapsed /\ d.lag = driver.lag
    BY <2>1 DEF Guided
  <2>3. Outcome(ok) /\ driver'.GCONF = d.GCONF
    BY <2>1, <2>2, ContinuedOutcome
  <2> QED BY <2>1, <2>3, TransferredReference
<1>3. CASE ReadRegister
  <2>1. /\ driver.todo # <<>> /\ Head(driver.todo) \in Silent /\ Head(driver.todo) # Hush
        /\ UNCHANGED <<chip, place>> /\ history'.asked = history.asked
        /\ history'.lost = history.lost /\ history'.clean = history.clean
    BY <1>1, <1>3, ReadRegisterEffect
  <2>2. \A ok : Effect(ok)
    BY <2>1 DEF Effect, Lost, Silent, SpeedWrites
  <2>3. CASE \E d \in Driver, ok \in BOOLEAN :
               SameCall(d, driver) /\ driver' = Continued(d, ok) /\ Guided(d, ok)
    <3>1. PICK d \in Driver, ok \in BOOLEAN :
             SameCall(d, driver) /\ driver' = Continued(d, ok) /\ Guided(d, ok)
      BY <2>3
    <3>2. d.elapsed = driver.elapsed /\ d.lag = driver.lag
      BY <3>1 DEF Guided
    <3>3. Outcome(ok) /\ driver'.GCONF = d.GCONF
      BY <2>1, <3>1, <3>2, ContinuedOutcome
    <3> QED BY <1>1, <2>1, <2>2, <3>1, <3>3, TransferredReference
  <2>4. CASE driver.call = "StallDetect" /\ driver' = Returns(driver, TRUE) /\ Guided(driver, TRUE)
    <3> DEFINE yes == TRUE
    <3>1. yes \in BOOLEAN /\ yes /\ driver' = Returns(driver, yes) /\ Guided(driver, yes)
      BY <2>4
    <3> HIDE DEF yes
    <3>2. SameCall(driver, driver)
      BY DEF SameCall
    <3>3. Ends(yes) /\ driver'.GCONF = driver.GCONF
      BY <1>1, <3>1, <3>2, EndsOutcome
    <3>4. Outcome(yes)
      BY <3>1, <3>3 DEF Outcome
    <3> QED BY <1>1, <2>1, <2>2, <3>1, <3>3, <3>4, TransferredReference
  <2>5. CASE \E call \in {"Success", "Timeout"} :
               /\ driver.call = "StallDetect"
               /\ driver' = [driver EXCEPT !.call = call, !.todo = EndHoming]
               /\ call = "Success" => TRUE \in Loads
    <3>1. PICK call \in {"Success", "Timeout"} :
               /\ driver.call = "StallDetect"
               /\ driver' = [driver EXCEPT !.call = call, !.todo = EndHoming]
               /\ call = "Success" => TRUE \in Loads
      BY <2>5
    <3>2. /\ driver'.call = call /\ driver'.todo = EndHoming /\ driver'.phase = driver.phase
          /\ driver'.result = driver.result /\ driver'.lag = driver.lag /\ driver'.ready = driver.ready
          /\ driver'.GCONF = driver.GCONF
      BY <1>1, <3>1 DEF Driver
    <3>3. EndHoming \in Seq(Tame) /\ EndHoming \in Seq(Halting) /\ EndHoming # <<>>
      BY TameScripts, EndHomingKind, SpeedWriteType
    <3>4. driver.phase = "StallDetect" /\ Under("StallDetect") /\ ~known /\ Referenced
      <4>1. driver.phase # "Idle"
        BY <2>1, <3>1, WhoCalls DEF Services, Drives
      <4>2. driver.phase \in Phases
        BY <1>1 DEF Driver
      <4> QED BY <2>1, <3>1, <4>1, <4>2 DEF ReferenceInv, Staged, Standing, Under, Phases, Referenced
    <3>5. /\ axis' = axis /\ thread' = thread /\ known' = known /\ chip' = chip /\ place' = place
          /\ history'.asked = history.asked /\ history'.clean = history.clean
      BY <2>1 DEF vars
    <3>6. ~Under("StartHoming")' /\ ~Under("Settle")' /\ ~Under("StallDetect")'
          /\ (Under("Success")' <=> call = "Success") /\ (Under("Timeout")' <=> call = "Timeout")
      BY <3>1, <3>2, <3>3 DEF Under
    <3>7. Prepared' /\ Standing' /\ Staged' /\ OnTrack' /\ driver'.lag <= MaxLag
      BY <3>1, <3>2, <3>3, <3>4, <3>5, <3>6
         DEF ReferenceInv, Prepared, Standing, Staged, OnTrack, Track
    <3>8. ASSUME Certain' PROVE Sound'
      <4>1. Sound /\ Driven /\ chip.age = SgSettling /\ Agreed
        BY <3>4, <3>5, <3>8 DEF ReferenceInv, Sound, Pressing, Under, Certain
      <4>2. call = "Success" => place = Stop
        <5> SUFFICES ASSUME call = "Success" PROVE place = Stop
          OBVIOUS
        <5>1. Length \in Nat /\ HomingSpeed \in {-1, 1}
          BY HomingAssumption
        <5>2. Turning
          BY <4>1, <5>1 DEF Sound, Driven, Turning
        <5>3. Blocked
          BY <3>1, <4>1, <5>2 DEF Loads
        <5>4. Moved(HomingSpeed) = place
          BY <4>1, <5>3 DEF Blocked, Driven
        <5> QED BY <1>1, <5>1, <5>4 DEF Moved, Clamped, Stop, Sense
      <4>3. Sense' = Sense /\ Stop' = Stop /\ Agreed'
        BY <3>2, <3>5, <4>1 DEF Sense, Stop, Agreed
      <4>4. AtStop'
        <5>1. driver.result # "Success"
          BY <3>4 DEF ReferenceInv, Staged
        <5> QED BY <3>2, <3>5, <3>6, <4>1, <4>2, <4>3, <5>1 DEF AtStop, Driven
      <4>5. Settling' /\ Settled' /\ Pressing' /\ Following'
        BY <3>2, <3>3, <3>4, <3>5, <3>6 DEF Settling, Settled, Pressing, Following
      <4> QED BY <3>5, <4>1, <4>3, <4>4, <4>5 DEF Sound
    <3> QED BY <3>7, <3>8 DEF ReferenceInv
  <2> QED BY <1>1, <1>3, <2>3, <2>4, <2>5, ReadRegisterEffect
<1> QED BY <1>2, <1>3

(* What a call begins with, of any script. *)
LEMMA BeginsFields ==
  ASSUME driver \in Driver, NEW call, NEW script, NEW blocking, Begins(call, script, blocking)
  PROVE  /\ driver.todo = <<>> /\ driver.phase = "Idle" /\ place' = place
         /\ driver'.call = call /\ driver'.todo = script /\ driver'.phase = "Idle"
         /\ driver'.result = "none" /\ driver'.lag = driver.lag /\ driver'.GCONF = driver.GCONF
         /\ call # "Init" => driver'.ready = driver.ready
<1> DEFINE ready == driver.ready /\ call # "Init"
<1>1. driver' = [driver EXCEPT !.call = call, !.todo = script, !.blocking = blocking,
                               !.result = "none", !.ready = ready] /\ place' = place
  BY DEF Begins
<1>2. call # "Init" => ready = driver.ready
  BY DEF Driver
<1> HIDE DEF ready
<1> QED BY <1>1, <1>2 DEF Begins, Driver

(* A call that is not referenced keeps it, whatever it does.               *)
LEMMA BeginsUnreferenced ==
  ASSUME driver \in Driver, ReferenceInv, UNCHANGED vars, ~axis.running, thread.at = "idle",
         known' = FALSE, NEW call, call \notin {"StartHoming", "StallDetect", "Success"},
         NEW script, NEW blocking, Begins(call, script, blocking)
  PROVE  ReferenceInv'
<1>1. /\ driver'.call = call /\ driver'.phase = "Idle" /\ driver'.result = "none"
      /\ driver'.lag = driver.lag
  BY BeginsFields
<1>2. axis' = axis /\ thread' = thread
  BY DEF vars
<1>3. ~Under("StartHoming")' /\ ~Under("StallDetect")' /\ ~Under("Success")'
  BY <1>1 DEF Under
<1>4. ~Referenced'
  BY <1>1, <1>3 DEF Referenced
<1> QED BY <1>1, <1>2, <1>3, <1>4 DEF ReferenceInv, Prepared, Standing, Staged, OnTrack, Track

(* The calls. *)
LEMMA CallReference ==
  ASSUME MotorInv, ReferenceInv, CallsDriver
  PROVE  ReferenceInv'
<1>1. driver \in Driver /\ history \in History /\ chip \in Chip
  BY DEF MotorInv, DriverTypeOK
<1>2. UNCHANGED vars /\ axis' = axis /\ thread' = thread
  BY DEF CallsDriver, vars
<1> DEFINE no == FALSE
<1>3. \A call, script : Calls(call, script) => Begins(call, script, no)
  BY DEF Calls
<1> HIDE DEF no
<1>4. CASE Service /\ known' = known
  <2>1. chip' = chip /\ driver.ready /\ Asks(history.asked)
    BY <1>4 DEF Service
  <2>2. PICK call \in Services, script \in {EnableCoolStep, LogCoolStepRuntimeStatus,
           PrintPrettyFullSystemState, Sets(<<"IHOLD_IRUN">>, "abort")} : Begins(call, script, no)
    BY <1>3, <1>4 DEF Service, Services
  <2>3. script \in Seq(Tame) /\ script \in Seq(Silent)
    BY <2>2, TameScripts, ServiceKind, EnableCoolStepKind
  <2>4. /\ driver.todo = <<>> /\ driver.phase = "Idle" /\ place' = place
        /\ driver'.call = call /\ driver'.todo = script /\ driver'.phase = "Idle"
        /\ driver'.result = "none" /\ driver'.lag = driver.lag /\ driver'.GCONF = driver.GCONF
        /\ call # "Init" => driver'.ready = driver.ready
    BY <1>1, <2>2, BeginsFields
  <2>5. /\ history'.asked = history.asked /\ history'.clean = history.clean
        /\ history'.lost = history.lost
    BY <1>1, <2>1 DEF Asks, History
  <2>6. call \notin {"Init", "StartHoming", "Settle", "StallDetect", "Success"}
    BY <2>2 DEF Services
  <2>7. ~Under("StartHoming")' /\ ~Under("Settle")' /\ ~Under("StallDetect")' /\ ~Under("Success")'
    BY <2>4, <2>6 DEF Under
  <2>8. Referenced' <=> known
    BY <1>4, <2>4, <2>7 DEF Referenced
  <2>9. Prepared'
    BY <2>3, <2>4, <2>5, <2>6, <2>8 DEF ReferenceInv, Prepared, Referenced
  <2>10. Standing' /\ Staged' /\ OnTrack' /\ driver'.lag <= MaxLag
    BY <1>2, <1>4, <2>2, <2>3, <2>4, <2>7 DEF ReferenceInv, Standing, Staged, OnTrack, Track
  <2>11. ASSUME Referenced', Certain' PROVE Sound'
    <3>1. Sound /\ Agreed /\ Following /\ known
      BY <2>1, <2>4, <2>5, <2>8, <2>11 DEF ReferenceInv, Referenced, Sound, Under, Certain
    <3>2. Agreed' /\ Following'
      BY <1>2, <1>4, <2>1, <2>4, <2>5, <3>1 DEF Agreed, Following, Lost, Sense, Stop
    <3>3. Settling' /\ Settled' /\ Pressing' /\ AtStop'
      BY <1>4, <2>4, <2>7, <3>1 DEF Settling, Settled, Pressing, AtStop
    <3> QED BY <2>1, <3>1, <3>2, <3>3 DEF Sound
  <2> QED BY <2>9, <2>10, <2>11 DEF ReferenceInv
<1>5. CASE known' = FALSE /\ ~axis.running /\ (Initialise \/ Displace)
  <2>1. \E call : /\ call \notin {"StartHoming", "StallDetect", "Success"}
                  /\ \E script : Begins(call, script, no)
    <3>1. CASE Initialise
      <4>1. PICK setup \in Setups : Calls("Init", InitForNormalSpeedAndUartBasedOperation(setup))
        BY <3>1 DEF Initialise
      <4> QED BY <1>3, <4>1
    <3>2. CASE Displace
      <4>1. \/ \E reversed \in BOOLEAN :
                  Calls("ShaftTurnReversed", <<Write("GCONF", [shaft |-> reversed], "ignore")>>)
            \/ \E speed \in {0, 1} : Calls("GenerateSteps", GenerateSteps(speed, "abort"))
            \/ Calls("PerformStealthChopAutoTuning", PerformStealthChopAutoTuning)
            \/ Calls("none", <<>>)
        BY <3>2 DEF Displace
      <4> QED BY <1>3, <4>1
    <3> QED BY <1>5, <3>1, <3>2
  <2> QED BY <1>1, <1>2, <1>5, <2>1, BeginsUnreferenced DEF CallsDriver
<1>6. CASE known' = FALSE /\ ~axis.running /\ StartHoming
  <2> DEFINE yes == TRUE
  <2>1. PICK fail \in {"abort", "ignore"}, blocking \in BOOLEAN :
           Begins("StartHoming", EnableCoolStep \o GenerateSteps(-HomingSpeed, fail), blocking)
    <3>1. no \in BOOLEAN /\ yes \in BOOLEAN
      BY DEF no
    <3>2. \A script : Begins("StartHoming", script, TRUE) <=> Begins("StartHoming", script, yes)
      OBVIOUS
    <3> HIDE DEF yes
    <3> QED BY <1>3, <1>6, <3>1, <3>2 DEF StartHoming
  <2> DEFINE script == EnableCoolStep \o GenerateSteps(-HomingSpeed, fail)
  <2>2. script \in Seq(Tame) /\ Head(script) = Loud /\ script # <<>>
    BY TameStart, StartHomingKind, SpeedWriteType
  <2> HIDE DEF script
  <2>3. Begins("StartHoming", script, blocking)
    BY <2>1 DEF script
  <2>4. /\ driver'.call = "StartHoming" /\ driver'.todo = script /\ driver'.phase = "Idle"
        /\ driver'.result = "none" /\ driver'.lag = driver.lag /\ driver'.ready = driver.ready
    BY <1>1, <2>3, BeginsFields
  <2>5. /\ driver.ready /\ chip.on /\ history.asked = 0 /\ chip' = chip
        /\ history'.asked = 0 /\ (Certain' => chip.CHOPCONF.own)
    BY <1>1, <1>6 DEF StartHoming, History, Certain
  <2>6. Under("StartHoming")' /\ ~Under("Settle")' /\ ~Under("StallDetect")' /\ ~Under("Success")'
    BY <2>2, <2>4 DEF Under
  <2>7. Prepared'
    BY <2>2, <2>4, <2>5 DEF Prepared
  <2>8. Standing' /\ Staged' /\ OnTrack' /\ driver'.lag <= MaxLag
    BY <1>2, <1>6, <2>4, <2>6
       DEF CallsDriver, ReferenceInv, Standing, Staged, OnTrack, Track
  <2>9. ASSUME Certain' PROVE Sound'
    <3>1. Settling' /\ Settled' /\ Pressing' /\ AtStop' /\ Following'
      BY <1>6, <2>4, <2>6 DEF Settling, Settled, Pressing, AtStop, Following
    <3> QED BY <2>2, <2>4, <2>5, <2>6, <2>9, <3>1 DEF Sound
  <2> QED BY <2>7, <2>8, <2>9 DEF ReferenceInv
<1> QED BY <1>4, <1>5, <1>6 DEF CallsDriver

(* The ticks of a homing. *)
LEMMA TickReference ==
  ASSUME MotorInv, ReferenceInv, UNCHANGED <<vars, known>>, TickHoming
  PROVE  ReferenceInv'
<1>1. /\ driver \in Driver /\ chip \in Chip /\ driver.todo = <<>> /\ driver.phase # "Idle"
      /\ chip' = chip /\ place' = place /\ history' = history
      /\ axis' = axis /\ thread' = thread /\ known' = known
  BY DEF MotorInv, DriverTypeOK, TickHoming, vars
<1>2. Prepared /\ Standing /\ Staged /\ OnTrack /\ ~known /\ Referenced
      /\ (Certain => Sound)
  BY <1>1 DEF ReferenceInv, Standing, Referenced
<1>3. driver.ready /\ history.asked = 0 /\ <<>> \in Seq(Tame)
  BY <1>2 DEF Prepared
<1>4. PICK age \in IF driver.blocking THEN {0} ELSE Stale :
         /\ driver.phase = "OppositeTravel" \/ age <= driver.elapsed
         /\ LET now == [driver EXCEPT !.lag = 0, !.result = "InProgress"]
                begun == Starts(now, age)
            IN  driver' =
             CASE driver.phase = "OppositeTravel" /\ Due(age, TravelOpposite) ->
                    [begun EXCEPT !.call = "OppositeTravel", !.todo = GenerateSteps(0, "ignore")]
               [] driver.phase = "Settle" /\ Due(age, SettlePause) ->
                    [begun EXCEPT !.call = "Settle", !.todo = GenerateSteps(HomingSpeed, "restore")]
               [] driver.phase = "DeadTime" /\ Due(age, DeadTime) ->
                    [begun EXCEPT !.phase = "StallDetect"]
               [] driver.phase = "StallDetect" /\ driver.blocking /\ Due(age, Timeout) ->
                    [now EXCEPT !.call = "Timeout", !.todo = EndHoming]
               [] driver.phase = "StallDetect" ->
                    [now EXCEPT !.call = "StallDetect", !.overdue = Due(age, Timeout),
                                !.todo = Reads(<<"SG_RESULT">>)]
               [] OTHER -> now
  BY DEF TickHoming
<1> DEFINE now == [driver EXCEPT !.lag = 0, !.result = "InProgress"]
           begun == Starts(now, age)
           overdue == Due(age, Timeout)
           due == Due(age, DeadTime)
<1>5. age \in Ages /\ age \in Nat
  BY <1>4, HomingAssumption DEF Ages
<1>6. /\ now.todo = <<>> /\ now.phase = driver.phase /\ now.elapsed = driver.elapsed
      /\ begun.todo = <<>> /\ begun.phase = driver.phase /\ begun.elapsed = age
      /\ \A d \in {now, begun} : /\ d.result = "InProgress" /\ d.lag = 0 /\ d.ready = driver.ready
                                 /\ d.GCONF = driver.GCONF
                                 /\ {"call", "todo", "phase", "overdue"} \subseteq DOMAIN d
  BY <1>1 DEF Driver, Starts
<1>7. \/ /\ driver.phase = "OppositeTravel"
         /\ driver' = [begun EXCEPT !.call = "OppositeTravel", !.todo = GenerateSteps(0, "ignore")]
      \/ /\ driver.phase = "Settle"
         /\ driver' = [begun EXCEPT !.call = "Settle", !.todo = GenerateSteps(HomingSpeed, "restore")]
      \/ driver.phase = "DeadTime" /\ due /\ driver' = [begun EXCEPT !.phase = "StallDetect"]
      \/ driver.phase = "StallDetect" /\ driver' = [now EXCEPT !.call = "Timeout", !.todo = EndHoming]
      \/ /\ driver.phase = "StallDetect"
         /\ driver' = [now EXCEPT !.call = "StallDetect", !.overdue = overdue, !.todo = Reads(<<"SG_RESULT">>)]
      \/ driver' = now /\ driver.phase # "StallDetect"
  BY <1>4
<1>8. due /\ driver.phase = "DeadTime" => driver.elapsed - age >= DeadTime
  <2>1. driver.phase = "OppositeTravel" \/ age <= driver.elapsed
    BY <1>4
  <2>2. driver.elapsed \in Nat
    BY <1>1 DEF Driver
  <2> QED BY <1>5, <2>1, <2>2 DEF Due
<1> HIDE DEF now, begun, overdue, due
<1>9. ASSUME driver'.phase \in Phases \ {"Idle"}, driver'.result = "InProgress", driver'.lag = 0,
             driver'.ready = driver.ready, driver'.GCONF = driver.GCONF,
             driver'.todo \in Seq(Tame), Staged', ~Under("Success")',
             Certain => Settling' /\ Settled' /\ Pressing'
      PROVE  ReferenceInv'
  <2>1. Prepared' /\ Standing' /\ OnTrack' /\ driver'.lag <= MaxLag
    <3>1. 0 <= MaxLag
      BY HomingAssumption
    <3> QED BY <1>1, <1>2, <1>3, <1>9, <3>1 DEF Prepared, Standing, OnTrack, Track
  <2>2. ASSUME Certain PROVE Sound'
    <3>1. Sound /\ Agreed
      BY <1>1, <1>2, <2>2 DEF Sound, Under
    <3>2. Agreed' /\ AtStop' /\ Following'
      BY <1>1, <1>2, <1>9, <3>1 DEF Agreed, AtStop, Following
    <3> QED BY <1>1, <1>9, <2>2, <3>1, <3>2 DEF Sound
  <2> QED BY <1>1, <1>9, <2>1, <2>2 DEF ReferenceInv, Certain
<1>10. CASE /\ driver.phase = "OppositeTravel"
            /\ driver' = [begun EXCEPT !.call = "OppositeTravel", !.todo = GenerateSteps(0, "ignore")]
  <2>1. GenerateSteps(0, "ignore") \in Seq(Tame) /\ GenerateSteps(0, "ignore") # <<>>
    <3>1. 0 \in -1 .. 1 /\ "ignore" \in Fails
      BY DEF Fails
    <3> QED BY <3>1, TameGenerateSteps, GenerateStepsKind, SpeedWriteType
  <2>2. /\ driver'.call = "OppositeTravel" /\ driver'.todo = GenerateSteps(0, "ignore")
        /\ driver'.phase = "OppositeTravel" /\ driver'.result = "InProgress" /\ driver'.lag = 0
        /\ driver'.ready = driver.ready /\ driver'.GCONF = driver.GCONF
    BY <1>6, <1>10
  <2>3. Under("OppositeTravel")' /\ ~Under("Settle")' /\ ~Under("StallDetect")' /\ ~Under("Success")'
    BY <2>1, <2>2 DEF Under
  <2>4. Staged' /\ Settling' /\ Settled' /\ Pressing'
    BY <2>2, <2>3 DEF Staged, Settling, Settled, Pressing
  <2> QED BY <1>9, <2>1, <2>2, <2>3, <2>4 DEF Phases
<1>11. CASE /\ driver.phase = "Settle"
            /\ driver' = [begun EXCEPT !.call = "Settle", !.todo = GenerateSteps(HomingSpeed, "restore")]
  <2> DEFINE script == GenerateSteps(HomingSpeed, "restore")
  <2>1. script \in Seq(Tame) /\ script # <<>> /\ Approaches(script)
    <3>1. HomingSpeed \in -1 .. 1 /\ "restore" \in Fails
      BY HomingAssumption DEF Fails
    <3> QED BY <3>1, TameGenerateSteps, GenerateStepsKind, SpeedWriteType
  <2> HIDE DEF script
  <2>2. /\ driver'.call = "Settle" /\ driver'.todo = script
        /\ driver'.phase = "Settle" /\ driver'.result = "InProgress" /\ driver'.lag = 0
        /\ driver'.ready = driver.ready /\ driver'.GCONF = driver.GCONF /\ driver'.elapsed = age
    BY <1>6, <1>11 DEF script
  <2>3. Under("Settle")' /\ ~Under("StallDetect")' /\ ~Under("Success")'
    BY <2>1, <2>2 DEF Under
  <2>4. Early'
    BY <1>5, <2>2 DEF Early, Ages
  <2>5. Settling'
    BY <2>1, <2>2, <2>4 DEF Settling
  <2>6. Staged' /\ Settled' /\ Pressing'
    BY <2>2, <2>3 DEF Staged, Settled, Pressing
  <2> QED BY <1>9, <2>1, <2>2, <2>3, <2>5, <2>6 DEF Phases
<1>12. CASE driver.phase = "DeadTime" /\ due /\ driver' = [begun EXCEPT !.phase = "StallDetect"]
  <2>1. /\ driver'.todo = <<>>
        /\ driver'.phase = "StallDetect" /\ driver'.result = "InProgress" /\ driver'.lag = 0
        /\ driver'.ready = driver.ready /\ driver'.GCONF = driver.GCONF
    BY <1>6, <1>12
  <2>2. ~Under("Settle")' /\ ~Under("StallDetect")' /\ ~Under("Success")'
    BY <2>1 DEF Under
  <2>3. Staged' /\ Settling' /\ Settled'
    BY <2>1, <2>2 DEF Staged, Settling, Settled
  <2>4. ASSUME Certain PROVE Pressing'
    <3>1. Driven /\ Ripening
      BY <1>2, <1>12, <2>4 DEF Sound, Settled
    <3>2. chip.age = SgSettling
      <4>1. chip.age \in 0 .. SgSettling /\ SgSettling \in Nat /\ driver.elapsed \in Nat
            /\ MaxLag \in Nat /\ DeadTime \in Nat
        BY <1>1, HomingAssumption DEF Chip, Driver
      <4>2. ASSUME NEW a \in Ages, driver.elapsed <= chip.age + a + MaxLag
            PROVE  chip.age = SgSettling
        <5>1. SgSettling + a + MaxLag <= DeadTime /\ a \in Nat
          BY <4>2, HomingAssumption DEF Ages
        <5>2. driver.elapsed - age >= DeadTime
          BY <1>8, <1>12
        <5> QED BY <1>5, <4>1, <4>2, <5>1, <5>2
      <4> QED BY <3>1, <4>2 DEF Ripening
    <3> QED BY <1>1, <3>1, <3>2 DEF Pressing, Driven
  <2> QED BY <1>3, <1>9, <2>1, <2>2, <2>3, <2>4 DEF Phases
<1>13. CASE driver.phase = "StallDetect" /\ driver' = [now EXCEPT !.call = "Timeout", !.todo = EndHoming]
  <2>1. EndHoming \in Seq(Tame) /\ EndHoming # <<>>
    BY TameScripts, EndHomingKind, SpeedWriteType
  <2>2. /\ driver'.call = "Timeout" /\ driver'.todo = EndHoming
        /\ driver'.phase = "StallDetect" /\ driver'.result = "InProgress" /\ driver'.lag = 0
        /\ driver'.ready = driver.ready /\ driver'.GCONF = driver.GCONF
    BY <1>6, <1>13
  <2>3. Under("Timeout")' /\ ~Under("Settle")' /\ ~Under("StallDetect")' /\ ~Under("Success")'
    BY <2>1, <2>2 DEF Under
  <2>4. Staged' /\ Settling' /\ Settled' /\ Pressing'
    BY <2>1, <2>2, <2>3 DEF Staged, Settling, Settled, Pressing
  <2> QED BY <1>9, <2>1, <2>2, <2>3, <2>4 DEF Phases
<1>14. CASE /\ driver.phase = "StallDetect"
            /\ driver' = [now EXCEPT !.call = "StallDetect", !.overdue = overdue,
                                     !.todo = Reads(<<"SG_RESULT">>)]
  <2> DEFINE script == Reads(<<"SG_RESULT">>)
  <2>1. script \in Seq(Tame) /\ script \in Seq(Calm) /\ script # <<>>
    <3>1. "SG_RESULT" \in Registers
      BY DEF Registers
    <3>2. <<"SG_RESULT">> \in Seq(Registers) /\ <<"SG_RESULT">> # <<>>
      BY <3>1, Tuples
    <3> QED BY <3>2, TameScripts, ReadsKind
  <2> HIDE DEF script
  <2>2. /\ driver'.call = "StallDetect" /\ driver'.todo = script
        /\ driver'.phase = "StallDetect" /\ driver'.result = "InProgress" /\ driver'.lag = 0
        /\ driver'.ready = driver.ready /\ driver'.GCONF = driver.GCONF
    BY <1>6, <1>14 DEF script
  <2>3. Under("StallDetect")' /\ ~Under("Settle")' /\ ~Under("Success")'
    BY <2>1, <2>2 DEF Under
  <2>4. Staged' /\ Settling' /\ Settled'
    BY <2>1, <2>2, <2>3 DEF Staged, Settling, Settled
  <2>5. Certain => Pressing'
    BY <1>1, <1>2, <1>14 DEF Sound, Pressing, Driven
  <2> QED BY <1>9, <2>1, <2>2, <2>3, <2>4, <2>5 DEF Phases
<1>15. CASE driver' = now /\ driver.phase # "StallDetect"
  <2>1. /\ driver'.todo = <<>> /\ driver'.phase = driver.phase /\ driver'.elapsed = driver.elapsed
        /\ driver'.result = "InProgress" /\ driver'.lag = 0
        /\ driver'.ready = driver.ready /\ driver'.GCONF = driver.GCONF
    BY <1>6, <1>15
  <2>2. ~Under("Settle")' /\ ~Under("StallDetect")' /\ ~Under("Success")'
    BY <2>1 DEF Under
  <2>3. Staged' /\ Settling' /\ Pressing'
    BY <1>15, <2>1, <2>2 DEF Staged, Settling, Pressing
  <2>4. Certain => Settled'
    BY <1>1, <1>2, <2>1 DEF Sound, Settled, Driven, Ripening, Ages
  <2>5. driver'.phase \in Phases \ {"Idle"}
    BY <1>1, <2>1 DEF Driver
  <2> QED BY <1>3, <1>9, <2>1, <2>2, <2>3, <2>4, <2>5
<1> QED BY <1>7, <1>10, <1>11, <1>12, <1>13, <1>14, <1>15

(* While time passes the carriage stays at the stop that it is pressed     *)
(* against, and the speed settles at least as fast as the phase counts.    *)
LEMMA TimeReference ==
  ASSUME MotorInv, ReferenceInv, UNCHANGED <<vars, known>>, TimePasses
  PROVE  ReferenceInv'
<1>1. /\ driver \in Driver /\ chip \in Chip /\ place \in 0 .. Length
      /\ history' = history /\ axis' = axis /\ thread' = thread /\ known' = known
      /\ SgSettling \in Nat /\ MaxElapsed \in Nat /\ MaxLag \in Nat /\ Length \in Nat
  BY HomingAssumption DEF MotorInv, DriverTypeOK, TimePasses, vars
<1>2. Prepared /\ Standing /\ Staged /\ OnTrack /\ driver.lag <= MaxLag
      /\ (Referenced /\ Certain => Sound)
  BY DEF ReferenceInv
<1>3. /\ chip'.VACTUAL = chip.VACTUAL /\ chip'.GCONF = chip.GCONF /\ chip'.on = chip.on
      /\ chip'.CHOPCONF = chip.CHOPCONF /\ chip'.age \in 0 .. SgSettling
      /\ chip'.age = (IF chip.age < SgSettling THEN chip.age + 1 ELSE chip.age)
  <2> DEFINE age == IF chip.age < SgSettling THEN chip.age + 1 ELSE chip.age
  <2>1. age \in 0 .. SgSettling
    BY <1>1 DEF Chip
  <2>2. chip' = [chip EXCEPT !.age = age]
    BY DEF TimePasses
  <2> HIDE DEF age
  <2>3. /\ chip'.VACTUAL = chip.VACTUAL /\ chip'.GCONF = chip.GCONF /\ chip'.on = chip.on
        /\ chip'.CHOPCONF = chip.CHOPCONF /\ chip'.age = age
    BY <1>1, <2>2 DEF Chip
  <2> QED BY <2>1, <2>3 DEF age
<1>4. /\ driver'.todo = driver.todo /\ driver'.call = driver.call /\ driver'.phase = driver.phase
      /\ driver'.result = driver.result /\ driver'.ready = driver.ready
      /\ driver'.GCONF = driver.GCONF /\ driver'.lag <= MaxLag
      /\ driver'.elapsed \in Nat /\ driver'.lag \in Nat
      /\ \/ driver'.elapsed <= driver.elapsed /\ driver'.lag = driver.lag
         \/ driver'.elapsed <= driver.elapsed + 1 /\ driver'.lag = driver.lag + 1
  <2>1. CASE driver.phase = "Idle"
    BY <1>1, <1>2, <2>1 DEF TimePasses, Driver
  <2>2. CASE driver.phase # "Idle"
    <3> DEFINE elapsed == IF driver.elapsed < MaxElapsed THEN driver.elapsed + 1 ELSE driver.elapsed
               lag == driver.lag + 1
    <3>1. driver.elapsed \in Nat /\ driver.lag \in Nat /\ driver.lag < MaxLag
      BY <1>1, <2>2 DEF Driver, TimePasses
    <3>2. elapsed \in Nat /\ elapsed <= driver.elapsed + 1 /\ lag \in Nat /\ lag <= MaxLag
      BY <1>1, <3>1
    <3>3. driver' = [driver EXCEPT !.elapsed = elapsed, !.lag = lag]
      BY <2>2 DEF TimePasses
    <3>4. lag = driver.lag + 1
      OBVIOUS
    <3> HIDE DEF elapsed, lag
    <3>5. /\ driver'.todo = driver.todo /\ driver'.call = driver.call /\ driver'.phase = driver.phase
          /\ driver'.result = driver.result /\ driver'.ready = driver.ready
          /\ driver'.GCONF = driver.GCONF /\ driver'.elapsed = elapsed /\ driver'.lag = lag
      BY <1>1, <3>3 DEF Driver
    <3> QED BY <3>2, <3>4, <3>5
  <2> QED BY <2>1, <2>2
<1>5. /\ Under("StartHoming")' <=> Under("StartHoming")
      /\ Under("OppositeTravel")' <=> Under("OppositeTravel")
      /\ Under("Settle")' <=> Under("Settle")
      /\ Under("Failed")' <=> Under("Failed")
      /\ Under("StallDetect")' <=> Under("StallDetect")
      /\ Under("Success")' <=> Under("Success")
      /\ Under("Timeout")' <=> Under("Timeout")
  BY <1>4 DEF Under
<1>6. Referenced' <=> Referenced
  BY <1>1, <1>4, <1>5 DEF Referenced
<1>7. Prepared' /\ Standing' /\ Staged' /\ OnTrack'
  BY <1>1, <1>2, <1>4, <1>5, <1>6 DEF Prepared, Standing, Staged, OnTrack, Track
<1>8. /\ Driven' <=> Driven
      /\ Agreed' <=> Agreed
      /\ Sense' = Sense /\ Stop' = Stop
      /\ Lost("VACTUAL")' <=> Lost("VACTUAL")
  BY <1>1, <1>3, <1>4 DEF Driven, Agreed, Sense, Stop, Lost
<1>9. /\ driver.elapsed \in Nat /\ driver.lag \in Nat /\ chip.age \in 0 .. SgSettling
      /\ \A age \in Ages : age \in Nat
  BY <1>1, HomingAssumption DEF Driver, Chip, Ages
<1>10. Ripening => Ripening'
  <2>1. CASE chip.age = SgSettling
    BY <1>1, <1>3, <1>9, <2>1 DEF Ripening
  <2>2. ASSUME NEW age \in Ages, driver.elapsed <= chip.age + age + MaxLag, chip.age # SgSettling
        PROVE  Ripening'
    <3>1. chip'.age = chip.age + 1
      BY <1>1, <1>3, <1>9, <2>2
    <3>2. driver'.elapsed <= chip'.age + age + MaxLag
      BY <1>1, <1>4, <1>9, <2>2, <3>1
    <3> QED BY <3>2 DEF Ripening, Ages
  <2> QED BY <2>1, <2>2 DEF Ripening
<1>11. Early => Early'
  <2>1. ASSUME NEW age \in Ages, driver.elapsed <= age + driver.lag
        PROVE  driver'.elapsed <= age + driver'.lag
    BY <1>4, <1>9, <2>1
  <2> QED BY <2>1 DEF Early, Ages
<1>12. ASSUME Referenced, Certain PROVE Sound'
  <2>1. Sound
    BY <1>2, <1>12
  <2>2. chip'.on /\ chip'.CHOPCONF.own
        /\ (Agreed' \/ (Under("StartHoming")' /\ Head(driver'.todo) = Loud))
    BY <1>3, <1>4, <1>5, <1>8, <2>1 DEF Sound
  <2>3. Settling'
    BY <1>4, <1>5, <1>8, <1>10, <1>11, <2>1 DEF Sound, Settling
  <2>4. Settled'
    BY <1>4, <1>8, <1>10, <2>1 DEF Sound, Settled
  <2>5. Pressing'
    <3>1. chip.age = SgSettling => chip'.age = SgSettling
      BY <1>1, <1>3
    <3> QED BY <1>4, <1>5, <1>8, <2>1, <3>1 DEF Sound, Pressing
  <2>6. AtStop'
    <3> SUFFICES ASSUME ~known, Under("Success") \/ driver.result = "Success"
                 PROVE  place' = Stop' /\ chip'.VACTUAL.v \in {0, HomingSpeed}
      BY <1>1, <1>4, <1>5 DEF AtStop
    <3>1. place = Stop /\ chip.VACTUAL.v \in {0, HomingSpeed} /\ chip.CHOPCONF.own
      BY <2>1 DEF Sound, AtStop
    <3>2. place' = place
      <4>1. CASE ~Turning
        BY <4>1 DEF TimePasses
      <4>2. CASE Turning
        <5>1. chip.VACTUAL.v = HomingSpeed
          BY <3>1, <4>2 DEF Turning
        <5>2. place' = Moved(HomingSpeed)
          BY <3>1, <4>2, <5>1 DEF TimePasses, Places
        <5>3. HomingSpeed \in {-1, 1}
          BY HomingAssumption
        <5>4. Moved(HomingSpeed) = place
          BY <1>1, <3>1, <5>3 DEF Moved, Clamped, Stop, Sense
        <5> QED BY <5>2, <5>4
      <4> QED BY <4>1, <4>2
    <3> QED BY <1>3, <1>8, <3>1, <3>2
  <2>7. Following'
    <3> SUFFICES ASSUME known, ~Lost("VACTUAL")
                 PROVE  chip'.VACTUAL.v = 0 /\ axis'.position = Sense' * (place' - Stop')
      BY <1>1, <1>8 DEF Following
    <3>1. chip.VACTUAL.v = 0 /\ driver.phase = "Idle"
      BY <1>2, <2>1 DEF Sound, Following, Standing
    <3> QED BY <3>1 DEF TimePasses, Turning
  <2> QED BY <2>2, <2>3, <2>4, <2>5, <2>6, <2>7 DEF Sound
<1> QED BY <1>1, <1>3, <1>4, <1>6, <1>7, <1>12 DEF ReferenceInv, Certain

(* After a homing the caller sets the position at the stop.                *)
LEMMA HomedReference ==
  ASSUME TypeOK, MotorInv, ReferenceInv, Homed
  PROVE  ReferenceInv'
<1>1. /\ driver' = driver /\ chip' = chip /\ place' = place /\ history' = history
      /\ known' = TRUE /\ ~known /\ driver.result = "Success"
      /\ driver.todo = <<>> /\ driver.phase = "Idle" /\ axis'.position = 0
  BY DEF Homed, driverVars, AtRest
<1>2. thread' = thread /\ axis'.target = 0
  BY <1>1 DEF Homed, SetCurrentPosition, TypeOK, Axis
<1>3. Prepared /\ OnTrack /\ driver.lag <= MaxLag /\ (Certain => Sound)
  BY <1>1 DEF ReferenceInv, Referenced
<1>4. 0 \in Track /\ <<>> \in Seq(Silent) /\ <<>> \in Seq(Tame)
  BY HomingAssumption DEF Track
<1>5. driver.ready /\ history.asked = 0
  BY <1>1, <1>3 DEF Prepared, Referenced
<1>6. OnTrack'
  BY <1>1, <1>2, <1>3, <1>4 DEF OnTrack, Track
<1>7. Prepared' /\ Standing' /\ Staged'
  BY <1>1, <1>4, <1>5 DEF Prepared, Standing, Staged, Under
<1>8. ASSUME Certain PROVE Sound'
  <2>1. Sound /\ place = Stop /\ Agreed
    BY <1>1, <1>3, <1>8 DEF Sound, AtStop, Under
  <2>2. Lost("VACTUAL") \/ chip.VACTUAL.v = 0
    BY <1>1, <1>5 DEF MotorInv, ScriptInv, Resting, Obeys
  <2>3. Following'
    <3>1. Stop' = Stop /\ (Lost("VACTUAL")' <=> Lost("VACTUAL"))
      BY <1>1 DEF Stop, Sense, Lost
    <3>2. Stop \in Int /\ Sense' \in {-1, 1}
      BY HomingAssumption DEF Stop, Sense
    <3>3. place' - Stop' = 0
      BY <1>1, <2>1, <3>1, <3>2
    <3>4. Sense' * (place' - Stop') = 0
      BY <3>2, <3>3
    <3> QED BY <1>1, <2>2, <3>1, <3>4 DEF Following
  <2>4. Settling' /\ Settled' /\ Pressing' /\ AtStop'
    BY <1>1 DEF Settling, Settled, Pressing, AtStop, Under
  <2> QED BY <1>1, <2>1, <2>3, <2>4 DEF Sound, Agreed
<1> QED BY <1>1, <1>3, <1>6, <1>7, <1>8 DEF ReferenceInv, Certain

(* A step that leaves the driver and the position alone, and keeps to the  *)
(* track.                                                                  *)
LEMMA PlanReference ==
  ASSUME ReferenceInv, known, UNCHANGED <<driverVars, known>>, axis'.position = axis.position,
         axis'.target \in Track, thread'.goal \in Track
  PROVE  ReferenceInv'
<1>1. driver' = driver /\ chip' = chip /\ place' = place /\ history' = history /\ known' = known
  BY DEF driverVars
<1>2. Sound => Sound'
  BY <1>1 DEF Sound, Agreed, Settling, Settled, Pressing, AtStop, Following, Under, Driven,
              Ripening, Ages, Early, Sense, Stop, Lost
<1>3. OnTrack'
  BY DEF ReferenceInv, OnTrack, Track
<1> QED BY <1>1, <1>2, <1>3
        DEF ReferenceInv, Prepared, Standing, Staged, Referenced, Under, Certain

(* The stepper plans a move, on the track.                                 *)
LEMMA MovesReference ==
  ASSUME TypeOK, ReferenceInv, Positions \subseteq Track, Moves \/ MoveGoesOn
  PROVE  ReferenceInv'
<1>1. OnTrack /\ UNCHANGED <<driverVars, known>>
  BY DEF ReferenceInv, Moves, MoveGoesOn
<1>2. CASE Moves
  BY <1>1, <1>2, PlanReference DEF Moves, GotoPosition, OnTrack
<1>3. CASE MoveGoesOn
  <2>1. thread.at # "idle" /\ thread'.goal = thread.goal
    BY <1>3 DEF MoveGoesOn, Continue, LookupReset, TargetSet, DirectionSet, PhaseSet, SpeedSet,
                StartMotion, Continues, TypeOK, Thread
  <2>2. axis'.position = axis.position /\ axis'.target \in {axis.target, thread.goal}
    BY <1>3 DEF MoveGoesOn, Continue, LookupReset, TargetSet, DirectionSet, PhaseSet, SpeedSet,
                StartMotion, ResetLookup, TypeOK, Axis
  <2>3. known
    BY <2>1 DEF ReferenceInv, Standing
  <2> QED BY <1>1, <2>1, <2>2, <2>3, PlanReference DEF OnTrack
<1> QED BY <1>2, <1>3

(* The position and the target after a pulse.                              *)
LEMMA PulseCounts ==
  ASSUME TypeOK, UpdateInterrupt
  PROVE  /\ axis'.position = axis.position + (IF axis.up THEN 1 ELSE -1)
         /\ axis'.target = axis.target /\ thread' = thread /\ axis.running
<1> DEFINE counted == [axis EXCEPT !.position = IF axis.up THEN @ + 1 ELSE @ - 1]
           driven == CASE axis.phase = "Accel" -> Accelerate(counted)
                       [] axis.phase = "Cruise" -> Cruise(counted)
                       [] axis.phase = "Decel" -> Decelerate(counted)
                       [] OTHER -> counted
<1>1. /\ counted \in Axis /\ counted.target = axis.target
      /\ counted.position = axis.position + (IF axis.up THEN 1 ELSE -1)
  BY DEF TypeOK, Axis
<1>2. driven \in Axis /\ SameCourse(driven, counted)
  <2> HIDE DEF counted
  <2>1. Accelerate(counted) \in Axis /\ SameCourse(Accelerate(counted), counted)
    BY <1>1, AccelerateType
  <2>2. Decelerate(counted) \in Axis /\ SameCourse(Decelerate(counted), counted)
    BY <1>1, DecelerateType
  <2>3. Cruise(counted) \in Axis /\ SameCourse(Cruise(counted), counted)
    BY <1>1, CruiseType
  <2>4. SameCourse(counted, counted)
    BY DEF SameCourse
  <2> QED BY <1>1, <2>1, <2>2, <2>3, <2>4
<1>3. axis' = StopAtTarget(driven) /\ axis.running /\ UNCHANGED thread
  BY DEF UpdateInterrupt
<1> HIDE DEF counted, driven
<1>4. axis'.position = driven.position /\ axis'.target = driven.target
  BY <1>2, <1>3, StopType
<1> QED BY <1>1, <1>2, <1>3, <1>4 DEF SameCourse

(* Between two places on the track no step is cut short by an end of it.   *)
LEMMA PulseFollows ==
  ASSUME place \in 0 .. Length, Sense \in {-1, 1}, NEW direction \in {-1, 1},
         axis.position = Sense * (place - Stop), axis.position + direction \in Track
  PROVE  axis.position + direction = Sense * (Moved(direction) - Stop)
<1>1. Length \in Nat /\ HomingSpeed \in {-1, 1}
  BY HomingAssumption
<1>2. Moved(direction) = Clamped(place + Sense * direction)
  BY DEF Moved, Sense
<1>3. place + Sense * direction \in 0 .. Length
  <2>1. CASE Sense = 1 /\ HomingSpeed = 1
    BY <1>1, <2>1 DEF Stop, Track
  <2>2. CASE Sense = 1 /\ HomingSpeed = -1
    BY <1>1, <2>2 DEF Stop, Track
  <2>3. CASE Sense = -1 /\ HomingSpeed = 1
    BY <1>1, <2>3 DEF Stop, Track
  <2>4. CASE Sense = -1 /\ HomingSpeed = -1
    BY <1>1, <2>4 DEF Stop, Track
  <2> QED BY <1>1, <2>1, <2>2, <2>3, <2>4
<1>4. Moved(direction) = place + Sense * direction
  BY <1>1, <1>2, <1>3 DEF Clamped
<1>5. Stop \in Int
  BY <1>1 DEF Stop
<1>6. CASE Sense = 1
  BY <1>1, <1>4, <1>5, <1>6
<1>7. CASE Sense = -1
  BY <1>1, <1>4, <1>5, <1>7
<1> QED BY <1>6, <1>7

(* Every pulse moves the carriage, and stays on the way to the target.     *)
LEMMA PulseReference ==
  ASSUME ~Preemptible, TypeOK, TowardTarget, MotorInv, ReferenceInv, Pulse
  PROVE  ReferenceInv'
<1> DEFINE direction == IF axis.up THEN 1 ELSE -1
<1>1. /\ driver' = driver /\ chip' = chip /\ history' = history /\ known' = known
      /\ thread.at = "idle" /\ axis.running /\ UpdateInterrupt
      /\ place' \in IF chip.on /\ chip.VACTUAL.v = 0 THEN Places(direction) ELSE {place}
  BY DEF Pulse, UpdateInterrupt
<1>2. /\ axis'.position = axis.position + direction
      /\ axis'.target = axis.target /\ thread' = thread
  BY <1>1, PulseCounts
<1>3. known
  BY <1>1 DEF ReferenceInv, Standing
<1>4. axis.position \in Int /\ axis.target \in Int /\ axis.up \in BOOLEAN
      /\ place \in 0 .. Length
  BY DEF TypeOK, Axis, MotorInv, DriverTypeOK
<1>5. OnTrack
  BY DEF ReferenceInv
<1>6. axis'.position \in Track
  <2>1. Length \in Nat /\ HomingSpeed \in {-1, 1}
    BY HomingAssumption
  <2>2. IF axis.up THEN axis.target > axis.position ELSE axis.target < axis.position
    BY <1>1 DEF TowardTarget
  <2>3. axis.position \in Track /\ axis.target \in Track
    BY <1>5 DEF OnTrack
  <2>4. CASE HomingSpeed = 1
    BY <1>2, <1>4, <2>1, <2>2, <2>3, <2>4 DEF Track
  <2>5. CASE HomingSpeed = -1
    BY <1>2, <1>4, <2>1, <2>2, <2>3, <2>5 DEF Track
  <2> QED BY <2>1, <2>4, <2>5
<1>7. OnTrack'
  BY <1>2, <1>5, <1>6 DEF OnTrack, Track
<1>8. Prepared' /\ Standing' /\ Staged' /\ driver'.lag <= MaxLag
  BY <1>1, <1>3 DEF ReferenceInv, Prepared, Standing, Staged, Referenced, Under
<1>9. ASSUME Certain PROVE Sound'
  <2>1. Sound
    BY <1>3, <1>9 DEF ReferenceInv, Referenced
  <2>2. /\ chip'.on /\ chip'.CHOPCONF.own
        /\ Agreed' \/ (Under("StartHoming")' /\ Head(driver'.todo) = Loud)
        /\ Settling' /\ Settled' /\ Pressing' /\ AtStop'
    BY <1>1, <1>3, <2>1
       DEF Sound, Agreed, Settling, Settled, Pressing, AtStop, Under, Driven, Ripening, Ages, Early
  <2>3. Following'
    <3>1. Sense' = Sense /\ Stop' = Stop /\ (Lost("VACTUAL")' <=> Lost("VACTUAL"))
      BY <1>1 DEF Sense, Stop, Lost
    <3> SUFFICES ASSUME ~Lost("VACTUAL")
                 PROVE  chip'.VACTUAL.v = 0 /\ axis'.position = Sense * (place' - Stop)
      BY <3>1 DEF Following
    <3>2. chip.VACTUAL.v = 0 /\ axis.position = Sense * (place - Stop)
      BY <1>3, <2>1 DEF Sound, Following
    <3>3. place' = Moved(direction)
      BY <1>1, <2>1, <3>2 DEF Sound, Places
    <3>4. Sense \in {-1, 1} /\ direction \in {-1, 1} /\ axis.position + direction \in Track
      BY <1>2, <1>6 DEF Sense
    <3> HIDE DEF direction
    <3>5. axis.position + direction = Sense * (Moved(direction) - Stop)
      BY <1>4, <3>2, <3>4, PulseFollows
    <3> QED BY <1>1, <1>2, <3>2, <3>3, <3>5
  <2> QED BY <2>2, <2>3 DEF Sound
<1> QED BY <1>1, <1>7, <1>8, <1>9 DEF ReferenceInv, Certain

(* Nothing is known when the microcontroller starts.                       *)
Started ==
  /\ driver = DriverReset /\ ~known
  /\ ~axis.running /\ thread.at = "idle"
  /\ axis.position = 0 /\ axis.target = 0 /\ thread.goal = 0

(* A start is a state of the reference's invariant.                        *)
LEMMA StartReference == Started => ReferenceInv
<1> SUFFICES ASSUME Started PROVE ReferenceInv
  OBVIOUS
<1>1. /\ driver.phase = "Idle" /\ driver.result = "none" /\ driver.todo = <<>> /\ driver.lag = 0
  BY DEF DriverReset, Started
<1>2. 0 \in Track /\ 0 <= MaxLag
  BY HomingAssumption DEF Track
<1> QED BY <1>1, <1>2
        DEF Started, ReferenceInv, Prepared, Standing, Staged, OnTrack, Referenced, Under

(* Every step keeps the reference.                                         *)
LEMMA ReferenceNext ==
  ASSUME ~Preemptible, Positions \subseteq Track, IInv, MotorInv, ReferenceInv, [AxisNext]_axisVars
  PROVE  ReferenceInv'
<1>1. TypeOK /\ TowardTarget
  BY DEF IInv
<1>2. CASE CallsDriver
  BY <1>2, CallReference
<1>3. CASE DriverRuns
  BY <1>3, TransferReference, TickReference DEF DriverRuns
<1>4. CASE TimeGoesOn
  BY <1>4, TimeReference DEF TimeGoesOn
<1>5. CASE Homed
  BY <1>1, <1>5, HomedReference
<1>6. CASE Moves \/ MoveGoesOn
  BY <1>1, <1>6, MovesReference
<1>7. CASE Pulse
  BY <1>1, <1>7, PulseReference
<1>8. CASE Restarted
  <2>1. Started'
    BY <1>8 DEF Restarted, Restart, Started
  <2>2. Started' => ReferenceInv'
    BY StartReference, PTL
  <2> QED BY <2>1, <2>2
<1>9. CASE UNCHANGED axisVars
  BY <1>9 DEF axisVars, vars, driverVars, ReferenceInv, Prepared, Standing, Staged, OnTrack, Track,
              Referenced, Sound, Agreed, Settling, Settled, Pressing, AtStop, Following, Under,
              Driven, Ripening, Ages, Early, Sense, Stop, Lost, Certain
<1> QED BY <1>2, <1>3, <1>4, <1>5, <1>6, <1>7, <1>8, <1>9 DEF AxisNext

(* For all lengths of the track, of the phases and of the caller's delays, *)
(* however many transfers fail, as long as the caller asks for positions   *)
(* on the track and no pulse comes between the statements of GotoPosition: *)
(* what the stepper takes for the position is where the carriage is, with  *)
(* the three exceptions of PositionIsTrue: a write lost without notice     *)
(* since the homing began, a failure of the last write to VACTUAL, and a   *)
(* CHOPCONF that was initialised without having been read.                 *)
THEOREM PositionStaysTrue ==
  ASSUME ~Preemptible, Positions \subseteq Track
  PROVE  AxisSpec => []PositionIsTrue
<1> DEFINE Inv == IInv /\ MotorInv /\ ReferenceInv
<1>1. AxisInit => Inv
  <2> SUFFICES ASSUME AxisInit PROVE Inv
    OBVIOUS
  <2>1. IInv /\ MotorInv
    BY InitIInv, MotorInit DEF AxisInit
  <2>2. Started
    BY DEF AxisInit, Init, DriverInit, Started
  <2> QED BY <2>1, <2>2, StartReference
<1>2. Inv /\ [AxisNext]_axisVars => Inv'
  BY AxisIInv, MotorNext, ReferenceNext
<1>3. Inv => PositionIsTrue
  <2> SUFFICES ASSUME ReferenceInv, known, Certain, ~Lost("VACTUAL")
               PROVE  Agrees
    BY DEF PositionIsTrue, Certain, Lost
  <2> QED BY DEF ReferenceInv, Referenced, Sound, Following, Agrees
<1> QED BY <1>1, <1>2, <1>3, PTL DEF AxisSpec
=============================================================================
