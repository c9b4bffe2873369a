------------------------ MODULE SigmoidStepper_proof ------------------------
(***************************************************************************)
(* Proofs about SigmoidStepper, for every profile and every set of goals.  *)
(* TowardTarget is not inductive: while GotoPosition is at work, what it   *)
(* has already stored must belong to the goal it will start for.           *)
(* SpeedInProfile is not either: the period of the next pulse follows from *)
(* the place in the profile.                                               *)
(***************************************************************************)
EXTENDS SigmoidStepper, SequenceTheorems, WellFoundedInduction, TLAPS

(* The fields that GotoPosition has stored so far agree with each other    *)
(* and with the position it has read.                                      *)
Planned ==
  /\ thread.at # "idle" => thread.delta = thread.goal - axis.position /\ thread.delta # 0
  /\ thread.at \in {"direction", "phase", "arr", "start"} => axis.target = thread.goal
  /\ thread.at \in {"phase", "arr", "start"} =>
        IF axis.up THEN thread.delta > 0 ELSE thread.delta < 0

IInv == TypeOK /\ Planned /\ TowardTarget

(* The four fields that say where the axis is and where it goes.           *)
SameCourse(a, b) ==
  a.position = b.position /\ a.target = b.target /\ a.up = b.up /\ a.running = b.running

----------------------------------------------------------------------------
(* The distance of two positions is a natural number.                      *)
LEMMA AbsType == ASSUME NEW n \in Int PROVE Abs(n) \in Nat
BY DEF Abs

(* A step through the profile keeps the course.                            *)
LEMMA AdvanceType ==
  ASSUME NEW a \in Axis, NEW steps \in Nat
  PROVE  Advance(a, steps) \in Axis /\ SameCourse(Advance(a, steps), a)
<1> DEFINE next == [a EXCEPT !.segment = @ + 1, !.step = 0]
           same == [a EXCEPT !.step = @ + 1]
<1>1. next \in Axis
  <2> DEFINE mid == [a EXCEPT !.segment = @ + 1]
  <2>1. mid \in Axis /\ next = [mid EXCEPT !.step = 0]
    BY DEF Axis
  <2> HIDE DEF mid, next
  <2> QED BY <2>1 DEF Axis
<1>2. SameCourse(next, a)
  BY DEF Axis, SameCourse
<1>3. same \in Axis /\ SameCourse(same, a)
  BY DEF Axis, SameCourse
<1>4. Advance(a, steps) = next \/ Advance(a, steps) = same
  BY DEF Advance
<1> QED BY <1>1, <1>2, <1>3, <1>4

(* Starting the profile anew keeps the course.                             *)
LEMMA ResetType ==
  ASSUME NEW a \in Axis
  PROVE  ResetLookup(a) \in Axis /\ SameCourse(ResetLookup(a), a)
BY DEF ResetLookup, Axis, SameCourse

(* A segment that is looked up exists.                                     *)
LEMMA SegmentType ==
  ASSUME NEW i \in 1 .. Len(Segments)
  PROVE  Segments[i].steps \in Nat /\ Segments[i].slope \in Int
<1>1. Segments[i] \in [steps : Nat, slope : Int]
  BY ProfileAssumption, ElementOfSeq
<1> QED BY <1>1

(* The period of the next pulse is the only thing an acceleration decides. *)
LEMMA AccelerateType ==
  ASSUME NEW a \in Axis
  PROVE  Accelerate(a) \in Axis /\ SameCourse(Accelerate(a), a)
<1>1. CASE ProfileDone(a)
  BY <1>1 DEF Accelerate, Axis, SameCourse
<1>2. CASE ~ProfileDone(a)
  <2> DEFINE seg == Segments[a.segment + 1]
             b == [a EXCEPT !.arr = @ + seg.slope]
  <2>1. seg.steps \in Nat /\ seg.slope \in Int
    <3>1. a.segment + 1 \in 1 .. Len(Segments)
      BY <1>2, ProfileAssumption DEF ProfileDone, Axis
    <3> QED BY <3>1, SegmentType
  <2> HIDE DEF seg
  <2>2. b \in Axis /\ SameCourse(b, a)
    BY <2>1 DEF Axis, SameCourse
  <2> HIDE DEF b
  <2>3. Advance(b, seg.steps) \in Axis /\ SameCourse(Advance(b, seg.steps), b)
    BY <2>1, <2>2, AdvanceType
  <2>4. Accelerate(a) = Advance(b, seg.steps)
    BY <1>2 DEF Accelerate, b, seg
  <2> QED BY <2>2, <2>3, <2>4 DEF SameCourse
<1> QED BY <1>1, <1>2

(* So it is for a deceleration.                                            *)
LEMMA DecelerateType ==
  ASSUME NEW a \in Axis
  PROVE  Decelerate(a) \in Axis /\ SameCourse(Decelerate(a), a)
<1>1. CASE ProfileDone(a)
  BY <1>1 DEF Decelerate, SameCourse
<1>2. CASE ~ProfileDone(a)
  <2> DEFINE seg == Segments[Len(Segments) - a.segment]
             b == [a EXCEPT !.arr = @ - seg.slope]
  <2>1. seg.steps \in Nat /\ seg.slope \in Int
    <3>1. Len(Segments) - a.segment \in 1 .. Len(Segments)
      BY <1>2, ProfileAssumption DEF ProfileDone, Axis
    <3> QED BY <3>1, SegmentType
  <2> HIDE DEF seg
  <2>2. b \in Axis /\ SameCourse(b, a)
    BY <2>1 DEF Axis, SameCourse
  <2> HIDE DEF b
  <2>3. Advance(b, seg.steps) \in Axis /\ SameCourse(Advance(b, seg.steps), b)
    BY <2>1, <2>2, AdvanceType
  <2>4. Decelerate(a) = Advance(b, seg.steps)
    BY <1>2 DEF Decelerate, b, seg
  <2> QED BY <2>2, <2>3, <2>4 DEF SameCourse
<1> QED BY <1>1, <1>2

(* Beginning to decelerate keeps the course.                               *)
LEMMA CruiseType ==
  ASSUME NEW a \in Axis
  PROVE  Cruise(a) \in Axis /\ SameCourse(Cruise(a), a)
<1> DEFINE b == [a EXCEPT !.phase = "Decel"]
<1>1. b \in Axis /\ SameCourse(b, a)
  BY DEF Axis, SameCourse
<1> HIDE DEF b
<1>2. ResetLookup(b) \in Axis /\ SameCourse(ResetLookup(b), b)
  BY <1>1, ResetType
<1>3. Cruise(a) = ResetLookup(b) \/ Cruise(a) = a
  BY DEF Cruise, b
<1> QED BY <1>1, <1>2, <1>3 DEF SameCourse

(* The axis is stopped on its target and nowhere else.                     *)
LEMMA StopType ==
  ASSUME NEW a \in Axis
  PROVE  /\ StopAtTarget(a) \in Axis
         /\ StopAtTarget(a).position = a.position
         /\ StopAtTarget(a).target = a.target
         /\ StopAtTarget(a).up = a.up
         /\ StopAtTarget(a).running = (a.running /\ a.position # a.target)
BY DEF StopAtTarget, Axis

----------------------------------------------------------------------------
(* Initially the axis is at rest.                                          *)
LEMMA InitIInv == Init => IInv
BY DEF Init, IInv, TypeOK, Planned, TowardTarget, Axis, Thread

(* Planning a move reads the distance to the goal.                         *)
LEMMA GotoPositionIInv == IInv /\ GotoPosition => IInv'
<1> SUFFICES ASSUME IInv, GotoPosition PROVE IInv'
  OBVIOUS
<1>1. PICK goal \in Positions :
        thread' = [at |-> IF goal = axis.position THEN "idle" ELSE "lookup",
                   goal |-> goal, delta |-> goal - axis.position]
  BY DEF GotoPosition
<1>2. goal \in Int /\ axis.position \in Int
  BY StepperAssumption DEF IInv, TypeOK, Axis
<1>3. axis' = axis /\ moves' = moves + 1 /\ thread.at = "idle"
  BY DEF GotoPosition, Called
<1>4. TypeOK'
  BY <1>1, <1>2, <1>3 DEF IInv, TypeOK, Thread
<1>5. Planned'
  BY <1>1, <1>2, <1>3 DEF Planned
<1>6. TowardTarget'
  BY <1>1, <1>3 DEF IInv, TowardTarget
<1> QED BY <1>4, <1>5, <1>6 DEF IInv

(* Each statement of GotoPosition brings the next field up to date.        *)
LEMMA ContinueIInv == IInv /\ Continue => IInv'
<1> SUFFICES ASSUME IInv, Continue PROVE IInv'
  OBVIOUS
<1> USE DEF Continues
<1>0. axis \in Axis /\ thread \in Thread /\ moves \in Nat
  BY DEF IInv, TypeOK
<1>1. CASE LookupReset
  <2>1. axis' \in Axis /\ SameCourse(axis', axis)
    BY <1>0, <1>1, ResetType DEF LookupReset
  <2>2. TypeOK'
    BY <1>0, <1>1, <2>1 DEF LookupReset, TypeOK, Thread
  <2>3. Planned' /\ TowardTarget'
    BY <1>0, <1>1, <2>1 DEF LookupReset, IInv, Planned, TowardTarget, SameCourse, Thread
  <2> QED BY <2>2, <2>3 DEF IInv
<1>2. CASE TargetSet
  BY <1>0, <1>2 DEF TargetSet, IInv, TypeOK, Planned, TowardTarget, Axis, Thread
<1>3. CASE DirectionSet
  <2> DEFINE upward == thread.delta > 0
  <2>1. IF upward THEN thread.delta > 0 ELSE thread.delta < 0
    BY <1>0, <1>3 DEF DirectionSet, IInv, Planned, Thread
  <2>2. upward \in BOOLEAN /\ axis' = [axis EXCEPT !.up = upward]
    BY <1>3 DEF DirectionSet
  <2> HIDE DEF upward
  <2>3. /\ axis' \in Axis /\ axis'.up = upward
        /\ axis'.position = axis.position /\ axis'.target = axis.target
    BY <1>0, <2>2 DEF Axis
  <2>4. /\ thread'.at = "phase" /\ thread' \in Thread
        /\ thread'.delta = thread.delta /\ thread'.goal = thread.goal
    BY <1>0, <1>3 DEF DirectionSet, Thread
  <2>5. TypeOK'
    BY <1>0, <1>3, <2>3, <2>4 DEF DirectionSet, TypeOK
  <2>6. /\ thread.delta = thread.goal - axis.position /\ thread.delta # 0
        /\ axis.target = thread.goal
    BY <1>3 DEF DirectionSet, IInv, Planned
  <2>7. Planned' /\ TowardTarget'
    BY <2>1, <2>3, <2>4, <2>6 DEF Planned, TowardTarget
  <2> QED BY <2>5, <2>7 DEF IInv
<1>4. CASE PhaseSet
  <2>1. Steps(thread.delta) \in Nat
    BY <1>0, AbsType DEF Steps, Thread
  <2> QED BY <1>0, <1>4, <2>1 DEF PhaseSet, IInv, TypeOK, Planned, TowardTarget, Axis, Thread
<1>5. CASE SpeedSet
  BY <1>0, <1>5, ProfileAssumption
     DEF SpeedSet, IInv, TypeOK, Planned, TowardTarget, Axis, Thread
<1>6. CASE StartMotion
  <2>1. ResetLookup(axis) \in Axis /\ SameCourse(ResetLookup(axis), axis)
    BY <1>0, ResetType
  <2>2. /\ axis' \in Axis
        /\ axis'.position = axis.position /\ axis'.target = axis.target /\ axis'.up = axis.up
    BY <1>6, <2>1 DEF StartMotion, SameCourse, Axis
  <2>3. TypeOK'
    BY <1>0, <1>6, <2>2 DEF StartMotion, TypeOK, Thread
  <2>4. Planned'
    BY <1>0, <1>6 DEF StartMotion, Planned, Thread
  <2>5. /\ thread.delta = thread.goal - axis.position /\ thread.delta # 0
        /\ axis.target = thread.goal
        /\ IF axis.up THEN thread.delta > 0 ELSE thread.delta < 0
    BY <1>6 DEF StartMotion, IInv, Planned
  <2>6. axis.position \in Int /\ thread.goal \in Int
    BY <1>0 DEF Axis, Thread
  <2>7. TowardTarget'
    BY <2>2, <2>5, <2>6 DEF TowardTarget
  <2> QED BY <2>3, <2>4, <2>7 DEF IInv
<1> QED BY <1>1, <1>2, <1>3, <1>4, <1>5, <1>6 DEF Continue

(* The position is set only at rest.                                       *)
LEMMA SetCurrentPositionIInv == IInv /\ SetCurrentPosition => IInv'
<1> SUFFICES ASSUME IInv, SetCurrentPosition PROVE IInv'
  OBVIOUS
<1>1. PICK position \in Positions :
        axis' = [axis EXCEPT !.position = position, !.target = position]
  BY DEF SetCurrentPosition
<1>2. axis \in Axis /\ ~axis.running /\ thread.at = "idle" /\ thread' = thread
      /\ moves \in Nat /\ moves' = moves + 1
  BY DEF SetCurrentPosition, Called, IInv, TypeOK
<1>3. axis' \in Axis
  BY <1>1, <1>2, StepperAssumption DEF Axis
<1>4. axis'.running = axis.running
  BY <1>1, <1>2 DEF Axis
<1>5. TypeOK'
  BY <1>2, <1>3 DEF IInv, TypeOK
<1>6. Planned' /\ TowardTarget'
  BY <1>2, <1>4 DEF Planned, TowardTarget
<1> QED BY <1>5, <1>6 DEF IInv

(* A pulse takes the axis one step nearer to its target, and stops it      *)
(* there.                                                                  *)
LEMMA UpdateInterruptIInv == ~Preemptible /\ IInv /\ UpdateInterrupt => IInv'
<1> SUFFICES ASSUME ~Preemptible, IInv, UpdateInterrupt PROVE IInv'
  OBVIOUS
<1> DEFINE counted == [axis EXCEPT !.position = IF axis.up THEN @ + 1 ELSE @ - 1]
           driven == CASE axis.phase = "Accel" -> Accelerate(counted)
                       [] axis.phase = "Cruise" -> Cruise(counted)
                       [] axis.phase = "Decel" -> Decelerate(counted)
                       [] OTHER -> counted
<1>0. axis \in Axis /\ thread \in Thread /\ moves \in Nat
  BY DEF IInv, TypeOK
<1>1. /\ counted \in Axis
      /\ counted.position = IF axis.up THEN axis.position + 1 ELSE axis.position - 1
      /\ counted.target = axis.target /\ counted.up = axis.up /\ counted.running = axis.running
  BY <1>0 DEF Axis
<1>2. driven \in Axis /\ SameCourse(driven, counted)
  <2> HIDE DEF counted
  <2>1. Accelerate(counted) \in Axis /\ SameCourse(Accelerate(counted), counted)
    BY <1>1, AccelerateType
  <2>2. Decelerate(counted) \in Axis /\ SameCourse(Decelerate(counted), counted)
    BY <1>1, DecelerateType
  <2>3. Cruise(counted) \in Axis /\ SameCourse(Cruise(counted), counted)
    BY <1>1, CruiseType
  <2>4. SameCourse(counted, counted)
    BY DEF SameCourse
  <2> QED BY <1>1, <2>1, <2>2, <2>3, <2>4
<1>3. axis' = StopAtTarget(driven) /\ axis.running /\ thread.at = "idle"
      /\ UNCHANGED <<thread, moves>>
  BY DEF UpdateInterrupt
<1> HIDE DEF counted, driven
<1>4. /\ axis' \in Axis
      /\ axis'.position = driven.position /\ axis'.target = driven.target
      /\ axis'.up = driven.up
      /\ axis'.running = (driven.running /\ driven.position # driven.target)
  BY <1>2, <1>3, StopType
<1>5. TypeOK'
  BY <1>0, <1>3, <1>4 DEF TypeOK
<1>6. Planned'
  BY <1>3 DEF Planned
<1>7. axis.position \in Int /\ axis.target \in Int /\ axis.up \in BOOLEAN
  BY <1>0 DEF Axis
<1>8. IF axis.up THEN axis.target > axis.position ELSE axis.target < axis.position
  BY <1>3 DEF IInv, TowardTarget
<1>9. /\ axis'.position = IF axis.up THEN axis.position + 1 ELSE axis.position - 1
      /\ axis'.target = axis.target /\ axis'.up = axis.up
      /\ axis'.running => axis'.position # axis.target
  BY <1>1, <1>2, <1>4 DEF SameCourse
<1>10. TowardTarget'
  BY <1>7, <1>8, <1>9 DEF TowardTarget
<1> QED BY <1>5, <1>6, <1>10 DEF IInv

----------------------------------------------------------------------------
(* For every profile and all goals, in any order and at any time, as long  *)
(* as no pulse comes between the statements of GotoPosition: an axis that  *)
(* moves, moves towards its target.                                        *)
THEOREM StaysOnCourse == ASSUME ~Preemptible PROVE Spec => []TowardTarget
<1>1. Init => IInv
  BY InitIInv
<1>2. IInv /\ [Next]_vars => IInv'
  <2> SUFFICES ASSUME IInv, [Next]_vars PROVE IInv'
    OBVIOUS
  <2>1. CASE GotoPosition
    BY <2>1, GotoPositionIInv
  <2>2. CASE Continue
    BY <2>2, ContinueIInv
  <2>3. CASE SetCurrentPosition
    BY <2>3, SetCurrentPositionIInv
  <2>4. CASE UpdateInterrupt
    BY <2>4, UpdateInterruptIInv
  <2>5. CASE UNCHANGED vars
    BY <2>5 DEF vars, IInv, TypeOK, Planned, TowardTarget
  <2> QED BY <2>1, <2>2, <2>3, <2>4, <2>5 DEF Next
<1>3. IInv => TowardTarget
  BY DEF IInv
<1> QED BY <1>1, <1>2, <1>3, PTL DEF Spec

(* The fields keep their types, pulses between the statements of           *)
(* GotoPosition or not: no lookup leaves the profile.                      *)
LEMMA NextType == TypeOK /\ Next => TypeOK'
<1> SUFFICES ASSUME TypeOK, Next PROVE TypeOK'
  OBVIOUS
<1>0. axis \in Axis /\ thread \in Thread /\ moves \in Nat
  BY DEF TypeOK
<1>1. CASE GotoPosition
  <2>1. PICK goal \in Positions :
          thread' = [at |-> IF goal = axis.position THEN "idle" ELSE "lookup",
                     goal |-> goal, delta |-> goal - axis.position]
    BY <1>1 DEF GotoPosition
  <2>2. goal \in Int /\ axis.position \in Int
    BY <1>0, StepperAssumption DEF Axis
  <2> QED BY <1>0, <1>1, <2>1, <2>2 DEF GotoPosition, Called, TypeOK, Thread
<1>2. CASE LookupReset
  BY <1>0, <1>2, ResetType DEF LookupReset, Continues, TypeOK, Thread
<1>3. CASE TargetSet
  BY <1>0, <1>3 DEF TargetSet, Continues, TypeOK, Axis, Thread
<1>4. CASE DirectionSet
  <2> DEFINE upward == thread.delta > 0
  <2>1. upward \in BOOLEAN /\ axis' = [axis EXCEPT !.up = upward]
    BY <1>0, <1>4 DEF DirectionSet
  <2> HIDE DEF upward
  <2> QED BY <1>0, <1>4, <2>1 DEF DirectionSet, Continues, TypeOK, Axis, Thread
<1>5. CASE PhaseSet
  BY <1>0, <1>5 DEF PhaseSet, Continues, TypeOK, Axis, Thread
<1>6. CASE SpeedSet
  BY <1>0, <1>6, ProfileAssumption DEF SpeedSet, Continues, TypeOK, Axis, Thread
<1>7. CASE StartMotion
  <2>1. ResetLookup(axis) \in Axis
    BY <1>0, ResetType
  <2>2. axis' \in Axis
    BY <1>7, <2>1 DEF StartMotion, Axis
  <2> QED BY <1>0, <1>7, <2>2 DEF StartMotion, Continues, TypeOK, Thread
<1>8. CASE SetCurrentPosition
  <2>1. PICK position \in Positions :
          axis' = [axis EXCEPT !.position = position, !.target = position]
    BY <1>8 DEF SetCurrentPosition
  <2>2. axis' \in Axis
    BY <1>0, <2>1, StepperAssumption DEF Axis
  <2> QED BY <1>0, <1>8, <2>2 DEF SetCurrentPosition, Called, TypeOK
<1>9. CASE UpdateInterrupt
  <2> DEFINE counted == [axis EXCEPT !.position = IF axis.up THEN @ + 1 ELSE @ - 1]
  <2>1. counted \in Axis
    BY <1>0 DEF Axis
  <2>2. /\ UNCHANGED <<thread, moves>>
        /\ \/ axis' = StopAtTarget(Accelerate(counted))
           \/ axis' = StopAtTarget(Cruise(counted))
           \/ axis' = StopAtTarget(Decelerate(counted))
           \/ axis' = StopAtTarget(counted)
    BY <1>9 DEF UpdateInterrupt
  <2> HIDE DEF counted
  <2>3. Accelerate(counted) \in Axis /\ Decelerate(counted) \in Axis /\ Cruise(counted) \in Axis
    BY <2>1, AccelerateType, DecelerateType, CruiseType
  <2>4. axis' \in Axis
    BY <2>1, <2>2, <2>3, StopType
  <2> QED BY <1>0, <2>2, <2>4 DEF TypeOK
<1> QED BY <1>1, <1>2, <1>3, <1>4, <1>5, <1>6, <1>7, <1>8, <1>9 DEF Next, Continue

----------------------------------------------------------------------------
(* The speed.  The periods of the profile are defined by recursion; that   *)
(* they exist, and that they descend, is proved by looking at the first    *)
(* segment for which it would fail.                                        *)

(* What a segment adds to the period.                                      *)
Gain(i) == Segments[i].steps * Segments[i].slope

(* The period after each segment.                                          *)
Profile ==
  CHOOSE arr : arr = [i \in 0 .. Len(Segments) |-> IF i = 0 THEN LowArr ELSE arr[i - 1] + Gain(i)]

(* The segments that sigmoid_approximation.py generates are of a step or   *)
(* more, and shorten the period or keep it.                                *)
Descending == \A i \in 1 .. Len(Segments) : Segments[i].steps > 0 /\ Segments[i].slope <= 0

(* An axis on its way up the profile, and down again.                      *)
Rising(a) ==
  \/ a.segment = Len(Segments) /\ a.arr = Profile[a.segment]
  \/ /\ a.segment < Len(Segments) /\ a.step < Segments[a.segment + 1].steps
     /\ a.arr = Profile[a.segment] + a.step * Segments[a.segment + 1].slope

Falling(a) ==
  LET rest == Len(Segments) - a.segment
  IN  \/ rest = 0 /\ a.arr = Profile[0]
      \/ rest > 0 /\ a.step < Segments[rest].steps
         /\ a.arr = Profile[rest] - a.step * Segments[rest].slope

(* The period belongs to the phase and to the place in the profile.        *)
OnProfile(a) ==
  \/ a.phase = "NON_SIGMOID" /\ a.arr = LowArr
  \/ a.phase = "Accel" /\ Rising(a)
  \/ a.phase = "Cruise" /\ a.arr = Profile[Len(Segments)]
  \/ a.phase = "Decel" /\ Falling(a)

(* So it does when the interrupt looks at it; a move starts with LowArr.   *)
Paced ==
  /\ thread.at \in {"arr", "start"} => axis.phase \in {"NON_SIGMOID", "Accel"}
  /\ thread.at = "start" => axis.arr = LowArr
  /\ thread.at = "idle" /\ axis.running => OnProfile(axis)

SpeedInv == TypeOK /\ Paced

(* The library's least-number theorem takes an operator, which no prover   *)
(* here instantiates; its theorem about well-founded relations takes sets. *)
Below == {p \in Nat \X Nat : p[1] < p[2]}

(* Each set of numbers that is not empty has a least one.                  *)
LEMMA LeastNumber ==
  ASSUME NEW T, T \subseteq Nat, T # {}
  PROVE  \E x \in T : \A y \in T : x <= y
<1>1. IsWellFoundedOn(Below, Nat)
  BY NatLessThanWellFounded DEF OpToRel, Below
<1>2. PICK x \in T : \A y \in T : <<y, x>> \notin Below
  BY <1>1, WFMin
<1>3. \A y \in T : x <= y
  <2> TAKE y \in T
  <2>1. x \in Nat /\ y \in Nat /\ <<y, x>> \notin Below
    BY <1>2
  <2>2. ~(y < x)
    BY <2>1 DEF Below
  <2> QED BY <2>1, <2>2
<1> QED BY <1>3

(* Any profile of gains has its periods, and they are determined by it.    *)
LEMMA ProfileFunction ==
  ASSUME NEW N \in Nat, NEW low \in Int, NEW gain \in [1 .. N -> Int]
  PROVE  \E f : f = [i \in 0 .. N |-> IF i = 0 THEN low ELSE f[i - 1] + gain[i]]
<1> DEFINE Is(f, n) == f = [i \in 0 .. n |-> IF i = 0 THEN low ELSE f[i - 1] + gain[i]]
           T == {n \in 0 .. N : \A f : ~Is(f, n)}
<1>1. SUFFICES ASSUME T # {} PROVE FALSE
  <2>1. N \in 0 .. N
    OBVIOUS
  <2>2. N \notin T
    <3> HIDE DEF T
    <3> QED BY <1>1
  <2>3. \E f : Is(f, N)
    <3> HIDE DEF Is
    <3> QED BY <2>1, <2>2
  <2> QED BY <2>3
<1>2. PICK x \in T : \A y \in T : x <= y
  <2>1. T \subseteq Nat
    OBVIOUS
  <2> HIDE DEF T
  <2> QED BY <1>1, <2>1, LeastNumber
<1>3. x \in 0 .. N /\ \A f : ~Is(f, x)
  BY <1>2
<1>4. CASE x = 0
  <2> DEFINE f == [i \in 0 .. 0 |-> low]
  <2>1. \A i \in 0 .. 0 : f[i] = IF i = 0 THEN low ELSE f[i - 1] + gain[i]
    OBVIOUS
  <2>2. f = [i \in 0 .. 0 |-> f[i]]
    OBVIOUS
  <2>3. Is(f, 0)
    <3> HIDE DEF f
    <3> QED BY <2>1, <2>2
  <2> QED BY <1>3, <1>4, <2>3
<1>5. CASE x # 0
  <2>1. x - 1 \in 0 .. N /\ ~(x <= x - 1)
    BY <1>3, <1>5
  <2>2. PICK f : Is(f, x - 1)
    <3>1. x - 1 \notin T
      <4> HIDE DEF T
      <4> QED BY <1>2, <2>1
    <3> HIDE DEF Is
    <3> QED BY <2>1, <3>1
  <2> DEFINE g == [i \in 0 .. x |-> IF i = x THEN f[x - 1] + gain[x] ELSE f[i]]
  <2>3. \A i \in 0 .. x : g[i] = IF i = 0 THEN low ELSE g[i - 1] + gain[i]
    <3> TAKE i \in 0 .. x
    <3>1. CASE i = x
      <4>1. i - 1 \in 0 .. x /\ i - 1 # x /\ i # 0
        BY <1>3, <1>5, <3>1
      <4>2. g[i - 1] = f[i - 1] /\ g[i] = f[x - 1] + gain[x]
        BY <3>1, <4>1
      <4> QED BY <3>1, <4>1, <4>2
    <3>2. CASE i # x /\ i # 0
      <4>1. i - 1 \in 0 .. x /\ i - 1 # x /\ i \in 0 .. x - 1
        BY <1>3, <3>2
      <4>2. g[i - 1] = f[i - 1] /\ g[i] = f[i]
        BY <3>2, <4>1
      <4>3. f[i] = f[i - 1] + gain[i]
        <5> DEFINE h == [k \in 0 .. x - 1 |-> IF k = 0 THEN low ELSE f[k - 1] + gain[k]]
        <5>1. f = h
          BY <2>2
        <5>2. h[i] = f[i - 1] + gain[i]
          BY <3>2, <4>1
        <5> HIDE DEF h
        <5> QED BY <5>1, <5>2
      <4> QED BY <3>2, <4>2, <4>3
    <3>3. CASE i # x /\ i = 0
      <4>1. 0 \in 0 .. x - 1 /\ g[i] = f[0]
        BY <1>3, <1>5, <3>3
      <4>2. f[0] = low
        <5> DEFINE h == [k \in 0 .. x - 1 |-> IF k = 0 THEN low ELSE f[k - 1] + gain[k]]
        <5>1. f = h
          BY <2>2
        <5>2. h[0] = low
          BY <4>1
        <5> HIDE DEF h
        <5> QED BY <5>1, <5>2
      <4> QED BY <3>3, <4>1, <4>2
    <3> QED BY <3>1, <3>2, <3>3
  <2>4. g = [i \in 0 .. x |-> g[i]]
    OBVIOUS
  <2> HIDE DEF g
  <2>5. Is(g, x)
    BY <2>3, <2>4
  <2> QED BY <1>3, <2>5
<1> QED BY <1>4, <1>5

(* Periods that fall with each segment lie between the last and the first. *)
LEMMA Descent ==
  ASSUME NEW N \in Nat, NEW f, \A i \in 0 .. N : f[i] \in Int,
         \A i \in 1 .. N : f[i] <= f[i - 1]
  PROVE  \A i \in 0 .. N : f[i] <= f[0] /\ f[N] <= f[i]
<1>1. ASSUME NEW j \in 0 .. N, ~(f[j] <= f[0])
      PROVE  FALSE
  <2> DEFINE T == {n \in 0 .. N : ~(f[n] <= f[0])}
  <2>1. T \subseteq Nat /\ T # {}
    BY <1>1
  <2>2. PICK x \in T : \A y \in T : x <= y
    <3> HIDE DEF T
    <3> QED BY <2>1, LeastNumber
  <2>3. x \in 0 .. N /\ ~(f[x] <= f[0]) /\ 0 \in 0 .. N
    BY <2>2
  <2>4. x # 0
    BY <2>3
  <2>5. x - 1 \in 0 .. N /\ x \in 1 .. N /\ x - 1 \notin T
    BY <2>2, <2>3, <2>4
  <2>6. f[x - 1] <= f[0] /\ f[x] <= f[x - 1]
    BY <2>5
  <2>7. f[x] \in Int /\ f[x - 1] \in Int /\ f[0] \in Int
    BY <2>3, <2>5
  <2> QED BY <2>3, <2>6, <2>7
<1>2. ASSUME NEW j \in 0 .. N, ~(f[N] <= f[j])
      PROVE  FALSE
  <2> DEFINE T == {n \in 0 .. N : ~(f[N] <= f[N - n])}
  <2>1. T \subseteq Nat /\ N - j \in T
    <3>1. N - j \in 0 .. N /\ N - (N - j) = j
      OBVIOUS
    <3> QED BY <1>2, <3>1
  <2>2. PICK x \in T : \A y \in T : x <= y
    <3>1. T # {}
      BY <2>1
    <3> HIDE DEF T
    <3> QED BY <2>1, <3>1, LeastNumber
  <2>3. x \in 0 .. N /\ ~(f[N] <= f[N - x]) /\ N - x \in 0 .. N
    BY <2>2
  <2>4. x # 0
    <3>1. f[N] \in Int /\ N - 0 = N
      OBVIOUS
    <3> QED BY <2>3, <3>1
  <2>5. x - 1 \in 0 .. N /\ x - 1 \notin T /\ N - (x - 1) = (N - x) + 1 /\ (N - x) + 1 \in 1 .. N
    BY <2>2, <2>3, <2>4
  <2>6. f[N] <= f[(N - x) + 1] /\ ((N - x) + 1) - 1 = N - x
    BY <2>3, <2>5
  <2>7. f[(N - x) + 1] <= f[N - x]
    BY <2>5, <2>6
  <2>8. f[N] \in Int /\ f[(N - x) + 1] \in Int /\ f[N - x] \in Int
    BY <2>3, <2>5
  <2> QED BY <2>3, <2>6, <2>7, <2>8
<1> QED BY <1>1, <1>2

(* The periods of the profile: from LowArr, each segment adds its gain.    *)
LEMMA ProfileSteps ==
  /\ Profile[0] = LowArr
  /\ \A i \in 1 .. Len(Segments) : Gain(i) \in Int /\ Profile[i] = Profile[i - 1] + Gain(i)
  /\ \A i \in 0 .. Len(Segments) : Profile[i] \in Int
<1> DEFINE N == Len(Segments)
           gain == [i \in 1 .. N |-> Gain(i)]
<1>1. N \in Nat /\ LowArr \in Int
  BY ProfileAssumption
<1>2. \A i \in 1 .. N : Gain(i) \in Int /\ gain[i] = Gain(i)
  BY SegmentType DEF Gain
<1>3. gain \in [1 .. N -> Int]
  BY <1>2
<1>4. PICK f : f = [i \in 0 .. N |-> IF i = 0 THEN LowArr ELSE f[i - 1] + gain[i]]
  <2> HIDE DEF N, gain
  <2> QED BY <1>1, <1>3, ProfileFunction
<1>5. [i \in 0 .. N |-> IF i = 0 THEN LowArr ELSE f[i - 1] + gain[i]]
      = [i \in 0 .. N |-> IF i = 0 THEN LowArr ELSE f[i - 1] + Gain(i)]
  <2>1. \A i \in 0 .. N : i # 0 => i \in 1 .. N
    BY <1>1
  <2> HIDE DEF N, gain
  <2> QED BY <1>2, <2>1
<1>6. f = [i \in 0 .. Len(Segments) |-> IF i = 0 THEN LowArr ELSE f[i - 1] + Gain(i)]
  <2> HIDE DEF gain
  <2> QED BY <1>4, <1>5
<1> HIDE DEF gain
<1>7. Profile = [i \in 0 .. Len(Segments) |-> IF i = 0 THEN LowArr ELSE Profile[i - 1] + Gain(i)]
  <2>1. \E arr : arr = [i \in 0 .. Len(Segments) |-> IF i = 0 THEN LowArr ELSE arr[i - 1] + Gain(i)]
    BY <1>6
  <2> QED BY <2>1, Zenon DEF Profile
<1> HIDE DEF Profile
<1> DEFINE h == [i \in 0 .. N |-> IF i = 0 THEN LowArr ELSE Profile[i - 1] + Gain(i)]
<1>8. Profile = h
  BY <1>7
<1>9. Profile[0] = LowArr
  <2>1. h[0] = LowArr
    BY <1>1
  <2> HIDE DEF h
  <2> QED BY <1>8, <2>1
<1>10. \A i \in 1 .. N : Profile[i] = Profile[i - 1] + Gain(i)
  <2> TAKE i \in 1 .. N
  <2>1. h[i] = Profile[i - 1] + Gain(i)
    BY <1>1
  <2> HIDE DEF h
  <2> QED BY <1>8, <2>1
<1> HIDE DEF h
<1>11. ASSUME NEW j \in 0 .. N, Profile[j] \notin Int
       PROVE  FALSE
  <2> DEFINE T == {n \in 0 .. N : Profile[n] \notin Int}
  <2>1. T \subseteq Nat /\ T # {}
    BY <1>11
  <2>2. PICK x \in T : \A y \in T : x <= y
    <3> HIDE DEF T
    <3> QED BY <2>1, LeastNumber
  <2>3. x \in 0 .. N /\ Profile[x] \notin Int
    BY <2>2
  <2>4. x # 0
    BY <1>1, <1>9, <2>3
  <2>5. x - 1 \in 0 .. N /\ ~(x <= x - 1) /\ x \in 1 .. N
    BY <2>3, <2>4, <1>1
  <2>6. x - 1 \notin T
    <3> HIDE DEF T
    <3> QED BY <2>2, <2>5
  <2>7. Profile[x - 1] \in Int
    BY <2>5, <2>6
  <2>8. Gain(x) \in Int /\ Profile[x] = Profile[x - 1] + Gain(x)
    BY <1>2, <1>10, <2>5
  <2> QED BY <2>3, <2>7, <2>8
<1> QED BY <1>2, <1>9, <1>10, <1>11

(* What is left of a segment shortens the period, or keeps it.             *)
LEMMA PartOfGain ==
  ASSUME NEW steps \in Nat, NEW step \in Nat, step <= steps, NEW slope \in Int, slope <= 0
  PROVE  /\ step * slope \in Int /\ steps * slope \in Int
         /\ step * slope <= 0 /\ steps * slope <= step * slope
         /\ (step + 1) * slope = step * slope + slope
<1>1. step * slope \in Int /\ steps * slope \in Int /\ step * slope <= 0
  OBVIOUS
<1>2. (steps - step) * slope <= 0
  <2>1. steps - step \in Nat
    OBVIOUS
  <2> QED BY <2>1
<1>3. (steps - step) * slope = steps * slope - step * slope
  OBVIOUS
<1>4. (step + 1) * slope = step * slope + slope
  OBVIOUS
<1>5. steps * slope <= step * slope
  <2> DEFINE a == steps * slope
             b == step * slope
             c == (steps - step) * slope
  <2>1. a \in Int /\ b \in Int /\ c <= 0 /\ c = a - b /\ c \in Int
    BY <1>1, <1>2, <1>3
  <2> HIDE DEF a, b, c
  <2>2. a <= b
    BY <2>1
  <2> QED BY <2>2 DEF a, b
<1> QED BY <1>1, <1>4, <1>5

(* They descend to the speed that the profile ends with.                   *)
LEMMA ProfileDescends ==
  ASSUME Descending
  PROVE  /\ HighArr = Profile[Len(Segments)]
         /\ \A i \in 0 .. Len(Segments) : Profile[i] <= LowArr /\ HighArr <= Profile[i]
<1>1. HighArr = Profile[Len(Segments)]
  BY DEF HighArr, Profile, Gain
<1>2. Len(Segments) \in Nat
  BY ProfileAssumption
<1>3. \A i \in 1 .. Len(Segments) : Profile[i] <= Profile[i - 1]
  <2> TAKE i \in 1 .. Len(Segments)
  <2>1. /\ Segments[i].steps \in Nat /\ Segments[i].slope \in Int
        /\ Segments[i].slope <= 0
    BY SegmentType DEF Descending
  <2>2. Segments[i].steps <= Segments[i].steps
    BY <2>1
  <2>3. Gain(i) <= 0
    BY <2>1, <2>2, PartOfGain DEF Gain
  <2>4. i - 1 \in 0 .. Len(Segments)
    BY <1>2
  <2>5. Profile[i - 1] \in Int /\ Gain(i) \in Int /\ Profile[i] = Profile[i - 1] + Gain(i)
    BY <2>4, ProfileSteps
  <2> QED BY <2>3, <2>5
<1>4. \A i \in 0 .. Len(Segments) : Profile[i] <= Profile[0] /\ Profile[Len(Segments)] <= Profile[i]
  <2> DEFINE N == Len(Segments)
  <2> HIDE DEF Profile
  <2>1. N \in Nat /\ (\A i \in 0 .. N : Profile[i] \in Int) /\ \A i \in 1 .. N : Profile[i] <= Profile[i - 1]
    BY <1>2, <1>3, ProfileSteps
  <2> HIDE DEF N
  <2>2. \A i \in 0 .. N : Profile[i] <= Profile[0] /\ Profile[N] <= Profile[i]
    BY <2>1, Descent
  <2> QED BY <2>2 DEF N
<1> QED BY <1>1, <1>4, ProfileSteps

(* At the beginning of a segment the period is the profile's.              *)
LEMMA SegmentBegins ==
  ASSUME Descending, NEW a \in Axis, a.step = 0, a.segment \in 0 .. Len(Segments)
  PROVE  /\ a.arr = Profile[a.segment] => Rising(a)
         /\ a.arr = Profile[Len(Segments) - a.segment] => Falling(a)
<1> DEFINE N == Len(Segments)
           rest == N - a.segment
<1>1. N \in Nat /\ rest \in 0 .. N /\ \A i \in 0 .. N : Profile[i] \in Int
  BY ProfileAssumption, ProfileSteps
<1>2. \A i \in 1 .. N : /\ Segments[i].steps > 0
                        /\ 0 * Segments[i].slope = 0
  BY SegmentType DEF Descending
<1>3. ASSUME a.arr = Profile[a.segment] PROVE Rising(a)
  <2>1. CASE a.segment = N
    BY <1>3, <2>1 DEF Rising
  <2>2. CASE a.segment # N
    <3>1. a.segment < N /\ a.segment + 1 \in 1 .. N
      BY <1>1, <2>2
    <3>2. Profile[a.segment] + 0 * Segments[a.segment + 1].slope = Profile[a.segment]
      BY <1>1, <1>2, <3>1
    <3> QED BY <1>2, <1>3, <3>1, <3>2 DEF Rising
  <2> QED BY <2>1, <2>2
<1>4. ASSUME a.arr = Profile[rest] PROVE Falling(a)
  <2>1. CASE rest = 0
    BY <1>4, <2>1 DEF Falling
  <2>2. CASE rest # 0
    <3>1. rest > 0 /\ rest \in 1 .. N
      BY <1>1, <2>2
    <3>2. Profile[rest] - 0 * Segments[rest].slope = Profile[rest]
      BY <1>1, <1>2, <3>1
    <3> QED BY <1>2, <1>4, <3>1, <3>2 DEF Falling
  <2> QED BY <2>1, <2>2
<1> QED BY <1>3, <1>4

(* The fields after a step through the profile.                            *)
LEMMA AdvanceFields ==
  ASSUME NEW a \in Axis, NEW arr \in Int, NEW steps \in Nat, a.step < steps
  PROVE  LET b == Advance([a EXCEPT !.arr = arr], steps)
         IN  /\ b \in Axis /\ b.phase = a.phase /\ b.arr = arr
             /\ \/ a.step + 1 = steps /\ b.segment = a.segment + 1 /\ b.step = 0
                \/ a.step + 1 < steps /\ b.segment = a.segment /\ b.step = a.step + 1
<1> DEFINE c == [a EXCEPT !.arr = arr]
<1>1. /\ c \in Axis /\ c.phase = a.phase /\ c.arr = arr
      /\ c.segment = a.segment /\ c.step = a.step
  BY DEF Axis
<1> HIDE DEF c
<1>2. c.step \in Nat /\ c.segment \in Nat
  BY <1>1 DEF Axis
<1>3. Advance(c, steps) \in Axis
  BY <1>1, AdvanceType
<1>4. CASE c.step + 1 = steps
  <2>1. Advance(c, steps) = [c EXCEPT !.segment = @ + 1, !.step = 0]
    BY <1>2, <1>4 DEF Advance
  <2>2. /\ Advance(c, steps).phase = c.phase /\ Advance(c, steps).arr = c.arr
        /\ Advance(c, steps).segment = c.segment + 1 /\ Advance(c, steps).step = 0
    BY <1>1, <2>1 DEF Axis
  <2> QED BY <1>1, <1>3, <1>4, <2>2 DEF c
<1>5. CASE c.step + 1 < steps
  <2>1. Advance(c, steps) = [c EXCEPT !.step = @ + 1]
    BY <1>2, <1>5 DEF Advance
  <2>2. /\ Advance(c, steps).phase = c.phase /\ Advance(c, steps).arr = c.arr
        /\ Advance(c, steps).segment = c.segment /\ Advance(c, steps).step = c.step + 1
    BY <1>1, <2>1 DEF Axis
  <2> QED BY <1>1, <1>3, <1>5, <2>2 DEF c
<1> QED BY <1>1, <1>2, <1>4, <1>5

(* A step of acceleration keeps to the profile, and cruises at its end.    *)
LEMMA AccelerateSpeed ==
  ASSUME Descending, NEW a \in Axis, a.phase = "Accel", Rising(a)
  PROVE  OnProfile(Accelerate(a))
<1> DEFINE N == Len(Segments)
<1>1. N \in Nat /\ a.segment \in Nat /\ a.step \in Nat /\ a.arr \in Int
  BY ProfileAssumption DEF Axis
<1>2. CASE a.segment >= N
  <2>1. a.arr = Profile[N]
    BY <1>1, <1>2 DEF Rising
  <2>2. Accelerate(a).phase = "Cruise" /\ Accelerate(a).arr = a.arr
    BY <1>2 DEF Accelerate, ProfileDone, Axis
  <2> QED BY <2>1, <2>2 DEF OnProfile
<1>3. CASE ~(a.segment >= N)
  <2> DEFINE i == a.segment + 1
             steps == Segments[i].steps
             slope == Segments[i].slope
             arr == a.arr + slope
             b == Advance([a EXCEPT !.arr = arr], steps)
  <2>1. i \in 1 .. N /\ i - 1 = a.segment /\ a.segment \in 0 .. N /\ i \in 0 .. N
    BY <1>1, <1>3
  <2>2. steps \in Nat /\ slope \in Int /\ slope <= 0
    BY <2>1, SegmentType DEF Descending
  <2>3. a.step < steps /\ a.arr = Profile[a.segment] + a.step * slope
    BY <1>1, <1>3 DEF Rising
  <2>4. /\ Profile[i] = Profile[a.segment] + steps * slope
        /\ Profile[a.segment] \in Int /\ Profile[i] \in Int
    BY <2>1, ProfileSteps DEF Gain
  <2>5. Accelerate(a) = b
    BY <1>3 DEF Accelerate, ProfileDone
  <2> HIDE DEF steps, slope
  <2>6. (a.step + 1) * slope = a.step * slope + slope /\ a.step * slope \in Int
    BY <1>1, <2>2, <2>3, PartOfGain
  <2>7. arr \in Int /\ arr = Profile[a.segment] + (a.step + 1) * slope
    <3> DEFINE now == a.step * slope
               next == (a.step + 1) * slope
    <3>1. now \in Int /\ next = now + slope /\ a.arr = Profile[a.segment] + now
      BY <2>3, <2>6
    <3>2. a.arr \in Int /\ slope \in Int /\ Profile[a.segment] \in Int
      BY <1>1, <2>2, <2>4
    <3> HIDE DEF now, next
    <3>3. arr \in Int /\ arr = Profile[a.segment] + next
      BY <3>1, <3>2
    <3> QED BY <3>3 DEF next
  <2> HIDE DEF arr
  <2>8. /\ b \in Axis /\ b.phase = a.phase /\ b.arr = arr
        /\ \/ a.step + 1 = steps /\ b.segment = i /\ b.step = 0
           \/ a.step + 1 < steps /\ b.segment = a.segment /\ b.step = a.step + 1
    BY <2>2, <2>3, <2>7, AdvanceFields
  <2> HIDE DEF b
  <2>9. Rising(b)
    <3>1. CASE a.step + 1 = steps /\ b.segment = i /\ b.step = 0
      <4>1. b.arr = Profile[b.segment]
        BY <2>4, <2>7, <2>8, <3>1
      <4> QED BY <2>1, <2>8, <3>1, <4>1, SegmentBegins
    <3>2. CASE a.step + 1 < steps /\ b.segment = a.segment /\ b.step = a.step + 1
      BY <1>1, <1>3, <2>7, <2>8, <3>2 DEF Rising, steps, slope
    <3> QED BY <2>8, <3>1, <3>2
  <2> QED BY <2>5, <2>8, <2>9 DEF OnProfile
<1> QED BY <1>2, <1>3

(* A step of deceleration retraces it.                                     *)
LEMMA DecelerateSpeed ==
  ASSUME Descending, NEW a \in Axis, a.phase = "Decel", Falling(a)
  PROVE  OnProfile(Decelerate(a))
<1> DEFINE N == Len(Segments)
<1>1. N \in Nat /\ a.segment \in Nat /\ a.step \in Nat /\ a.arr \in Int
  BY ProfileAssumption DEF Axis
<1>2. CASE a.segment >= N
  BY <1>2 DEF Decelerate, ProfileDone, OnProfile
<1>3. CASE ~(a.segment >= N)
  <2> DEFINE i == N - a.segment
             steps == Segments[i].steps
             slope == Segments[i].slope
             arr == a.arr - slope
             b == Advance([a EXCEPT !.arr = arr], steps)
  <2>1. /\ i \in 1 .. N /\ i - 1 = N - (a.segment + 1) /\ i \in 0 .. N /\ i - 1 \in 0 .. N
        /\ a.segment + 1 \in 0 .. N /\ i > 0 /\ i # 0
    BY <1>1, <1>3
  <2>2. steps \in Nat /\ slope \in Int /\ slope <= 0
    BY <2>1, SegmentType DEF Descending
  <2>3. a.step < steps /\ a.arr = Profile[i] - a.step * slope
    BY <2>1 DEF Falling
  <2>4. /\ Profile[i] = Profile[i - 1] + steps * slope
        /\ Profile[i - 1] \in Int /\ Profile[i] \in Int
    BY <2>1, ProfileSteps DEF Gain
  <2>5. Decelerate(a) = b
    BY <1>3 DEF Decelerate, ProfileDone
  <2> HIDE DEF steps, slope
  <2>6. /\ (a.step + 1) * slope = a.step * slope + slope
        /\ a.step * slope \in Int /\ steps * slope \in Int
    BY <1>1, <2>2, <2>3, PartOfGain
  <2>7. arr \in Int /\ arr = Profile[i] - (a.step + 1) * slope
    <3> DEFINE now == a.step * slope
               next == (a.step + 1) * slope
    <3>1. now \in Int /\ next = now + slope /\ a.arr = Profile[i] - now
      BY <2>3, <2>6
    <3>2. a.arr \in Int /\ slope \in Int /\ Profile[i] \in Int
      BY <1>1, <2>2, <2>4
    <3> HIDE DEF now, next
    <3>3. arr \in Int /\ arr = Profile[i] - next
      BY <3>1, <3>2
    <3> QED BY <3>3 DEF next
  <2> HIDE DEF arr
  <2>8. /\ b \in Axis /\ b.phase = a.phase /\ b.arr = arr
        /\ \/ a.step + 1 = steps /\ b.segment = a.segment + 1 /\ b.step = 0
           \/ a.step + 1 < steps /\ b.segment = a.segment /\ b.step = a.step + 1
    BY <2>2, <2>3, <2>7, AdvanceFields
  <2> HIDE DEF b
  <2>9. Falling(b)
    <3>1. CASE a.step + 1 = steps /\ b.segment = a.segment + 1 /\ b.step = 0
      <4>1. b.arr = Profile[N - b.segment]
        <5> DEFINE all == steps * slope
        <5>1. all \in Int /\ b.arr = Profile[i] - all /\ Profile[i] = Profile[i - 1] + all
          BY <2>4, <2>6, <2>7, <2>8, <3>1
        <5>2. Profile[i - 1] \in Int /\ b.segment = a.segment + 1
          BY <2>4, <3>1
        <5> HIDE DEF all
        <5>3. b.arr = Profile[i - 1]
          BY <5>1, <5>2
        <5> QED BY <2>1, <5>2, <5>3
      <4> QED BY <2>1, <2>8, <3>1, <4>1, SegmentBegins
    <3>2. CASE a.step + 1 < steps /\ b.segment = a.segment /\ b.step = a.step + 1
      BY <2>1, <2>7, <2>8, <3>2 DEF Falling, steps, slope
    <3> QED BY <2>8, <3>1, <3>2
  <2> QED BY <2>5, <2>8, <2>9 DEF OnProfile
<1> QED BY <1>2, <1>3

(* The deceleration begins with the last segment.                          *)
LEMMA CruiseSpeed ==
  ASSUME Descending, NEW a \in Axis, a.phase = "Cruise", a.arr = Profile[Len(Segments)]
  PROVE  OnProfile(Cruise(a))
<1> DEFINE d == [a EXCEPT !.phase = "Decel"]
           b == ResetLookup(d)
<1>1. b \in Axis /\ b.phase = "Decel" /\ b.arr = a.arr /\ b.segment = 0 /\ b.step = 0
  <2>1. d \in Axis /\ d.phase = "Decel" /\ d.arr = a.arr
    BY DEF Axis
  <2> HIDE DEF d
  <2>2. b \in Axis
    BY <2>1, ResetType
  <2> QED BY <2>1, <2>2 DEF ResetLookup, Axis
<1>2. Cruise(a) = b \/ Cruise(a) = a
  BY DEF Cruise
<1> HIDE DEF b
<1>3. Len(Segments) \in Nat /\ Len(Segments) - 0 = Len(Segments)
  BY ProfileAssumption
<1>4. b.segment \in 0 .. Len(Segments) /\ b.arr = Profile[Len(Segments) - b.segment]
  BY <1>1, <1>3
<1>5. OnProfile(b)
  BY <1>1, <1>4, SegmentBegins DEF OnProfile
<1>6. OnProfile(a)
  BY DEF OnProfile
<1> QED BY <1>2, <1>5, <1>6

(* An axis that is on its profile is as fast as the profile allows.        *)
LEMMA OnProfileBounds ==
  ASSUME Descending, NEW a \in Axis, OnProfile(a)
  PROVE  a.arr \in HighArr .. LowArr
<1> DEFINE N == Len(Segments)
           p == Profile
<1>1. N \in Nat /\ a.segment \in Nat /\ a.step \in Nat /\ a.arr \in Int /\ LowArr \in Int
  BY ProfileAssumption DEF Axis
<1>2. HighArr = p[N] /\ \A i \in 0 .. N : p[i] \in Int /\ p[i] <= LowArr /\ HighArr <= p[i]
  BY ProfileDescends, ProfileSteps
<1>3. p[0] = LowArr /\ 0 \in 0 .. N /\ N \in 0 .. N
  BY <1>1, ProfileSteps
<1> HIDE DEF p
<1>4. HighArr \in Int /\ HighArr <= LowArr
  BY <1>2, <1>3
<1>5. CASE a.arr = LowArr \/ a.arr = p[N]
  BY <1>1, <1>2, <1>3, <1>4, <1>5
<1>6. ASSUME NEW i \in 1 .. N, a.step < Segments[i].steps,
             \/ a.arr = p[i - 1] + a.step * Segments[i].slope
             \/ a.arr = p[i] - a.step * Segments[i].slope
      PROVE  a.arr \in HighArr .. LowArr
  <2> DEFINE steps == Segments[i].steps
             slope == Segments[i].slope
             part == a.step * slope
             all == steps * slope
             before == p[i - 1]
             after == p[i]
  <2>1. steps \in Nat /\ slope \in Int /\ slope <= 0 /\ a.step <= steps
    BY <1>1, <1>6, SegmentType DEF Descending
  <2>2. after = before + all
    BY ProfileSteps DEF Gain, p
  <2> HIDE DEF steps, slope
  <2>3. part \in Int /\ all \in Int /\ part <= 0 /\ all <= part
    BY <1>1, <2>1, PartOfGain
  <2>4. i \in 0 .. N /\ i - 1 \in 0 .. N
    BY <1>1
  <2>5. /\ before \in Int /\ before <= LowArr
        /\ after \in Int /\ HighArr <= after
    BY <1>2, <2>4
  <2>6. a.arr = before + part \/ a.arr = after - part
    BY <1>6 DEF slope
  <2> HIDE DEF part, all, before, after
  <2>7. HighArr <= a.arr /\ a.arr <= LowArr
    BY <1>1, <1>4, <2>2, <2>3, <2>5, <2>6
  <2> QED BY <1>1, <1>4, <2>7
<1>7. CASE a.phase = "Accel" /\ Rising(a)
  <2>1. CASE a.segment = N /\ a.arr = Profile[a.segment]
    BY <1>5, <2>1 DEF p
  <2>2. CASE /\ a.segment < N /\ a.step < Segments[a.segment + 1].steps
             /\ a.arr = Profile[a.segment] + a.step * Segments[a.segment + 1].slope
    <3>1. a.segment + 1 \in 1 .. N /\ (a.segment + 1) - 1 = a.segment
      BY <1>1, <2>2
    <3>2. a.arr = p[(a.segment + 1) - 1] + a.step * Segments[a.segment + 1].slope
      BY <2>2, <3>1 DEF p
    <3> QED BY <1>6, <2>2, <3>1, <3>2
  <2> QED BY <1>7, <2>1, <2>2 DEF Rising
<1>8. CASE a.phase = "Decel" /\ Falling(a)
  <2> DEFINE rest == N - a.segment
  <2>1. CASE rest = 0 /\ a.arr = Profile[0]
    BY <1>3, <1>5, <2>1 DEF p
  <2>2. CASE /\ rest > 0 /\ a.step < Segments[rest].steps
             /\ a.arr = Profile[rest] - a.step * Segments[rest].slope
    <3>1. rest \in 1 .. N
      BY <1>1, <2>2
    <3> HIDE DEF rest
    <3> QED BY <1>6, <2>2, <3>1 DEF p
  <2> QED BY <1>8, <2>1, <2>2 DEF Falling
<1> QED BY <1>5, <1>7, <1>8 DEF OnProfile, p

(* Planning a move leaves the axis at its speed.                           *)
LEMMA GotoPositionSpeed == SpeedInv /\ GotoPosition => Paced'
<1> SUFFICES ASSUME SpeedInv, GotoPosition PROVE Paced'
  OBVIOUS
<1>1. axis' = axis /\ thread'.at \in {"idle", "lookup"} /\ thread.at = "idle"
  BY DEF GotoPosition
<1> QED BY <1>1 DEF SpeedInv, Paced, OnProfile, Rising, Falling

(* A move starts with LowArr, at the beginning of the profile.             *)
LEMMA ContinueSpeed == Descending /\ SpeedInv /\ Continue => Paced'
<1> SUFFICES ASSUME Descending, SpeedInv, Continue PROVE Paced'
  OBVIOUS
<1> USE DEF Continues
<1>0. axis \in Axis /\ thread \in Thread
  BY DEF SpeedInv, TypeOK
<1>1. CASE LookupReset \/ TargetSet \/ DirectionSet
  <2>1. thread'.at \in {"target", "direction", "phase"}
    BY <1>0, <1>1 DEF LookupReset, TargetSet, DirectionSet, Thread
  <2> QED BY <2>1 DEF Paced
<1>2. CASE PhaseSet
  <2>1. thread'.at = "arr"
    BY <1>0, <1>2 DEF PhaseSet, Thread
  <2>2. axis'.phase \in {"NON_SIGMOID", "Accel"}
    BY <1>0, <1>2 DEF PhaseSet, Axis
  <2> QED BY <2>1, <2>2 DEF Paced
<1>3. CASE SpeedSet
  <2>1. thread.at = "arr" /\ thread'.at = "start"
    BY <1>0, <1>3 DEF SpeedSet, Thread
  <2>2. axis'.phase = axis.phase /\ axis'.arr = LowArr
    BY <1>0, <1>3 DEF SpeedSet, Axis
  <2> QED BY <2>1, <2>2 DEF SpeedInv, Paced
<1>4. CASE StartMotion
  <2> DEFINE b == ResetLookup(axis)
  <2>1. b \in Axis /\ b.phase = axis.phase /\ b.arr = axis.arr /\ b.segment = 0 /\ b.step = 0
    <3>1. b \in Axis
      BY <1>0, ResetType
    <3> QED BY <1>0, <3>1 DEF ResetLookup, Axis
  <2>2. axis' = [b EXCEPT !.running = TRUE] /\ thread.at = "start" /\ thread'.at = "idle"
    BY <1>0, <1>4 DEF StartMotion, Thread
  <2> HIDE DEF b
  <2>3. /\ axis' \in Axis /\ axis'.phase = b.phase /\ axis'.arr = b.arr
        /\ axis'.segment = 0 /\ axis'.step = 0
    BY <2>1, <2>2 DEF Axis
  <2>4. axis.phase \in {"NON_SIGMOID", "Accel"} /\ axis.arr = LowArr
    BY <2>2 DEF SpeedInv, Paced
  <2> DEFINE c == axis'
  <2>5. /\ c \in Axis /\ c.phase \in {"NON_SIGMOID", "Accel"} /\ c.arr = LowArr
        /\ c.segment = 0 /\ c.step = 0
    BY <2>1, <2>3, <2>4
  <2> HIDE DEF c
  <2>6. c.segment \in 0 .. Len(Segments) /\ c.arr = Profile[c.segment]
    BY <2>5, ProfileAssumption, ProfileSteps
  <2>7. OnProfile(c)
    BY <2>5, <2>6, SegmentBegins DEF OnProfile
  <2>8. OnProfile(axis)'
    BY <2>7 DEF c, OnProfile, Rising, Falling
  <2> QED BY <2>2, <2>8 DEF Paced
<1> QED BY <1>1, <1>2, <1>3, <1>4 DEF Continue

(* Each pulse keeps to the profile.                                        *)
LEMMA UpdateInterruptSpeed ==
  ~Preemptible /\ Descending /\ SpeedInv /\ UpdateInterrupt => Paced'
<1> SUFFICES ASSUME ~Preemptible, Descending, SpeedInv, UpdateInterrupt PROVE Paced'
  OBVIOUS
<1> DEFINE counted == [axis EXCEPT !.position = IF axis.up THEN @ + 1 ELSE @ - 1]
           driven == CASE axis.phase = "Accel" -> Accelerate(counted)
                       [] axis.phase = "Cruise" -> Cruise(counted)
                       [] axis.phase = "Decel" -> Decelerate(counted)
                       [] OTHER -> counted
<1>0. axis \in Axis
  BY DEF SpeedInv, TypeOK
<1>1. axis' = StopAtTarget(driven) /\ axis.running /\ thread.at = "idle" /\ thread' = thread
  BY DEF UpdateInterrupt
<1>2. /\ counted \in Axis /\ counted.phase = axis.phase /\ counted.arr = axis.arr
      /\ counted.segment = axis.segment /\ counted.step = axis.step
  BY <1>0 DEF Axis
<1> HIDE DEF counted
<1>3. OnProfile(counted)
  BY <1>1, <1>2 DEF SpeedInv, Paced, OnProfile, Rising, Falling
<1>4. OnProfile(driven)
  <2>1. CASE axis.phase = "Accel"
    <3>1. Rising(counted)
      BY <1>2, <1>3, <2>1 DEF OnProfile
    <3> QED BY <1>2, <2>1, <3>1, AccelerateSpeed
  <2>2. CASE axis.phase = "Cruise"
    <3>1. counted.arr = Profile[Len(Segments)]
      BY <1>2, <1>3, <2>2 DEF OnProfile
    <3> QED BY <1>2, <2>2, <3>1, CruiseSpeed
  <2>3. CASE axis.phase = "Decel"
    <3>1. Falling(counted)
      BY <1>2, <1>3, <2>3 DEF OnProfile
    <3> QED BY <1>2, <2>3, <3>1, DecelerateSpeed
  <2>4. CASE axis.phase \notin {"Accel", "Cruise", "Decel"}
    BY <1>3, <2>4
  <2> QED BY <2>1, <2>2, <2>3, <2>4
<1>5. driven \in Axis
  BY <1>2, AccelerateType, DecelerateType, CruiseType
<1> HIDE DEF driven
<1>6. axis' = driven \/ axis'.running = FALSE
  BY <1>1, <1>5 DEF StopAtTarget, Axis
<1>7. thread'.at = "idle" /\ (axis'.running => OnProfile(axis)')
  <2>1. CASE axis' = driven
    BY <1>1, <1>4, <2>1 DEF OnProfile, Rising, Falling
  <2> QED BY <1>1, <1>6, <2>1
<1> QED BY <1>7 DEF Paced

(* For every profile that descends, as the generated ones do, and all      *)
(* goals, in any order and at any time, as long as no pulse comes between  *)
(* the statements of GotoPosition: the axis is never driven faster than    *)
(* its profile allows, and never slower than its low speed.                *)
THEOREM SpeedStaysInProfile ==
  ASSUME ~Preemptible, Descending PROVE Spec => []SpeedInProfile
<1>1. Init => SpeedInv
  BY DEF Init, SpeedInv, TypeOK, Paced, Axis, Thread
<1>2. SpeedInv /\ [Next]_vars => SpeedInv'
  <2> SUFFICES ASSUME SpeedInv, [Next]_vars PROVE SpeedInv'
    OBVIOUS
  <2>1. TypeOK'
    <3>1. CASE Next
      BY <3>1, NextType DEF SpeedInv
    <3>2. CASE UNCHANGED vars
      BY <3>2 DEF vars, SpeedInv, TypeOK
    <3> QED BY <3>1, <3>2
  <2>2. CASE GotoPosition
    BY <2>1, <2>2, GotoPositionSpeed DEF SpeedInv
  <2>3. CASE Continue
    BY <2>1, <2>3, ContinueSpeed DEF SpeedInv
  <2>4. CASE SetCurrentPosition
    <3>1. axis \in Axis /\ ~axis.running /\ thread' = thread /\ thread.at = "idle"
      BY <2>4 DEF SetCurrentPosition, SpeedInv, TypeOK
    <3>2. axis'.running = axis.running
      BY <2>4, <3>1 DEF SetCurrentPosition, Axis
    <3> QED BY <2>1, <3>1, <3>2 DEF SpeedInv, Paced
  <2>5. CASE UpdateInterrupt
    BY <2>1, <2>5, UpdateInterruptSpeed DEF SpeedInv
  <2>6. CASE UNCHANGED vars
    BY <2>1, <2>6 DEF vars, SpeedInv, Paced, OnProfile, Rising, Falling
  <2> QED BY <2>2, <2>3, <2>4, <2>5, <2>6 DEF Next
<1>3. SpeedInv => SpeedInProfile
  BY OnProfileBounds DEF SpeedInv, TypeOK, Paced, SpeedInProfile
<1> QED BY <1>1, <1>2, <1>3, PTL DEF Spec
=============================================================================
