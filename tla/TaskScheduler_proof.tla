------------------------ MODULE TaskScheduler_proof ------------------------
(***************************************************************************)
(* Theorems about TaskScheduler, for every clock width, queue capacity,    *)
(* set of tasks and delays, and bound.                                     *)
(***************************************************************************)
EXTENDS TaskScheduler, SequenceTheorems, TLAPS

(* What is true of a sequence into which an element has been inserted.      *)
Inserted(S, s, i, e) ==
  /\ InsertAt(s, i, e) \in Seq(S)
  /\ Len(InsertAt(s, i, e)) = Len(s) + 1
  /\ \A k \in 1 .. Len(s) + 1 :
        InsertAt(s, i, e)[k] = IF k < i THEN s[k] ELSE IF k = i THEN e ELSE s[k - 1]

(* Insertion into the array: memmove up, then store. *)
LEMMA Inserting ==
  ASSUME NEW S, NEW s \in Seq(S), NEW i \in 1 .. Len(s) + 1, NEW e \in S
  PROVE  Inserted(S, s, i, e)
<1> DEFINE front == SubSeq(s, 1, i - 1)
           back  == SubSeq(s, i, Len(s))
<1>1. Len(s) \in Nat /\ i \in Int /\ \A k \in 1 .. Len(s) : s[k] \in S
  BY LenProperties, ElementOfSeq
<1>2. /\ front \in Seq(S)
      /\ Len(front) = i - 1
      /\ \A k \in 1 .. i - 1 : front[k] = s[k]
  <2>1. \A k \in 1 .. i - 1 : s[k] \in S
    BY <1>1
  <2>2. QED
    BY <1>1, <2>1, SubSeqProperties
<1>3. /\ back \in Seq(S)
      /\ Len(back) = Len(s) - i + 1
      /\ \A k \in 1 .. Len(s) - i + 1 : back[k] = s[i + k - 1]
  <2>1. \A k \in i .. Len(s) : s[k] \in S
    BY <1>1
  <2>2. QED
    BY <1>1, <2>1, SubSeqProperties
<1>4. <<e>> \in Seq(S) /\ Len(<<e>>) = 1 /\ <<e>>[1] = e
  OBVIOUS
<1> DEFINE upto == front \o <<e>>
<1>7. InsertAt(s, i, e) = upto \o back
  BY DEF InsertAt
<1> HIDE DEF front, back
<1>5. /\ upto \in Seq(S)
      /\ Len(upto) = i
      /\ \A k \in 1 .. i : upto[k] = IF k <= i - 1 THEN front[k] ELSE <<e>>[k - (i - 1)]
  BY <1>1, <1>2, <1>4, ConcatProperties
<1> HIDE DEF upto
<1>6. /\ upto \o back \in Seq(S)
      /\ Len(upto \o back) = Len(s) + 1
      /\ \A k \in 1 .. Len(s) + 1 :
            (upto \o back)[k] = IF k <= i THEN upto[k] ELSE back[k - i]
  BY <1>1, <1>3, <1>5, ConcatProperties
<1>8. ASSUME NEW k \in 1 .. Len(s) + 1
      PROVE  (upto \o back)[k] = IF k < i THEN s[k] ELSE IF k = i THEN e ELSE s[k - 1]
  <2>1. CASE k < i
    <3>1. k \in 1 .. i - 1 /\ k \in 1 .. i
      BY <1>1, <2>1
    <3>2. (upto \o back)[k] = upto[k] /\ upto[k] = front[k] /\ front[k] = s[k]
      BY <1>2, <1>5, <1>6, <3>1
    <3>3. QED
      BY <2>1, <3>2
  <2>2. CASE k = i
    <3>1. k \in 1 .. i /\ ~(k <= i - 1) /\ k - (i - 1) = 1 /\ ~(k < i)
      BY <1>1, <2>2
    <3>2. (upto \o back)[k] = upto[k] /\ upto[k] = e
      BY <1>4, <1>5, <1>6, <3>1
    <3>3. QED
      BY <2>2, <3>1, <3>2
  <2>3. CASE k > i
    <3>1. /\ k - i \in 1 .. Len(s) - i + 1 /\ i + (k - i) - 1 = k - 1
          /\ ~(k <= i) /\ ~(k < i) /\ k # i
      BY <1>1, <2>3
    <3>2. (upto \o back)[k] = back[k - i] /\ back[k - i] = s[k - 1]
      BY <1>3, <1>6, <3>1
    <3>3. QED
      BY <3>1, <3>2
  <2>4. k < i \/ k = i \/ k > i
    BY <1>1
  <2>5. QED
    BY <2>1, <2>2, <2>3, <2>4, Zenon
<1>9. QED
  BY <1>6, <1>7, <1>8, Zenon DEF Inserted

(* The same, one part at a time.                                            *)
LEMMA InsertAtProperties ==
  ASSUME NEW S, NEW s \in Seq(S), NEW i \in 1 .. Len(s) + 1, NEW e \in S
  PROVE  /\ InsertAt(s, i, e) \in Seq(S)
         /\ Len(InsertAt(s, i, e)) = Len(s) + 1
         /\ \A k \in 1 .. Len(s) + 1 :
               InsertAt(s, i, e)[k] = IF k < i THEN s[k] ELSE IF k = i THEN e ELSE s[k - 1]
<1>1. Inserted(S, s, i, e)
  BY Inserting
<1>2. QED
  BY <1>1, Zenon DEF Inserted

(* Removal from the array: memmove down. *)
LEMMA RemoveAtProperties ==
  ASSUME NEW S, NEW s \in Seq(S), NEW i \in 1 .. Len(s)
  PROVE  /\ RemoveAt(s, i) \in Seq(S)
         /\ Len(RemoveAt(s, i)) = Len(s) - 1
         /\ \A k \in 1 .. Len(s) - 1 :
               RemoveAt(s, i)[k] = IF k < i THEN s[k] ELSE s[k + 1]
<1> DEFINE front == SubSeq(s, 1, i - 1)
           back  == SubSeq(s, i + 1, Len(s))
<1>1. Len(s) \in Nat /\ i \in Int /\ \A k \in 1 .. Len(s) : s[k] \in S
  BY LenProperties, ElementOfSeq
<1>2. /\ front \in Seq(S)
      /\ Len(front) = i - 1
      /\ \A k \in 1 .. i - 1 : front[k] = s[k]
  <2>1. \A k \in 1 .. i - 1 : s[k] \in S
    BY <1>1
  <2>2. QED
    BY <1>1, <2>1, SubSeqProperties
<1>3. /\ back \in Seq(S)
      /\ Len(back) = Len(s) - i
      /\ \A k \in 1 .. Len(s) - i : back[k] = s[i + k]
  <2>1. \A k \in i + 1 .. Len(s) : s[k] \in S
    BY <1>1
  <2>2. /\ back \in Seq(S)
        /\ Len(back) = IF i + 1 <= Len(s) THEN Len(s) - (i + 1) + 1 ELSE 0
        /\ \A k \in 1 .. Len(s) - (i + 1) + 1 : back[k] = s[(i + 1) + k - 1]
    BY <1>1, <2>1, SubSeqProperties
  <2> HIDE DEF back
  <2>3. QED
    BY <1>1, <2>2
<1>5. RemoveAt(s, i) = front \o back
  BY DEF RemoveAt
<1> HIDE DEF front, back
<1>4. /\ front \o back \in Seq(S)
      /\ Len(front \o back) = Len(s) - 1
      /\ \A k \in 1 .. Len(s) - 1 :
            (front \o back)[k] = IF k <= i - 1 THEN front[k] ELSE back[k - (i - 1)]
  <2>1. Len(front) + Len(back) = Len(s) - 1
    BY <1>1, <1>2, <1>3
  <2>2. /\ front \o back \in Seq(S)
        /\ Len(front \o back) = Len(front) + Len(back)
        /\ \A k \in 1 .. Len(front) + Len(back) :
              (front \o back)[k] = IF k <= Len(front) THEN front[k] ELSE back[k - Len(front)]
    BY <1>2, <1>3, ConcatProperties
  <2>3. QED
    BY <1>2, <2>1, <2>2
<1>6. ASSUME NEW k \in 1 .. Len(s) - 1
      PROVE  (front \o back)[k] = IF k < i THEN s[k] ELSE s[k + 1]
  <2>1. CASE k < i
    <3>1. k \in 1 .. i - 1
      BY <1>1, <2>1
    <3>2. (front \o back)[k] = front[k] /\ front[k] = s[k]
      BY <1>2, <1>4, <3>1
    <3>3. QED
      BY <2>1, <3>2
  <2>2. CASE k >= i
    <3>1. /\ k - (i - 1) \in 1 .. Len(s) - i /\ i + (k - (i - 1)) = k + 1
          /\ ~(k <= i - 1) /\ ~(k < i)
      BY <1>1, <2>2
    <3>2. (front \o back)[k] = back[k - (i - 1)] /\ back[k - (i - 1)] = s[k + 1]
      BY <1>3, <1>4, <3>1
    <3>3. QED
      BY <3>1, <3>2
  <2>3. k < i \/ k >= i
    BY <1>1
  <2>4. QED
    BY <2>1, <2>2, <2>3, Zenon
<1>7. QED
  BY <1>4, <1>5, <1>6

----------------------------------------------------------------------------
(* The difference of two uint32_t times is one. *)
LEMMA TimeDifferenceInRange ==
  ASSUME NEW time \in 0 .. TimeMod - 1, NEW at \in 0 .. TimeMod - 1
  PROVE  TimeDifference(time, at) \in 0 .. TimeMod - 1
BY ClockAssumption DEF TimeDifference, Wrap

(* Ageing keeps the array an array of items. *)
LEMMA AgedItems ==
  ASSUME NEW s \in Seq(Item)
  PROVE  /\ [i \in 1 .. Len(s) |-> Age(s[i])] \in Seq(Item)
         /\ Len([i \in 1 .. Len(s) |-> Age(s[i])]) = Len(s)
<1>1. Len(s) \in Nat /\ \A i \in 1 .. Len(s) : s[i] \in Item
  BY LenProperties, ElementOfSeq
<1>2. ASSUME NEW i \in 1 .. Len(s)
      PROVE  Age(s[i]) \in Item
  <2>1. s[i] \in Item /\ s[i].left \in Int
    BY <1>1 DEF Item
  <2> DEFINE l == IF s[i].left > -MaxLate THEN s[i].left - 1 ELSE s[i].left
  <2>2. l \in Int
    BY <2>1, BoundAssumption
  <2>3. Age(s[i]) = [s[i] EXCEPT !.left = l]
    BY DEF Age
  <2> HIDE DEF l
  <2>4. QED
    BY <2>1, <2>2, <2>3 DEF Item
<1>3. QED
  BY <1>1, <1>2

(* The type invariant is inductive. *)
LEMMA TypeInit == Init => TypeOK
<1> SUFFICES ASSUME Init
             PROVE  TypeOK
  OBVIOUS
<1>1. items \in Seq(Item) /\ Len(items) = 0
  BY EmptySeq DEF Init
<1>2. now \in 0 .. TimeMod - 1 /\ lag \in 0 .. MaxLag /\ timer \in Blocked .. MaxReload + 1
  BY ClockAssumption, BoundAssumption DEF Init, Stopped, Blocked
<1>3. Len(items) <= Capacity
  BY <1>1, BoundAssumption
<1>4. /\ started \in BOOLEAN /\ pending \in BOOLEAN /\ depth \in Nat /\ calls \in Nat
      /\ pc \in {"idle", "check", "arm", "task", "trap"}
  BY DEF Init
<1>5. call \in Call
  BY DEF Init, Call
<1>6. QED
  BY <1>1, <1>2, <1>3, <1>4, <1>5 DEF TypeOK

(* Each operation on the array, the timer and the clock keeps the types.    *)
LEMMA TypeStep == TypeOK /\ QueueInv /\ [Next]_vars => TypeOK'
<1> SUFFICES ASSUME TypeOK, QueueInv, [Next]_vars
             PROVE  TypeOK'
  OBVIOUS
<1> USE ClockAssumption, BoundAssumption DEF Stopped, Blocked
<1>0. Len(items) \in Nat /\ \A i \in 1 .. Len(items) : items[i] \in Item
  BY LenProperties, ElementOfSeq DEF TypeOK
<1>1. CASE Start
  BY <1>1 DEF Start, TypeOK
<1>2. ASSUME NEW task \in Tasks, NEW delay \in Delays, NEW skew \in 0 .. 1,
             ScheduleTaskAfter(task, delay, skew)
      PROVE  TypeOK'
  <2> DEFINE time == Wrap(Wrap(now - skew) + delay)
             item == [id |-> calls + 1, task |-> task, time |-> time, left |-> delay - skew]
  <2>1. Wrap(now - skew) \in 0 .. TimeMod - 1
    BY DEF TypeOK, Wrap
  <2>2. time \in 0 .. TimeMod - 1
    BY <2>1 DEF Wrap
  <2>3. item \in Item
    BY <2>2 DEF Item, TypeOK
  <2>4. PICK i \in 1 .. Len(items) + 1 : items' = InsertAt(items, i, item)
    BY <1>2 DEF ScheduleTaskAfter
  <2> HIDE DEF item
  <2>5. items' \in Seq(Item) /\ Len(items') = Len(items) + 1
    BY <2>3, <2>4, InsertAtProperties DEF TypeOK
  <2>6. Len(items') <= Capacity
    BY <1>0, <1>2, <2>5 DEF ScheduleTaskAfter
  <2>7. call' \in Call
    BY <1>2 DEF ScheduleTaskAfter, Call
  <2>8. QED
    BY <1>2, <2>5, <2>6, <2>7 DEF ScheduleTaskAfter, CallCheckPendingTasks, TypeOK
<1>3. CASE ScheduleTrap
  BY <1>3 DEF ScheduleTrap, TypeOK
<1>4. ASSUME NEW task \in Tasks, CancelTask(task)
      PROVE  TypeOK'
  <2>0. call' \in Call
    BY <1>4 DEF CancelTask, Call
  <2>1. CASE UNCHANGED items
    BY <1>4, <2>0, <2>1 DEF CancelTask, CallCheckPendingTasks, TypeOK
  <2>2. ASSUME NEW i \in 1 .. Len(items), items' = RemoveAt(items, i)
        PROVE  TypeOK'
    <3>1. items' \in Seq(Item) /\ Len(items') = Len(items) - 1
      BY <2>2, RemoveAtProperties DEF TypeOK
    <3>2. Len(items') <= Capacity
      BY <1>0, <3>1 DEF TypeOK
    <3>3. QED
      BY <1>4, <2>0, <3>1, <3>2 DEF CancelTask, CallCheckPendingTasks, TypeOK
  <2>3. QED
    BY <1>4, <2>1, <2>2 DEF CancelTask
<1>5. CASE CancelAllTasks
  BY <1>5 DEF CancelAllTasks, Call, TypeOK
<1>6. CASE CheckEmpty
  BY <1>6 DEF CheckEmpty, ReturnFromCheck, TypeOK
<1>7. CASE CheckRun
  <2>1. Tail(items) \in Seq(Item) /\ Len(Tail(items)) = Len(items) - 1
    BY <1>7, HeadTailProperties DEF CheckRun, TypeOK
  <2>2. items' \in Seq(Item) /\ Len(items') <= Capacity
    BY <1>0, <1>7, <2>1 DEF CheckRun, TypeOK
  <2>3. QED
    BY <1>7, <2>2 DEF CheckRun, TypeOK
<1>8. CASE CheckWait
  BY <1>8 DEF CheckWait, TypeOK
<1>9. CASE TaskReturns
  BY <1>9 DEF TaskReturns, TypeOK
<1>10. ASSUME NEW phase \in 0 .. 1, Arm(phase)
       PROVE  TypeOK'
  <2>1. items # << >> /\ 1 \in 1 .. Len(items)
    BY <1>0, <1>10, EmptySeq DEF QueueInv, Arm, TypeOK
  <2>2. TimeDifference(items[1].time, now) \in 0 .. TimeMod - 1
    BY <1>0, <2>1, TimeDifferenceInRange DEF Item, TypeOK
  <2>3. timer' \in Blocked .. MaxReload + 1
    BY <1>10, <2>2 DEF Arm
  <2>4. QED
    BY <1>10, <2>3 DEF Arm, ReturnFromCheck, TypeOK
<1>11. CASE TimerFires
  BY <1>11 DEF TimerFires, TypeOK
<1>12. CASE OnInterrupt
  BY <1>12 DEF OnInterrupt, TypeOK
<1>13. CASE Tick
  <2>1. items' \in Seq(Item) /\ Len(items') = Len(items)
    BY <1>13, AgedItems DEF Tick, TypeOK
  <2>2. now' \in 0 .. TimeMod - 1
    BY <1>13 DEF Tick, TypeOK, Wrap
  <2>3. QED
    BY <1>13, <2>1, <2>2 DEF Tick, TypeOK, CpuOwesStep
<1>14. CASE UNCHANGED vars
  BY <1>14 DEF vars, TypeOK
<1>15. QED
  BY <1>1, <1>2, <1>3, <1>4, <1>5, <1>6, <1>7, <1>8, <1>9, <1>10, <1>11, <1>12, <1>13, <1>14
  DEF Next, Client, CheckPendingTasks

(* checkPendingTasks reaches the restart of the timer only with a task in  *)
(* the queue: between the test and the restart nothing empties it.  And    *)
(* nothing is queued before start().                                       *)
LEMMA ArmStep == TypeOK /\ QueueInv /\ [Next]_vars => QueueInv'
<1> SUFFICES ASSUME TypeOK, QueueInv, [Next]_vars
             PROVE  QueueInv'
  OBVIOUS
<1> USE DEF QueueInv
<1>1. CASE Start
  BY <1>1 DEF Start
<1>2. CASE Client
  BY <1>2 DEF Client, ClientMayCall, ScheduleTaskAfter, ScheduleTrap, CancelTask, CancelAllTasks,
              CallCheckPendingTasks
<1>3. CASE CheckPendingTasks
  BY <1>3 DEF CheckPendingTasks, CheckEmpty, CheckRun, CheckWait, TaskReturns, Arm, ReturnFromCheck
<1>4. CASE TimerFires \/ OnInterrupt
  BY <1>4 DEF TimerFires, OnInterrupt
<1>5. CASE Tick
  <2>1. Len(items') = Len(items) /\ items \in Seq(Item) /\ items' \in Seq(Item)
    BY <1>5, AgedItems DEF Tick, TypeOK
  <2>2. items = << >> <=> items' = << >>
    BY <2>1, EmptySeq
  <2>3. QED
    BY <1>5, <2>2 DEF Tick
<1>6. CASE UNCHANGED vars
  BY <1>6 DEF vars
<1>7. QED
  BY <1>1, <1>2, <1>3, <1>4, <1>5, <1>6 DEF Next

(* Every reachable state is well typed: in particular the array never      *)
(* holds more than Capacity items and the timer period stays in range.     *)
THEOREM TypeCorrect == Spec => [](TypeOK /\ QueueInv)
<1>1. Init => TypeOK /\ QueueInv
  BY TypeInit DEF Init, QueueInv
<1>2. TypeOK /\ QueueInv /\ [Next]_vars => (TypeOK /\ QueueInv)'
  BY TypeStep, ArmStep
<1>3. QED
  BY <1>1, <1>2, PTL DEF Spec

----------------------------------------------------------------------------
(* One tick of the clock takes one from the difference to every time that  *)
(* is still ahead, also when the clock or the time has wrapped around.     *)
LEMMA TickFaithful ==
  ASSUME NEW item \in Item, NEW at \in 0 .. TimeMod - 1, Faithful(item, at)
  PROVE  Faithful(Age(item), Wrap(at + 1))
<1> DEFINE l == IF item.left > -MaxLate THEN item.left - 1 ELSE item.left
<1>1. item.left \in Int /\ item.time \in 0 .. TimeMod - 1
  BY DEF Item
<1>2. Age(item) = [item EXCEPT !.left = l] /\ Age(item).left = l /\ Age(item).time = item.time
  BY DEF Age, Item
<1>3. l >= 0 => item.left > 0 /\ l = item.left - 1
  BY <1>1, BoundAssumption
<1>4. item.left > 0 => TimeDifference(item.time, Wrap(at + 1)) = item.left - 1
  BY <1>1, ClockAssumption DEF Faithful, TimeDifference, Wrap
<1> HIDE DEF l
<1>5. QED
  BY <1>1, <1>2, <1>3, <1>4, ClockAssumption DEF Faithful

(* A task that is scheduled starts out with a faithful time. *)
LEMMA ScheduleFaithful ==
  ASSUME NEW at \in 0 .. TimeMod - 1, NEW delay \in Delays, NEW skew \in 0 .. 1,
         NEW item, item.left = delay - skew, item.time = Wrap(Wrap(at - skew) + delay)
  PROVE  Faithful(item, at)
<1>1. delay \in Int /\ 0 <= delay /\ delay < TimeMod
  BY ClockAssumption
<1>2. delay - skew >= 0 => TimeDifference(Wrap(Wrap(at - skew) + delay), at) = delay - skew
  BY <1>1, ClockAssumption DEF TimeDifference, Wrap
<1>3. QED
  BY <1>1, <1>2, ClockAssumption DEF Faithful

(* No operation touches the time of another task, and a tick ages all.     *)
LEMMA FaithfulStep ==
  ASSUME TypeOK, TimesFaithful, [Next]_vars
  PROVE  TimesFaithful'
<1> USE DEF TimesFaithful
<1>0. /\ items \in Seq(Item) /\ Len(items) \in Nat /\ now \in 0 .. TimeMod - 1
      /\ \A i \in 1 .. Len(items) : items[i] \in Item /\ Faithful(items[i], now)
  BY LenProperties, ElementOfSeq DEF TypeOK
<1>a. items \in Seq(Item)
  BY DEF TypeOK
<1>1. CASE items' = << >> /\ Len(items') = 0
  BY <1>1
<1>2. CASE UNCHANGED <<items, now>>
  BY <1>2
<1>3. ASSUME NEW task \in Tasks, NEW delay \in Delays, NEW skew \in 0 .. 1,
             ScheduleTaskAfter(task, delay, skew)
      PROVE  TimesFaithful'
  <2> DEFINE time == Wrap(Wrap(now - skew) + delay)
             item == [id |-> calls + 1, task |-> task, time |-> time, left |-> delay - skew]
  <2>1. time \in 0 .. TimeMod - 1
    BY <1>0, ClockAssumption DEF Wrap
  <2>2. item \in Item
    BY <2>1, ClockAssumption DEF Item, TypeOK
  <2>3. item.left = delay - skew /\ item.time = Wrap(Wrap(now - skew) + delay)
    OBVIOUS
  <2>4. PICK i \in 1 .. Len(items) + 1 : items' = InsertAt(items, i, item)
    BY <1>3 DEF ScheduleTaskAfter
  <2>5. now' = now
    BY <1>3 DEF ScheduleTaskAfter
  <2> HIDE DEF item, time
  <2>6. Faithful(item, now)
    BY <1>0, <2>3, ScheduleFaithful
  <2>7. /\ Len(items') = Len(items) + 1
        /\ \A k \in 1 .. Len(items) + 1 :
              items'[k] = IF k < i THEN items[k] ELSE IF k = i THEN item ELSE items[k - 1]
    <3>1. /\ Len(InsertAt(items, i, item)) = Len(items) + 1
          /\ \A k \in 1 .. Len(items) + 1 :
                InsertAt(items, i, item)[k] = IF k < i THEN items[k]
                                              ELSE IF k = i THEN item ELSE items[k - 1]
      <4>1. Inserted(Item, items, i, item)
        BY <1>a, <2>2, Inserting
      <4>2. QED
        BY <4>1, Zenon DEF Inserted
    <3>2. QED
      BY <2>4, <3>1
  <2>8. ASSUME NEW k \in 1 .. Len(items')
        PROVE  Faithful(items'[k], now)
    <3>1. CASE k < i
      BY <1>0, <2>7, <3>1
    <3>2. CASE k = i
      BY <1>0, <2>6, <2>7, <3>2
    <3>3. CASE k > i
      <4>1. k - 1 \in 1 .. Len(items) /\ ~(k < i) /\ k # i
        BY <1>0, <2>7, <3>3
      <4>2. QED
        BY <1>0, <2>7, <4>1
    <3>4. k < i \/ k = i \/ k > i
      BY <1>0
    <3>5. QED
      BY <3>1, <3>2, <3>3, <3>4, Zenon
  <2>9. QED
    BY <2>5, <2>8
<1>4. ASSUME NEW task \in Tasks, CancelTask(task)
      PROVE  TimesFaithful'
  <2>1. now' = now
    BY <1>4 DEF CancelTask
  <2>2. ASSUME NEW i \in 1 .. Len(items), items' = RemoveAt(items, i)
        PROVE  TimesFaithful'
    <3>1. /\ Len(items') = Len(items) - 1
          /\ \A k \in 1 .. Len(items) - 1 :
                items'[k] = IF k < i THEN items[k] ELSE items[k + 1]
      BY <1>0, <2>2, RemoveAtProperties
    <3>2. ASSUME NEW k \in 1 .. Len(items')
          PROVE  \E j \in 1 .. Len(items) : items'[k] = items[j]
      BY <1>0, <3>1
    <3>3. QED
      BY <1>0, <2>1, <3>2
  <2>3. QED
    BY <1>2, <1>4, <2>1, <2>2 DEF CancelTask
<1>5. CASE CheckRun
  <2>1. /\ Len(items') = Len(items) - 1
        /\ \A k \in 1 .. Len(items') : items'[k] = items[k + 1]
    BY <1>0, <1>5, HeadTailProperties DEF CheckRun
  <2>2. ASSUME NEW k \in 1 .. Len(items')
        PROVE  \E j \in 1 .. Len(items) : items'[k] = items[j]
    BY <1>0, <2>1
  <2>3. now' = now
    BY <1>5 DEF CheckRun
  <2>4. QED
    BY <1>0, <2>2, <2>3
<1>6. CASE Tick
  <2>1. /\ Len(items') = Len(items)
        /\ \A k \in 1 .. Len(items) : items'[k] = Age(items[k])
        /\ now' = Wrap(now + 1)
    BY <1>0, <1>6, AgedItems DEF Tick
  <2>2. QED
    BY <1>0, <2>1, TickFaithful
<1>7. CASE Start \/ CancelAllTasks
  BY <1>1, <1>7, EmptySeq DEF Start, CancelAllTasks
<1>8. QED
  BY <1>2, <1>3, <1>4, <1>5, <1>6, <1>7
  DEF Next, Client, CheckPendingTasks, ScheduleTrap, CheckEmpty, CheckWait, TaskReturns, Arm,
      TimerFires, OnInterrupt, vars

(* No task is ever executed before its time but one that is farther ahead  *)
(* than ExpiryLimit: the wrap-around comparison takes a queued task for    *)
(* expired only when its time has truly passed or is beyond the limit.     *)
THEOREM NothingRunsEarly == Spec => []NeverEarly
<1>1. Init => TimesFaithful
  BY EmptySeq DEF Init, TimesFaithful
<1>2. TypeOK /\ TimesFaithful /\ [Next]_vars => TimesFaithful'
  BY FaithfulStep
<1>3. TypeOK /\ TimesFaithful => NeverEarly
  <2> SUFFICES ASSUME TypeOK, TimesFaithful, NEW i \in 1 .. Len(items),
                      HasExpired(items[i].time, now)
               PROVE  items[i].left < 0 \/ items[i].left > ExpiryLimit
    BY DEF NeverEarly
  <2>a. items \in Seq(Item)
    BY DEF TypeOK
  <2>b. items[i] \in Item
    BY <2>a, ElementOfSeq
  <2>1. items[i].left \in Int
    BY <2>b DEF Item
  <2>2. Faithful(items[i], now)
    BY DEF TimesFaithful
  <2>3. QED
    BY <2>1, <2>2, ClockAssumption DEF Faithful, HasExpired
<1>4. QED
  BY <1>1, <1>2, <1>3, TypeCorrect, PTL DEF Spec

(* A step leaves a queued task without a wake-up only by starting the      *)
(* timer with the period 0 for a first task that is due.                   *)
LEMMA WakeupStep ==
  ASSUME TypeOK, QueueInv, TimesFaithful, NoLostWakeup, [Next]_vars
  PROVE  NoLostWakeup'
<1> USE DEF NoLostWakeup, BlockedWhenDue, Stopped, Blocked
<1>1. CASE Start
  BY <1>1 DEF Start
<1>2. CASE Client
  BY <1>2 DEF Client, ClientMayCall, ScheduleTaskAfter, ScheduleTrap, CancelTask, CancelAllTasks,
              CallCheckPendingTasks
<1>3. CASE CheckEmpty \/ CheckRun \/ CheckWait \/ TaskReturns
  BY <1>3 DEF CheckEmpty, CheckRun, CheckWait, TaskReturns, ReturnFromCheck
<1>4. ASSUME NEW phase \in 0 .. 1, Arm(phase)
      PROVE  NoLostWakeup'
  <2>1. items # << >> /\ 1 \in 1 .. Len(items) /\ items[1] \in Item
    BY <1>4, EmptySeq, ElementOfSeq, LenProperties DEF QueueInv, Arm, TypeOK
  <2> DEFINE delay == TimeDifference(items[1].time, now)
             reload == IF delay > MaxReload THEN MaxReload ELSE delay
  <2>2. delay \in 0 .. TimeMod - 1 /\ items[1].left \in Int
    BY <2>1, TimeDifferenceInRange DEF Item, TypeOK
  <2>3. timer' = (IF reload = 0 THEN Blocked ELSE reload + phase) /\ items' = items
    BY <1>4 DEF Arm
  <2>4. items[1].left >= 0 => delay = items[1].left
    BY <2>1 DEF TimesFaithful, Faithful
  <2> HIDE DEF delay
  <2>5. CASE delay = 0
    BY <2>2, <2>3, <2>4, <2>5, ClockAssumption
  <2>6. CASE delay # 0
    BY <2>2, <2>3, <2>6, ClockAssumption
  <2>7. QED
    BY <2>5, <2>6
<1>5. CASE TimerFires \/ OnInterrupt
  BY <1>5 DEF TimerFires, OnInterrupt
<1>6. CASE Tick
  <2>1. /\ Len(items') = Len(items) /\ items \in Seq(Item) /\ items' \in Seq(Item)
        /\ \A k \in 1 .. Len(items) : items'[k] = Age(items[k])
    BY <1>6, AgedItems DEF Tick, TypeOK
  <2>2. items' # << >> => items # << >>
    BY <2>1, EmptySeq
  <2>3. /\ timer >= 0 => timer' >= 0
        /\ timer = Blocked => timer' = Blocked
    BY <1>6 DEF Tick, TypeOK
  <2>4. items # << >> /\ items[1].left <= 0 => items'[1].left <= 0
    <3> SUFFICES ASSUME items # << >>, items[1].left <= 0
                 PROVE  items'[1].left <= 0
      OBVIOUS
    <3>1. 1 \in 1 .. Len(items) /\ items[1] \in Item /\ items'[1] = Age(items[1])
      BY <2>1, EmptySeq, ElementOfSeq, LenProperties
    <3>2. items[1].left \in Int
      BY <3>1 DEF Item
    <3>3. items'[1].left = IF items[1].left > -MaxLate THEN items[1].left - 1 ELSE items[1].left
      BY <3>1 DEF Age, Item
    <3>4. QED
      BY <3>2, <3>3
  <2>5. QED
    BY <1>6, <2>2, <2>3, <2>4 DEF Tick
<1>7. CASE UNCHANGED vars
  BY <1>7 DEF vars
<1>8. QED
  BY <1>1, <1>2, <1>3, <1>4, <1>5, <1>6, <1>7 DEF Next, CheckPendingTasks

(* Whenever nobody is inside the scheduler and a task is queued, the timer *)
(* counts or its interrupt is pending; the only other case is a timer      *)
(* started with the period 0, which the hardware does not count, and then  *)
(* the first task is due.                                                  *)
THEOREM WakeupsAreLostOnlyByZero == Spec => []NoLostWakeup
<1>1. Init => TimesFaithful /\ NoLostWakeup
  BY EmptySeq DEF Init, TimesFaithful, NoLostWakeup
<1>2. TypeOK /\ TimesFaithful /\ [Next]_vars => TimesFaithful'
  BY FaithfulStep
<1>3. TypeOK /\ QueueInv /\ TimesFaithful /\ NoLostWakeup /\ [Next]_vars => NoLostWakeup'
  BY WakeupStep
<1>4. QED
  BY <1>1, <1>2, <1>3, TypeCorrect, PTL DEF Spec

----------------------------------------------------------------------------
(* The array and the set of pending tasks. *)
LEMMA ToSetOfSeq ==
  ASSUME NEW S, NEW s \in Seq(S)
  PROVE  ToSet(s) = {s[k] : k \in 1 .. Len(s)}
BY LenProperties DEF ToSet

(* Insertion adds one element to the set, wherever it goes. *)
LEMMA ToSetOfInsertAt ==
  ASSUME NEW S, NEW s \in Seq(S), NEW i \in 1 .. Len(s) + 1, NEW e \in S
  PROVE  ToSet(InsertAt(s, i, e)) = ToSet(s) \union {e}
<1> DEFINE t == InsertAt(s, i, e)
<1>1. /\ t \in Seq(S) /\ Len(t) = Len(s) + 1 /\ Len(s) \in Nat
      /\ \A k \in 1 .. Len(s) + 1 : t[k] = IF k < i THEN s[k] ELSE IF k = i THEN e ELSE s[k - 1]
  BY InsertAtProperties, LenProperties
<1> HIDE DEF t
<1>2. ToSet(t) = {t[k] : k \in 1 .. Len(s) + 1} /\ ToSet(s) = {s[k] : k \in 1 .. Len(s)}
  BY <1>1, ToSetOfSeq
<1>3. ASSUME NEW k \in 1 .. Len(s) + 1
      PROVE  t[k] \in ToSet(s) \union {e}
  <2>1. k < i => k \in 1 .. Len(s) /\ t[k] = s[k]
    BY <1>1
  <2>2. k > i => k - 1 \in 1 .. Len(s) /\ t[k] = s[k - 1]
    BY <1>1
  <2>3. k = i => t[k] = e
    BY <1>1
  <2>4. k < i \/ k > i \/ k = i
    BY <1>1
  <2>5. QED
    BY <1>2, <2>1, <2>2, <2>3, <2>4
<1>4. ASSUME NEW k \in 1 .. Len(s)
      PROVE  s[k] \in ToSet(t)
  <2>1. k < i => k \in 1 .. Len(s) + 1 /\ t[k] = s[k]
    BY <1>1
  <2>2. k >= i => k + 1 \in 1 .. Len(s) + 1 /\ t[k + 1] = s[k]
    <3>1. k >= i => k + 1 \in 1 .. Len(s) + 1 /\ ~(k + 1 < i) /\ k + 1 # i /\ (k + 1) - 1 = k
      BY <1>1
    <3>2. QED
      BY <1>1, <3>1
  <2>3. k < i \/ k >= i
    BY <1>1
  <2>4. QED
    BY <1>2, <2>1, <2>2, <2>3
<1>5. e \in ToSet(t)
  BY <1>1, <1>2
<1>6. QED
  BY <1>2, <1>3, <1>4, <1>5 DEF t

(* Removal takes one element from it, if no other is equal. *)
LEMMA ToSetOfRemoveAt ==
  ASSUME NEW S, NEW s \in Seq(S), NEW i \in 1 .. Len(s),
         \A j, k \in 1 .. Len(s) : j # k => s[j] # s[k]
  PROVE  ToSet(RemoveAt(s, i)) = ToSet(s) \ {s[i]}
<1> DEFINE t == RemoveAt(s, i)
<1>1. /\ t \in Seq(S) /\ Len(t) = Len(s) - 1 /\ Len(s) \in Nat
      /\ \A k \in 1 .. Len(s) - 1 : t[k] = IF k < i THEN s[k] ELSE s[k + 1]
  BY RemoveAtProperties, LenProperties
<1> HIDE DEF t
<1>2. ToSet(t) = {t[k] : k \in 1 .. Len(s) - 1} /\ ToSet(s) = {s[k] : k \in 1 .. Len(s)}
  BY <1>1, ToSetOfSeq
<1>3. ASSUME NEW k \in 1 .. Len(s) - 1
      PROVE  t[k] \in ToSet(s) \ {s[i]}
  <2>1. k < i => k \in 1 .. Len(s) /\ k # i /\ t[k] = s[k]
    BY <1>1
  <2>2. k >= i => k + 1 \in 1 .. Len(s) /\ k + 1 # i /\ t[k] = s[k + 1]
    BY <1>1
  <2>3. k < i \/ k >= i
    BY <1>1
  <2>4. QED
    BY <1>2, <2>1, <2>2, <2>3
<1>4. ASSUME NEW k \in 1 .. Len(s), k # i
      PROVE  s[k] \in ToSet(t)
  <2>1. k < i => k \in 1 .. Len(s) - 1 /\ t[k] = s[k]
    BY <1>1
  <2>2. k > i => k - 1 \in 1 .. Len(s) - 1 /\ t[k - 1] = s[k]
    <3>1. k > i => k - 1 \in 1 .. Len(s) - 1 /\ ~(k - 1 < i) /\ (k - 1) + 1 = k
      BY <1>1
    <3>2. QED
      BY <1>1, <3>1
  <2>3. k < i \/ k > i
    BY <1>1, <1>4
  <2>4. QED
    BY <1>2, <2>1, <2>2, <2>3
<1>5. QED
  BY <1>2, <1>3, <1>4 DEF t

(* So does removal of the first item, which is about to be executed. *)
LEMMA ToSetOfTail ==
  ASSUME NEW S, NEW s \in Seq(S), s # << >>,
         \A j, k \in 1 .. Len(s) : j # k => s[j] # s[k]
  PROVE  ToSet(Tail(s)) = ToSet(s) \ {s[1]}
<1> DEFINE t == Tail(s)
<1>1. /\ t \in Seq(S) /\ Len(t) = Len(s) - 1 /\ Len(s) \in Nat \ {0}
      /\ \A k \in 1 .. Len(s) - 1 : t[k] = s[k + 1]
  BY HeadTailProperties, EmptySeq
<1> HIDE DEF t
<1>2. ToSet(t) = {t[k] : k \in 1 .. Len(s) - 1} /\ ToSet(s) = {s[k] : k \in 1 .. Len(s)}
  BY <1>1, ToSetOfSeq
<1>3. ASSUME NEW k \in 1 .. Len(s) - 1
      PROVE  t[k] \in ToSet(s) \ {s[1]}
  <2>1. k + 1 \in 1 .. Len(s) /\ 1 \in 1 .. Len(s) /\ k + 1 # 1 /\ t[k] = s[k + 1]
    BY <1>1
  <2>2. QED
    BY <1>2, <2>1
<1>4. ASSUME NEW k \in 1 .. Len(s), k # 1
      PROVE  s[k] \in ToSet(t)
  <2>1. k - 1 \in 1 .. Len(s) - 1 /\ (k - 1) + 1 = k
    BY <1>1, <1>4
  <2>2. t[k - 1] = s[k]
    BY <1>1, <2>1
  <2>3. QED
    BY <1>2, <2>1, <2>2
<1>5. QED
  BY <1>2, <1>3, <1>4 DEF t

(* Identities stay unique: a new one is larger than all before it. *)
LEMMA UniqueStep ==
  ASSUME TypeOK, UniqueIds, [Next]_vars
  PROVE  UniqueIds'
<1> USE DEF UniqueIds
<1> DEFINE Reindexes(f) ==
             /\ \A k \in 1 .. Len(items') : f[k] \in 1 .. Len(items) /\ items'[k].id = items[f[k]].id
             /\ \A j, k \in 1 .. Len(items') : j # k => f[j] # f[k]
<1>a. items \in Seq(Item)
  BY DEF TypeOK
<1>b. Len(items) \in Nat /\ calls \in Nat
  BY <1>a, LenProperties DEF TypeOK
<1>c. \A i \in 1 .. Len(items) : items[i] \in Item
  BY <1>a, ElementOfSeq
<1>d. \A i \in 1 .. Len(items) : items[i].id \in Nat
  BY <1>c DEF Item
<1>0. /\ Len(items) \in Nat /\ calls \in Nat
      /\ \A i \in 1 .. Len(items) : items[i].id \in Nat
  BY <1>b, <1>d
<1>1. ASSUME calls' \in Nat, calls' >= calls, NEW f, Reindexes(f)
      PROVE  UniqueIds'
  <2>1. ASSUME NEW i \in 1 .. Len(items')
        PROVE  items'[i].id <= calls'
    <3>1. f[i] \in 1 .. Len(items) /\ items'[i].id = items[f[i]].id
      BY <1>1
    <3>2. items[f[i]].id <= calls /\ items[f[i]].id \in Nat
      BY <3>1, <1>0
    <3>3. QED
      BY <1>0, <1>1, <3>1, <3>2
  <2>2. ASSUME NEW i \in 1 .. Len(items'), NEW j \in 1 .. Len(items'), i # j
        PROVE  items'[i].id # items'[j].id
    <3>1. f[i] \in 1 .. Len(items) /\ items'[i].id = items[f[i]].id
      BY <1>1
    <3>2. f[j] \in 1 .. Len(items) /\ items'[j].id = items[f[j]].id
      BY <1>1
    <3>3. f[i] # f[j]
      BY <1>1, <2>2
    <3>4. QED
      BY <3>1, <3>2, <3>3
  <2>3. QED
    BY <2>1, <2>2
<1> HIDE DEF Reindexes
<1>2. ASSUME NEW task \in Tasks, NEW delay \in Delays, NEW skew \in 0 .. 1,
             ScheduleTaskAfter(task, delay, skew)
      PROVE  UniqueIds'
  <2> DEFINE time == Wrap(Wrap(now - skew) + delay)
             item == [id |-> calls + 1, task |-> task, time |-> time, left |-> delay - skew]
  <2>1. time \in 0 .. TimeMod - 1
    BY ClockAssumption DEF Wrap, TypeOK
  <2>2. item \in Item
    BY <2>1, ClockAssumption DEF Item, TypeOK
  <2>e. item.id = calls + 1
    OBVIOUS
  <2>3. PICK i \in 1 .. Len(items) + 1 : items' = InsertAt(items, i, item)
    BY <1>2 DEF ScheduleTaskAfter
  <2>4. calls' = calls + 1
    BY <1>2 DEF ScheduleTaskAfter
  <2> HIDE DEF item, time, UniqueIds
  <2>5. /\ Len(items') = Len(items) + 1
        /\ \A k \in 1 .. Len(items) + 1 :
              items'[k] = IF k < i THEN items[k] ELSE IF k = i THEN item ELSE items[k - 1]
    <3>1. /\ Len(InsertAt(items, i, item)) = Len(items) + 1
          /\ \A k \in 1 .. Len(items) + 1 :
                InsertAt(items, i, item)[k] = IF k < i THEN items[k]
                                              ELSE IF k = i THEN item ELSE items[k - 1]
      <4>1. Inserted(Item, items, i, item)
        BY <1>a, <2>2, Inserting
      <4>2. QED
        BY <4>1, Zenon DEF Inserted
    <3>2. QED
      BY <2>3, <3>1
  <2>6. ASSUME NEW k \in 1 .. Len(items) + 1
        PROVE  /\ k < i => k \in 1 .. Len(items) /\ items'[k].id = items[k].id
               /\ k = i => items'[k].id = calls + 1
               /\ k > i => k - 1 \in 1 .. Len(items) /\ items'[k].id = items[k - 1].id
    BY <1>0, <2>e, <2>5
  <2>7. ASSUME NEW k \in 1 .. Len(items')
        PROVE  items'[k].id <= calls' /\ (k # i => items'[k].id <= calls)
    <3>1. k \in 1 .. Len(items) + 1 /\ \A j \in 1 .. Len(items) : items[j].id <= calls
      BY <2>5 DEF UniqueIds
    <3>2. CASE k = i
      BY <1>0, <2>4, <2>6, <3>1, <3>2
    <3>3. CASE k < i
      BY <1>0, <2>4, <2>6, <3>1, <3>3
    <3>4. CASE k > i
      <4>1. k - 1 \in 1 .. Len(items) /\ items'[k].id = items[k - 1].id
        BY <2>6, <3>1, <3>4
      <4>2. items'[k].id <= calls
        BY <3>1, <4>1
      <4>3. QED
        BY <1>0, <2>4, <4>1, <4>2, <3>1, <3>4
    <3>5. QED
      BY <1>0, <3>1, <3>2, <3>3, <3>4
  <2>8. ASSUME NEW j \in 1 .. Len(items'), NEW k \in 1 .. Len(items'), j # k
        PROVE  items'[j].id # items'[k].id
    <3>1. CASE j = i \/ k = i
      BY <1>0, <2>5, <2>6, <2>7, <2>8, <3>1 DEF UniqueIds
    <3>2. CASE j # i /\ k # i
      <4> DEFINE p == IF j < i THEN j ELSE j - 1
                 q == IF k < i THEN k ELSE k - 1
      <4>1. /\ p \in 1 .. Len(items) /\ q \in 1 .. Len(items) /\ p # q
        BY <1>0, <2>5, <2>8, <3>2
      <4>2. items'[j].id = items[p].id /\ items'[k].id = items[q].id
        BY <1>0, <2>5, <2>6, <3>2
      <4> HIDE DEF p, q
      <4>3. QED
        BY <4>1, <4>2 DEF UniqueIds
    <3>3. QED
      BY <3>1, <3>2
  <2>9. QED
    BY <2>7, <2>8 DEF UniqueIds
<1>3. ASSUME NEW task \in Tasks, CancelTask(task)
      PROVE  UniqueIds'
  <2>1. calls' = calls + 1
    BY <1>3 DEF CancelTask
  <2>2. CASE UNCHANGED items
    BY <1>0, <2>1, <2>2
  <2>3. ASSUME NEW i \in 1 .. Len(items), items' = RemoveAt(items, i)
        PROVE  UniqueIds'
    <3> DEFINE f == [k \in 1 .. Len(items') |-> IF k < i THEN k ELSE k + 1]
    <3>1. /\ Len(items') = Len(items) - 1
          /\ \A k \in 1 .. Len(items) - 1 :
                items'[k] = IF k < i THEN items[k] ELSE items[k + 1]
      BY <1>a, <2>3, RemoveAtProperties
    <3>2. \A k \in 1 .. Len(items') : f[k] \in 1 .. Len(items) /\ items'[k].id = items[f[k]].id
      BY <1>0, <3>1
    <3>3. \A j, k \in 1 .. Len(items') : j # k => f[j] # f[k]
      BY <1>0, <3>1
    <3>4. Reindexes(f)
      BY <3>2, <3>3 DEF Reindexes
    <3> HIDE DEF f, UniqueIds
    <3>5. calls' \in Nat /\ calls' >= calls
      BY <1>0, <2>1
    <3>6. QED
      BY <1>1, <3>4, <3>5
  <2>4. QED
    BY <1>3, <2>2, <2>3 DEF CancelTask
<1>4. CASE CheckRun
  <2> DEFINE f == [k \in 1 .. Len(items') |-> k + 1]
  <2>1. /\ Len(items') = Len(items) - 1 /\ calls' = calls
        /\ \A k \in 1 .. Len(items') : items'[k] = items[k + 1]
    BY <1>a, <1>4, HeadTailProperties DEF CheckRun
  <2>2. Len(items') \in Nat
    BY <1>a, <1>4, HeadTailProperties, LenProperties DEF CheckRun
  <2>3. \A k \in 1 .. Len(items') : f[k] \in 1 .. Len(items) /\ items'[k].id = items[f[k]].id
    BY <1>0, <2>1
  <2>4. \A j, k \in 1 .. Len(items') : j # k => f[j] # f[k]
    BY <1>0, <2>1
  <2>5. Reindexes(f)
    BY <2>3, <2>4 DEF Reindexes
  <2> HIDE DEF f, UniqueIds
  <2>6. calls' \in Nat /\ calls' >= calls
    BY <1>0, <2>1
  <2>7. QED
    BY <1>1, <2>5, <2>6
<1>5. CASE Tick
  <2>1. /\ Len(items') = Len(items) /\ calls' = calls
        /\ \A k \in 1 .. Len(items) : items'[k] = Age(items[k])
    BY <1>a, <1>5, AgedItems DEF Tick
  <2>2. \A k \in 1 .. Len(items) : items'[k].id = items[k].id
    BY <1>0, <1>c, <2>1 DEF Age, Item
  <2>3. QED
    BY <1>0, <2>1, <2>2
<1>6. CASE Start \/ CancelAllTasks
  BY <1>6, EmptySeq DEF Start, CancelAllTasks
<1>7. CASE UNCHANGED <<items, calls>>
  BY <1>7
<1>8. QED
  BY <1>2, <1>3, <1>4, <1>5, <1>6, <1>7
  DEF Next, Client, CheckPendingTasks, ScheduleTrap, CheckEmpty, CheckWait, TaskReturns, Arm,
      TimerFires, OnInterrupt, vars

(* Every scheduled task has an identity of its own for as long as it is in *)
(* the array: shifting items up and down (memmove) never duplicates one.   *)
THEOREM IdsStayUnique == Spec => []UniqueIds
<1>1. Init => UniqueIds
  BY EmptySeq DEF Init, UniqueIds
<1>2. TypeOK /\ UniqueIds /\ [Next]_vars => UniqueIds'
  BY UniqueStep
<1>3. QED
  BY <1>1, <1>2, TypeCorrect, PTL DEF Spec

----------------------------------------------------------------------------
(* Each operation on the array, seen as an operation on the set of pending *)
(* tasks.                                                                  *)
LEMMA DistinctItems ==
  ASSUME UniqueIds
  PROVE  \A j, k \in 1 .. Len(items) : j # k => items[j] # items[k]
BY DEF UniqueIds

(* scheduleTaskAt adds one task. *)
LEMMA ScheduleRefines ==
  ASSUME TypeOK, UniqueIds,
         NEW task \in Tasks, NEW delay \in Delays, NEW skew \in 0 .. 1,
         ScheduleTaskAfter(task, delay, skew)
  PROVE  Queue!Schedule(task, delay)
<1> DEFINE time == Wrap(Wrap(now - skew) + delay)
           item == [id |-> calls + 1, task |-> task, time |-> time, left |-> delay - skew]
<1>1. items \in Seq(Item)
  BY DEF TypeOK
<1>2. time \in 0 .. TimeMod - 1
  BY ClockAssumption DEF Wrap, TypeOK
<1>3. item \in Item
  BY <1>2, ClockAssumption DEF Item, TypeOK
<1>4. item.id = calls + 1 /\ item.task = task /\ item.left \in {delay - 1, delay}
  BY ClockAssumption
<1>5. PICK i \in 1 .. Len(items) + 1 : items' = InsertAt(items, i, item)
  BY DEF ScheduleTaskAfter
<1>6. Executing' = Executing
  BY DEF ScheduleTaskAfter, ClientMayCall, CallCheckPendingTasks, Executing, TypeOK
<1> HIDE DEF item, time
<1>7. ToSet(items') = ToSet(items) \union {item}
  BY <1>1, <1>3, <1>5, ToSetOfInsertAt
<1>8. ASSUME NEW other \in ToSet(items)
      PROVE  other.id # item.id
  <2>1. ToSet(items) = {items[k] : k \in 1 .. Len(items)}
    BY <1>1, ToSetOfSeq
  <2>2. PICK k \in 1 .. Len(items) : other = items[k]
    BY <2>1
  <2>3. items[k] \in Item
    BY <1>1, ElementOfSeq
  <2>4. other.id \in Nat /\ other.id <= calls /\ calls \in Nat
    BY <2>2, <2>3 DEF Item, UniqueIds, TypeOK
  <2>5. QED
    BY <1>4, <2>4
<1>9. calls' = calls + 1 /\ call' = [op |-> "schedule", task |-> task, delay |-> delay]
  BY DEF ScheduleTaskAfter, ScheduleCall
<1>10. QED
  BY <1>4, <1>6, <1>7, <1>8, <1>9 DEF Queue!Schedule, Queue!Calls

(* cancelTask removes one task of the function, or none if there is none.  *)
LEMMA CancelRefines ==
  ASSUME TypeOK, UniqueIds, NEW task \in Tasks, CancelTask(task)
  PROVE  Queue!Cancel(task)
<1>1. items \in Seq(Item)
  BY DEF TypeOK
<1>2. /\ Executing' = Executing
      /\ calls' = calls + 1 /\ call' = [op |-> "cancel", task |-> task]
  BY DEF CancelTask, CancelCall, ClientMayCall, CallCheckPendingTasks, Executing, TypeOK
<1>3. ASSUME NEW i \in 1 .. Len(items), items[i].task = task, items' = RemoveAt(items, i)
      PROVE  Queue!Cancel(task)
  <2>1. ToSet(items') = ToSet(items) \ {items[i]}
    BY <1>1, <1>3, DistinctItems, ToSetOfRemoveAt
  <2>2. items[i] \in ToSet(items)
    BY <1>1, ToSetOfSeq
  <2>3. QED
    BY <1>2, <1>3, <2>1, <2>2 DEF Queue!Cancel, Queue!Calls
<1>4. ASSUME \A i \in 1 .. Len(items) : items[i].task # task, UNCHANGED items
      PROVE  Queue!Cancel(task)
  <2>1. \A item \in ToSet(items) : item.task # task
    BY <1>1, <1>4, ToSetOfSeq
  <2>2. QED
    BY <1>2, <1>4, <2>1 DEF Queue!Cancel, Queue!Calls
<1>5. QED
  BY <1>3, <1>4 DEF CancelTask

(* checkPendingTasks executes the task that it removes, and that was due. *)
LEMMA RunRefines ==
  ASSUME TypeOK, UniqueIds, NeverEarly, CheckRun
  PROVE  Queue!Run
<1>1. items \in Seq(Item) /\ items # << >>
  BY DEF TypeOK, CheckRun
<1>2. 1 \in 1 .. Len(items)
  BY <1>1, EmptySeq, LenProperties
<1>3. ToSet(items') = ToSet(items) \ {items[1]}
  BY <1>1, DistinctItems, ToSetOfTail DEF CheckRun
<1>4. items[1] \in ToSet(items) /\ (items[1].left < 0 \/ items[1].left > ExpiryLimit)
  BY <1>1, <1>2, ToSetOfSeq DEF NeverEarly, CheckRun
<1>5. Executing' = Executing + 1
  BY DEF CheckRun, Executing, TypeOK
<1>6. UNCHANGED <<calls, call>>
  BY DEF CheckRun
<1>7. QED
  BY <1>3, <1>4, <1>5, <1>6 DEF Queue!Run

(* The clock ages all pending tasks alike. *)
LEMMA TickRefines ==
  ASSUME TypeOK, Tick
  PROVE  Queue!Age
<1>1. items \in Seq(Item)
  BY DEF TypeOK
<1>2. /\ items' \in Seq(Item) /\ Len(items') = Len(items)
      /\ \A k \in 1 .. Len(items) : items'[k] = Age(items[k])
  BY <1>1, AgedItems DEF Tick
<1>3. ToSet(items) = {items[k] : k \in 1 .. Len(items)}
  BY <1>1, ToSetOfSeq
<1>4. ToSet(items') = {items'[k] : k \in 1 .. Len(items)}
  BY <1>2, ToSetOfSeq
<1>5. ToSet(items') = {Age(item) : item \in ToSet(items)}
  BY <1>2, <1>3, <1>4
<1>6. Executing' = Executing /\ UNCHANGED <<calls, call>>
  BY DEF Tick, Executing
<1>7. QED
  BY <1>5, <1>6 DEF Queue!Age, Age

(* Every step of the scheduler is a step of TimerQueue or changes nothing  *)
(* there.                                                                  *)
LEMMA QueueStep ==
  ASSUME TypeOK, QueueInv, UniqueIds, NeverEarly, [Next]_vars
  PROVE  [Queue!Next]_(Queue!vars)
<1> USE DEF Queue!Next
<1>1. CASE Start
  BY <1>1 DEF Start, QueueInv, Queue!vars, Executing
<1>2. CASE \E task \in Tasks, delay \in Delays, skew \in 0 .. 1 : ScheduleTaskAfter(task, delay, skew)
  BY <1>2, ScheduleRefines
<1>3. CASE ScheduleTrap
  <2>1. /\ items' = items /\ depth' = depth /\ pc' = "trap" /\ depth \in Nat
        /\ UNCHANGED <<calls, call>>
    BY <1>3 DEF ScheduleTrap, TypeOK
  <2>2. CASE pc = "task"
    BY <2>1, <2>2 DEF Queue!TaskReturns, Executing
  <2>3. CASE pc # "task"
    BY <2>1, <2>3 DEF Queue!vars, Executing
  <2>4. QED
    BY <2>2, <2>3
<1>4. CASE \E task \in Tasks : CancelTask(task)
  BY <1>4, CancelRefines
<1>5. CASE CancelAllTasks
  <2>1. ToSet(items') = {}
    BY <1>5, EmptySeq DEF CancelAllTasks, ToSet
  <2>2. QED
    BY <1>5, <2>1 DEF CancelAllTasks, CancelAllCall, Queue!CancelAll, Queue!Calls, Executing
<1>6. CASE CheckEmpty \/ \E phase \in 0 .. 1 : Arm(phase)
  BY <1>6 DEF CheckEmpty, Arm, ReturnFromCheck, Queue!vars, Executing, TypeOK
<1>7. CASE CheckRun
  BY <1>7, RunRefines
<1>8. CASE CheckWait \/ TimerFires \/ OnInterrupt
  BY <1>8 DEF CheckWait, TimerFires, OnInterrupt, Queue!vars, Executing
<1>9. CASE TaskReturns
  BY <1>9 DEF TaskReturns, Queue!TaskReturns, Executing, TypeOK
<1>10. CASE Tick
  BY <1>10, TickRefines
<1>11. CASE UNCHANGED vars
  BY <1>11 DEF vars, Queue!vars, Executing
<1>12. QED
  BY <1>1, <1>2, <1>3, <1>4, <1>5, <1>6, <1>7, <1>8, <1>9, <1>10, <1>11
  DEF Next, Client, CheckPendingTasks

(* The scheduler implements the set of pending tasks its clients think of, *)
(* for every number of tasks, every clock width, every delay and every     *)
(* nesting of task calls.                                                  *)
THEOREM SchedulerImplementsTimerQueue == Spec => ImplementsTimerQueue
<1>1. Init => Queue!Init
  BY EmptySeq DEF Init, NoCall, Queue!Init, Executing, ToSet
<1>2. TypeOK /\ QueueInv /\ UniqueIds /\ NeverEarly /\ [Next]_vars => [Queue!Next]_(Queue!vars)
  BY QueueStep
<1>3. Spec => []NeverEarly
  BY NothingRunsEarly
<1>4. QED
  BY <1>1, <1>2, <1>3, TypeCorrect, IdsStayUnique, PTL
  DEF Spec, ImplementsTimerQueue, Queue!Spec
=============================================================================
