--------------------------- MODULE TaskScheduler ---------------------------
(***************************************************************************)
(* The timer queue of usb_pd/TaskScheduler.cpp: a sorted array of (time,   *)
(* task) pairs driven by a free running microsecond clock that wraps       *)
(* around, and by a one-pulse hardware timer whose interrupt runs the      *)
(* tasks that have expired.                                                *)
(*                                                                         *)
(* One call of scheduleTaskAfter or cancelTask is a client action followed *)
(* by the steps of checkPendingTasks.  A task that is executed runs inside *)
(* checkPendingTasks and may call the scheduler again, so frames of        *)
(* checkPendingTasks nest; `depth` counts the suspended ones.              *)
(*                                                                         *)
(* Callers are serialised here, as the two interrupt handlers that call    *)
(* the scheduler are (equal priority).  Time may pass between any two      *)
(* steps.                                                                  *)
(***************************************************************************)
EXTENDS Integers, Sequences, SequencesExt

CONSTANTS
  Tasks,           \* the task functions (noGoodCrc, rerequestPPS, requestSourceCaps)
  Delays,          \* the delays callers ask for
  TimeMod,         \* the clock wraps around at TimeMod (2^32)
  ExpiryLimit,     \* a time further ahead than this counts as past (0xfff0000)
  MaxReload,       \* largest period of the timer (0xffff)
  Capacity,        \* length of scheduledItems (10)
  MaxCalls,        \* bound: client calls in a behaviour
  MaxDepth,        \* bound: nested frames of checkPendingTasks
  MaxLag,          \* bound: ticks that pass while the CPU owes the scheduler a step
  MaxLate          \* bound: how far the history `left` counts below zero

ASSUME ClockAssumption ==
  /\ TimeMod \in Nat /\ ExpiryLimit \in Nat /\ MaxReload \in Nat \ {0}
  /\ ExpiryLimit < TimeMod
  /\ Delays \subseteq 0 .. TimeMod - 1
ASSUME BoundAssumption ==
  /\ Capacity \in Nat /\ MaxCalls \in Nat /\ MaxDepth \in Nat
  /\ MaxLag \in Nat /\ MaxLate \in Nat \ {0}

VARIABLES
  started,   \* numScheduledTasks # -1
  items,     \* scheduledItems[0 .. numScheduledTasks-1]; id and left are history
  now,       \* TaskScheduler::now()
  timer,     \* ticks until the hardware timer fires, Stopped or Blocked
  pending,   \* the timer's update interrupt is pending
  pc,        \* where the code that owns the scheduler is
  depth,     \* suspended frames of checkPendingTasks
  calls,     \* history: client calls so far
  call,      \* history: the latest of them
  lag        \* history: ticks passed since the CPU first owed the current step

vars == <<started, items, now, timer, pending, pc, depth, calls, call, lag>>

Stopped == -1      \* CEN is 0

Blocked == -2      \* CEN is 1, but with ARR = 0 the counter does not count

(***************************************************************************)
(* `left` is the true time to go of an item, unaffected by wrap-around.    *)
(* Its lower end is capped: how long ago an item expired is irrelevant.    *)
(***************************************************************************)
Item == [id : Nat, task : Tasks, time : 0 .. TimeMod - 1, left : Int]

NoCall == [op |-> "none"]

CancelAllCall == [op |-> "cancelAll"]

CancelCall(task) == [op |-> "cancel", task |-> task]

ScheduleCall(task, delay) == [op |-> "schedule", task |-> task, delay |-> delay]

Call ==
  {NoCall, CancelAllCall} \union {CancelCall(task) : task \in Tasks}
     \union {ScheduleCall(task, delay) : task \in Tasks, delay \in Delays}

TypeOK ==
  /\ started \in BOOLEAN
  /\ items \in Seq(Item)
  /\ Len(items) <= Capacity
  /\ now \in 0 .. TimeMod - 1
  /\ timer \in Blocked .. MaxReload + 1
  /\ pending \in BOOLEAN
  /\ pc \in {"idle", "check", "arm", "task", "trap"}
  /\ depth \in Nat
  /\ calls \in Nat
  /\ call \in Call
  /\ lag \in 0 .. MaxLag

----------------------------------------------------------------------------
(* The arithmetic of uint32_t times. *)

WrapSigned(t) == IF t >= TimeMod THEN t - TimeMod ELSE t    \* variant: never below zero

Wrap(t) == IF t >= TimeMod THEN t - TimeMod ELSE IF t < 0 THEN t + TimeMod ELSE t

TimeDifference(time, at) == Wrap(time - at)

HasExpiredUnwrapped(time, at) == time < at      \* variant: compares the times themselves

HasExpired(time, at) == TimeDifference(time, at) > ExpiryLimit

----------------------------------------------------------------------------
Init ==
  /\ started = FALSE
  /\ items = << >>
  /\ now = 0
  /\ timer = Stopped
  /\ pending = FALSE
  /\ pc = "idle"
  /\ depth = 0
  /\ calls = 0
  /\ call = NoCall
  /\ lag = 0

(* PDSink::start calls it once, before anything is scheduled. *)
Start ==
  /\ ~started
  /\ started' = TRUE
  /\ items' = << >>
  /\ UNCHANGED <<now, timer, pending, pc, depth, calls, call, lag>>

(* A client calls from outside (idle) or from the task being executed. *)
ClientMayCall ==
  /\ pc \in {"idle", "task"}
  /\ calls < MaxCalls
  /\ depth < MaxDepth

(* Variant: leaves it to the timer interrupt, which has been stopped. *)
CallNothing == UNCHANGED <<pc, depth>>

(* Run checkPendingTasks on top of the frame that is active, if any. *)
CallCheckPendingTasks ==
  /\ pc' = "check"
  /\ depth' = IF pc = "task" THEN depth + 1 ELSE depth

(* Where a time `d` ahead goes: in front of the first item further ahead. *)
IsInsertionIndex(i, d) ==
  /\ \A j \in 1 .. i - 1 : TimeDifference(items[j].time, now) <= d
  /\ i <= Len(items) => d < TimeDifference(items[i].time, now)

(* scheduleTaskAfter reads now() to get the time, scheduleTaskAt reads it  *)
(* again to find the index: `skew` ticks lie between the two.              *)
ScheduleTaskAfter(task, delay, skew) ==
  LET time == Wrap(Wrap(now - skew) + delay)
      item == [id |-> calls + 1, task |-> task, time |-> time, left |-> delay - skew]
  IN  /\ ClientMayCall
      /\ started
      /\ Len(items) < Capacity
      /\ timer' = Stopped
      /\ \E i \in 1 .. Len(items) + 1 :
            /\ IsInsertionIndex(i, TimeDifference(time, now))
            /\ items' = InsertAt(items, i, item)
      /\ CallCheckPendingTasks
      /\ calls' = calls + 1
      /\ call' = ScheduleCall(task, delay)
      /\ UNCHANGED <<started, now, pending, lag>>

(* Not started, or no room in scheduledItems: __builtin_trap(). *)
ScheduleTrap ==
  /\ ClientMayCall
  /\ ~started \/ Len(items) >= Capacity
  /\ pc' = "trap"
  /\ UNCHANGED <<started, items, now, timer, pending, depth, calls, call, lag>>

CancelTask(task) ==
  /\ ClientMayCall
  /\ started
  /\ timer' = Stopped
  /\ \/ \E i \in 1 .. Len(items) :
          /\ items[i].task = task
          /\ \A j \in 1 .. i - 1 : items[j].task # task
          /\ items' = RemoveAt(items, i)
     \/ /\ \A i \in 1 .. Len(items) : items[i].task # task
        /\ UNCHANGED items
  /\ CallCheckPendingTasks
  /\ calls' = calls + 1
  /\ call' = CancelCall(task)
  /\ UNCHANGED <<started, now, pending, lag>>

CancelAllTasks ==
  /\ ClientMayCall
  /\ started
  /\ timer' = Stopped
  /\ items' = << >>
  /\ calls' = calls + 1
  /\ call' = CancelAllCall
  /\ UNCHANGED <<started, now, pending, pc, depth, lag>>

----------------------------------------------------------------------------
(* checkPendingTasks.  Its frame returns to the task that called it, or to *)
(* the interrupt handler or thread outside.                                *)

ReturnFromCheck ==
  /\ pc' = IF depth = 0 THEN "idle" ELSE "task"
  /\ depth' = IF depth = 0 THEN 0 ELSE depth - 1
  /\ lag' = IF depth = 0 THEN 0 ELSE lag

CheckEmpty ==
  /\ pc = "check"
  /\ items = << >>
  /\ ReturnFromCheck
  /\ UNCHANGED <<started, items, now, timer, pending, calls, call>>

(* Variant: counts down without moving the remaining items. *)
CheckRunUnmoved ==
  /\ pc = "check"
  /\ items # << >>
  /\ HasExpired(items[1].time, now)
  /\ items' = Front(items)
  /\ pc' = "task"
  /\ UNCHANGED <<started, now, timer, pending, depth, calls, call, lag>>

(* The first item has expired: remove it and execute its task. *)
CheckRun ==
  /\ pc = "check"
  /\ items # << >>
  /\ HasExpired(items[1].time, now)
  /\ items' = Tail(items)
  /\ pc' = "task"
  /\ UNCHANGED <<started, now, timer, pending, depth, calls, call, lag>>

CheckWait ==
  /\ pc = "check"
  /\ items # << >>
  /\ ~HasExpired(items[1].time, now)
  /\ pc' = "arm"
  /\ UNCHANGED <<started, items, now, timer, pending, depth, calls, call, lag>>

TaskReturns ==
  /\ pc = "task"
  /\ pc' = "check"
  /\ UNCHANGED <<started, items, now, timer, pending, depth, calls, call, lag>>

(* now() is read once more and the timer restarted.  It counts one tick    *)
(* more than its period; `phase` is 0 when the first one is cut short.     *)
(* With a period of 0 it is started, but the counter stays where it is.    *)
Arm(phase) ==
  LET delay == TimeDifference(items[1].time, now)
      reload == IF delay > MaxReload THEN MaxReload ELSE delay
  IN  /\ pc = "arm"
      /\ timer' = IF reload = 0 THEN Blocked ELSE reload + phase
      /\ ReturnFromCheck
      /\ UNCHANGED <<started, items, now, pending, calls, call>>

----------------------------------------------------------------------------
(* Hardware: the timer, its interrupt and the clock. *)

TimerFires ==
  /\ timer = 0
  /\ timer' = Stopped
  /\ pending' = TRUE
  /\ UNCHANGED <<started, items, now, pc, depth, calls, call, lag>>

(* Variant: clears the interrupt and returns. *)
OnInterruptIgnored ==
  /\ pending
  /\ pc = "idle"
  /\ pending' = FALSE
  /\ UNCHANGED <<started, items, now, timer, pc, depth, calls, call, lag>>

OnInterrupt ==
  /\ pending
  /\ pc = "idle"
  /\ pending' = FALSE
  /\ pc' = "check"
  /\ UNCHANGED <<started, items, now, timer, depth, calls, call, lag>>

CpuOwesStep == pc \in {"check", "arm", "task"} \/ pending

Age(item) == [item EXCEPT !.left = IF @ > -MaxLate THEN @ - 1 ELSE @]

Tick ==
  /\ pc # "trap"
  /\ timer # 0
  /\ CpuOwesStep => lag < MaxLag
  /\ lag' = IF CpuOwesStep THEN lag + 1 ELSE 0
  /\ now' = Wrap(now + 1)
  /\ items' = [i \in 1 .. Len(items) |-> Age(items[i])]
  /\ timer' = IF timer > 0 THEN timer - 1 ELSE timer
  /\ UNCHANGED <<started, pending, pc, depth, calls, call>>

----------------------------------------------------------------------------
Client ==
  \/ \E task \in Tasks, delay \in Delays, skew \in 0 .. 1 :
        /\ skew <= MaxLag
        /\ ScheduleTaskAfter(task, delay, skew)
  \/ ScheduleTrap
  \/ \E task \in Tasks : CancelTask(task)
  \/ CancelAllTasks

CheckPendingTasks ==
  \/ CheckEmpty \/ CheckRun \/ CheckWait \/ TaskReturns
  \/ \E phase \in 0 .. 1 : Arm(phase)

Next ==
  \/ Start
  \/ Client
  \/ CheckPendingTasks
  \/ TimerFires
  \/ OnInterrupt
  \/ Tick

Spec == Init /\ [][Next]_vars

(***************************************************************************)
(* The code runs to completion once called, the interrupt is taken when    *)
(* the CPU is free, the timer keeps going.  The clock does not stop while  *)
(* instructions are executed, however many: strong fairness, since a Tick  *)
(* is disabled for as long as a timer expiry is being delivered.  Clients  *)
(* and Start need not do anything.                                         *)
(***************************************************************************)
Fairness ==
  /\ WF_vars(CheckPendingTasks)
  /\ WF_vars(TimerFires)
  /\ WF_vars(OnInterrupt)
  /\ SF_vars(Tick)

FairSpec == Spec /\ Fairness

----------------------------------------------------------------------------
(* Properties. *)

(* A queued item counts as expired only when its time has really passed:  *)
(* the wrap-around comparison of hasExpired never runs a task early, but   *)
(* for one whose time is farther ahead than the limit.  (TaskScheduler.h   *)
(* promises delays of more than an hour, the limit is 268 seconds.)        *)
NeverEarly ==
  \A i \in 1 .. Len(items) :
    HasExpired(items[i].time, now) => items[i].left < 0 \/ items[i].left > ExpiryLimit

(* The difference of wrapped times is the true time to go, as long as that *)
(* is not negative.  NeverEarly rests on it; its invariance is an argument *)
(* about each operation on the array and on the clock.                     *)
Faithful(item, at) == item.left >= 0 => TimeDifference(item.time, at) = item.left

TimesFaithful == \A i \in 1 .. Len(items) : Faithful(items[i], now)

(* checkPendingTasks restarts the timer only for a task that is queued,    *)
(* and nothing is queued before start().                                   *)
QueueInv ==
  /\ pc = "arm" => items # << >>
  /\ ~started => items = << >>

(* The timer was started with a period of 0, which happens when the time   *)
(* of the first item comes between the test and the second reading of      *)
(* now(): its time is exactly there or has passed since.                   *)
BlockedWhenDue == timer = Blocked /\ items[1].left <= 0

(* A wake-up is lost in one way only: whenever nobody is inside the        *)
(* scheduler and something is queued, the timer is counting or its         *)
(* interrupt is pending, whichever of schedule, cancel, a nested task call *)
(* or the interrupt ran last, or the timer was given the period 0 for a    *)
(* first task that is due now.                                             *)
NoLostWakeup ==
  pc = "idle" /\ items # << >> => timer >= 0 \/ pending \/ BlockedWhenDue

(* Every task is eventually executed or cancelled: once clients stop       *)
(* calling, the queue drains, whatever order it got into, unless the timer *)
(* is given the period 0.                                                  *)
QueueDrains == calls = MaxCalls /\ items # << >> ~> items = << >> \/ timer = Blocked

(* What TaskScheduler.h says of scheduleTaskAfter without that exception:  *)
(* the task is executed.                                                   *)
TasksAreExecuted == calls = MaxCalls /\ items # << >> ~> items = << >>

----------------------------------------------------------------------------
(***************************************************************************)
(* The array implements the set of pending tasks that its clients think    *)
(* of: each call of schedule adds the task it names, due when it says, each *)
(* call of cancel removes one pending task of the function it names if     *)
(* there is one, an execution removes one that is due or too far ahead, and *)
(* nothing else, no other call, tick or interrupt, adds, loses or          *)
(* duplicates a task.                                                      *)
(***************************************************************************)
(* Identities are given in the order of the calls, so they are unique. *)
UniqueIds ==
  \A i \in 1 .. Len(items) :
     /\ items[i].id <= calls
     /\ \A j \in 1 .. Len(items) : i # j => items[i].id # items[j].id

Executing == depth + (IF pc = "task" THEN 1 ELSE 0)

Queue == INSTANCE TimerQueue WITH queue <- ToSet(items), executing <- Executing

ImplementsTimerQueue == Queue!Spec
=============================================================================
