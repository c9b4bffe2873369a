----------------------------- MODULE TimerQueue -----------------------------
(***************************************************************************)
(* What a client of the task scheduler may rely on, without the array, the *)
(* wrapped clock and the timer: a set of pending tasks, each with the time *)
(* it still has to go, and the number of tasks being executed.  A task     *)
(* function may be pending more than once, so every scheduled task has an  *)
(* identity.                                                               *)
(*                                                                         *)
(* What the client calls is visible: `calls` counts its calls and `call`   *)
(* is the latest one.  A task enters the queue, or leaves it without being *)
(* executed, only in a step in which the client calls for it.              *)
(***************************************************************************)
EXTENDS Integers

CONSTANTS
  Tasks, Delays, MaxLate,
  ExpiryLimit    \* a task farther ahead may be taken for one that is overdue

VARIABLES
  queue,      \* the pending tasks
  executing,  \* tasks begun and not yet returned
  calls,      \* the number of calls of the client
  call        \* the latest of them

vars == <<queue, executing, calls, call>>

Init == queue = {} /\ executing = 0 /\ calls = 0 /\ call = [op |-> "none"]

Calls(request) ==
  /\ calls' = calls + 1
  /\ call' = request
  /\ UNCHANGED executing

(* scheduleTaskAfter: exactly one task, not pending before, is added; one  *)
(* microsecond may pass while the call reads the clock twice.              *)
Schedule(task, delay) ==
  /\ Calls([op |-> "schedule", task |-> task, delay |-> delay])
  /\ \E item \in queue' :
        /\ item.task = task
        /\ item.left \in {delay - 1, delay}
        /\ \A other \in queue : other.id # item.id
        /\ queue' = queue \union {item}

(* cancelTask: one pending task of the function, if there is any.          *)
Cancel(task) ==
  /\ Calls([op |-> "cancel", task |-> task])
  /\ \/ \E item \in queue : item.task = task /\ queue' = queue \ {item}
     \/ /\ \A item \in queue : item.task # task
        /\ UNCHANGED queue

CancelAll == Calls([op |-> "cancelAll"]) /\ queue' = {}

(* A task begins: it leaves the queue, and it only.  Its time has passed,  *)
(* or is too far ahead.                                                    *)
Run ==
  /\ \E item \in queue :
        /\ item.left < 0 \/ item.left > ExpiryLimit
        /\ queue' = queue \ {item}
  /\ executing' = executing + 1
  /\ UNCHANGED <<calls, call>>

TaskReturns ==
  /\ executing' = executing - 1
  /\ UNCHANGED <<queue, calls, call>>

(* Time passes for all pending tasks alike. *)
Age ==
  /\ queue' = {[item EXCEPT !.left = IF @ > -MaxLate THEN @ - 1 ELSE @] : item \in queue}
  /\ UNCHANGED <<executing, calls, call>>

Next ==
  \/ \E task \in Tasks, delay \in Delays : Schedule(task, delay)
  \/ \E task \in Tasks : Cancel(task)
  \/ CancelAll \/ Run \/ TaskReturns \/ Age

Spec == Init /\ [][Next]_vars
=============================================================================
