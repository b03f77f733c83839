----------------------------- MODULE FreeTimer -----------------------------
(***************************************************************************)
(* FreeTimer: a thread that runs an io_service, whose only work is the     *)
(* wait for the next tick.  Start creates the thread and then posts the    *)
(* first wait; OnTick, in that thread, calls the callback and posts the    *)
(* next.  A module that owns a timer adds the steps of its callback, which *)
(* run while thread = "tick".  No monitor calls Stop while it works.       *)
(***************************************************************************)

VARIABLE
  timer   \* [start, thread, wait]: how far Start is, where the thread is,
          \* and the wait: none, posted, or over

TimerTypeOK ==
  timer \in [start : {"thread", "wait", "done"},
             thread : {"none", "run", "tick", "returned"}, wait : {"none", "posted", "over"}]

TimerInit == timer = [start |-> "thread", thread |-> "none", wait |-> "none"]

StartThread ==
  /\ timer.start = "thread"
  /\ timer' = [timer EXCEPT !.start = "wait", !.thread = "run"]

StartWait ==
  /\ timer.start = "wait"
  /\ timer' = [timer EXCEPT !.start = "done", !.wait = "posted"]

(* io_service::run returns when it has no work; nobody calls it again. *)
RunReturns ==
  /\ timer.thread = "run" /\ timer.wait = "none"
  /\ timer' = [timer EXCEPT !.thread = "returned"]

(* The unit of time is the interval; the thread may be late. *)
IntervalPasses == timer' = [timer EXCEPT !.wait = IF @ = "posted" THEN "over" ELSE @]

(* The wait is over: OnTick calls the callback. *)
Expire ==
  /\ timer.thread = "run" /\ timer.wait = "over"
  /\ timer' = [timer EXCEPT !.thread = "tick", !.wait = "none"]

(* The callback has returned. *)
Rearm ==
  /\ timer.thread = "tick"
  /\ timer' = [timer EXCEPT !.thread = "run", !.wait = "posted"]

(* Start may lose the race with the thread it has created. *)
Ticks == timer.thread # "returned"

=============================================================================
