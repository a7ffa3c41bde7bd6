--------------------------- MODULE AtomTimerOnTime --------------------------
(***************************************************************************)
(* AtomTimer with a history variable: the value system_ticks has on the    *)
(* tick at which a timer is to fire, set when it is registered.  The code  *)
(* never compares a timer with system_ticks, it counts cb_ticks down; the  *)
(* history relates the two, across the roll-over of system_ticks and       *)
(* atomTimeSet, which moves the deadlines along with the time.             *)
(***************************************************************************)
EXTENDS AtomTimer

VARIABLE deadline       \* per timer: the tick it is to fire at

TicksAhead(n) == (systemTicks + n) % TickMod

(* How far a step moves system_ticks other than by counting a tick.        *)
Shift == IF intr # "tick" /\ intr' = "tick" THEN 0 ELSE systemTicks' - systemTicks

Registered(tm) == tm \notin Range(timerQ) /\ tm \in Range(timerQ')

HistoryInit == TimerInit /\ deadline = [tm \in Timers |-> 0]
HistoryNext ==
    /\ TimerNext
    /\ deadline' = [tm \in Timers |->
                       IF Registered(tm) THEN TicksAhead(cbTicks'[tm])
                       ELSE (deadline[tm] + Shift) % TickMod]
HistorySpec == HistoryInit /\ [][HistoryNext]_<<vars, deadline>>

(* A callback falls due on the very tick its timer was registered for:     *)
(* timers registered by threads, handlers and callbacks, removed from the  *)
(* head or the middle of the list by the walk or by a cancellation, all    *)
(* stay in step with system_ticks, also when that rolls over or is set.    *)
FiresOnTime ==
    [][ \A tm \in Range(due') \ Range(due) : deadline[tm] = systemTicks ]_<<vars, deadline>>
=============================================================================
